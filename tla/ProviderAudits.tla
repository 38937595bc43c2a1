---------------------------- MODULE ProviderAudits ----------------------------
(***************************************************************************)
(* What the log-reading providers conclude from the lines of their log, as *)
(* operators: verifier independence (GV-04), ratification (GV-07), lease   *)
(* authority (GV-02), containment (GV-06) and rollback drills (GV-05).     *)
(*                                                                         *)
(* A line is a record, or Malformed: what read_jsonl raises on.  A field   *)
(* that is absent or empty has a value of its own; so has a timestamp that *)
(* does not parse.  Every audit counts breaches and passes on none.        *)
(***************************************************************************)
EXTENDS Integers, Sequences, FiniteSets, Functions

CONSTANTS
    Names,          \* spellings of principals
    Person,         \* normalise_principal, the fold of spellings
    Leases, Scopes, Metrics, Resources,
    DrillAge,       \* MAX_DRILL_AGE
    None,           \* a field that is absent or empty
    Malformed,      \* a line that does not parse
    Unreadable      \* a timestamp, or an amount, that does not parse

ASSUME NamesAssumption ==
    /\ Person \in [Names -> Names] /\ None \notin Names
    /\ \E m, n \in Names : Person[m] # Person[n]
ASSUME LeasesAssumption ==
    /\ Leases # {} /\ None \notin Leases
    /\ Scopes # {} /\ None \notin Scopes
    /\ Metrics # {}
ASSUME DrillAgeAssumption == DrillAge \in Nat
ASSUME MarksAssumption == Unreadable \notin Nat

Name == Names \cup {None}
Instant == Nat \cup {Unreadable}
Amount == Nat \cup {Unreadable}

PASS == "PASS"
FAIL == "FAIL"

Rows(log) == {log[n] : n \in DOMAIN log}
Parses(log) == Malformed \notin Rows(log)

-----------------------------------------------------------------------------
(* GV-04: one record per completed task.                                   *)

Task == [performer : Name, verifier : Name]

TaskBreach(t) == t.performer = None \/ t.verifier \in {None, t.performer}

-----------------------------------------------------------------------------
(* GV-07: one record per gated change.                                     *)

Change ==
    [proposer : Name, ratifier : Name, human : BOOLEAN,
     ratified : Instant, merged : Instant, proposed : Instant \cup {None}]

\* A proposal without an instant is no breach; with an unreadable one it is.
RatificationBreach(c) ==
    \/ c.proposer = None \/ c.ratifier \in {None, c.proposer} \/ ~c.human
    \/ c.ratified = Unreadable \/ c.merged = Unreadable
    \/ c.ratified >= c.merged
    \/ c.proposed # None /\ (c.proposed = Unreadable \/ c.ratified < c.proposed)

-----------------------------------------------------------------------------
(* The lease log: leases and actions in one file.                          *)

Lease ==
    [record : {"lease"}, lease : Leases, principal : Name, issuer : Name,
     issued : Instant, expires : Instant \cup {None}, scope : SUBSET Scopes,
     ceilings : UNION {[M -> Amount] : M \in SUBSET Metrics},
     consumed : UNION {[M -> Amount] : M \in SUBSET Metrics} \cup {None},
     amendedBy : Name]
Action ==
    [record : {"action"}, lease : Leases \cup {None}, at : Instant,
     scope : Scopes \cup {None}]

LeaseRows(log) == {r \in Rows(log) : r.record = "lease"}
ActionRows(log) == {r \in Rows(log) : r.record = "action"}

\* _split raises on a record of neither kind.
Splits(log) == Parses(log) /\ Rows(log) = LeaseRows(log) \cup ActionRows(log)

\* GV-02, the lease alone: self-issued, or without an end.
GrantBreach(l) == l.principal = None \/ l.issuer \in {None, l.principal} \/ l.expires = None

\* The lines that enter by_id, in the order of the log: sound leases.
Grants(log) == {n \in DOMAIN log : log[n].record = "lease" /\ ~GrantBreach(log[n])}
Duplicate(log) == \E m, n \in Grants(log) : m # n /\ log[m].lease = log[n].lease

\* by_id keeps the first.
ById(log, id) ==
    LET N == {n \in Grants(log) : log[n].lease = id} IN
    log[CHOOSE n \in N : \A m \in N : n <= m]
Claimed(log) == {log[n].lease : n \in Grants(log)}

\* GV-02, the join: no live, in-scope lease at the instant of the action.
Unauthorised(a, l) ==
    \/ Unreadable \in {a.at, l.issued, l.expires}
    \/ a.at < l.issued \/ a.at > l.expires
    \/ a.scope \notin l.scope
ActionBreach(a, log) ==
    a.lease \notin Claimed(log) \/ Unauthorised(a, ById(log, a.lease))

\* Mutant: a second lease of one id is passed over.
AuthorityFaultsOnce(log) ==
    \/ \E l \in LeaseRows(log) : GrantBreach(l)
    \/ \E a \in ActionRows(log) : ActionBreach(a, log)

AuthorityFaults(log) ==
    \/ \E l \in LeaseRows(log) : GrantBreach(l)
    \/ Duplicate(log)
    \/ \E a \in ActionRows(log) : ActionBreach(a, log)

\* GV-06: every ceiling has its consumption, finite and within it, and nothing
\* is consumed without a ceiling.
ContainmentBreach(l) ==
    \/ l.ceilings = <<>> \/ l.consumed = None
    \/ l.amendedBy # None /\ l.amendedBy = l.principal
    \/ DOMAIN l.ceilings # DOMAIN l.consumed
    \/ \E m \in DOMAIN l.ceilings :
         \/ Unreadable \in {l.ceilings[m], l.consumed[m]}
         \/ l.consumed[m] > l.ceilings[m]

-----------------------------------------------------------------------------
(* GV-05: one record per drill.                                            *)

Drill ==
    [performer : Name, verifier : Name, restored_outcome : BOOLEAN,
     mutated : SUBSET Resources \cup {None}, restored : SUBSET Resources \cup {None},
     digests : {"match", "differ", "absent"},
     mutatedAt : Instant, rolledBackAt : Instant, verifiedAt : Instant]

\* Two spellings of one principal are one: a match denies here.
DrillBreach(d) ==
    \/ None \in {d.performer, d.verifier} \/ Person[d.performer] = Person[d.verifier]
    \/ ~d.restored_outcome
    \/ None \in {d.mutated, d.restored} \/ d.mutated = {} \/ ~(d.mutated \subseteq d.restored)
    \/ d.digests # "match"
    \/ Unreadable \in {d.mutatedAt, d.rolledBackAt, d.verifiedAt}
    \/ d.rolledBackAt < d.mutatedAt \/ d.verifiedAt <= d.rolledBackAt

\* Within the window; a drill dated ahead of the clock counts.
Recent(d, at) == at - d.rolledBackAt <= DrillAge

-----------------------------------------------------------------------------
(* The three methods of a provider, over the lines of its log.             *)

Kinds == {"tasks", "changes", "authority", "containment", "drills"}

\* The records the audit is about.
Sample(k, log) ==
    CASE k = "authority" -> ActionRows(log)
      [] k = "containment" -> LeaseRows(log)
      [] OTHER -> Rows(log)

Readable(k, log) == IF k \in {"authority", "containment"} THEN Splits(log) ELSE Parses(log)

\* Mutant: a log that parses is live, empty or not.
PositiveControlIfReadable(k, log) == Readable(k, log)

PositiveControl(k, log) == Readable(k, log) /\ Sample(k, log) # {}

\* Breaches no later line can repair: all but an action whose lease is missing.
Breached(k, log) ==
    CASE k = "tasks" -> \E r \in Rows(log) : TaskBreach(r)
      [] k = "changes" -> \E r \in Rows(log) : RatificationBreach(r)
      [] k = "authority" ->
           \/ \E l \in LeaseRows(log) : GrantBreach(l)
           \/ Duplicate(log)
           \/ \E a \in ActionRows(log) :
                \/ a.lease = None
                \/ a.lease \in Claimed(log) /\ Unauthorised(a, ById(log, a.lease))
      [] k = "containment" -> \E l \in LeaseRows(log) : ContainmentBreach(l)
      [] k = "drills" -> \E r \in Rows(log) : DrillBreach(r)

TasksPass(log) == Parses(log) /\ \A t \in Rows(log) : ~TaskBreach(t)

ChangesPass(log) == Parses(log) /\ \A c \in Rows(log) : ~RatificationBreach(c)

AuthorityPass(log) == Splits(log) /\ ~AuthorityFaults(log)

ContainmentPass(log) == Splits(log) /\ \A l \in LeaseRows(log) : ~ContainmentBreach(l)

\* Every drill is sound, and one of them is recent.
DrillsPass(log, at) ==
    /\ Parses(log)
    /\ \A d \in Rows(log) : ~DrillBreach(d)
    /\ \E d \in Rows(log) : Recent(d, at)

Passes(k, log, at) ==
    CASE k = "tasks" -> TasksPass(log)
      [] k = "changes" -> ChangesPass(log)
      [] k = "authority" -> AuthorityPass(log)
      [] k = "containment" -> ContainmentPass(log)
      [] k = "drills" -> DrillsPass(log, at)

\* Mutant: only the newest record is audited.
AuditNewest(k, log, at) ==
    IF Readable(k, log) /\ Passes(k, IF log = <<>> THEN log ELSE <<log[Len(log)]>>, at)
    THEN PASS ELSE FAIL

\* What the check answers; a log it cannot read is a FAIL.
Audit(k, log, at) == IF Passes(k, log, at) THEN PASS ELSE FAIL

\* The synthetic logs of the vacuity probes: a task and a change settled by
\* their own performer, an action before its lease, an overspent lease, and a
\* flawless drill that touched nothing.
Self == CHOOSE n \in Names : TRUE
Other == CHOOSE n \in Names : Person[n] # Person[Self]

TaskProbe == <<[performer |-> Self, verifier |-> Self]>>

ChangeProbe ==
    <<[proposer |-> Self, ratifier |-> Self, human |-> TRUE,
       ratified |-> 0, merged |-> 5, proposed |-> None]>>

ContainmentProbe ==
    <<[record |-> "lease", lease |-> CHOOSE i \in Leases : TRUE, principal |-> Self,
       issuer |-> Other, issued |-> 1, expires |-> 2, scope |-> Scopes,
       ceilings |-> [m \in Metrics |-> 1], consumed |-> [m \in Metrics |-> 5],
       amendedBy |-> None]>>

AuthorityProbe ==
    Append(ContainmentProbe,
           [record |-> "action", lease |-> ContainmentProbe[1].lease, at |-> 0,
            scope |-> CHOOSE s \in Scopes : TRUE])

DrillProbe(at) ==
    <<[performer |-> Self, verifier |-> Other, restored_outcome |-> TRUE,
       mutated |-> {}, restored |-> {}, digests |-> "match",
       mutatedAt |-> at, rolledBackAt |-> at + 5, verifiedAt |-> at + 10]>>

Probe(k, at) ==
    CASE k = "tasks" -> TaskProbe
      [] k = "changes" -> ChangeProbe
      [] k = "authority" -> AuthorityProbe
      [] k = "containment" -> ContainmentProbe
      [] k = "drills" -> DrillProbe(at)
=============================================================================
