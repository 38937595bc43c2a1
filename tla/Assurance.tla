------------------------------ MODULE Assurance ------------------------------
(***************************************************************************)
(* `neuraxis assure` for one control: processes run its provider through   *)
(* the harness and record what comes out, while others write the log the   *)
(* provider reads.                                                         *)
(*                                                                         *)
(* A run is stamped when it starts.  The positive control then reads the   *)
(* log, the vacuity probe audits a record that must fail, and the check    *)
(* reads the log again.  The provider is one of the five that read a log,  *)
(* a declared one without a source, or one registered from outside, whose  *)
(* methods may answer or raise anything.  What the file of attestations    *)
(* does to a record is AttestationLog's matter: here it is recorded whole. *)
(***************************************************************************)
EXTENDS ProviderAudits, AttestationStore

CONSTANTS
    Processes,
    Control,    \* the control the provider attests
    Writes,     \* Writes[k], the lines others write to the log of a provider
    NoFile,     \* there is no log
    Nothing,    \* no run, no look, no breach
    MaxTime, MaxChanges, MaxRuns

ASSUME ControlAssumption == Controls = {Control}
\* A lease that names no id has one of its own, "<unidentified>".
ASSUME WritesAssumption ==
    \A row \in Writes["authority"] \ {Malformed} : row.record = "lease" => row.lease \in Leases
ASSUME BoundsAssumption == {MaxTime, MaxChanges, MaxRuns} \subseteq Nat

Providers == Kinds \cup {"unwired", "external"}
Raises == "raises"
NoResult == "not a ProviderResult"
BarePass == "PASS without evidence"
UNWIRED == "UNWIRED"
Outcomes == {PASS, FAIL, UNWIRED}
Answers == Outcomes \cup {Raises, NoResult, BarePass}

VARIABLES
    provider,   \* who answers for the control
    log,        \* the lines of its log, or NoFile
    now,
    pc,         \* "idle", "control", "check" or "record"
    ranAt,      \* the stamp of the run
    outcome,    \* what the harness made of it
    store,      \* the newest attestation of the control
    look,       \* history: what the check of a run saw, and when
    shrunk,     \* history: the log lost lines since the positive control
    basis,      \* history: the look behind the attestation in the store
    breachedAt, \* history: since when the log holds a breach
    changes, runs   \* how often the log changed, how many runs there were

runVars == <<pc, ranAt, outcome, look>>
vars ==
    <<provider, log, now, runVars, store, shrunk, basis, breachedAt, changes, runs>>

Row == UNION {Writes[k] : k \in Kinds}
Look == [at : Nat, log : Seq(Row) \cup {NoFile}, shrunk : BOOLEAN]

ASSUME AbsenceAssumption == NoFile \notin Seq(Row) /\ Nothing \notin Nat \cup Look

TypeOK ==
    /\ provider \in Providers
    /\ log \in Seq(Row) \cup {NoFile}
    /\ now \in Nat
    /\ pc \in [Processes -> {"idle", "control", "check", "record"}]
    /\ ranAt \in [Processes -> Nat]
    /\ outcome \in [Processes -> Outcomes \cup {Nothing}]
    /\ \A p \in Processes : pc[p] = "record" => outcome[p] \in Outcomes
    /\ store \in Store
    /\ look \in [Processes -> Look \cup {Nothing}]
    /\ shrunk \in [Processes -> BOOLEAN]
    /\ basis \in Look \cup {Nothing}
    /\ breachedAt \in Nat \cup {Nothing}
    /\ changes \in Nat /\ runs \in Nat

Init ==
    /\ provider \in Providers
    /\ log = NoFile
    /\ now = 0
    /\ pc = [p \in Processes |-> "idle"]
    /\ ranAt = [p \in Processes |-> 0]
    /\ outcome = [p \in Processes |-> Nothing]
    /\ store = EmptyStore
    /\ look = [p \in Processes |-> Nothing]
    /\ shrunk = [p \in Processes |-> FALSE]
    /\ basis = Nothing
    /\ breachedAt = Nothing
    /\ changes = 0 /\ runs = 0

-----------------------------------------------------------------------------
(* The world.                                                              *)

Tick ==
    /\ now < MaxTime
    /\ now' = now + 1
    /\ UNCHANGED <<provider, log, runVars, store, shrunk, basis, breachedAt, changes, runs>>

Write ==
    /\ provider \in Kinds
    /\ changes < MaxChanges
    /\ changes' = changes + 1
    /\ \E row \in Writes[provider] :
         LET lines == IF log = NoFile THEN <<row>> ELSE Append(log, row) IN
         /\ log' = lines
         /\ breachedAt' = IF breachedAt = Nothing /\ Parses(lines) /\ Readable(provider, lines)
                             /\ Breached(provider, lines)
                          THEN now ELSE breachedAt
    /\ UNCHANGED <<provider, now, runVars, store, shrunk, basis, runs>>

\* The log is moved away, or emptied.
Rotate ==
    /\ log \notin {NoFile, <<>>}
    /\ changes < MaxChanges
    /\ changes' = changes + 1
    /\ log' \in {NoFile, <<>>}
    /\ breachedAt' = Nothing
    /\ shrunk' = [p \in Processes |-> pc[p] = "check"]
    /\ UNCHANGED <<provider, now, runVars, store, basis, runs>>

-----------------------------------------------------------------------------
(* The provider.                                                           *)

ControlAnswers ==
    CASE provider \in Kinds -> {log # NoFile /\ PositiveControl(provider, log)}
      [] provider = "unwired" -> {FALSE}
      [] OTHER -> {TRUE, FALSE}

ProbeAnswers ==
    CASE provider \in Kinds -> {Audit(provider, Probe(provider, now), now)}
      [] provider = "unwired" -> {FAIL}
      [] OTHER -> Answers

\* A built-in check answers FAIL where its log cannot be read.
CheckAnswers ==
    CASE provider \in Kinds -> {IF log = NoFile THEN FAIL ELSE Audit(provider, log, now)}
      [] provider = "unwired" -> {UNWIRED}
      [] OTHER -> Answers

-----------------------------------------------------------------------------
(* The harness.                                                            *)

\* ran_at, before anything is looked at.
Start(p) ==
    /\ pc[p] = "idle"
    /\ runs < MaxRuns
    /\ runs' = runs + 1
    /\ pc' = [pc EXCEPT ![p] = "control"]
    /\ ranAt' = [ranAt EXCEPT ![p] = now]
    /\ UNCHANGED <<provider, log, now, outcome, store, look, shrunk, basis, breachedAt, changes>>

\* A check that is not live still says whether it is unwired.
NotLive(p) ==
    /\ pc[p] = "control"
    /\ FALSE \in ControlAnswers
    /\ \E result \in CheckAnswers :
         outcome' = [outcome EXCEPT ![p] = IF result = UNWIRED THEN UNWIRED ELSE FAIL]
    /\ pc' = [pc EXCEPT ![p] = "record"]
    /\ UNCHANGED <<provider, log, now, ranAt, store, look, shrunk, basis, breachedAt, changes, runs>>

\* A positive control that raises.
ControlRaises(p) ==
    /\ pc[p] = "control"
    /\ provider = "external"
    /\ outcome' = [outcome EXCEPT ![p] = FAIL]
    /\ pc' = [pc EXCEPT ![p] = "record"]
    /\ UNCHANGED <<provider, log, now, ranAt, store, look, shrunk, basis, breachedAt, changes, runs>>

Live(p) ==
    /\ pc[p] = "control"
    /\ TRUE \in ControlAnswers
    /\ pc' = [pc EXCEPT ![p] = "check"]
    /\ UNCHANGED <<provider, log, now, ranAt, outcome, store, look, shrunk, basis, breachedAt, changes, runs>>

\* Mutant: whatever a live check returns is passed on.
HarnessOutcomeUnchecked(probe, result) ==
    IF probe \in {FAIL, UNWIRED} THEN result ELSE FAIL

\* A probe must answer, and not with PASS; so must the check, and with a
\* reference if it passes.  A bare PASS of the probe is a PASS.
HarnessOutcome(probe, result) ==
    IF probe \in {FAIL, UNWIRED} /\ result \in Outcomes THEN result ELSE FAIL

Check(p) ==
    /\ pc[p] = "check"
    /\ \E probe \in ProbeAnswers, result \in CheckAnswers :
         outcome' = [outcome EXCEPT ![p] = HarnessOutcome(probe, result)]
    /\ look' = [look EXCEPT ![p] = [at |-> now, log |-> log, shrunk |-> shrunk[p]]]
    /\ shrunk' = [shrunk EXCEPT ![p] = FALSE]
    /\ pc' = [pc EXCEPT ![p] = "record"]
    /\ UNCHANGED <<provider, log, now, ranAt, store, basis, breachedAt, changes, runs>>

\* Mutant: the attestation is dated when it is recorded.
ToAttestationNow(p) ==
    [control |-> Control, result |-> outcome[p] = PASS, issued_at |-> now]

\* Only PASS attests: an unwired control is recorded as denied.
ToAttestation(p) ==
    [control |-> Control, result |-> outcome[p] = PASS, issued_at |-> ranAt[p]]

Record(p) ==
    /\ pc[p] = "record"
    /\ store' = Recorded(store, ToAttestation(p))
    /\ basis' = IF store' = store THEN basis ELSE look[p]
    /\ pc' = [pc EXCEPT ![p] = "idle"]
    /\ ranAt' = [ranAt EXCEPT ![p] = 0]
    /\ outcome' = [outcome EXCEPT ![p] = Nothing]
    /\ look' = [look EXCEPT ![p] = Nothing]
    /\ UNCHANGED <<provider, log, now, shrunk, breachedAt, changes, runs>>

Next ==
    \/ Tick \/ Write \/ Rotate
    \/ \E p \in Processes :
         Start(p) \/ NotLive(p) \/ ControlRaises(p) \/ Live(p) \/ Check(p) \/ Record(p)

Spec == Init /\ [][Next]_vars

-----------------------------------------------------------------------------
Current == Holds(store, Control, now)

\* A control that holds rests on a look: a check that ran after its stamp and
\* within its window, on a log that passed the audit at that moment; no unwired
\* provider ever gets there (harness.py, run_provider).
HoldsRestsOnLook ==
    Current =>
      /\ provider # "unwired"
      /\ basis # Nothing
      /\ basis.at \in (now - MaxAge[Control])..now
      /\ provider \in Kinds =>
           basis.log # NoFile /\ Audit(provider, basis.log, basis.at) = PASS

\* A breach in the log takes the control down for good, one window after it was
\* written at the latest and whatever runs are under way, until the log is
\* rotated.  Until then, a run that looked earlier may overrule one that looked
\* later, if it was stamped later.
BreachIsNotOutlived ==
    Current /\ breachedAt # Nothing => now <= breachedAt + MaxAge[Control]

\* A control holds over an empty sample only if the log lost lines between the
\* positive control and the check of one run: "an empty log is not zero
\* breaches" (builtin.py, positive_control).
EmptyPassNeedsRotation ==
    Current /\ provider \in Kinds /\ Sample(provider, basis.log) = {} => basis.shrunk

\* Records of several writers arrive in any order, and no audit depends on it.
OrderDoesNotMatter ==
    provider \in Kinds /\ log # NoFile =>
      \A turn \in Bijection(1..Len(log), 1..Len(log)) :
        Audit(provider, [n \in 1..Len(log) |-> log[turn[n]]], now) = Audit(provider, log, now)
=============================================================================
