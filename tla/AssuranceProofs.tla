---------------------------- MODULE AssuranceProofs ----------------------------
(***************************************************************************)
(* Theorems about `neuraxis assure`, for any provider, any log, any number *)
(* of processes and any bounds.                                            *)
(*                                                                         *)
(* The first part is about the audits: what a line more and what another   *)
(* order of the lines do to them.  The second follows a run: what it saw,  *)
(* when, and what may have become of the log since (IInv).                 *)
(***************************************************************************)
EXTENDS Assurance, WellFoundedInduction, TLAPS

-----------------------------------------------------------------------------
(***************************************************************************)
(* Logs.                                                                   *)
(***************************************************************************)

\* Every non-empty set of naturals has a least element.
LEMMA LeastNat == \A S \in SUBSET Nat : S # {} => \E m \in S : \A n \in S : m <= n
<1> SUFFICES ASSUME NEW S, S \subseteq Nat, S # {}
             PROVE \E m \in S : \A n \in S : m <= n
    OBVIOUS
<1>1. PICK m \in S : \A n \in S : ~ (<<n, m>> \in OpToRel(<, Nat))
    BY NatLessThanWellFounded, WFMin, Zenon
<1>2. \A n \in S : ~(n < m)
    BY <1>1 DEF OpToRel
<1>3. QED
    BY <1>2

LEMMA Appended ==
    ASSUME NEW S, NEW l \in Seq(S), NEW row
    PROVE /\ Len(l) \in Nat /\ DOMAIN l = 1..Len(l)
          /\ DOMAIN Append(l, row) = 1..(Len(l) + 1)
          /\ \A n \in DOMAIN l : Append(l, row)[n] = l[n]
          /\ Append(l, row)[Len(l) + 1] = row
          /\ Rows(Append(l, row)) = Rows(l) \cup {row}
<1>1. /\ Len(l) \in Nat /\ DOMAIN l = 1..Len(l)
      /\ DOMAIN Append(l, row) = 1..(Len(l) + 1)
      /\ \A n \in DOMAIN l : Append(l, row)[n] = l[n]
      /\ Append(l, row)[Len(l) + 1] = row
    OBVIOUS
<1>2. \A n \in 1..(Len(l) + 1) : n \in DOMAIN l \/ n = Len(l) + 1
    BY <1>1
<1>3. Len(l) + 1 \in 1..(Len(l) + 1) /\ \A n \in DOMAIN l : n \in 1..(Len(l) + 1)
    BY <1>1
<1> DEFINE m == Append(l, row)
<1> HIDE DEF m
<1>4. Rows(m) = Rows(l) \cup {row}
    BY <1>1, <1>2, <1>3 DEF Rows, m
<1>5. QED
    BY <1>1, <1>4 DEF m

\* A line more: what could be read before was read as it is now, and no record
\* of the sample is lost.
LEMMA LineMore ==
    ASSUME NEW S, NEW l \in Seq(S), NEW row, NEW k
    PROVE /\ Readable(k, Append(l, row)) => Readable(k, l)
          /\ Sample(k, l) \subseteq Sample(k, Append(l, row))
<1> DEFINE m == Append(l, row)
<1>1. Rows(m) = Rows(l) \cup {row}
    BY Appended
<1> HIDE DEF m
<1>2. LeaseRows(l) \subseteq LeaseRows(m) /\ ActionRows(l) \subseteq ActionRows(m)
    BY <1>1 DEF LeaseRows, ActionRows
<1>3. Parses(m) => Parses(l)
    BY <1>1 DEF Parses
<1>4. Splits(m) => Splits(l)
    BY <1>1, <1>3 DEF Splits, LeaseRows, ActionRows
<1>5. Sample(k, l) \subseteq Sample(k, m)
    BY <1>1, <1>2 DEF Sample
<1>6. QED
    BY <1>3, <1>4, <1>5 DEF Readable, m

\* A claimed lease is the first sound one of its id.
LEMMA FirstGrant ==
    ASSUME NEW S, NEW l \in Seq(S), NEW id, NEW n \in Grants(l), l[n].lease = id,
           \A i \in Grants(l) : l[i].lease = id => n <= i
    PROVE ById(l, id) = l[n]
<1> DEFINE N == {i \in Grants(l) : l[i].lease = id}
<1>1. Grants(l) \subseteq Nat
    BY Appended DEF Grants
<1>2. n \in N /\ \A i \in N : n <= i
    OBVIOUS
<1>3. \A i \in N : (\A j \in N : i <= j) => i = n
    BY <1>1, <1>2
<1>4. ById(l, id) = l[CHOOSE i \in N : \A j \in N : i <= j]
    BY DEF ById
<1> HIDE DEF N
<1>5. (CHOOSE i \in N : \A j \in N : i <= j) = n
    BY <1>2, <1>3
<1>6. QED
    BY <1>4, <1>5

LEMMA ClaimedHasFirst ==
    ASSUME NEW S, NEW l \in Seq(S), NEW id \in Claimed(l)
    PROVE \E n \in Grants(l) : l[n].lease = id /\ \A i \in Grants(l) : l[i].lease = id => n <= i
<1> DEFINE N == {i \in Grants(l) : l[i].lease = id}
<1>1. N \in SUBSET Nat /\ N # {}
    BY Appended DEF Grants, Claimed
<1>2. PICK n \in N : \A i \in N : n <= i
    <2> HIDE DEF N
    <2>1. QED
        BY <1>1, LeastNat
<1>3. QED
    BY <1>2

\* A line more does not change which lease an id means.
LEMMA GrantStays ==
    ASSUME NEW S, NEW l \in Seq(S), NEW row, NEW id \in Claimed(l)
    PROVE id \in Claimed(Append(l, row)) /\ ById(Append(l, row), id) = ById(l, id)
<1> DEFINE m == Append(l, row)
<1>1. /\ Len(l) \in Nat /\ DOMAIN l = 1..Len(l) /\ DOMAIN m = 1..(Len(l) + 1)
      /\ \A n \in DOMAIN l : m[n] = l[n]
      /\ m \in Seq(S \cup {row})
    BY Appended
<1>2. PICK n \in Grants(l) :
        l[n].lease = id /\ \A i \in Grants(l) : l[i].lease = id => n <= i
    BY ClaimedHasFirst
<1> HIDE DEF m
<1>3. Grants(l) = Grants(m) \cap DOMAIN l
    BY <1>1 DEF Grants
<1>4. n \in Grants(m) /\ m[n].lease = id /\ m[n] = l[n]
    BY <1>1, <1>2, <1>3 DEF Grants
<1>5. ASSUME NEW i \in Grants(m), m[i].lease = id PROVE n <= i
    <2>1. CASE i \in DOMAIN l
        BY <1>1, <1>2, <1>3, <1>5, <2>1
    <2>2. CASE i \notin DOMAIN l
        <3>1. i = Len(l) + 1 /\ n \in 1..Len(l)
            BY <1>1, <1>2, <2>2 DEF Grants
        <3>2. QED
            BY <1>1, <3>1
    <2>3. QED
        BY <2>1, <2>2
<1>6. ById(m, id) = m[n] /\ ById(l, id) = l[n]
    BY <1>1, <1>2, <1>4, <1>5, FirstGrant
<1>7. id \in Claimed(m)
    BY <1>4 DEF Claimed
<1>8. QED
    BY <1>4, <1>6, <1>7 DEF m

\* The breaches of each provider, one case at a time.
LEMMA BreachedIs ==
    ASSUME NEW k, NEW l
    PROVE /\ k = "tasks" => (Breached(k, l) <=> \E r \in Rows(l) : TaskBreach(r))
          /\ k = "changes" => (Breached(k, l) <=> \E r \in Rows(l) : RatificationBreach(r))
          /\ k = "containment" => (Breached(k, l) <=> \E r \in LeaseRows(l) : ContainmentBreach(r))
          /\ k = "drills" => (Breached(k, l) <=> \E r \in Rows(l) : DrillBreach(r))
          /\ k = "authority" =>
               (Breached(k, l) <=>
                  \/ \E r \in LeaseRows(l) : GrantBreach(r)
                  \/ Duplicate(l)
                  \/ \E a \in ActionRows(l) :
                       \/ a.lease = None
                       \/ a.lease \in Claimed(l) /\ Unauthorised(a, ById(l, a.lease)))
    BY DEF Breached

\* No later line repairs a breach.
LEMMA BreachStays ==
    ASSUME NEW S, NEW l \in Seq(S), NEW row, NEW k \in Kinds, Breached(k, l)
    PROVE Breached(k, Append(l, row))
<1> DEFINE m == Append(l, row)
<1>1. /\ Len(l) \in Nat /\ DOMAIN l = 1..Len(l) /\ DOMAIN m = 1..(Len(l) + 1)
      /\ \A n \in DOMAIN l : m[n] = l[n]
      /\ Rows(m) = Rows(l) \cup {row}
    BY Appended
<1>2. \A id \in Claimed(l) : id \in Claimed(m) /\ ById(m, id) = ById(l, id)
    BY GrantStays
<1> SUFFICES Breached(k, m)
    OBVIOUS
<1> HIDE DEF m
<1>3. LeaseRows(l) \subseteq LeaseRows(m) /\ ActionRows(l) \subseteq ActionRows(m)
    BY <1>1 DEF LeaseRows, ActionRows
<1>4. Duplicate(l) => Duplicate(m)
    <2>1. \A n \in Grants(l) : n \in Grants(m) /\ m[n] = l[n]
        BY <1>1 DEF Grants
    <2>2. QED
        BY <2>1 DEF Duplicate
<1>5. CASE k = "authority"
    <2>1. CASE \E r \in LeaseRows(l) : GrantBreach(r)
        BY <1>3, <1>5, <2>1, BreachedIs
    <2>2. CASE Duplicate(l)
        BY <1>4, <1>5, <2>2, BreachedIs
    <2>3. ASSUME NEW a \in ActionRows(l),
                 \/ a.lease = None
                 \/ a.lease \in Claimed(l) /\ Unauthorised(a, ById(l, a.lease))
          PROVE Breached(k, m)
        BY <1>2, <1>3, <1>5, <2>3, BreachedIs
    <2>4. QED
        BY <1>5, <2>1, <2>2, <2>3, BreachedIs
<1>6. CASE k # "authority"
    <2>1. k \in {"tasks", "changes", "containment", "drills"}
        BY <1>6 DEF Kinds
    <2>2. QED
        BY <1>1, <1>3, <2>1, BreachedIs
<1>7. QED
    BY <1>5, <1>6

\* What each audit passes on, one case at a time.
LEMMA PassesIs ==
    ASSUME NEW k, NEW l, NEW at
    PROVE /\ k = "tasks" => (Passes(k, l, at) <=> TasksPass(l))
          /\ k = "changes" => (Passes(k, l, at) <=> ChangesPass(l))
          /\ k = "authority" => (Passes(k, l, at) <=> AuthorityPass(l))
          /\ k = "containment" => (Passes(k, l, at) <=> ContainmentPass(l))
          /\ k = "drills" => (Passes(k, l, at) <=> DrillsPass(l, at))
    BY DEF Passes

\* A log with a breach does not pass, at any instant.
LEMMA BreachFails ==
    ASSUME NEW k \in Kinds, NEW l, NEW at, Audit(k, l, at) = PASS,
           k = "authority" /\ Parses(l) => \A r \in Rows(l) : r.record = "lease" => r.lease # None
    PROVE Readable(k, l) /\ ~Breached(k, l)
<1>1. Passes(k, l, at)
    BY DEF Audit, PASS, FAIL
<1>2. CASE k = "tasks"
    BY <1>1, <1>2, PassesIs, BreachedIs DEF TasksPass, Readable
<1>3. CASE k = "changes"
    BY <1>1, <1>3, PassesIs, BreachedIs DEF ChangesPass, Readable
<1>4. CASE k = "containment"
    BY <1>1, <1>4, PassesIs, BreachedIs DEF ContainmentPass, Readable
<1>5. CASE k = "drills"
    BY <1>1, <1>5, PassesIs, BreachedIs DEF DrillsPass, Readable
<1>6. CASE k = "authority"
    <2>1. Splits(l) /\ ~AuthorityFaults(l)
        BY <1>1, <1>6, PassesIs DEF AuthorityPass
    <2>2. None \notin Claimed(l)
        <3>1. ASSUME NEW n \in Grants(l) PROVE l[n].lease # None
            BY <1>6, <2>1 DEF Splits, Grants, Rows
        <3>2. QED
            BY <3>1 DEF Claimed
    <2>3. ~Breached(k, l)
        BY <1>6, <2>1, <2>2, BreachedIs DEF AuthorityFaults, ActionBreach
    <2>4. QED
        BY <1>6, <2>1, <2>3 DEF Readable
<1>7. QED
    BY <1>2, <1>3, <1>4, <1>5, <1>6 DEF Kinds

-----------------------------------------------------------------------------
\* l and m hold the same lines, in another order.
Reordered(l, m, turn) ==
    /\ turn \in [DOMAIN m -> DOMAIN l]
    /\ \A i, j \in DOMAIN m : turn[i] = turn[j] => i = j
    /\ \A n \in DOMAIN l : \E i \in DOMAIN m : turn[i] = n
    /\ \A i \in DOMAIN m : m[i] = l[turn[i]]

LEMMA SameRows == ASSUME NEW l, NEW m, NEW turn, Reordered(l, m, turn) PROVE Rows(m) = Rows(l)
    BY DEF Reordered, Rows

LEMMA SameGrants ==
    ASSUME NEW l, NEW m, NEW turn, Reordered(l, m, turn)
    PROVE /\ \A i \in DOMAIN m : i \in Grants(m) <=> turn[i] \in Grants(l)
          /\ Claimed(m) = Claimed(l)
          /\ Duplicate(m) <=> Duplicate(l)
<1>1. \A i \in DOMAIN m : i \in Grants(m) <=> turn[i] \in Grants(l)
    BY DEF Grants, Reordered
<1>2. \A n \in Grants(l) : \E i \in Grants(m) : turn[i] = n /\ m[i] = l[n]
    BY <1>1 DEF Reordered, Grants
<1>3. \A i \in Grants(m) : turn[i] \in Grants(l) /\ m[i] = l[turn[i]]
    BY <1>1 DEF Reordered, Grants
<1>4. Claimed(m) = Claimed(l)
    BY <1>2, <1>3 DEF Claimed
<1>5. \A i, j \in Grants(m) : turn[i] = turn[j] => i = j
    BY DEF Reordered, Grants
<1>6. Duplicate(m) <=> Duplicate(l)
    BY <1>2, <1>3, <1>5 DEF Duplicate
<1>7. QED
    BY <1>1, <1>4, <1>6

\* Where no two sound leases have one id, an id means the same lease in
\* whatever order the lines are.
LEMMA SameLease ==
    ASSUME NEW S, NEW l \in Seq(S), NEW m \in Seq(S), NEW turn, Reordered(l, m, turn),
           ~Duplicate(l), NEW id \in Claimed(l)
    PROVE ById(m, id) = ById(l, id)
<1>1. PICK n \in Grants(l) : l[n].lease = id /\ \A i \in Grants(l) : l[i].lease = id => n <= i
    BY ClaimedHasFirst
<1>2. ~Duplicate(m) /\ id \in Claimed(m)
    BY SameGrants
<1>3. PICK i \in Grants(m) : m[i].lease = id /\ \A j \in Grants(m) : m[j].lease = id => i <= j
    BY <1>2, ClaimedHasFirst
<1>4. turn[i] \in Grants(l) /\ l[turn[i]] = m[i]
    BY SameGrants DEF Reordered, Grants
<1>5. turn[i] = n
    BY <1>1, <1>3, <1>4 DEF Duplicate
<1>6. ById(l, id) = l[n] /\ ById(m, id) = m[i]
    BY <1>1, <1>3, FirstGrant
<1>7. QED
    BY <1>4, <1>5, <1>6

LEMMA SameAudit ==
    ASSUME NEW S, NEW l \in Seq(S), NEW m \in Seq(S), NEW turn, Reordered(l, m, turn),
           NEW k \in Kinds, NEW at
    PROVE Audit(k, m, at) = Audit(k, l, at)
<1>1. Rows(m) = Rows(l)
    BY SameRows
<1>2. LeaseRows(m) = LeaseRows(l) /\ ActionRows(m) = ActionRows(l)
    BY <1>1 DEF LeaseRows, ActionRows
<1>3. (Parses(m) <=> Parses(l)) /\ (Splits(m) <=> Splits(l))
    BY <1>1, <1>2 DEF Parses, Splits
<1>4. AuthorityFaults(m) <=> AuthorityFaults(l)
    <2>1. CASE Duplicate(l)
        BY <2>1, SameGrants DEF AuthorityFaults
    <2>2. CASE ~Duplicate(l)
        <3>1. \A a \in ActionRows(l) : ActionBreach(a, m) <=> ActionBreach(a, l)
            <4> SUFFICES ASSUME NEW a \in ActionRows(l), a.lease \in Claimed(l)
                         PROVE ActionBreach(a, m) <=> ActionBreach(a, l)
                BY SameGrants DEF ActionBreach
            <4>1. ById(m, a.lease) = ById(l, a.lease)
                BY <2>2, SameLease
            <4>2. QED
                BY <4>1, SameGrants DEF ActionBreach
        <3>2. ~Duplicate(m)
            BY <2>2, SameGrants
        <3>3. QED
            BY <1>2, <2>2, <3>1, <3>2 DEF AuthorityFaults
    <2>3. QED
        BY <2>1, <2>2
<1>5. CASE k = "tasks"
    BY <1>1, <1>3, <1>5, PassesIs DEF TasksPass, Audit
<1>6. CASE k = "changes"
    BY <1>1, <1>3, <1>6, PassesIs DEF ChangesPass, Audit
<1>7. CASE k = "authority"
    BY <1>3, <1>4, <1>7, PassesIs DEF AuthorityPass, Audit
<1>8. CASE k = "containment"
    BY <1>2, <1>3, <1>8, PassesIs DEF ContainmentPass, Audit
<1>9. CASE k = "drills"
    BY <1>1, <1>3, <1>9, PassesIs DEF DrillsPass, Audit
<1>10. QED
    BY <1>5, <1>6, <1>7, <1>8, <1>9 DEF Kinds

-----------------------------------------------------------------------------
(***************************************************************************)
(* Runs.                                                                   *)
(***************************************************************************)

LEMMA Init_TypeOK == Init => TypeOK
<1> SUFFICES ASSUME Init PROVE TypeOK
    OBVIOUS
<1>1. store \in Store
    BY DEF Init, Store, EmptyStore
<1>2. QED
    BY <1>1 DEF Init, TypeOK

LEMMA AnyOutcome ==
    /\ \A probe, result : HarnessOutcome(probe, result) \in Outcomes
    /\ FAIL \in Outcomes /\ UNWIRED \in Outcomes
    BY DEF HarnessOutcome, Outcomes

LEMMA AttestationIs ==
    ASSUME TypeOK, NEW p \in Processes
    PROVE /\ ToAttestation(p) \in Attestation
          /\ ToAttestation(p).control = Control
          /\ ToAttestation(p).issued_at = ranAt[p]
          /\ ToAttestation(p).result <=> outcome[p] = PASS
<1>1. ranAt[p] \in Nat /\ Control \in Controls
    BY ControlAssumption DEF TypeOK
<1>2. QED
    BY <1>1 DEF ToAttestation, Attestation

\* The line that Write appends, and where.
LEMMA WriteIs ==
    ASSUME TypeOK, Write
    PROVE \E row \in Writes[provider] :
            /\ log = NoFile => log' = <<row>>
            /\ log # NoFile => log \in Seq(Row) /\ log' = Append(log, row)
            /\ log' \in Seq(Row) /\ log' # NoFile /\ row \in Row /\ provider \in Kinds
            /\ \/ breachedAt' = breachedAt
               \/ breachedAt = Nothing /\ breachedAt' = now /\ Breached(provider, log')
<1>1. provider \in Kinds
    BY DEF Write
<1>2. PICK row \in Writes[provider] :
        /\ log' = IF log = NoFile THEN <<row>> ELSE Append(log, row)
        /\ breachedAt' = IF breachedAt = Nothing /\ Parses(log') /\ Readable(provider, log')
                            /\ Breached(provider, log')
                         THEN now ELSE breachedAt
    BY Zenon DEF Write
<1>3. row \in Row
    BY <1>1 DEF Row
<1>4. log' \in Seq(Row)
    BY <1>2, <1>3 DEF TypeOK
<1>5. log' # NoFile
    BY <1>4, AbsenceAssumption
<1>6. \/ breachedAt' = breachedAt
      \/ breachedAt = Nothing /\ breachedAt' = now /\ Breached(provider, log')
    BY <1>2
<1>7. QED
    BY <1>1, <1>2, <1>3, <1>4, <1>5, <1>6 DEF TypeOK

LEMMA Next_TypeOK == TypeOK /\ [Next]_vars => TypeOK'
<1> SUFFICES ASSUME TypeOK, [Next]_vars PROVE TypeOK'
    OBVIOUS
<1>1. CASE Tick
    BY <1>1 DEF Tick, TypeOK, runVars
<1>2. CASE Write
    <2>1. log' \in Seq(Row) /\ breachedAt' \in Nat \cup {Nothing}
        BY <1>2, WriteIs DEF TypeOK
    <2>2. QED
        BY <1>2, <2>1 DEF Write, TypeOK, runVars
<1>3. CASE Rotate
    <2>1. log' \in Seq(Row) \cup {NoFile}
        <3>1. <<>> \in Seq(Row)
            OBVIOUS
        <3>2. QED
            BY <1>3, <3>1 DEF Rotate
    <2>2. QED
        BY <1>3, <2>1 DEF Rotate, TypeOK, runVars
<1>4. ASSUME NEW p \in Processes, Start(p) PROVE TypeOK'
    BY <1>4 DEF Start, TypeOK
<1>5. ASSUME NEW p \in Processes, NotLive(p) PROVE TypeOK'
    <2>1. PICK o \in Outcomes : outcome' = [outcome EXCEPT ![p] = o]
        BY <1>5, AnyOutcome DEF NotLive
    <2>2. QED
        BY <1>5, <2>1 DEF NotLive, TypeOK
<1>6. ASSUME NEW p \in Processes, ControlRaises(p) PROVE TypeOK'
    BY <1>6, AnyOutcome DEF ControlRaises, TypeOK
<1>7. ASSUME NEW p \in Processes, Live(p) PROVE TypeOK'
    BY <1>7 DEF Live, TypeOK
<1>8. ASSUME NEW p \in Processes, Check(p) PROVE TypeOK'
    <2>1. PICK o \in Outcomes : outcome' = [outcome EXCEPT ![p] = o]
        BY <1>8, AnyOutcome DEF Check
    <2>2. [at |-> now, log |-> log, shrunk |-> shrunk[p]] \in Look
        BY DEF TypeOK, Look
    <2>3. QED
        BY <1>8, <2>1, <2>2 DEF Check, TypeOK
<1>9. ASSUME NEW p \in Processes, Record(p) PROVE TypeOK'
    <2>1. store' \in Store
        BY <1>9, AttestationIs, ControlAssumption DEF Record, Recorded, TypeOK, Store
    <2>2. basis' \in Look \cup {Nothing}
        BY <1>9 DEF Record, TypeOK
    <2>3. QED
        BY <1>9, <2>1, <2>2 DEF Record, TypeOK
<1>10. CASE UNCHANGED vars
    BY <1>10 DEF vars, runVars, TypeOK
<1>11. QED
    BY <1>1, <1>2, <1>3, <1>4, <1>5, <1>6, <1>7, <1>8, <1>9, <1>10 DEF Next

\* Every variable stays of its type.
THEOREM TypeCorrect == Spec => []TypeOK
<1>1. QED
    BY Init_TypeOK, Next_TypeOK, PTL DEF Spec

-----------------------------------------------------------------------------
\* A look that a PASS may rest on: the log passed, over records, or it had
\* lost some.
SoundLook(l) ==
    /\ l # Nothing
    /\ provider # "unwired"
    /\ l.at <= now
    /\ provider \in Kinds =>
         /\ l.log # NoFile
         /\ Audit(provider, l.log, l.at) = PASS
         /\ Sample(provider, l.log) = {} => l.shrunk

\* The look came after the stamp, and the stamp before any breach that is in
\* the log now.
Supports(l, stamp) ==
    SoundLook(l) /\ stamp <= l.at /\ (breachedAt # Nothing => stamp <= breachedAt)

RunsSupported ==
    \A p \in Processes :
      /\ pc[p] # "idle" => ranAt[p] <= now
      /\ pc[p] = "record" /\ outcome[p] = PASS => Supports(look[p], ranAt[p])

StoreSupported ==
    store[Control] # NoRecord =>
      /\ store[Control].issued_at <= now
      /\ store[Control].result => Supports(basis, store[Control].issued_at)

BreachInLog ==
    breachedAt # Nothing =>
      breachedAt <= now /\ provider \in Kinds /\ log # NoFile /\ Breached(provider, log)

\* Only a provider that reads a log has one, of lines that are written to it.
LinesWritten == log # NoFile => provider \in Kinds /\ Rows(log) \subseteq Writes[provider]

\* Between the positive control and the check the log keeps a record, unless
\* it is rotated; an unwired provider never comes this far.
LiveKept ==
    \A p \in Processes : pc[p] = "check" =>
      /\ provider # "unwired"
      /\ provider \in Kinds /\ ~shrunk[p] => log # NoFile /\ Sample(provider, log) # {}

IInv == TypeOK /\ RunsSupported /\ StoreSupported /\ BreachInLog /\ LinesWritten /\ LiveKept

LEMMA Init_IInv == Init => IInv
    BY Init_TypeOK, ControlAssumption
       DEF Init, IInv, RunsSupported, StoreSupported, BreachInLog, LinesWritten, LiveKept, EmptyStore

\* A log that holds a breach passes no audit.
LEMMA BreachedFails ==
    ASSUME TypeOK, LinesWritten, BreachInLog, breachedAt # Nothing, NEW at
    PROVE Audit(provider, log, at) # PASS
<1>1. provider \in Kinds /\ Breached(provider, log) /\ Rows(log) \subseteq Writes[provider]
    BY DEF BreachInLog, LinesWritten
<1>2. provider = "authority" /\ Parses(log) => \A r \in Rows(log) : r.record = "lease" => r.lease # None
    BY <1>1, WritesAssumption, LeasesAssumption DEF Parses
<1>3. QED
    BY <1>1, <1>2, BreachFails

\* Time and lines pass a supported run by; a look stays what it was.
LEMMA SupportStays ==
    ASSUME TypeOK, NEW l \in Look \cup {Nothing}, NEW stamp \in Nat, Supports(l, stamp),
           provider' = provider, now' \in Nat, now <= now',
           \/ breachedAt' = breachedAt \/ breachedAt' = Nothing
           \/ breachedAt = Nothing /\ breachedAt' = now
    PROVE Supports(l, stamp)'
<1>1. now \in Nat /\ l \in Look /\ l.at \in Nat
    BY DEF Supports, SoundLook, TypeOK, Look
<1>2. SoundLook(l)'
    BY <1>1 DEF Supports, SoundLook
<1>3. stamp <= l.at /\ l.at <= now
    BY DEF Supports, SoundLook
<1>4. breachedAt' # Nothing => stamp <= breachedAt'
    BY <1>1, <1>3 DEF Supports
<1>5. QED
    BY <1>2, <1>3, <1>4 DEF Supports

\* What holds of breaches and lines holds after each step.
LEMMA Next_BreachInLog == IInv /\ [Next]_vars => BreachInLog' /\ LinesWritten'
<1> SUFFICES ASSUME IInv, [Next]_vars PROVE BreachInLog' /\ LinesWritten'
    OBVIOUS
<1>1. TypeOK /\ BreachInLog /\ LinesWritten
    BY DEF IInv
<1>2. CASE Write
    <2>1. PICK row \in Writes[provider] :
            /\ log = NoFile => log' = <<row>>
            /\ log # NoFile => log \in Seq(Row) /\ log' = Append(log, row)
            /\ log' \in Seq(Row) /\ log' # NoFile /\ row \in Row /\ provider \in Kinds
            /\ \/ breachedAt' = breachedAt
               \/ breachedAt = Nothing /\ breachedAt' = now /\ Breached(provider, log')
        BY <1>1, <1>2, WriteIs
    <2>2. provider' = provider /\ now' = now /\ now \in Nat
        BY <1>1, <1>2 DEF Write, TypeOK
    <2>3. Rows(log') \subseteq Writes[provider]
        <3>1. CASE log = NoFile
            BY <2>1, <3>1 DEF Rows
        <3>2. CASE log # NoFile
            <4>1. Rows(Append(log, row)) = Rows(log) \cup {row}
                BY <2>1, <3>2, Appended
            <4>2. QED
                BY <1>1, <2>1, <3>2, <4>1 DEF LinesWritten
        <3>3. QED
            BY <3>1, <3>2
    <2>4. breachedAt # Nothing => Breached(provider, log')
        BY <1>1, <2>1, BreachStays DEF BreachInLog
    <2>5. BreachInLog'
        BY <1>1, <2>1, <2>2, <2>4 DEF BreachInLog
    <2>6. QED
        BY <2>1, <2>2, <2>3, <2>5 DEF LinesWritten
<1>3. CASE Rotate
    BY <1>1, <1>3 DEF Rotate, BreachInLog, LinesWritten, Rows
<1>4. CASE Tick
    BY <1>1, <1>4 DEF Tick, TypeOK, BreachInLog, LinesWritten
<1>5. CASE UNCHANGED <<provider, log, now, breachedAt>>
    BY <1>1, <1>5 DEF BreachInLog, LinesWritten
<1>6. QED
    BY <1>2, <1>3, <1>4, <1>5
       DEF Next, Start, NotLive, ControlRaises, Live, Check, Record, vars

LEMMA Next_LiveKept == IInv /\ [Next]_vars => LiveKept'
<1> SUFFICES ASSUME IInv, [Next]_vars PROVE LiveKept'
    OBVIOUS
<1>1. TypeOK /\ LiveKept
    BY DEF IInv
<1>2. CASE Write
    <2>1. PICK row \in Writes[provider] :
            /\ log # NoFile => log \in Seq(Row) /\ log' = Append(log, row)
            /\ log' # NoFile
        BY <1>1, <1>2, WriteIs
    <2>2. log # NoFile => Sample(provider, log) \subseteq Sample(provider, log')
        BY <2>1, LineMore
    <2>3. provider' = provider /\ pc' = pc /\ shrunk' = shrunk
        BY <1>2 DEF Write, runVars
    <2>4. QED
        BY <1>1, <2>1, <2>2, <2>3 DEF LiveKept
<1>3. CASE Rotate
    BY <1>1, <1>3 DEF Rotate, runVars, LiveKept, TypeOK
<1>4. ASSUME NEW p \in Processes, Live(p) PROVE LiveKept'
    <2>1. provider # "unwired"
        BY <1>4 DEF Live, ControlAnswers, Kinds
    <2>2. provider \in Kinds => log # NoFile /\ Sample(provider, log) # {}
        BY <1>4 DEF Live, ControlAnswers, PositiveControl
    <2>3. QED
        BY <1>1, <1>4, <2>1, <2>2 DEF Live, LiveKept, TypeOK
<1>5. ASSUME NEW p \in Processes, Check(p) PROVE LiveKept'
    BY <1>1, <1>5 DEF Check, LiveKept, TypeOK
<1>6. ASSUME NEW p \in Processes, Start(p) \/ NotLive(p) \/ ControlRaises(p) \/ Record(p)
      PROVE LiveKept'
    <2>1. UNCHANGED <<provider, log, shrunk>>
        BY <1>6 DEF Start, NotLive, ControlRaises, Record
    <2>2. \A q \in Processes : pc'[q] = "check" => pc[q] = "check"
        BY <1>1, <1>6 DEF Start, NotLive, ControlRaises, Record, TypeOK
    <2>3. QED
        BY <1>1, <2>1, <2>2 DEF LiveKept
<1>7. CASE Tick \/ UNCHANGED vars
    BY <1>1, <1>7 DEF Tick, vars, runVars, LiveKept
<1>8. QED
    BY <1>2, <1>3, <1>4, <1>5, <1>6, <1>7 DEF Next

\* A check that makes a PASS saw a log that supports it.
LEMMA CheckSupports ==
    ASSUME IInv, NEW p \in Processes, Check(p), outcome'[p] = PASS
    PROVE Supports(look'[p], ranAt[p])
<1> DEFINE l == [at |-> now, log |-> log, shrunk |-> shrunk[p]]
<1>1. TypeOK /\ RunsSupported /\ BreachInLog /\ LinesWritten /\ LiveKept
    BY DEF IInv
<1>2. look'[p] = l
    BY <1>1 DEF Check, TypeOK
<1>3. l \in Look /\ l.at = now /\ l.log = log /\ l.shrunk = shrunk[p]
    BY <1>1 DEF TypeOK, Look
<1> HIDE DEF l
<1>4. l # Nothing
    BY <1>3, AbsenceAssumption
<1>5. PASS \in CheckAnswers
    <2>1. PICK probe \in ProbeAnswers, result \in CheckAnswers :
            outcome' = [outcome EXCEPT ![p] = HarnessOutcome(probe, result)]
        BY DEF Check
    <2>2. HarnessOutcome(probe, result) = PASS
        BY <1>1, <2>1 DEF TypeOK
    <2>3. QED
        BY <2>1, <2>2 DEF HarnessOutcome, PASS, FAIL
<1>6. pc[p] = "check" /\ ranAt[p] <= now /\ now \in Nat
    BY <1>1 DEF Check, RunsSupported, TypeOK
<1>7. provider # "unwired"
    BY <1>1, <1>6 DEF LiveKept
<1>8. provider \in Kinds => log # NoFile /\ Audit(provider, log, now) = PASS
    <2> SUFFICES ASSUME provider \in Kinds PROVE log # NoFile /\ Audit(provider, log, now) = PASS
        OBVIOUS
    <2>1. provider # "unwired"
        BY DEF Kinds
    <2>2. CheckAnswers = {IF log = NoFile THEN FAIL ELSE Audit(provider, log, now)}
        BY <2>1 DEF CheckAnswers
    <2>3. QED
        BY <1>5, <2>2 DEF PASS, FAIL
<1>9. provider \in Kinds /\ Sample(provider, log) = {} => shrunk[p]
    BY <1>1, <1>6 DEF LiveKept
<1>10. breachedAt = Nothing
    BY <1>1, <1>8, BreachedFails DEF BreachInLog
<1>11. QED
    BY <1>2, <1>3, <1>4, <1>6, <1>7, <1>8, <1>9, <1>10 DEF Supports, SoundLook

\* What any step does to the provider, the clock and the breach.
LEMMA WorldMoves ==
    ASSUME TypeOK, [Next]_vars
    PROVE /\ provider' = provider /\ now \in Nat /\ now' \in Nat /\ now <= now'
          /\ \/ breachedAt' = breachedAt \/ breachedAt' = Nothing
             \/ breachedAt = Nothing /\ breachedAt' = now
<1>1. now \in Nat
    BY DEF TypeOK
<1>2. CASE Write
    BY <1>1, <1>2, WriteIs DEF Write
<1>3. CASE Tick
    BY <1>1, <1>3 DEF Tick
<1>4. CASE Rotate
    BY <1>1, <1>4 DEF Rotate
<1>5. ASSUME NEW p \in Processes,
             Start(p) \/ NotLive(p) \/ ControlRaises(p) \/ Live(p) \/ Check(p) \/ Record(p)
      PROVE UNCHANGED <<provider, now, breachedAt>>
    BY <1>5 DEF Start, NotLive, ControlRaises, Live, Check, Record
<1>6. QED
    BY <1>1, <1>2, <1>3, <1>4, <1>5 DEF Next, vars

\* A step of one process leaves the run of another alone.
LEMMA OneRun ==
    ASSUME TypeOK, [Next]_vars, NEW q \in Processes
    PROVE \/ /\ pc'[q] = pc[q] /\ ranAt'[q] = ranAt[q]
             /\ outcome'[q] = outcome[q] /\ look'[q] = look[q]
          \/ Start(q) \/ NotLive(q) \/ ControlRaises(q) \/ Live(q) \/ Check(q) \/ Record(q)
<1>1. ASSUME NEW p \in Processes, p # q,
             Start(p) \/ NotLive(p) \/ ControlRaises(p) \/ Live(p) \/ Check(p) \/ Record(p)
      PROVE /\ pc'[q] = pc[q] /\ ranAt'[q] = ranAt[q]
            /\ outcome'[q] = outcome[q] /\ look'[q] = look[q]
    <2>1. CASE Start(p) \/ Live(p)
        BY <1>1, <2>1 DEF Start, Live, TypeOK
    <2>2. CASE NotLive(p)
        BY <1>1, <2>2 DEF NotLive, TypeOK
    <2>3. CASE ControlRaises(p)
        BY <1>1, <2>3 DEF ControlRaises, TypeOK
    <2>4. CASE Check(p)
        BY <1>1, <2>4 DEF Check, TypeOK
    <2>5. CASE Record(p)
        BY <1>1, <2>5 DEF Record, TypeOK
    <2>6. QED
        BY <1>1, <2>1, <2>2, <2>3, <2>4, <2>5
<1>2. CASE Tick \/ Write \/ Rotate \/ UNCHANGED vars
    BY <1>2 DEF Tick, Write, Rotate, vars, runVars
<1>3. QED
    BY <1>1, <1>2 DEF Next

LEMMA Next_RunsSupported == IInv /\ [Next]_vars => RunsSupported'
<1> SUFFICES ASSUME IInv, [Next]_vars, NEW q \in Processes
             PROVE /\ pc'[q] # "idle" => ranAt'[q] <= now'
                   /\ pc'[q] = "record" /\ outcome'[q] = PASS => Supports(look[q], ranAt[q])'
    BY DEF RunsSupported
<1>1. /\ TypeOK /\ RunsSupported /\ ranAt[q] \in Nat
      /\ pc[q] # "idle" => ranAt[q] <= now
    BY DEF IInv, RunsSupported, TypeOK
<1>2. /\ provider' = provider /\ now \in Nat /\ now' \in Nat /\ now <= now'
      /\ \/ breachedAt' = breachedAt \/ breachedAt' = Nothing
         \/ breachedAt = Nothing /\ breachedAt' = now
    BY <1>1, WorldMoves
<1>3. CASE /\ pc'[q] = pc[q] /\ ranAt'[q] = ranAt[q]
           /\ outcome'[q] = outcome[q] /\ look'[q] = look[q]
    <2>1. PICK l \in Look \cup {Nothing}, s \in Nat : l = look[q] /\ s = ranAt[q]
        BY <1>1 DEF TypeOK
    <2>2. ASSUME pc[q] = "record", outcome[q] = PASS PROVE Supports(l, s)'
        <3>1. Supports(l, s)
            BY <1>1, <2>1, <2>2 DEF RunsSupported
        <3>2. QED
            BY <1>1, <1>2, <3>1, SupportStays
    <2>3. QED
        BY <1>1, <1>2, <1>3, <2>1, <2>2 DEF Supports, SoundLook
<1>4. CASE Start(q) \/ Live(q)
    BY <1>1, <1>2, <1>4 DEF Start, Live, TypeOK
<1>5. CASE NotLive(q) \/ ControlRaises(q)
    <2>1. outcome'[q] # PASS
        BY <1>1, <1>5 DEF NotLive, ControlRaises, TypeOK, PASS, FAIL, UNWIRED
    <2>2. ranAt' = ranAt /\ pc[q] # "idle"
        BY <1>5 DEF NotLive, ControlRaises
    <2>3. QED
        BY <1>1, <1>2, <2>1, <2>2
<1>6. CASE Check(q)
    <2>1. ranAt' = ranAt /\ pc[q] # "idle" /\ now' = now /\ breachedAt' = breachedAt
        BY <1>6 DEF Check
    <2>2. outcome'[q] = PASS => Supports(look'[q], ranAt[q])
        BY <1>6, CheckSupports
    <2>3. QED
        BY <1>1, <1>2, <2>1, <2>2 DEF Supports, SoundLook
<1>7. CASE Record(q)
    BY <1>1, <1>7 DEF Record, TypeOK
<1>8. QED
    BY <1>1, <1>3, <1>4, <1>5, <1>6, <1>7, OneRun

LEMMA Next_StoreSupported == IInv /\ [Next]_vars => StoreSupported'
<1> SUFFICES ASSUME IInv, [Next]_vars, store'[Control] # NoRecord
             PROVE /\ store'[Control].issued_at <= now'
                   /\ store'[Control].result => Supports(basis, store[Control].issued_at)'
    BY DEF StoreSupported
<1>1. TypeOK /\ RunsSupported /\ StoreSupported /\ Control \in Controls
    BY ControlAssumption DEF IInv
<1>2. /\ provider' = provider /\ now \in Nat /\ now' \in Nat /\ now <= now'
      /\ \/ breachedAt' = breachedAt \/ breachedAt' = Nothing
         \/ breachedAt = Nothing /\ breachedAt' = now
    BY <1>1, WorldMoves
<1>3. CASE store' = store /\ basis' = basis
    <2>1. store[Control].issued_at \in Nat /\ store[Control].issued_at <= now
        BY <1>1, <1>3, NoRecordAssumption DEF StoreSupported, TypeOK, Store, Attestation
    <2>2. PICK l \in Look \cup {Nothing}, s \in Nat : l = basis /\ s = store[Control].issued_at
        BY <1>1, <2>1 DEF TypeOK
    <2>3. ASSUME store[Control].result PROVE Supports(l, s)'
        <3>1. Supports(l, s)
            BY <1>1, <1>3, <2>2, <2>3 DEF StoreSupported
        <3>2. QED
            BY <1>1, <1>2, <3>1, SupportStays
    <2>4. QED
        BY <1>2, <1>3, <2>1, <2>2, <2>3 DEF Supports, SoundLook
<1>4. ASSUME NEW p \in Processes, Record(p), store' # store
      PROVE /\ store'[Control].issued_at <= now'
            /\ store'[Control].result => Supports(basis, store[Control].issued_at)'
    <2>1. store'[Control] = ToAttestation(p) /\ basis' = look[p]
        BY <1>1, <1>4, AttestationIs DEF Record, Recorded, TypeOK, Store
    <2>2. pc[p] = "record" /\ now' = now /\ breachedAt' = breachedAt
        BY <1>4 DEF Record
    <2>3. store'[Control].issued_at = ranAt[p] /\ (store'[Control].result <=> outcome[p] = PASS)
        BY <1>1, <2>1, AttestationIs
    <2>4. /\ ranAt[p] <= now
          /\ outcome[p] = PASS => Supports(look[p], ranAt[p])
        BY <1>1, <2>2 DEF RunsSupported
    <2>5. QED
        BY <1>2, <2>1, <2>2, <2>3, <2>4 DEF Supports, SoundLook
<1>5. QED
    BY <1>3, <1>4
       DEF Next, Tick, Write, Rotate, Start, NotLive, ControlRaises, Live, Check, Record, vars

LEMMA Invariant == Spec => []IInv
<1>1. IInv /\ [Next]_vars => IInv'
    BY Next_TypeOK, Next_RunsSupported, Next_StoreSupported, Next_BreachInLog, Next_LiveKept DEF IInv
<1>2. QED
    BY Init_IInv, <1>1, PTL DEF Spec

-----------------------------------------------------------------------------
\* A control holds by a passing record within its window.
LEMMA CurrentMeans ==
    ASSUME IInv, Current
    PROVE LET s == store[Control].issued_at IN
          /\ s \in Nat /\ MaxAge[Control] \in Nat /\ now \in Nat
          /\ s <= now /\ now - s <= MaxAge[Control]
          /\ Supports(basis, s)
<1>1. TypeOK /\ StoreSupported /\ MaxAge[Control] \in Nat
    BY ControlAssumption, MaxAgeAssumption DEF IInv
<1>2. /\ store[Control] # NoRecord /\ store[Control].result
      /\ now >= store[Control].issued_at
      /\ now - store[Control].issued_at <= MaxAge[Control]
    BY DEF Current, Holds, IsCurrent
<1>3. store[Control].issued_at \in Nat /\ now \in Nat
    BY <1>1, <1>2, ControlAssumption DEF TypeOK, Store, Attestation
<1>4. QED
    BY <1>1, <1>2, <1>3 DEF StoreSupported

\* A control that holds rests on a look, within its window, at a log that
\* passed the audit; an unwired provider never has one.
THEOREM LookHolds == Spec => []HoldsRestsOnLook
<1>1. IInv => HoldsRestsOnLook
    <2> SUFFICES ASSUME IInv, Current
                 PROVE /\ provider # "unwired"
                       /\ basis # Nothing
                       /\ basis.at \in (now - MaxAge[Control])..now
                       /\ provider \in Kinds =>
                            basis.log # NoFile /\ Audit(provider, basis.log, basis.at) = PASS
        BY DEF HoldsRestsOnLook
    <2> DEFINE s == store[Control].issued_at
    <2>1. /\ s \in Nat /\ MaxAge[Control] \in Nat /\ now \in Nat
          /\ now - s <= MaxAge[Control] /\ Supports(basis, s)
        BY CurrentMeans
    <2>2. SoundLook(basis) /\ s <= basis.at
        BY <2>1 DEF Supports
    <2>3. basis.at \in Nat
        BY <2>2 DEF SoundLook, IInv, TypeOK, Look
    <2>4. QED
        BY <2>1, <2>2, <2>3 DEF SoundLook
<1>2. QED
    BY <1>1, Invariant, PTL

\* A breach in the log takes the control down one window later at the latest,
\* whatever runs were under way when it was written.
THEOREM BreachHolds == Spec => []BreachIsNotOutlived
<1>1. IInv => BreachIsNotOutlived
    <2> SUFFICES ASSUME IInv, Current, breachedAt # Nothing
                 PROVE now <= breachedAt + MaxAge[Control]
        BY DEF BreachIsNotOutlived
    <2> DEFINE s == store[Control].issued_at
    <2>1. /\ s \in Nat /\ MaxAge[Control] \in Nat /\ now \in Nat
          /\ now - s <= MaxAge[Control] /\ Supports(basis, s)
        BY CurrentMeans
    <2>2. s <= breachedAt /\ breachedAt \in Nat
        BY <2>1 DEF Supports, IInv, TypeOK
    <2>3. QED
        BY <2>1, <2>2
<1>2. QED
    BY <1>1, Invariant, PTL

\* A control holds over an empty sample only if its log lost lines between the
\* positive control and the check of one run.
THEOREM EmptyHolds == Spec => []EmptyPassNeedsRotation
<1>1. IInv => EmptyPassNeedsRotation
    BY CurrentMeans DEF EmptyPassNeedsRotation, Supports, SoundLook
<1>2. QED
    BY <1>1, Invariant, PTL

\* What an audit concludes does not depend on the order of the lines.
THEOREM OrderHolds == Spec => []OrderDoesNotMatter
<1>1. TypeOK => OrderDoesNotMatter
    <2> SUFFICES ASSUME TypeOK, provider \in Kinds, log # NoFile,
                        NEW turn \in Bijection(1..Len(log), 1..Len(log))
                 PROVE Audit(provider, [n \in 1..Len(log) |-> log[turn[n]]], now)
                         = Audit(provider, log, now)
        BY DEF OrderDoesNotMatter
    <2> DEFINE m == [n \in 1..Len(log) |-> log[turn[n]]]
    <2>1. log \in Seq(Row) /\ Len(log) \in Nat /\ DOMAIN log = 1..Len(log)
        BY DEF TypeOK
    <2>2. /\ turn \in [1..Len(log) -> 1..Len(log)]
          /\ \A i, j \in 1..Len(log) : turn[i] = turn[j] => i = j
          /\ \A n \in 1..Len(log) : \E i \in 1..Len(log) : turn[i] = n
        BY DEF Bijection, Injection, Surjection, IsInjective
    <2>3. m \in Seq(Row) /\ DOMAIN m = 1..Len(log)
        BY <2>1, <2>2
    <2>4. Reordered(log, m, turn)
        BY <2>1, <2>2, <2>3 DEF Reordered
    <2> HIDE DEF m
    <2>5. Audit(provider, m, now) = Audit(provider, log, now)
        BY <2>1, <2>3, <2>4, SameAudit
    <2>6. QED
        BY <2>5 DEF m
<1>2. QED
    BY <1>1, TypeCorrect, PTL
=============================================================================
