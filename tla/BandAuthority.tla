---------------------------- MODULE BandAuthority ----------------------------
(***************************************************************************)
(* One call of BandResolver.authority on a registry's band graph:          *)
(* Registry.band_closure walks the prerequisites of a band with an         *)
(* explicit stack, and the resolver then takes the bands in that order,    *)
(* keeps the first one that is not attained, and collects the waivers the  *)
(* closure rests on.                                                       *)
(*                                                                         *)
(* What the attestations and the waivers say of a band's own controls is   *)
(* one of three words: all "held", some "waived" and none missing, or some *)
(* "missing".  The graph is any graph: load_registry refuses a cyclic one, *)
(* a Registry built directly does not, and band_closure has its own guard  *)
(* for it.  A depends_on list may name a band more than once, as           *)
(* load_registry takes the list of the registry file as it stands.         *)
(***************************************************************************)
EXTENDS Integers, Sequences, FiniteSets, Functions

CONSTANTS
    Bands,
    Lists,      \* Lists[b], bound: the depends_on lists of b considered
    Nobody      \* no blocker found

ASSUME BandsAssumption == IsFiniteSet(Bands) /\ Nobody \notin Bands
ASSUME ListsAssumption == \A b \in Bands : \A l \in Lists[b] : l \in Seq(Bands)

VARIABLES
    depends_on, \* band.depends_on, of every band
    own,        \* what holds of the band's own controls
    target,     \* the band asked about
    stack, seen, guard,     \* the locals of band_closure
    pc,
    resolved,   \* how many bands of `seen` have a status
    attained,   \* bands whose cached BandStatus says attained
    blocker,    \* first unattained band
    waived      \* bands whose status names a waiver

graphVars == <<depends_on, own, target>>
vars == <<depends_on, own, target, stack, seen, guard, pc, resolved, attained, blocker, waived>>

Conditions == {"held", "waived", "missing"}

deps == [b \in Bands |-> Range(depends_on[b])]
SeenSet == {seen[i] : i \in 1..Len(seen)}
Closed(C) == \A b \in C : deps[b] \subseteq C

\* The bands that have to be attained for b: the smallest closed set it is in.
Closure(b) == {x \in Bands : \A C \in SUBSET Bands : b \in C /\ Closed(C) => x \in C}

\* Mutant: one round for each band.
GuardLimitOnePerBand == Cardinality(Bands)

GuardLimit == Cardinality(Bands) * Cardinality(Bands) + 10

TypeOK ==
    /\ depends_on \in [Bands -> Seq(Bands)]
    /\ own \in [Bands -> Conditions]
    /\ target \in Bands
    /\ stack \in Seq(Bands)
    /\ seen \in Seq(Bands)
    /\ guard \in Nat
    /\ pc \in {"closing", "resolving", "granted", "blocked", "cycle"}
    /\ resolved \in Nat
    /\ attained \in SUBSET Bands
    /\ blocker \in Bands \cup {Nobody}
    /\ waived \in SUBSET Bands

Init ==
    /\ depends_on \in [Bands -> UNION Range(Lists)]
    /\ \A b \in Bands : depends_on[b] \in Lists[b]
    /\ own = [b \in Bands |-> "missing"]
    /\ target \in Bands
    /\ stack = <<target>>
    /\ seen = <<>>
    /\ guard = 0
    /\ pc = "closing"
    /\ resolved = 0
    /\ attained = {}
    /\ blocker = Nobody
    /\ waived = {}

-----------------------------------------------------------------------------
Top == stack[Len(stack)]
Popped == SubSeq(stack, 1, Len(stack) - 1)

\* The places of a depends_on list whose band is not collected yet.
Open(b) == {i \in 1..Len(depends_on[b]) : depends_on[b][i] \notin SeenSet}
Nth(S, k) == CHOOSE i \in S : Cardinality({j \in S : j <= i}) = k

\* Mutant: what is on the stack already is not pushed again.
UnresolvedOffStack(b) ==
    SelectSeq(depends_on[b], LAMBDA d : d \notin SeenSet \cup {stack[i] : i \in 1..Len(stack)})

\* What b still waits for, in the order of its list and as often as it is named.
Unresolved(b) == [k \in 1..Cardinality(Open(b)) |-> depends_on[b][Nth(Open(b), k)]]

\* Mutant: the guard counts down.
RoundCountingDown ==
    /\ pc = "closing"
    /\ stack # <<>>
    /\ guard < GuardLimit
    /\ guard' = guard - 1
    /\ UNCHANGED <<graphVars, pc, resolved, attained, blocker, waived>>

\* One more round of the loop: the guard is counted before anything is popped.
Round ==
    /\ pc = "closing"
    /\ stack # <<>>
    /\ guard < GuardLimit
    /\ guard' = guard + 1
    /\ UNCHANGED <<graphVars, pc, resolved, attained, blocker, waived>>

PopSeen ==
    /\ Round
    /\ Top \in SeenSet
    /\ stack' = Popped
    /\ UNCHANGED seen

PopBlocked ==
    /\ Round
    /\ Top \notin SeenSet
    /\ Unresolved(Top) # <<>>
    /\ stack' = stack \o Unresolved(Top)
    /\ UNCHANGED seen

PopReady ==
    /\ Round
    /\ Top \notin SeenSet
    /\ Unresolved(Top) = <<>>
    /\ stack' = Popped
    /\ seen' = Append(seen, Top)

\* CycleError: evaluate turns it into a denial.
GuardTrips ==
    /\ pc = "closing"
    /\ stack # <<>>
    /\ guard >= GuardLimit
    /\ pc' = "cycle"
    /\ guard' = guard + 1
    /\ UNCHANGED <<graphVars, stack, seen, resolved, attained, blocker, waived>>

\* Mutant: the bottom of the stack is left behind.
CloseEarly ==
    /\ pc = "closing"
    /\ Len(stack) <= 1
    /\ pc' = "resolving"
    /\ own' \in [Bands -> Conditions]
    /\ UNCHANGED <<depends_on, target, stack, seen, guard, resolved, attained, blocker, waived>>

\* The walk is over; only now are the store and the waivers consulted.
Close ==
    /\ pc = "closing"
    /\ stack = <<>>
    /\ pc' = "resolving"
    /\ own' \in [Bands -> Conditions]
    /\ UNCHANGED <<depends_on, target, stack, seen, guard, resolved, attained, blocker, waived>>

-----------------------------------------------------------------------------
BlockedBy(b) == {d \in deps[b] : d \notin attained}
Attained(b) == own[b] # "missing" /\ BlockedBy(b) = {}

\* Mutant: only the waivers of the band asked about are collected.
ResolveNextOwnWaivers ==
    /\ pc = "resolving"
    /\ resolved < Len(seen)
    /\ LET b == seen[resolved + 1] IN
         /\ attained' = IF Attained(b) THEN attained \cup {b} ELSE attained
         /\ blocker' = IF ~Attained(b) /\ blocker = Nobody THEN b ELSE blocker
         /\ waived' = IF own[b] = "waived" /\ b = target THEN waived \cup {b} ELSE waived
    /\ resolved' = resolved + 1
    /\ UNCHANGED <<graphVars, stack, seen, guard, pc>>

\* Mutant: the last unattained band is kept for the blocker.
ResolveNextLastBlocker ==
    /\ pc = "resolving"
    /\ resolved < Len(seen)
    /\ LET b == seen[resolved + 1] IN
         /\ attained' = IF Attained(b) THEN attained \cup {b} ELSE attained
         /\ blocker' = IF ~Attained(b) THEN b ELSE blocker
         /\ waived' = IF own[b] = "waived" THEN waived \cup {b} ELSE waived
    /\ resolved' = resolved + 1
    /\ UNCHANGED <<graphVars, stack, seen, guard, pc>>

ResolveNext ==
    /\ pc = "resolving"
    /\ resolved < Len(seen)
    /\ LET b == seen[resolved + 1] IN
         /\ attained' = IF Attained(b) THEN attained \cup {b} ELSE attained
         /\ blocker' = IF ~Attained(b) /\ blocker = Nobody THEN b ELSE blocker
         /\ waived' = IF own[b] = "waived" THEN waived \cup {b} ELSE waived
    /\ resolved' = resolved + 1
    /\ UNCHANGED <<graphVars, stack, seen, guard, pc>>

\* Mutant: a blocked band gets no answer.
FinishWhenGranted ==
    /\ pc = "resolving"
    /\ resolved = Len(seen)
    /\ blocker = Nobody
    /\ pc' = "granted"
    /\ UNCHANGED <<graphVars, stack, seen, guard, resolved, attained, blocker, waived>>

\* A blocked closure grants nothing, so it rests on no waiver.
Finish ==
    /\ pc = "resolving"
    /\ resolved = Len(seen)
    /\ pc' = IF blocker = Nobody THEN "granted" ELSE "blocked"
    /\ waived' = IF blocker = Nobody THEN waived ELSE {}
    /\ UNCHANGED <<graphVars, stack, seen, guard, resolved, attained, blocker>>

Next ==
    \/ PopSeen \/ PopBlocked \/ PopReady \/ GuardTrips \/ Close
    \/ ResolveNext \/ Finish

Spec == Init /\ [][Next]_vars

FairSpec == Spec /\ WF_vars(Next)

-----------------------------------------------------------------------------
\* band_closure puts a band behind every band it depends on, and only once: the
\* resolver's recursion therefore always finds a prerequisite in its cache.
DependencyOrder ==
    \A i \in 1..Len(seen) :
      /\ \A d \in deps[seen[i]] : \E j \in 1..(i - 1) : seen[j] = d
      /\ \A j \in 1..(i - 1) : seen[j] # seen[i]

\* Once the walk is over, it has collected exactly the bands the target needs.
ClosureExact == pc \in {"resolving", "granted", "blocked"} => SeenSet = Closure(target)

\* Authority is granted only when every band the target needs has its own
\* controls held or waived, and it is then reported as resting on every band of
\* the closure that is waived and on no other (resolver.py, authority).
GrantCoversClosure ==
    pc = "granted" =>
      /\ \A b \in Closure(target) : own[b] # "missing"
      /\ waived = {b \in Closure(target) : own[b] = "waived"}

\* A denial names a root cause: a needed band with controls of its own missing,
\* all of whose prerequisites are attained; and it names no waiver.
BlockerIsRootCause ==
    pc = "blocked" =>
      /\ blocker \in Closure(target)
      /\ own[blocker] = "missing"
      /\ \A b \in Closure(blocker) \ {blocker} : own[b] # "missing"
      /\ waived = {}

\* The loop guard is paid for by lists that name fewer bands than there are: then
\* CycleError is raised only on a cycle within reach of the target, and an
\* acyclic registry is never denied by it.  load_registry does not ensure it: a
\* list that names one band often enough is pushed mention by mention, and its
\* registry is denied without a cycle.  A cyclic one never gets an answer.
ReachableCycle ==
    \E C \in SUBSET Closure(target) : C # {} /\ \A b \in C : deps[b] \cap C # {}
LongList == \E b \in Closure(target) : Len(depends_on[b]) >= Cardinality(Bands)
CycleErrorExact ==
    /\ pc = "cycle" => ReachableCycle \/ LongList
    /\ pc \in {"resolving", "granted", "blocked"} => ~ReachableCycle

\* Whatever the graph, the call ends (it is plain sequential code).
Answers == <>(pc \in {"granted", "blocked", "cycle"})
=============================================================================
