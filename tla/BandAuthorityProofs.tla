-------------------------- MODULE BandAuthorityProofs --------------------------
(***************************************************************************)
(* Theorems about BandAuthority for every finite set of bands and every    *)
(* graph over it.  The argument needs nothing of the order in which the    *)
(* prerequisites are pushed: whatever is pushed is needed (ReachInv), the  *)
(* target stays at the bottom of the stack until it is collected (RootInv) *)
(* and a band is collected only behind its prerequisites                   *)
(* (DependencyOrder), so what has been collected at the end is the smallest *)
(* closed set with the target in it.  While every list is shorter than the *)
(* set of bands, the guard is met only on a cycle: the places of the stack *)
(* whose prerequisites were pushed are a path, and the rounds left pay for *)
(* every push (GuardInv).                                                  *)
(***************************************************************************)
EXTENDS BandAuthority, FiniteSetTheorems, SequenceTheorems, WellFoundedInduction, TLAPS

StackSet == {stack[i] : i \in 1..Len(stack)}

\* Whatever is on the stack or collected is in every closed set around the target.
ReachInv ==
    \A C \in SUBSET Bands : target \in C /\ Closed(C) => StackSet \subseteq C /\ SeenSet \subseteq C

RootInv ==
    \/ target \in SeenSet
    \/ pc \in {"closing", "cycle"} /\ stack # <<>> /\ stack[1] = target

WalkInv == TypeOK /\ DependencyOrder /\ ReachInv /\ RootInv

-----------------------------------------------------------------------------
LEMMA PoppedType ==
    ASSUME stack \in Seq(Bands), stack # <<>>
    PROVE  /\ Popped \in Seq(Bands)
           /\ Len(Popped) = Len(stack) - 1
           /\ \A i \in 1..Len(Popped) : i \in 1..Len(stack) /\ Popped[i] = stack[i]
           /\ Top \in Bands
           /\ Len(stack) \in 1..Len(stack)
<1>1. Len(stack) \in Nat /\ Len(stack) \in 1..Len(stack)
  OBVIOUS
<1>2. Top \in Bands
  BY <1>1 DEF Top
<1>3. 1 \in Int /\ Len(stack) - 1 \in Int /\ Len(stack) - 1 >= 0
  BY <1>1
<1>4. \A i \in 1..(Len(stack) - 1) : i \in 1..Len(stack) /\ stack[i] \in Bands
  BY <1>1
<1>5. /\ Popped \in Seq(Bands)
      /\ Len(Popped) = IF 1 <= Len(stack) - 1 THEN (Len(stack) - 1) - 1 + 1 ELSE 0
      /\ \A i \in 1..((Len(stack) - 1) - 1 + 1) : Popped[i] = stack[1 + i - 1]
  BY <1>3, <1>4, SubSeqProperties DEF Popped
<1>6. Len(Popped) = Len(stack) - 1
  <2> DEFINE k == Len(stack)
  <2>1. CASE k = 1
    BY <2>1, <1>5
  <2>2. CASE k > 1
    BY <2>2, <1>1, <1>5
  <2>3. k \in Nat /\ k - 1 >= 0
    BY <1>1, <1>3
  <2> HIDE DEF k
  <2>4. k = 1 \/ k > 1
    BY <2>3
  <2> QED BY <2>1, <2>2, <2>4
<1>7. \A i \in 1..Len(Popped) : Popped[i] = stack[i]
  <2> SUFFICES ASSUME NEW i \in 1..Len(Popped) PROVE Popped[i] = stack[i]
    OBVIOUS
  <2>1. i \in 1..((Len(stack) - 1) - 1 + 1) /\ 1 + i - 1 = i
    BY <1>3, <1>6
  <2> QED BY <2>1, <1>5
<1> QED BY <1>1, <1>2, <1>4, <1>5, <1>6, <1>7

\* The k-th place of a finite set of places is one of them, and every one has a k.
LEMMA NthPlace ==
    ASSUME NEW n \in Nat, NEW S \in SUBSET (1..n)
    PROVE  /\ Cardinality(S) \in Nat /\ Cardinality(S) <= n
           /\ \A k \in 1..Cardinality(S) : Nth(S, k) \in S
           /\ \A i \in S : \E k \in 1..Cardinality(S) : Nth(S, k) = i
<1> DEFINE Upto(i) == {j \in S : j <= i}
           c == Cardinality(S)
           rank == [i \in S |-> Cardinality(Upto(i))]
<1>1. IsFiniteSet(1..n) /\ Cardinality(1..n) = n
  BY FS_Interval
<1>2. IsFiniteSet(S) /\ c \in Nat /\ c <= n
  <2>1. IsFiniteSet(S) /\ Cardinality(S) <= Cardinality(1..n)
    BY <1>1, FS_Subset
  <2> QED BY <1>1, <2>1, FS_CardinalityType
<1>3. ASSUME NEW i \in S
      PROVE  IsFiniteSet(Upto(i)) /\ Cardinality(Upto(i)) \in 1..c
  <2>1. IsFiniteSet(Upto(i)) /\ Cardinality(Upto(i)) <= c
    BY <1>2, FS_Subset
  <2>2. Cardinality(Upto(i)) \in Nat
    BY <2>1, FS_CardinalityType
  <2>3. Cardinality(Upto(i)) # 0
    <3>1. i \in Upto(i)
      OBVIOUS
    <3> QED BY <2>1, <3>1, FS_EmptySet
  <2> QED BY <1>2, <2>1, <2>2, <2>3
<1>4. ASSUME NEW i \in S, NEW j \in S, i < j
      PROVE  Cardinality(Upto(i)) < Cardinality(Upto(j))
  <2>1. IsFiniteSet(Upto(j) \ {j}) /\ Cardinality(Upto(j) \ {j}) = Cardinality(Upto(j)) - 1
    <3>1. j \in Upto(j) /\ IsFiniteSet(Upto(j))
      BY <1>3
    <3> HIDE DEF Upto
    <3> QED BY <3>1, FS_RemoveElement
  <2>2. Upto(i) \subseteq Upto(j) \ {j}
    <3>1. i \in Nat /\ j \in Nat /\ S \subseteq Nat
      OBVIOUS
    <3>2. \A x \in S : x <= i => x <= j /\ x # j
      BY <1>4, <3>1
    <3> QED BY <3>2
  <2>3. Cardinality(Upto(i)) <= Cardinality(Upto(j) \ {j})
    BY <2>1, <2>2, FS_Subset
  <2>4. Cardinality(Upto(i)) \in 1..c /\ Cardinality(Upto(j)) \in 1..c
    BY <1>3
  <2> HIDE DEF Upto, c
  <2> QED BY <1>2, <2>1, <2>3, <2>4
<1>5. \A i, j \in S : Cardinality(Upto(i)) = Cardinality(Upto(j)) => i = j
  <2> SUFFICES ASSUME NEW i \in S, NEW j \in S, i # j
               PROVE  Cardinality(Upto(i)) # Cardinality(Upto(j))
    OBVIOUS
  <2>1. Cardinality(Upto(i)) \in 1..c /\ Cardinality(Upto(j)) \in 1..c
    BY <1>3
  <2>2. i < j \/ j < i
    OBVIOUS
  <2>3. Cardinality(Upto(i)) < Cardinality(Upto(j)) \/ Cardinality(Upto(j)) < Cardinality(Upto(i))
    BY <1>4, <2>2
  <2> HIDE DEF Upto, c
  <2> QED BY <1>2, <2>1, <2>3
<1>6. rank \in [S -> 1..c]
  BY <1>3
<1>7. rank \in Injection(S, 1..c)
  <2>1. \A i, j \in S : rank[i] = rank[j] => i = j
    BY <1>5
  <2> HIDE DEF rank, c
  <2> QED BY <1>6, <2>1 DEF Injection, IsInjective
<1>8. rank \in Surjection(S, 1..c)
  <2>1. IsFiniteSet(1..c) /\ Cardinality(1..c) = c
    BY <1>2, FS_Interval
  <2> HIDE DEF rank
  <2> QED BY <1>2, <1>7, <2>1, FS_Injection
<1>9. ASSUME NEW k \in 1..c
      PROVE  Nth(S, k) \in S /\ Cardinality(Upto(Nth(S, k))) = k
  <2>1. \E i \in S : rank[i] = k
    <3> HIDE DEF rank
    <3> QED BY <1>8 DEF Surjection
  <2>2. \E i \in S : Cardinality({j \in S : j <= i}) = k
    BY <2>1
  <2> QED BY <2>2 DEF Nth
<1>10. ASSUME NEW i \in S
       PROVE  \E k \in 1..c : Nth(S, k) = i
  <2>1. PICK k \in 1..c : k = Cardinality(Upto(i))
    BY <1>3
  <2>2. Nth(S, k) \in S /\ Cardinality(Upto(Nth(S, k))) = Cardinality(Upto(i))
    BY <1>9, <2>1
  <2> QED BY <1>5, <2>2
<1> QED BY <1>2, <1>9, <1>10

LEMMA DepsType ==
    ASSUME TypeOK
    PROVE  /\ deps \in [Bands -> SUBSET Bands]
           /\ \A b \in Bands : deps[b] = {depends_on[b][i] : i \in 1..Len(depends_on[b])}
<1>1. ASSUME NEW b \in Bands
      PROVE  /\ deps[b] = {depends_on[b][i] : i \in 1..Len(depends_on[b])}
             /\ deps[b] \subseteq Bands
  <2>1. depends_on[b] \in Seq(Bands) /\ DOMAIN depends_on[b] = 1..Len(depends_on[b])
    BY DEF TypeOK
  <2> QED BY <2>1 DEF deps, Range
<1> QED BY <1>1 DEF deps

LEMMA SameDeps == ASSUME UNCHANGED depends_on PROVE UNCHANGED deps
BY DEF deps

\* What a band still waits for can be pushed: it is a sequence of those of its
\* prerequisites that are not collected, and no longer than its list.
LEMMA UnresolvedType ==
    ASSUME TypeOK, NEW b \in Bands
    PROVE  /\ Unresolved(b) \in Seq(Bands)
           /\ \A i \in 1..Len(Unresolved(b)) : Unresolved(b)[i] \in deps[b] \ SeenSet
           /\ \A d \in deps[b] \ SeenSet : \E i \in 1..Len(Unresolved(b)) : Unresolved(b)[i] = d
           /\ Len(Unresolved(b)) <= Len(depends_on[b])
<1> DEFINE l == depends_on[b]
           O == Open(b)
           u == Unresolved(b)
<1>1. l \in Seq(Bands) /\ Len(l) \in Nat /\ \A i \in 1..Len(l) : l[i] \in Bands
  BY DEF TypeOK
<1>2. O \in SUBSET (1..Len(l)) /\ \A i \in 1..Len(l) : i \in O <=> l[i] \notin SeenSet
  BY DEF Open
<1>3. deps[b] = {l[i] : i \in 1..Len(l)}
  BY DepsType
<1>4. /\ Cardinality(O) \in Nat /\ Cardinality(O) <= Len(l)
      /\ \A k \in 1..Cardinality(O) : Nth(O, k) \in O
      /\ \A i \in O : \E k \in 1..Cardinality(O) : Nth(O, k) = i
  <2> HIDE DEF O, l
  <2> QED BY <1>1, <1>2, NthPlace
<1>5. u = [k \in 1..Cardinality(O) |-> l[Nth(O, k)]]
  BY DEF Unresolved
<1> HIDE DEF l, O, u
<1>6. \A k \in 1..Cardinality(O) : u[k] = l[Nth(O, k)] /\ u[k] \in Bands /\ u[k] \in deps[b] \ SeenSet
  BY <1>1, <1>2, <1>3, <1>4, <1>5
<1>7. u \in [1..Cardinality(O) -> Bands]
  BY <1>5, <1>6
<1>8. u \in Seq(Bands) /\ Len(u) = Cardinality(O)
  BY <1>4, <1>7
<1>9. ASSUME NEW d \in deps[b] \ SeenSet
      PROVE  \E k \in 1..Cardinality(O) : u[k] = d
  <2>1. PICK i \in 1..Len(l) : l[i] = d
    BY <1>3
  <2>2. i \in O
    BY <1>2, <2>1
  <2> QED BY <1>4, <1>6, <2>1, <2>2
<1>10. /\ u \in Seq(Bands)
       /\ \A i \in 1..Len(u) : u[i] \in deps[b] \ SeenSet
       /\ \A d \in deps[b] \ SeenSet : \E i \in 1..Len(u) : u[i] = d
       /\ Len(u) <= Len(l)
  BY <1>4, <1>6, <1>8, <1>9
<1> QED BY <1>10 DEF u, l

LEMMA InitWalk == Init => WalkInv
<1> SUFFICES ASSUME Init PROVE WalkInv
  OBVIOUS
<1>1. TypeOK
  <2>1. depends_on \in [Bands -> Seq(Bands)]
    BY ListsAssumption DEF Init
  <2> QED BY <2>1 DEF Init, TypeOK, Conditions
<1>2. StackSet = {target} /\ SeenSet = {}
  BY DEF Init, StackSet, SeenSet
<1>3. DependencyOrder /\ ReachInv /\ RootInv
  BY <1>2 DEF Init, DependencyOrder, ReachInv, RootInv
<1> QED BY <1>1, <1>3 DEF WalkInv

LEMMA PopSeenStep == WalkInv /\ PopSeen => WalkInv'
<1> SUFFICES ASSUME WalkInv, PopSeen PROVE WalkInv'
  OBVIOUS
<1>1. /\ stack \in Seq(Bands) /\ stack # <<>> /\ stack' = Popped /\ Top \in SeenSet
      /\ UNCHANGED <<depends_on, deps, own, target, seen, pc, resolved, attained, blocker, waived>>
      /\ guard' = guard + 1 /\ pc = "closing"
  BY SameDeps DEF PopSeen, Round, graphVars, WalkInv, TypeOK
<1>2. TypeOK'
  BY <1>1, PoppedType DEF WalkInv, TypeOK
<1>3. SeenSet' = SeenSet /\ StackSet' \subseteq StackSet
  BY <1>1, PoppedType DEF SeenSet, StackSet
<1>4. DependencyOrder'
  BY <1>1 DEF WalkInv, DependencyOrder
<1>5. ReachInv'
  BY <1>1, <1>3 DEF WalkInv, ReachInv, Closed
<1>6. RootInv'
  <2>1. CASE target \in SeenSet
    BY <2>1, <1>1, <1>3 DEF RootInv
  <2>2. CASE target \notin SeenSet
    <3>1. stack[1] = target
      BY <2>2 DEF WalkInv, RootInv
    <3>2. Len(stack) # 1
      BY <3>1, <2>2, <1>1 DEF Top
    <3>3. Popped # <<>> /\ Popped[1] = stack[1]
      BY <3>2, <1>1, PoppedType
    <3> QED BY <3>1, <3>3, <1>1 DEF RootInv
  <2> QED BY <2>1, <2>2
<1> QED BY <1>2, <1>4, <1>5, <1>6 DEF WalkInv

LEMMA PopBlockedStep == WalkInv /\ PopBlocked => WalkInv'
<1> SUFFICES ASSUME WalkInv, PopBlocked PROVE WalkInv'
  OBVIOUS
<1> DEFINE u == Unresolved(Top)
<1>1. stack' = stack \o u
  BY DEF PopBlocked
<1>2. /\ stack \in Seq(Bands) /\ stack # <<>> /\ Top \in Bands
      /\ UNCHANGED <<depends_on, deps, own, target, seen, pc, resolved, attained, blocker, waived>>
      /\ guard' = guard + 1 /\ pc = "closing"
  BY PoppedType, SameDeps DEF PopBlocked, Round, graphVars, WalkInv, TypeOK
<1>3. u \in Seq(Bands) /\ \A i \in 1..Len(u) : u[i] \in deps[Top]
  BY <1>2, UnresolvedType DEF WalkInv
<1> HIDE DEF u
<1>4. /\ stack' \in Seq(Bands) /\ Len(stack') = Len(stack) + Len(u)
      /\ \A i \in 1..Len(stack) : stack'[i] = stack[i]
      /\ \A i \in 1..Len(stack') : i > Len(stack) =>
           i - Len(stack) \in 1..Len(u) /\ stack'[i] = u[i - Len(stack)]
  BY <1>1, <1>2, <1>3
<1>5. TypeOK'
  BY <1>2, <1>4 DEF WalkInv, TypeOK
<1>6. SeenSet' = SeenSet /\ StackSet' \subseteq StackSet \cup deps[Top] /\ Top \in StackSet
  <2>1. SeenSet' = SeenSet
    BY <1>2 DEF SeenSet
  <2>2. StackSet' \subseteq StackSet \cup deps[Top]
    <3> SUFFICES ASSUME NEW i \in 1..Len(stack') PROVE stack'[i] \in StackSet \cup deps[Top]
      BY DEF StackSet
    <3>1. CASE i \in 1..Len(stack)
      BY <3>1, <1>4 DEF StackSet
    <3>2. CASE i > Len(stack)
      BY <3>2, <1>3, <1>4
    <3> QED BY <3>1, <3>2, <1>2, <1>4
  <2>3. Top \in StackSet
    BY <1>2, PoppedType DEF Top, StackSet
  <2> QED BY <2>1, <2>2, <2>3
<1>7. DependencyOrder'
  BY <1>2 DEF WalkInv, DependencyOrder
<1>8. ReachInv'
  <2> SUFFICES ASSUME NEW C \in SUBSET Bands, target \in C, Closed(C)
               PROVE  StackSet' \subseteq C /\ SeenSet' \subseteq C
    BY <1>2 DEF ReachInv, Closed
  <2>1. StackSet \subseteq C /\ SeenSet \subseteq C
    BY DEF WalkInv, ReachInv
  <2>2. deps[Top] \subseteq C
    BY <2>1, <1>6 DEF Closed
  <2> QED BY <2>1, <2>2, <1>6
<1>9. RootInv'
  <2>1. 1 \in 1..Len(stack) /\ stack' # <<>>
    BY <1>2, <1>4
  <2> QED BY <2>1, <1>2, <1>4, <1>6 DEF WalkInv, RootInv
<1> QED BY <1>5, <1>7, <1>8, <1>9 DEF WalkInv

LEMMA PopReadyStep == WalkInv /\ PopReady => WalkInv'
<1> SUFFICES ASSUME WalkInv, PopReady PROVE WalkInv'
  OBVIOUS
<1>1. /\ stack \in Seq(Bands) /\ seen \in Seq(Bands) /\ stack # <<>>
      /\ stack' = Popped /\ seen' = Append(seen, Top)
      /\ Top \notin SeenSet /\ deps[Top] \subseteq SeenSet /\ Top \in Bands
      /\ UNCHANGED <<depends_on, deps, own, target, pc, resolved, attained, blocker, waived>>
      /\ guard' = guard + 1 /\ pc = "closing"
  <2>1. TypeOK /\ stack # <<>> /\ Unresolved(Top) = <<>>
    BY DEF PopReady, Round, WalkInv
  <2>2. Top \in Bands
    BY <2>1, PoppedType DEF TypeOK
  <2>3. deps[Top] \subseteq SeenSet
    BY <2>1, <2>2, UnresolvedType
  <2> QED BY <2>1, <2>2, <2>3, SameDeps DEF PopReady, Round, graphVars, TypeOK
<1>2. /\ seen' \in Seq(Bands) /\ Len(seen') = Len(seen) + 1 /\ seen'[Len(seen) + 1] = Top
      /\ \A i \in 1..Len(seen) : seen'[i] = seen[i]
  BY <1>1
<1>3. TypeOK'
  BY <1>1, <1>2, PoppedType DEF WalkInv, TypeOK
<1>4. SeenSet' = SeenSet \cup {Top} /\ StackSet' \subseteq StackSet /\ Top \in StackSet
  <2>1. SeenSet' = SeenSet \cup {Top}
    BY <1>1, <1>2 DEF SeenSet
  <2>2. StackSet' \subseteq StackSet /\ Top \in StackSet
    BY <1>1, PoppedType DEF StackSet, Top
  <2> QED BY <2>1, <2>2
<1>5. DependencyOrder'
  <2> SUFFICES ASSUME NEW i \in 1..Len(seen')
               PROVE  /\ \A d \in deps[seen'[i]] : \E j \in 1..(i - 1) : seen'[j] = d
                      /\ \A j \in 1..(i - 1) : seen'[j] # seen'[i]
    BY <1>1 DEF DependencyOrder
  <2>1. CASE i \in 1..Len(seen)
    <3>1. \A j \in 1..(i - 1) : j \in 1..Len(seen) /\ seen'[j] = seen[j]
      BY <2>1, <1>1, <1>2
    <3>2. seen'[i] = seen[i]
      BY <2>1, <1>2
    <3>3. /\ \A d \in deps[seen[i]] : \E j \in 1..(i - 1) : seen[j] = d
          /\ \A j \in 1..(i - 1) : seen[j] # seen[i]
      BY <2>1 DEF WalkInv, DependencyOrder
    <3> QED BY <3>1, <3>2, <3>3
  <2>2. CASE i = Len(seen) + 1
    <3>1. Len(seen) \in Nat /\ seen'[i] = Top /\ i - 1 = Len(seen)
      BY <2>2, <1>1, <1>2
    <3>2. \A d \in deps[Top] : \E j \in 1..Len(seen) : seen[j] = d
      BY <1>1 DEF SeenSet
    <3>3. \A j \in 1..Len(seen) : seen[j] # Top
      BY <1>1 DEF SeenSet
    <3>4. \A j \in 1..(i - 1) : j \in 1..Len(seen) /\ seen'[j] = seen[j]
      BY <3>1, <1>2
    <3>5. \A d \in deps[seen'[i]] : \E j \in 1..(i - 1) : seen'[j] = d
      BY <3>1, <3>2, <3>4
    <3>6. \A j \in 1..(i - 1) : seen'[j] # seen'[i]
      BY <3>1, <3>3, <3>4
    <3> QED BY <3>5, <3>6
  <2>3. i \in 1..Len(seen) \/ i = Len(seen) + 1
    <3>1. Len(seen) \in Nat /\ i \in 1..(Len(seen) + 1)
      BY <1>1, <1>2
    <3> QED BY <3>1
  <2> QED BY <2>1, <2>2, <2>3
<1>6. ReachInv'
  <2> SUFFICES ASSUME NEW C \in SUBSET Bands, target \in C, Closed(C)
               PROVE  StackSet' \subseteq C /\ SeenSet' \subseteq C
    BY <1>1 DEF ReachInv, Closed
  <2> QED BY <1>4 DEF WalkInv, ReachInv
<1>7. RootInv'
  <2>1. CASE target \in SeenSet
    BY <2>1, <1>1, <1>4 DEF RootInv
  <2>2. CASE target \notin SeenSet /\ Len(stack) = 1
    BY <2>2, <1>1, <1>4 DEF WalkInv, RootInv, Top
  <2>3. CASE target \notin SeenSet /\ Len(stack) # 1
    <3>1. Popped # <<>> /\ Popped[1] = stack[1]
      BY <2>3, <1>1, PoppedType
    <3> QED BY <2>3, <3>1, <1>1 DEF WalkInv, RootInv
  <2> QED BY <2>1, <2>2, <2>3
<1> QED BY <1>3, <1>5, <1>6, <1>7 DEF WalkInv

LEMMA WalkStep == WalkInv /\ [Next]_vars => WalkInv'
<1> SUFFICES ASSUME WalkInv, [Next]_vars PROVE WalkInv'
  OBVIOUS
<1>1. CASE PopSeen \/ PopBlocked \/ PopReady
  BY <1>1, PopSeenStep, PopBlockedStep, PopReadyStep
<1>2. ASSUME UNCHANGED <<deps, target, stack, seen>>, TypeOK', RootInv' PROVE WalkInv'
  <2>1. StackSet' = StackSet /\ SeenSet' = SeenSet
    BY <1>2 DEF StackSet, SeenSet
  <2>2. DependencyOrder' /\ ReachInv'
    BY <2>1, <1>2 DEF WalkInv, DependencyOrder, ReachInv, Closed
  <2> QED BY <2>2, <1>2 DEF WalkInv
<1>3. CASE UNCHANGED vars
  <2>1. TypeOK' /\ RootInv' /\ UNCHANGED <<deps, target, stack, seen>>
    BY <1>3, SameDeps DEF vars, WalkInv, TypeOK, RootInv, SeenSet
  <2> QED BY <2>1, <1>2
<1>4. CASE GuardTrips
  <2>1. TypeOK' /\ RootInv' /\ UNCHANGED <<deps, target, stack, seen>>
    BY <1>4, SameDeps DEF GuardTrips, graphVars, WalkInv, TypeOK, RootInv, SeenSet
  <2> QED BY <2>1, <1>2
<1>5. CASE Close
  <2>1. TypeOK' /\ RootInv' /\ UNCHANGED <<deps, target, stack, seen>>
    BY <1>5, SameDeps DEF Close, WalkInv, TypeOK, RootInv, SeenSet
  <2> QED BY <2>1, <1>2
<1>6. CASE ResolveNext
  <2>1. seen[resolved + 1] \in Bands
    BY <1>6 DEF ResolveNext, WalkInv, TypeOK
  <2>2. TypeOK'
    BY <1>6, <2>1 DEF ResolveNext, graphVars, WalkInv, TypeOK
  <2>3. RootInv' /\ UNCHANGED <<deps, target, stack, seen>>
    BY <1>6, SameDeps DEF ResolveNext, graphVars, WalkInv, RootInv, SeenSet
  <2> QED BY <2>2, <2>3, <1>2
<1>7. CASE Finish
  <2>1. TypeOK'
    BY <1>7 DEF Finish, graphVars, WalkInv, TypeOK
  <2>2. RootInv' /\ UNCHANGED <<deps, target, stack, seen>>
    BY <1>7, SameDeps DEF Finish, graphVars, WalkInv, RootInv, SeenSet
  <2> QED BY <2>1, <2>2, <1>2
<1> QED BY <1>1, <1>3, <1>4, <1>5, <1>6, <1>7 DEF Next

LEMMA WalkAlways == Spec => []WalkInv
<1> QED BY InitWalk, WalkStep, PTL DEF Spec

\* What has been collected when the target is in it is the target's closure.
LEMMA CollectedIsClosure ==
    ASSUME WalkInv, target \in SeenSet
    PROVE  SeenSet = Closure(target)
<1>1. SeenSet \in SUBSET Bands
  BY DEF WalkInv, TypeOK, SeenSet
<1>2. Closed(SeenSet)
  <2> SUFFICES ASSUME NEW i \in 1..Len(seen), NEW d \in deps[seen[i]] PROVE d \in SeenSet
    BY DEF Closed, SeenSet
  <2>1. PICK j \in 1..(i - 1) : seen[j] = d
    BY DEF WalkInv, DependencyOrder
  <2>2. j \in 1..Len(seen)
    BY DEF WalkInv, TypeOK
  <2> QED BY <2>1, <2>2 DEF SeenSet
<1>3. ASSUME NEW x \in SeenSet PROVE x \in Closure(target)
  BY <1>1, <1>3 DEF WalkInv, ReachInv, Closure
<1>4. ASSUME NEW x \in Closure(target) PROVE x \in SeenSet
  BY <1>1, <1>2, <1>4 DEF Closure
<1> QED BY <1>3, <1>4

-----------------------------------------------------------------------------
\* What the resolver knows after the first `resolved` candidates.
ResolveInv ==
    /\ pc \in {"closing", "cycle"} =>
         resolved = 0 /\ attained = {} /\ blocker = Nobody /\ waived = {}
    /\ pc \in {"granted", "blocked"} => resolved = Len(seen)
    /\ pc = "granted" => blocker = Nobody
    /\ pc = "blocked" => blocker # Nobody
    /\ pc = "blocked" => waived = {}
    /\ resolved <= Len(seen)
    /\ \A b \in attained : own[b] # "missing"
    /\ blocker = Nobody => \A i \in 1..resolved : seen[i] \in attained
    /\ blocker # Nobody =>
         \E k \in 1..resolved :
           /\ seen[k] = blocker
           /\ own[blocker] = "missing"
           /\ \A j \in 1..(k - 1) : seen[j] \in attained
    /\ pc # "blocked" => waived = {b \in {seen[i] : i \in 1..resolved} : own[b] = "waived"}

LEMMA InitResolve == Init => ResolveInv
BY DEF Init, ResolveInv

LEMMA ResolveNextStep == WalkInv /\ ResolveInv /\ ResolveNext => ResolveInv'
<1> SUFFICES ASSUME WalkInv, ResolveInv, ResolveNext PROVE ResolveInv'
  OBVIOUS
<1> DEFINE n == resolved + 1
           b == seen[n]
<1>1. /\ resolved \in Nat /\ Len(seen) \in Nat /\ n \in 1..Len(seen) /\ b \in Bands
      /\ pc = "resolving" /\ resolved' = n
      /\ UNCHANGED <<deps, own, target, stack, seen, guard, pc>>
      /\ attained' = IF Attained(b) THEN attained \cup {b} ELSE attained
      /\ blocker' = IF ~Attained(b) /\ blocker = Nobody THEN b ELSE blocker
      /\ waived' = IF own[b] = "waived" THEN waived \cup {b} ELSE waived
  BY SameDeps DEF ResolveNext, graphVars, WalkInv, TypeOK
<1>2. \A d \in deps[b] : \E j \in 1..resolved : seen[j] = d
  BY <1>1 DEF WalkInv, DependencyOrder
<1>3. \A x \in attained' : own'[x] # "missing"
  BY <1>1 DEF ResolveInv, Attained
<1>4. blocker' = Nobody => \A i \in 1..n : seen[i] \in attained'
  <2> SUFFICES ASSUME blocker' = Nobody, NEW i \in 1..n PROVE seen[i] \in attained'
    OBVIOUS
  <2>1. blocker = Nobody /\ Attained(b)
    BY <1>1, BandsAssumption
  <2>2. CASE i = n
    BY <2>1, <2>2, <1>1
  <2>3. CASE i \in 1..resolved
    BY <2>1, <2>3, <1>1 DEF ResolveInv
  <2> QED BY <2>2, <2>3, <1>1
<1>5. blocker' # Nobody =>
        \E k \in 1..n :
          /\ seen[k] = blocker'
          /\ own[blocker'] = "missing"
          /\ \A j \in 1..(k - 1) : seen[j] \in attained'
  <2> SUFFICES ASSUME blocker' # Nobody
               PROVE  \E k \in 1..n :
                        /\ seen[k] = blocker'
                        /\ own[blocker'] = "missing"
                        /\ \A j \in 1..(k - 1) : seen[j] \in attained'
    OBVIOUS
  <2>1. CASE blocker # Nobody
    <3>1. PICK k \in 1..resolved :
            seen[k] = blocker /\ own[blocker] = "missing" /\ \A j \in 1..(k - 1) : seen[j] \in attained
      BY <2>1 DEF ResolveInv
    <3> QED BY <2>1, <3>1, <1>1
  <2>2. CASE blocker = Nobody
    <3>1. blocker' = b /\ ~Attained(b) /\ attained' = attained
      BY <2>2, <1>1
    <3>2. \A j \in 1..resolved : seen[j] \in attained
      BY <2>2 DEF ResolveInv
    <3>3. BlockedBy(b) = {}
      BY <3>2, <1>2 DEF BlockedBy
    <3>4. own[b] = "missing"
      BY <3>1, <3>3 DEF Attained
    <3>5. n \in 1..n /\ n - 1 = resolved
      BY <1>1
    <3> QED BY <3>1, <3>2, <3>4, <3>5
  <2> QED BY <2>1, <2>2
<1>6. waived' = {x \in {seen[i] : i \in 1..n} : own[x] = "waived"}
  <2>1. {seen[i] : i \in 1..n} = {seen[i] : i \in 1..resolved} \cup {b}
    BY <1>1
  <2>2. waived = {x \in {seen[i] : i \in 1..resolved} : own[x] = "waived"}
    BY <1>1 DEF ResolveInv
  <2> QED BY <2>1, <2>2, <1>1
<1>7. n <= Len(seen)
  BY <1>1
<1> QED BY <1>1, <1>3, <1>4, <1>5, <1>6, <1>7 DEF ResolveInv

LEMMA ResolveStep == WalkInv /\ ResolveInv /\ [Next]_vars => ResolveInv'
<1> SUFFICES ASSUME WalkInv, ResolveInv, [Next]_vars PROVE ResolveInv'
  OBVIOUS
<1>1. CASE UNCHANGED vars
  BY <1>1 DEF vars, ResolveInv
<1>2. CASE PopSeen \/ PopBlocked \/ GuardTrips
  <2>1. /\ pc = "closing" /\ pc' \in {"closing", "cycle"}
        /\ UNCHANGED <<own, seen, resolved, attained, blocker, waived>>
    BY <1>2 DEF PopSeen, PopBlocked, GuardTrips, Round, graphVars
  <2> QED BY <2>1 DEF ResolveInv
<1>3. CASE PopReady
  <2>1. /\ pc = "closing" /\ UNCHANGED <<own, pc, resolved, attained, blocker, waived>>
        /\ resolved = 0 /\ attained = {} /\ blocker = Nobody /\ waived = {}
        /\ Len(seen') \in Nat
    <3>1. pc = "closing" /\ UNCHANGED <<own, pc, resolved, attained, blocker, waived>>
      BY <1>3 DEF PopReady, Round, graphVars
    <3>2. TypeOK'
      BY <1>3, PopReadyStep DEF WalkInv
    <3> QED BY <3>1, <3>2 DEF ResolveInv, TypeOK
  <2> QED BY <2>1 DEF ResolveInv
<1>4. CASE Close
  BY <1>4 DEF Close, ResolveInv
<1>5. CASE ResolveNext
  BY <1>5, ResolveNextStep
<1>6. CASE Finish
  BY <1>6 DEF Finish, graphVars, ResolveInv
<1> QED BY <1>1, <1>2, <1>3, <1>4, <1>5, <1>6 DEF Next

LEMMA ResolveAlways == Spec => []ResolveInv
<1>1. Spec => []WalkInv
  BY WalkAlways
<1> QED BY <1>1, InitResolve, ResolveStep, PTL DEF Spec

-----------------------------------------------------------------------------
\* The walk and the resolution keep their types for any band graph.
THEOREM TypeCorrect == Spec => []TypeOK
<1>1. WalkInv => TypeOK
  BY DEF WalkInv
<1> QED BY <1>1, WalkAlways, PTL

\* band_closure returns a topological order without repetition, whatever the
\* graph and whatever the order of its depends_on lists.
THEOREM AlwaysInDependencyOrder == Spec => []DependencyOrder
<1>1. WalkInv => DependencyOrder
  BY DEF WalkInv
<1> QED BY <1>1, WalkAlways, PTL

\* When band_closure returns, it returns the smallest set of bands that holds
\* the target and every prerequisite of its members.
THEOREM ClosureAlwaysExact == Spec => []ClosureExact
<1>1. WalkInv => ClosureExact
  BY CollectedIsClosure DEF WalkInv, RootInv, ClosureExact
<1> QED BY <1>1, WalkAlways, PTL

\* Authority is granted only over a closure with no control missing, and names
\* all the waivers it rests on.
THEOREM GrantAlwaysCovers == Spec => []GrantCoversClosure
<1>1. WalkInv /\ ResolveInv => GrantCoversClosure
  <2> SUFFICES ASSUME WalkInv, ResolveInv, pc = "granted"
               PROVE  /\ \A b \in Closure(target) : own[b] # "missing"
                      /\ waived = {b \in Closure(target) : own[b] = "waived"}
    BY DEF GrantCoversClosure
  <2>1. SeenSet = Closure(target)
    BY CollectedIsClosure DEF WalkInv, RootInv
  <2>2. resolved = Len(seen) /\ blocker = Nobody
    BY DEF ResolveInv
  <2>3. \A b \in SeenSet : own[b] # "missing"
    BY <2>2 DEF ResolveInv, SeenSet
  <2>4. waived = {b \in SeenSet : own[b] = "waived"}
    BY <2>2 DEF ResolveInv, SeenSet
  <2> QED BY <2>1, <2>3, <2>4
<1> QED BY <1>1, WalkAlways, ResolveAlways, PTL

\* A denial is reported at a root cause: the band it names lacks controls of its
\* own while everything that band depends on is satisfied.
THEOREM BlockerAlwaysRootCause == Spec => []BlockerIsRootCause
<1>1. WalkInv /\ ResolveInv => BlockerIsRootCause
  <2> SUFFICES ASSUME WalkInv, ResolveInv, pc = "blocked"
               PROVE  /\ blocker \in Closure(target)
                      /\ own[blocker] = "missing"
                      /\ \A b \in Closure(blocker) \ {blocker} : own[b] # "missing"
                      /\ waived = {}
    BY DEF BlockerIsRootCause
  <2>1. PICK k \in 1..resolved :
          seen[k] = blocker /\ own[blocker] = "missing" /\ \A j \in 1..(k - 1) : seen[j] \in attained
    BY DEF ResolveInv
  <2>2. k \in 1..Len(seen) /\ seen \in Seq(Bands) /\ blocker \in Bands
    BY <2>1 DEF ResolveInv, WalkInv, TypeOK
  <2>3. blocker \in Closure(target)
    BY <2>1, <2>2, CollectedIsClosure DEF WalkInv, RootInv, SeenSet
  <2> DEFINE C == {seen[j] : j \in 1..k}
  <2>4. C \in SUBSET Bands /\ blocker \in C
    BY <2>1, <2>2
  <2>5. Closed(C)
    <3> SUFFICES ASSUME NEW i \in 1..k, NEW d \in deps[seen[i]] PROVE d \in C
      BY DEF Closed, WalkInv, TypeOK
    <3>1. i \in 1..Len(seen)
      BY <2>2
    <3>2. PICK j \in 1..(i - 1) : seen[j] = d
      BY <3>1 DEF WalkInv, DependencyOrder
    <3>3. j \in 1..k
      BY <2>2, <3>1, <3>2
    <3> QED BY <3>2, <3>3
  <2>6. Closure(blocker) \subseteq C
    BY <2>4, <2>5 DEF Closure
  <2>7. ASSUME NEW b \in C, b # blocker PROVE own[b] # "missing"
    <3>1. PICK j \in 1..k : seen[j] = b
      BY <2>7
    <3>2. j \in 1..(k - 1)
      BY <3>1, <2>7, <2>1, <2>2
    <3> QED BY <3>1, <3>2, <2>1 DEF ResolveInv
  <2> QED BY <2>1, <2>3, <2>6, <2>7 DEF ResolveInv
<1> QED BY <1>1, WalkAlways, ResolveAlways, PTL

-----------------------------------------------------------------------------
(***************************************************************************)
(* The loop guard.  A place of the stack is open when the band there was   *)
(* found waiting and its prerequisites were pushed.  Every other place     *)
(* was pushed for the nearest open one below it, so the open places are a  *)
(* path of the graph.  Without a cycle the band on top is then never the   *)
(* band of an open place below, each band is opened once, and the rounds   *)
(* are at most one per band opened and one per place ever pushed.          *)
(***************************************************************************)

N == Cardinality(Bands)

IsOpenings(P) ==
    /\ P \subseteq 1..Len(stack)
    /\ \A j \in 2..Len(stack) : \E i \in P :
         i < j /\ stack[j] \in deps[stack[i]] /\ \A k \in P : k < j => k <= i
    /\ \A i \in P : \A d \in deps[stack[i]] :
         d \in SeenSet \/ \E j \in 1..Len(stack) : i < j /\ stack[j] = d

\* The bands that may still be opened.
Unopened(P) == Bands \ (SeenSet \cup {stack[i] : i \in P})

RoundsLeft(P) == guard + Len(stack) + N * Cardinality(Unopened(P)) <= N * N + 1

GuardInv ==
    /\ pc = "cycle" => ReachableCycle \/ LongList
    /\ pc = "closing" /\ ~ReachableCycle /\ ~LongList =>
         \E P \in SUBSET (1..Len(stack)) : IsOpenings(P) /\ RoundsLeft(P)

-----------------------------------------------------------------------------
LEMMA LeastNat == \A S \in SUBSET Nat : S # {} => \E m \in S : \A n \in S : m <= n
<1> SUFFICES ASSUME NEW S, S \subseteq Nat, S # {}
             PROVE \E m \in S : \A n \in S : m <= n
  OBVIOUS
<1>1. PICK m \in S : \A n \in S : ~ (<<n, m>> \in OpToRel(<, Nat))
  BY NatLessThanWellFounded, WFMin, Zenon
<1>2. \A n \in S : ~(n < m)
  BY <1>1 DEF OpToRel
<1> QED BY <1>2

LEMMA BandsCount ==
    /\ N \in Nat
    /\ \A S \in SUBSET Bands : IsFiniteSet(S) /\ Cardinality(S) \in Nat /\ Cardinality(S) <= N
<1>1. N \in Nat
  BY BandsAssumption, FS_CardinalityType DEF N
<1>2. ASSUME NEW S \in SUBSET Bands
      PROVE  IsFiniteSet(S) /\ Cardinality(S) \in Nat /\ Cardinality(S) <= N
  <2>1. IsFiniteSet(S) /\ Cardinality(S) <= N
    BY <1>2, BandsAssumption, FS_Subset DEF N
  <2> QED BY <2>1, FS_CardinalityType
<1> QED BY <1>1, <1>2

\* A set without b is smaller than one with it.
LEMMA FewerWithout ==
    ASSUME NEW S \in SUBSET Bands, NEW T \in SUBSET S, NEW b \in S \ T
    PROVE  Cardinality(T) <= Cardinality(S) - 1
<1>1. IsFiniteSet(S) /\ Cardinality(S) \in Nat
  BY BandsCount
<1>2. IsFiniteSet(S \ {b}) /\ Cardinality(S \ {b}) = Cardinality(S) - 1
  BY <1>1, FS_RemoveElement
<1>3. T \subseteq S \ {b}
  OBVIOUS
<1>4. Cardinality(T) <= Cardinality(S \ {b})
  BY <1>2, <1>3, FS_Subset
<1> QED BY <1>2, <1>4

LEMMA Products ==
    /\ \A u \in Nat, v \in Nat : v <= u => N * v <= N * u
    /\ \A u \in Nat, v \in Nat : v <= u - 1 => N * v + N <= N * u
<1>1. N \in Nat
  BY BandsCount
<1>2. ASSUME NEW u \in Nat, NEW v \in Nat, v <= u PROVE N * v <= N * u
  <2>1. PICK w \in Nat : u = v + w
    <3>1. u - v \in Nat /\ u = v + (u - v)
      BY <1>2
    <3> QED BY <3>1
  <2>2. N * u = N * v + N * w /\ N * w >= 0 /\ N * v \in Nat
    BY <1>1, <2>1
  <2> QED BY <1>1, <2>1, <2>2
<1>3. ASSUME NEW u \in Nat, NEW v \in Nat, v <= u - 1 PROVE N * v + N <= N * u
  <2>1. N * (v + 1) <= N * u
    BY <1>2, <1>3
  <2>2. N * (v + 1) = N * v + N
    BY <1>1
  <2> QED BY <2>1, <2>2
<1> QED BY <1>2, <1>3

\* Whatever is on the stack is needed by the target.
LEMMA StackNeeded == WalkInv => StackSet \subseteq Closure(target)
<1> SUFFICES ASSUME WalkInv, NEW x \in StackSet PROVE x \in Closure(target)
  OBVIOUS
<1>1. x \in Bands
  BY DEF WalkInv, TypeOK, StackSet
<1>2. \A C \in SUBSET Bands : target \in C /\ Closed(C) => x \in C
  BY DEF WalkInv, ReachInv
<1> QED BY <1>1, <1>2 DEF Closure

\* The band on top is not that of an open place below it.
LEMMA TopIsNew ==
    ASSUME WalkInv, stack # <<>>, ~ReachableCycle, NEW P, IsOpenings(P),
           NEW i \in P, i < Len(stack)
    PROVE  stack[i] # Top
<1> SUFFICES ASSUME stack[i] = Top PROVE FALSE
  OBVIOUS
<1> DEFINE n == Len(stack)
           C == {stack[k] : k \in {m \in P : i <= m /\ m < n}}
<1>1. stack \in Seq(Bands) /\ n \in Nat /\ P \subseteq 1..n /\ Top = stack[n] /\ i \in 1..n
  BY DEF WalkInv, TypeOK, IsOpenings, Top
<1>2. C \in SUBSET Closure(target) /\ stack[i] \in C
  BY <1>1, StackNeeded DEF StackSet
<1>3. ASSUME NEW k \in P, i <= k, k < n
      PROVE  deps[stack[k]] \cap C # {}
  <2> DEFINE S == {m \in P \cup {n} : k < m}
  <2>1. S \in SUBSET Nat /\ n \in S
    <3>1. n \in S
      BY <1>3
    <3>2. 1..n \subseteq Nat /\ n \in Nat
      BY <1>1
    <3> QED BY <1>1, <3>1, <3>2
  <2>2. PICK m \in S : \A x \in S : m <= x
    <3> HIDE DEF S
    <3> QED BY <2>1, LeastNat
  <2>3. m \in 2..n /\ m <= n /\ k \in 1..n
    BY <1>1, <1>3, <2>2
  <2>4. PICK p \in P : p < m /\ stack[m] \in deps[stack[p]] /\ \A x \in P : x < m => x <= p
    BY <2>3 DEF IsOpenings
  <2>5. p = k
    <3>1. k <= p
      BY <2>2, <2>4
    <3>2. p \notin S
      BY <1>1, <2>2, <2>3, <2>4
    <3> QED BY <1>1, <2>3, <3>1, <3>2
  <2>6. stack[m] \in C
    <3>1. CASE m = n
      BY <1>1, <1>2, <3>1
    <3>2. CASE m # n
      BY <1>1, <1>3, <2>2, <2>3, <3>2
    <3> QED BY <3>1, <3>2
  <2> QED BY <2>4, <2>5, <2>6
<1>4. \A b \in C : deps[b] \cap C # {}
  BY <1>3
<1> HIDE DEF C
<1> QED BY <1>2, <1>4 DEF ReachableCycle

LEMMA SameCycle ==
    ASSUME UNCHANGED <<depends_on, deps, target>>
    PROVE  (ReachableCycle' <=> ReachableCycle) /\ (LongList' <=> LongList)
BY DEF ReachableCycle, LongList, Closure, Closed

\* Popping a place whose band is collected leaves a path of open places.
LEMMA PopOpenings ==
    ASSUME WalkInv, stack # <<>>, UNCHANGED <<deps, target>>, stack' = Popped,
           SeenSet' = SeenSet \cup {Top}, NEW P, IsOpenings(P), NEW n, n = Len(stack)
    PROVE  IsOpenings(P \ {n})' /\ Unopened(P \ {n})' \subseteq Unopened(P)
<1> DEFINE Q == P \ {n}
<1>1. /\ stack \in Seq(Bands) /\ n \in Nat \ {0} /\ P \subseteq 1..n /\ Top = stack[n]
      /\ Len(stack') = n - 1 /\ \A i \in 1..(n - 1) : i \in 1..n /\ stack'[i] = stack[i]
  BY PoppedType DEF WalkInv, TypeOK, IsOpenings, Top
<1>2. Q \subseteq 1..(n - 1)
  <2>1. \A i \in 1..n : i # n => i \in 1..(n - 1)
    BY <1>1
  <2> QED BY <1>1, <2>1
<1>3. ASSUME NEW j \in 2..(n - 1)
      PROVE  \E i \in Q : i < j /\ stack'[j] \in deps[stack'[i]] /\ \A k \in Q : k < j => k <= i
  <2>1. j \in 2..n /\ j < n /\ j \in 1..(n - 1)
    BY <1>1
  <2>2. PICK i \in P : i < j /\ stack[j] \in deps[stack[i]] /\ \A k \in P : k < j => k <= i
    BY <2>1 DEF IsOpenings
  <2>3. i \in Q /\ i \in 1..(n - 1)
    BY <1>1, <2>1, <2>2
  <2> QED BY <1>1, <2>1, <2>2, <2>3
<1>4. ASSUME NEW i \in Q, NEW d \in deps[stack'[i]]
      PROVE  d \in SeenSet' \/ \E j \in 1..(n - 1) : i < j /\ stack'[j] = d
  <2>1. i \in P /\ stack'[i] = stack[i]
    BY <1>1, <1>2
  <2>2. d \in SeenSet \/ \E j \in 1..n : i < j /\ stack[j] = d
    BY <2>1 DEF IsOpenings
  <2>3. CASE d \in SeenSet
    BY <2>3
  <2>4. ASSUME NEW j \in 1..n, i < j, stack[j] = d
        PROVE  d \in SeenSet' \/ \E m \in 1..(n - 1) : i < m /\ stack'[m] = d
    <3>1. CASE j = n
      BY <1>1, <2>4, <3>1
    <3>2. CASE j # n
      <4>1. j \in 1..(n - 1)
        BY <1>1, <3>2
      <4> QED BY <1>1, <2>4, <4>1
    <3> QED BY <3>1, <3>2
  <2> QED BY <2>2, <2>3, <2>4
<1>5. Unopened(Q)' \subseteq Unopened(P)
  <2>1. Unopened(Q)' = Bands \ (SeenSet' \cup {stack'[i] : i \in Q})
    BY DEF Unopened
  <2>2. \A i \in P : stack[i] = Top \/ (i \in Q /\ stack'[i] = stack[i])
    BY <1>1, <1>2
  <2> QED BY <2>1, <2>2 DEF Unopened
<1> HIDE DEF Q
<1>6. IsOpenings(Q)'
  BY <1>1, <1>2, <1>3, <1>4 DEF IsOpenings
<1> QED BY <1>5, <1>6 DEF Q

LEMMA PopGuard ==
    ASSUME WalkInv, Round, UNCHANGED <<deps, target>>, stack' = Popped,
           SeenSet' = SeenSet \cup {Top},
           NEW P \in SUBSET (1..Len(stack)), IsOpenings(P), RoundsLeft(P)
    PROVE  \E Q \in SUBSET (1..Len(stack')) : IsOpenings(Q)' /\ RoundsLeft(Q)'
<1>0. PICK n \in Nat : n = Len(stack)
  BY DEF WalkInv, TypeOK
<1> DEFINE Q == P \ {n}
           u == Cardinality(Unopened(P))
           v == Cardinality(Unopened(Q)')
<1>1. /\ stack # <<>> /\ guard' = guard + 1 /\ guard \in Nat
      /\ Len(stack) \in Nat /\ Len(stack') = Len(stack) - 1
  BY PoppedType DEF Round, WalkInv, TypeOK
<1>2. IsOpenings(Q)' /\ Unopened(Q)' \subseteq Unopened(P)
  BY <1>0, <1>1, PopOpenings
<1>3. IsFiniteSet(Unopened(P)) /\ u \in Nat
  <2>1. Unopened(P) \in SUBSET Bands
    BY DEF Unopened
  <2> QED BY <2>1, BandsCount
<1>4. v \in Nat /\ v <= u
  <2>1. Unopened(Q)' \in SUBSET Bands
    BY DEF Unopened
  <2> QED BY <2>1, <1>2, <1>3, BandsCount, FS_Subset
<1>5. N * v <= N * u /\ N * v \in Int /\ N * u \in Int /\ N * N \in Int
  BY <1>3, <1>4, Products, BandsCount
<1>6. guard + Len(stack) + N * u <= N * N + 1
  BY DEF RoundsLeft
<1>7. guard' + Len(stack') + N * v <= N * N + 1
  <2> HIDE DEF u, v
  <2> QED BY <1>1, <1>5, <1>6
<1>8. RoundsLeft(Q)'
  BY <1>7 DEF RoundsLeft, N
<1>9. Q \in SUBSET (1..Len(stack'))
  BY <1>2 DEF IsOpenings
<1> HIDE DEF Q
<1> QED BY <1>2, <1>8, <1>9

\* Opening the band on top, which no place below has opened.
LEMMA OpenGuard ==
    ASSUME WalkInv, PopBlocked, ~ReachableCycle, ~LongList,
           NEW P \in SUBSET (1..Len(stack)), IsOpenings(P), RoundsLeft(P)
    PROVE  \E Q \in SUBSET (1..Len(stack')) : IsOpenings(Q)' /\ RoundsLeft(Q)'
<1>0. PICK n \in Nat : n = Len(stack)
  BY DEF WalkInv, TypeOK
<1> DEFINE Q == P \cup {n}
<1>1. /\ stack \in Seq(Bands) /\ stack # <<>> /\ n \in Nat \ {0} /\ n \in 1..n /\ n = Len(stack)
      /\ Top \in Bands /\ Top = stack[n] /\ P \subseteq 1..n
      /\ Top \notin SeenSet /\ Unresolved(Top) # <<>>
      /\ UNCHANGED <<deps, target, seen>> /\ SeenSet' = SeenSet
      /\ guard' = guard + 1 /\ guard \in Nat
  BY <1>0, PoppedType, SameDeps DEF PopBlocked, Round, graphVars, WalkInv, TypeOK, Top, SeenSet
<1> DEFINE w == Unresolved(Top)
<1>2. stack' = stack \o w
  BY DEF PopBlocked
<1>3. /\ w \in Seq(Bands) /\ \A i \in 1..Len(w) : w[i] \in deps[Top] \ SeenSet
      /\ Len(w) <= Len(depends_on[Top]) /\ w # <<>>
      /\ \A d \in deps[Top] \ SeenSet : \E i \in 1..Len(w) : w[i] = d
  BY <1>1, UnresolvedType DEF WalkInv
<1> HIDE DEF w
<1>4. /\ Len(stack') = n + Len(w) /\ Len(w) \in Nat
      /\ \A i \in 1..n : i \in 1..Len(stack') /\ stack'[i] = stack[i]
      /\ \A i \in 1..Len(w) : n + i \in 1..Len(stack') /\ stack'[n + i] = w[i]
      /\ \A j \in 1..Len(stack') : j > n => stack'[j] \in deps[Top]
  <2>1. \A j \in 1..Len(stack') : j > n => j - n \in 1..Len(w) /\ stack'[j] = w[j - n]
    BY <1>1, <1>2, <1>3
  <2>2. \A i \in 1..Len(w) : n + i \in 1..Len(stack') /\ stack'[n + i] = w[i]
    BY <1>1, <1>2, <1>3
  <2>3. Len(stack') = n + Len(w) /\ Len(w) \in Nat
    <3>1. stack \in Seq(Bands) /\ w \in Seq(Bands)
      BY <1>1, <1>3
    <3>2. Len(stack \o w) = Len(stack) + Len(w) /\ Len(w) \in Nat
      BY <3>1
    <3> QED BY <1>1, <1>2, <3>2
  <2>4. \A i \in 1..n : i \in 1..Len(stack') /\ stack'[i] = stack[i]
    BY <1>1, <1>2, <1>3, <2>3
  <2>5. \A j \in 1..Len(stack') : j > n => stack'[j] \in deps[Top]
    BY <1>3, <2>1
  <2> QED BY <2>2, <2>3, <2>4, <2>5
<1>5. n \notin P
  <2> SUFFICES ASSUME n \in P PROVE FALSE
    OBVIOUS
  <2>1. PICK d \in deps[Top] : d \notin SeenSet
    <3>1. 1 \in 1..Len(w)
      BY <1>3
    <3> QED BY <1>3, <3>1
  <2>2. \E j \in 1..n : n < j
    BY <1>1, <2>1 DEF IsOpenings
  <2> QED BY <1>1, <2>2
<1>6. Top \in Unopened(P)
  <2>1. ASSUME NEW i \in P PROVE stack[i] # Top
    <3>1. i < n
      BY <1>1, <1>5
    <3> QED BY <1>1, <3>1, TopIsNew
  <2> QED BY <1>1, <2>1 DEF Unopened
<1>7. ASSUME NEW j \in 2..Len(stack')
      PROVE  \E i \in Q : i < j /\ stack'[j] \in deps[stack'[i]] /\ \A k \in Q : k < j => k <= i
  <2>1. CASE j <= n
    <3>1. j \in 2..n /\ j \in 1..n
      BY <1>1, <2>1
    <3>2. PICK i \in P : i < j /\ stack[j] \in deps[stack[i]] /\ \A k \in P : k < j => k <= i
      BY <1>1, <3>1 DEF IsOpenings
    <3>3. stack'[j] = stack[j] /\ stack'[i] = stack[i] /\ ~(n < j)
      BY <1>1, <1>4, <2>1, <3>1
    <3> QED BY <3>2, <3>3
  <2>2. CASE j > n
    <3>1. n \in Q /\ stack'[n] = Top /\ stack'[j] \in deps[Top]
      BY <1>1, <1>4, <2>2
    <3>2. \A k \in Q : k <= n
      BY <1>1
    <3> QED BY <2>2, <3>1, <3>2
  <2> QED BY <1>1, <2>1, <2>2
<1>8. ASSUME NEW i \in Q, NEW d \in deps[stack'[i]]
      PROVE  d \in SeenSet \/ \E j \in 1..Len(stack') : i < j /\ stack'[j] = d
  <2>1. CASE i = n
    <3>1. d \in deps[Top]
      BY <1>1, <1>4, <2>1
    <3>2. CASE d \notin SeenSet
      <4>1. PICK m \in 1..Len(w) : w[m] = d
        BY <1>3, <3>1, <3>2
      <4>2. n + m \in 1..Len(stack') /\ stack'[n + m] = d /\ i < n + m
        BY <1>1, <1>4, <2>1, <4>1
      <4> QED BY <4>2
    <3> QED BY <3>2
  <2>2. CASE i \in P
    <3>1. stack'[i] = stack[i]
      BY <1>1, <1>4, <2>2
    <3>2. d \in SeenSet \/ \E j \in 1..n : i < j /\ stack[j] = d
      BY <1>1, <2>2, <3>1 DEF IsOpenings
    <3> QED BY <1>4, <3>2
  <2> QED BY <2>1, <2>2
<1>9. Q \subseteq 1..Len(stack')
  BY <1>1, <1>4
<1>10. Unopened(Q)' \subseteq Unopened(P) \ {Top}
  <2>1. Unopened(Q)' = Bands \ (SeenSet' \cup {stack'[i] : i \in Q})
    BY DEF Unopened
  <2>2. stack'[n] = Top /\ \A i \in P : stack'[i] = stack[i]
    BY <1>1, <1>4
  <2> QED BY <1>1, <2>1, <2>2 DEF Unopened
<1> HIDE DEF Q
<1>11. IsOpenings(Q)'
  BY <1>1, <1>7, <1>8, <1>9 DEF IsOpenings
<1>12. RoundsLeft(Q)'
  <2> DEFINE U == Unopened(P)
             V == Unopened(Q)'
             u == Cardinality(U)
             v == Cardinality(V)
  <2>1. U \in SUBSET Bands /\ V \in SUBSET U /\ Top \in U \ V
    BY <1>6, <1>10 DEF Unopened
  <2>2. u \in Nat /\ v \in Nat /\ v <= u - 1
    <3> HIDE DEF U, V
    <3>1. V \in SUBSET Bands
      BY <2>1
    <3> QED BY <2>1, <3>1, BandsCount, FewerWithout
  <2>3. N * v + N <= N * u /\ N * v \in Int /\ N * u \in Int /\ N * N \in Int /\ N \in Nat
    BY <2>2, Products, BandsCount
  <2>4. Len(w) <= N - 1
    <3>1. Top \in Closure(target)
      BY <1>1, StackNeeded DEF StackSet
    <3>2. ~(Len(depends_on[Top]) >= N)
      BY <3>1 DEF LongList, N
    <3>3. Len(depends_on[Top]) \in Nat /\ Len(w) \in Nat
      BY <1>1, <1>4 DEF WalkInv, TypeOK
    <3> QED BY <1>3, <3>2, <3>3, BandsCount
  <2>5. guard + n + N * u <= N * N + 1
    BY <1>1 DEF RoundsLeft
  <2> HIDE DEF u, v
  <2>6. guard' + Len(stack') + N * v <= N * N + 1
    <3>1. guard' = guard + 1 /\ Len(stack') = n + Len(w)
      BY <1>1, <1>4
    <3>2. guard \in Nat /\ n \in Nat /\ Len(w) \in Nat
      BY <1>1, <1>4
    <3> QED BY <2>3, <2>4, <2>5, <3>1, <3>2
  <2> QED BY <2>6 DEF RoundsLeft, N, v
<1> QED BY <1>9, <1>11, <1>12

LEMMA InitGuard == Init => GuardInv
<1> SUFFICES ASSUME Init PROVE GuardInv
  OBVIOUS
<1>1. /\ pc = "closing" /\ stack = <<target>> /\ guard = 0 /\ seen = <<>>
      /\ Len(stack) = 1 /\ SeenSet = {}
  BY DEF Init, SeenSet
<1>2. IsOpenings({})
  BY <1>1 DEF IsOpenings
<1>3. Unopened({}) = Bands
  BY <1>1 DEF Unopened
<1>4. RoundsLeft({})
  <2>1. N \in Nat /\ N * N \in Nat
    BY BandsCount
  <2>2. Cardinality(Unopened({})) = N
    BY <1>3 DEF N
  <2> QED BY <1>1, <2>1, <2>2 DEF RoundsLeft
<1> QED BY <1>1, <1>2, <1>4 DEF GuardInv

LEMMA GuardStep == WalkInv /\ GuardInv /\ [Next]_vars => GuardInv'
<1> SUFFICES ASSUME WalkInv, GuardInv, [Next]_vars PROVE GuardInv'
  OBVIOUS
<1>1. /\ UNCHANGED <<depends_on, deps, target>>
      /\ (ReachableCycle' <=> ReachableCycle) /\ (LongList' <=> LongList)
  <2>1. UNCHANGED <<depends_on, deps, target>>
    BY SameDeps DEF Next, PopSeen, PopBlocked, PopReady, Round, GuardTrips, Close, ResolveNext, Finish,
           graphVars, vars
  <2> QED BY <2>1, SameCycle
<1>2. CASE PopSeen \/ PopReady
  <2>1. /\ Round /\ pc = "closing" /\ pc' = "closing" /\ stack' = Popped
        /\ SeenSet' = SeenSet \cup {Top}
    <3>1. CASE PopSeen
      BY <3>1 DEF PopSeen, Round, SeenSet
    <3>2. CASE PopReady
      <4>1. seen' = Append(seen, Top) /\ seen \in Seq(Bands)
        BY <3>2 DEF PopReady, WalkInv, TypeOK
      <4>2. SeenSet' = SeenSet \cup {Top}
        BY <4>1 DEF SeenSet
      <4> QED BY <3>2, <4>2 DEF PopReady, Round
    <3> QED BY <1>2, <3>1, <3>2
  <2>2. ASSUME ~ReachableCycle, ~LongList
        PROVE  \E Q \in SUBSET (1..Len(stack')) : IsOpenings(Q)' /\ RoundsLeft(Q)'
    BY <1>1, <2>1, <2>2, PopGuard DEF GuardInv
  <2> QED BY <1>1, <2>1, <2>2 DEF GuardInv
<1>3. CASE PopBlocked
  <2>1. pc = "closing" /\ pc' = "closing"
    BY <1>3 DEF PopBlocked, Round
  <2>2. ASSUME ~ReachableCycle, ~LongList
        PROVE  \E Q \in SUBSET (1..Len(stack')) : IsOpenings(Q)' /\ RoundsLeft(Q)'
    BY <1>3, <2>1, <2>2, OpenGuard DEF GuardInv
  <2> QED BY <1>1, <2>1, <2>2 DEF GuardInv
<1>4. CASE GuardTrips
  <2>1. /\ pc = "closing" /\ pc' = "cycle" /\ Len(stack) \in Nat /\ guard \in Nat
        /\ guard >= N * N + 10
    BY <1>4 DEF GuardTrips, GuardLimit, N, WalkInv, TypeOK
  <2>2. ASSUME ~ReachableCycle, ~LongList PROVE FALSE
    <3>1. PICK P \in SUBSET (1..Len(stack)) : RoundsLeft(P)
      BY <2>1, <2>2 DEF GuardInv
    <3>2. Cardinality(Unopened(P)) \in Nat
      <4>1. Unopened(P) \in SUBSET Bands
        BY DEF Unopened
      <4> QED BY <4>1, BandsCount
    <3>3. N * Cardinality(Unopened(P)) \in Nat /\ N * N \in Nat
      BY <3>2, BandsCount
    <3> QED BY <2>1, <3>1, <3>3 DEF RoundsLeft
  <2> QED BY <1>1, <2>1, <2>2 DEF GuardInv
<1>5. CASE Close \/ ResolveNext \/ Finish
  <2>1. pc \notin {"cycle"} /\ pc' \notin {"closing", "cycle"}
    BY <1>5 DEF Close, ResolveNext, Finish
  <2> QED BY <2>1 DEF GuardInv
<1>6. CASE UNCHANGED vars
  <2>1. UNCHANGED <<pc, stack, guard, seen, deps>>
    BY <1>6, SameDeps DEF vars
  <2>2. \A P : IsOpenings(P)' <=> IsOpenings(P)
    BY <2>1 DEF IsOpenings, SeenSet
  <2>3. \A P : RoundsLeft(P)' <=> RoundsLeft(P)
    BY <2>1 DEF RoundsLeft, Unopened, SeenSet, N
  <2> QED BY <1>1, <2>1, <2>2, <2>3 DEF GuardInv
<1> QED BY <1>2, <1>3, <1>4, <1>5, <1>6 DEF Next

\* What is closed by a walk that ended is in dependency order, so it has no cycle.
LEMMA ClosedHasNoCycle ==
    ASSUME WalkInv, pc \in {"resolving", "granted", "blocked"}
    PROVE  ~ReachableCycle
<1>1. SeenSet = Closure(target)
  BY CollectedIsClosure DEF WalkInv, RootInv
<1> SUFFICES ASSUME NEW C \in SUBSET SeenSet, C # {}, \A b \in C : deps[b] \cap C # {}
             PROVE  FALSE
  BY <1>1 DEF ReachableCycle
<1> DEFINE S == {i \in 1..Len(seen) : seen[i] \in C}
<1>2. Len(seen) \in Nat
  BY DEF WalkInv, TypeOK
<1>3. S \in SUBSET Nat /\ S # {}
  BY DEF SeenSet
<1>4. PICK i \in S : \A j \in S : i <= j
  <2> HIDE DEF S
  <2> QED BY <1>3, LeastNat
<1>5. PICK d \in deps[seen[i]] : d \in C
  BY <1>4
<1>6. PICK j \in 1..(i - 1) : seen[j] = d
  BY <1>4, <1>5 DEF WalkInv, DependencyOrder
<1> QED BY <1>2, <1>4, <1>5, <1>6

\* CycleErrorExact: while every depends_on list within reach is shorter than the
\* set of bands, band_closure's guard of n * n + 10 rounds is met only on a cycle
\* within reach, in whatever order the lists are; and a graph with such a cycle
\* never gets an answer, whatever its lists.
THEOREM GuardIsExact == Spec => []CycleErrorExact
<1>1. WalkInv /\ GuardInv => CycleErrorExact
  BY ClosedHasNoCycle DEF GuardInv, CycleErrorExact
<1> QED BY <1>1, WalkAlways, InitGuard, GuardStep, PTL DEF Spec

\* Names no band twice.
RepeatFree(l) == \A i, j \in 1..Len(l) : i # j => l[i] # l[j]

\* A list without repeats as long as the set of bands names the band itself.
LEMMA RepeatFreeIsShort ==
    ASSUME TypeOK, NEW b \in Bands, RepeatFree(depends_on[b]), b \notin deps[b]
    PROVE  Len(depends_on[b]) < Cardinality(Bands)
<1> DEFINE l == depends_on[b]
<1>1. l \in Seq(Bands) /\ Len(l) \in Nat /\ DOMAIN l = 1..Len(l) /\ deps[b] = {l[i] : i \in 1..Len(l)}
  BY DepsType DEF TypeOK
<1>2. l \in Injection(1..Len(l), Bands \ {b})
  <2>1. l \in [1..Len(l) -> Bands \ {b}]
    BY <1>1
  <2>2. \A i, j \in 1..Len(l) : l[i] = l[j] => i = j
    BY DEF RepeatFree
  <2> HIDE DEF l
  <2> QED BY <2>1, <2>2 DEF Injection, IsInjective
<1>3. IsFiniteSet(Bands \ {b}) /\ Cardinality(Bands \ {b}) = N - 1
  BY BandsAssumption, FS_RemoveElement DEF N
<1>4. Cardinality(1..Len(l)) = Len(l)
  BY <1>1, FS_Interval
<1>5. Len(l) <= N - 1
  <2> HIDE DEF l
  <2> QED BY <1>2, <1>3, <1>4, FS_Injection
<1> QED BY <1>1, <1>5, BandsCount DEF N

\* With lists that name no band twice, which load_registry accepts and does not
\* ask for, CycleError is raised only on a graph with a cycle within reach.
THEOREM RepeatFreeIsExact ==
    Spec => []((\A b \in Bands : RepeatFree(depends_on[b])) => (pc = "cycle" => ReachableCycle))
<1>1. WalkInv /\ CycleErrorExact =>
        ((\A b \in Bands : RepeatFree(depends_on[b])) => (pc = "cycle" => ReachableCycle))
  <2> SUFFICES ASSUME WalkInv, \A b \in Bands : RepeatFree(depends_on[b]), LongList
               PROVE  ReachableCycle
    BY DEF CycleErrorExact
  <2>1. PICK b \in Closure(target) : Len(depends_on[b]) >= Cardinality(Bands)
    BY DEF LongList
  <2>2. b \in Bands /\ Len(depends_on[b]) \in Nat /\ Cardinality(Bands) \in Nat
    BY BandsCount DEF Closure, WalkInv, TypeOK, N
  <2>3. b \in deps[b]
    BY <2>1, <2>2, RepeatFreeIsShort DEF WalkInv
  <2>4. {b} \in SUBSET Closure(target) /\ \A x \in {b} : deps[x] \cap {b} # {}
    BY <2>3
  <2> QED BY <2>4 DEF ReachableCycle
<1> QED BY <1>1, WalkAlways, GuardIsExact, PTL

-----------------------------------------------------------------------------
\* A bound on the steps that are left.
StepsLeft ==
    CASE pc = "closing" -> 2 * (GuardLimit + 1 - guard) + Len(seen) + 3
      [] pc = "resolving" -> Len(seen) - resolved + 1
      [] OTHER -> 0

\* Every step of a call, on any graph, uses up one of the steps it had left, and
\* it starts with 2 * (n * n + 11) + 3: no input makes band_closure or authority
\* loop.  What a run checks as Answers adds only that a call which has not
\* answered has a next step.
THEOREM StepsRunOut == Spec => [][StepsLeft' \in Nat /\ StepsLeft' < StepsLeft]_vars
<1> DEFINE Within == pc = "closing" => guard <= GuardLimit
<1>1. GuardLimit \in Nat
  <2>1. N \in Nat /\ N * N \in Nat
    BY BandsCount
  <2> QED BY <2>1 DEF GuardLimit, N
<1>2. Init => Within
  BY <1>1 DEF Init
<1>3. Within /\ WalkInv /\ [Next]_vars => Within'
  <2> SUFFICES ASSUME Within, WalkInv, [Next]_vars PROVE Within'
    OBVIOUS
  <2>1. CASE Round
    BY <1>1, <2>1 DEF Round, WalkInv, TypeOK, GuardLimit
  <2> QED BY <2>1 DEF Next, PopSeen, PopBlocked, PopReady, GuardTrips, Close, ResolveNext, Finish,
                     vars, GuardLimit
<1>4. Within /\ WalkInv /\ ResolveInv /\ [Next]_vars =>
        [StepsLeft' \in Nat /\ StepsLeft' < StepsLeft]_vars
  <2> SUFFICES ASSUME Within, WalkInv, ResolveInv, Next
               PROVE  StepsLeft' \in Nat /\ StepsLeft' < StepsLeft
    OBVIOUS
  <2>1. /\ guard \in Nat /\ resolved \in Nat /\ Len(seen) \in Nat /\ seen \in Seq(Bands)
        /\ GuardLimit' = GuardLimit /\ resolved <= Len(seen)
    BY DEF WalkInv, TypeOK, ResolveInv, GuardLimit
  <2>2. CASE PopSeen \/ PopBlocked \/ PopReady
    <3>1. pc = "closing" /\ pc' = "closing" /\ guard < GuardLimit /\ guard' = guard + 1
      BY <2>2 DEF PopSeen, PopBlocked, PopReady, Round
    <3>2. Len(seen') \in {Len(seen), Len(seen) + 1}
      BY <2>1, <2>2 DEF PopSeen, PopBlocked, PopReady
    <3>3. StepsLeft = 2 * (GuardLimit + 1 - guard) + Len(seen) + 3
      BY <3>1 DEF StepsLeft
    <3>4. StepsLeft' = 2 * (GuardLimit + 1 - guard') + Len(seen') + 3
      BY <2>1, <3>1 DEF StepsLeft
    <3> QED BY <1>1, <2>1, <3>1, <3>2, <3>3, <3>4
  <2>3. CASE GuardTrips \/ Close
    <3>1. pc = "closing" /\ pc' \in {"cycle", "resolving"} /\ UNCHANGED <<seen, resolved>>
      BY <2>3 DEF GuardTrips, Close
    <3>2. StepsLeft = 2 * (GuardLimit + 1 - guard) + Len(seen) + 3
      BY <3>1 DEF StepsLeft
    <3>3. StepsLeft' = IF pc' = "resolving" THEN Len(seen) - resolved + 1 ELSE 0
      BY <3>1 DEF StepsLeft
    <3> QED BY <1>1, <2>1, <3>1, <3>2, <3>3
  <2>4. CASE ResolveNext
    <3>1. /\ pc = "resolving" /\ pc' = "resolving" /\ resolved < Len(seen)
          /\ resolved' = resolved + 1 /\ seen' = seen
      BY <2>4 DEF ResolveNext
    <3>2. StepsLeft = Len(seen) - resolved + 1 /\ StepsLeft' = Len(seen) - resolved' + 1
      BY <3>1 DEF StepsLeft
    <3> QED BY <2>1, <3>1, <3>2
  <2>5. CASE Finish
    <3>1. pc = "resolving" /\ pc' \in {"granted", "blocked"} /\ resolved = Len(seen)
      BY <2>5 DEF Finish
    <3>2. StepsLeft = Len(seen) - resolved + 1 /\ StepsLeft' = 0
      BY <3>1 DEF StepsLeft
    <3> QED BY <2>1, <3>1, <3>2
  <2> QED BY <2>2, <2>3, <2>4, <2>5 DEF Next
<1> QED BY <1>2, <1>3, <1>4, WalkAlways, ResolveAlways, PTL DEF Spec
=============================================================================
