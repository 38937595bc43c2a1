---------------------------- MODULE RoadmapProofs ----------------------------
(***************************************************************************)
(* Theorems about Roadmap for any documents, of any number of items, any   *)
(* registry and any answers of the commands.                               *)
(*                                                                         *)
(* RInv follows the recursion: what a frame has read is still what the     *)
(* cache says (a cached item is never settled again), the stack is a path  *)
(* of item gates, and a settled item that is READY stands on items that    *)
(* are.  Behind is the smallest set closed under item gates, so a set of   *)
(* READY items that is closed under them holds all an item waits on.       *)
(* Plain, the recursion without its stack, is what running the commands is *)
(* compared with; StepsRunOut bounds the steps of a command.               *)
(***************************************************************************)
EXTENDS Roadmap, FiniteSetTheorems, WellFoundedInduction, TLAPS

Loaded == GatesNamed /\ ReferencesResolve /\ Acyclic /\ FreezeIsReadable

\* The k-th frame has a verdict of gate g among those it read.
HasRead(k, g) ==
    IF g.kind = "item"
    THEN g.id \in DOMAIN cache /\ DependencyVerdict(g.id, cache[g.id].verdict) \in stack[k].read
    ELSE \E v \in LeafVerdicts(g, check) : v \in stack[k].read

FrameStands(k) ==
    /\ stack[k].item \in DOMAIN doc.items \ DOMAIN cache
    /\ stack[k].todo \subseteq doc.items[stack[k].item].gates
    /\ \A g \in doc.items[stack[k].item].gates \ stack[k].todo : HasRead(k, g)

\* What READY of a settled item rests on, one step down.
Stands(i) ==
    /\ cache[i].verdict = READY =>
         /\ doc.items[i].gates = {} => doc.items[i].ungatedBecause
         /\ \A g \in doc.items[i].gates \ ItemGates(i) : READY \in LeafVerdicts(g, check)
         /\ \A g \in ItemGates(i) :
              g.id \in DOMAIN cache /\ ClaimsDone(g.id) /\ cache[g.id].verdict = READY
    /\ ClaimsDone(i) /\ ~cache[i].contradiction => cache[i].verdict = READY

IsPath ==
    /\ \A k \in 1..Len(stack) : k + 1 <= Len(stack) =>
         \E g \in ItemGates(stack[k].item) : g.id = stack[k + 1].item
    /\ \A k, m \in 1..Len(stack) : stack[k].item = stack[m].item => k = m

RInv ==
    /\ TypeOK
    /\ pc # "raised"
    /\ pc \in {"resolving", "reported"} => Loaded
    /\ pc # "resolving" => stack = <<>>
    /\ pc = "reported" => DOMAIN cache = DOMAIN doc.items
    /\ \A k \in 1..Len(stack) : FrameStands(k)
    /\ IsPath
    /\ \A i \in DOMAIN cache : Stands(i)

-----------------------------------------------------------------------------
\* Whatever a gate is read to say is a verdict.
LEMMA LeafVerdictsAre == \A g, checked : LeafVerdicts(g, checked) \subseteq Verdicts
<1>1. \A e, checked : ExternalVerdicts(e, checked) \subseteq Verdicts
    BY DEF ExternalVerdicts, Verdicts
<1>2. \A b : BandVerdict(b) \in Verdicts
    BY DEF BandVerdict, Verdicts
<1>3. \A c : ControlVerdict(c) \in Verdicts
    BY DEF ControlVerdict, Verdicts
<1>4. \A checked : CommandVerdicts(checked) \subseteq Verdicts
    BY DEF CommandVerdicts, Verdicts
<1>5. QED
    BY <1>1, <1>2, <1>3, <1>4 DEF LeafVerdicts, Verdicts

LEMMA FoldedIs == \A i, read : Folded(i, read) \in Verdicts
BY DEF Folded, Verdicts

\* READY is only folded out of gates that all gave READY.
LEMMA FoldedReady ==
    \A i, read : Folded(i, read) = READY =>
      IF doc.items[i].gates = {} THEN doc.items[i].ungatedBecause ELSE read = {READY}
<1>1. READY # UNKNOWN /\ READY # BLOCKED
    BY DEF READY, BLOCKED, UNKNOWN
<1>2. ASSUME NEW i, NEW read, doc.items[i].gates = {}, Folded(i, read) = READY
      PROVE doc.items[i].ungatedBecause
    <2>1. Folded(i, read) = IF doc.items[i].ungatedBecause THEN READY ELSE UNKNOWN
        BY <1>2, Zenon DEF Folded
    <2>2. QED
        BY <1>1, <1>2, <2>1, Zenon
<1>3. ASSUME NEW i, NEW read, doc.items[i].gates # {}, Folded(i, read) = READY
      PROVE read = {READY}
    BY <1>1, <1>3 DEF Folded
<1>4. QED
    BY <1>2, <1>3, Zenon

LEMMA DocIs ==
    ASSUME TypeOK, NEW i \in DOMAIN doc.items
    PROVE i \in Items /\ doc.items[i] \in Item /\ doc.items[i].gates \subseteq Gate
BY DEF TypeOK, IsDocument, Item

\* An item in progress is never reached again: it would be on a cycle of item gates.
LEMMA NoWayBack ==
    ASSUME TypeOK, IsPath, Loaded, stack # <<>>, \A k \in 1..Len(stack) : FrameStands(k),
           NEW g \in Top.todo, g.kind = "item"
    PROVE g.id \in DOMAIN doc.items \ InProgress
<1>1. stack \in Seq(Frame) /\ Len(stack) \in Nat /\ Len(stack) >= 1
    BY DEF TypeOK
<1>2. Top = stack[Len(stack)] /\ FrameStands(Len(stack))
    BY <1>1 DEF Top
<1>3. Top.item \in DOMAIN doc.items /\ g \in ItemGates(Top.item)
    BY <1>2 DEF FrameStands, ItemGates
<1>4. g.id \in DOMAIN doc.items
    BY <1>3 DEF Loaded, ReferencesResolve, ItemGates
<1>5. ASSUME NEW m \in 1..Len(stack), stack[m].item = g.id
      PROVE FALSE
    <2> DEFINE C == {stack[k].item : k \in m..Len(stack)}
    <2>1. \A k \in m..Len(stack) : k \in 1..Len(stack)
        BY <1>1, <1>5
    <2>2. C \in SUBSET DOMAIN doc.items /\ g.id \in C
        BY <1>1, <1>5, <2>1 DEF FrameStands
    <2>3. ASSUME NEW k \in m..Len(stack)
          PROVE Dependencies(stack[k].item) \cap C # {}
        <3>1. CASE k = Len(stack)
            BY <1>2, <1>3, <2>2, <3>1 DEF Dependencies
        <3>2. CASE k < Len(stack)
            <4>1. k + 1 \in m..Len(stack) /\ k \in 1..Len(stack) /\ k + 1 <= Len(stack)
                BY <1>1, <2>1, <3>2
            <4>2. PICK h \in ItemGates(stack[k].item) : h.id = stack[k + 1].item
                BY <4>1 DEF IsPath
            <4>3. h.id \in Dependencies(stack[k].item) /\ h.id \in C
                BY <4>1, <4>2 DEF Dependencies
            <4>4. QED
                BY <4>3
        <3>3. QED
            BY <1>1, <3>1, <3>2
    <2>4. \A i \in C : Dependencies(i) \cap C # {}
        BY <2>3
    <2> HIDE DEF C
    <2>5. QED
        BY <2>2, <2>4 DEF Loaded, Acyclic
<1>6. QED
    BY <1>4, <1>5 DEF InProgress

-----------------------------------------------------------------------------
LEMMA Init_RInv == Init => RInv
<1> SUFFICES ASSUME Init PROVE RInv
    OBVIOUS
<1>1. IsDocument(doc) /\ DOMAIN cache = {} /\ Len(stack) = 0 /\ stack \in Seq(Frame)
    BY DocumentsAssumption DEF Init
<1>2. QED
    BY <1>1 DEF Init, RInv, TypeOK, IsPath

\* Reading a gate in the frame at the top.
LEMMA ReadKeeps ==
    ASSUME RInv, Resolving, NEW g \in Top.todo, NEW v \in Verdicts, Read(g, v),
           UNCHANGED <<doc, resolver, check, pc, cache>>,
           IF g.kind = "item"
           THEN g.id \in DOMAIN cache /\ v = DependencyVerdict(g.id, cache[g.id].verdict)
           ELSE v \in LeafVerdicts(g, check)
    PROVE RInv'
<1>0. PICK n \in Nat : n = Len(stack)
    BY DEF RInv, TypeOK
<1> DEFINE new == [item |-> Top.item, todo |-> Top.todo \ {g}, read |-> Top.read \cup {v}]
<1>1. stack \in Seq(Frame) /\ n \in Nat \ {0} /\ n = Len(stack) /\ Top \in Frame /\ Top = stack[n]
    BY <1>0 DEF RInv, TypeOK, Resolving, Top
<1>2. stack' = [stack EXCEPT ![n] = new]
    BY <1>0 DEF Read, Top
<1>3. new \in Frame /\ new.item = Top.item /\ new.todo = Top.todo \ {g} /\ new.read = Top.read \cup {v}
    BY <1>1 DEF Frame
<1> HIDE DEF new
<1>4. stack' \in Seq(Frame) /\ Len(stack') = n
      /\ \A k \in 1..n : stack'[k] = IF k = n THEN new ELSE stack[k]
    BY <1>1, <1>2, <1>3
<1>5. \A k \in 1..n : /\ stack'[k].item = stack[k].item /\ stack[k].read \subseteq stack'[k].read
                      /\ stack'[k].todo \subseteq stack[k].todo
                      /\ \A h : h \in stack[k].todo \ stack'[k].todo => k = n /\ h = g
    BY <1>1, <1>3, <1>4
<1>6. \A h : LeafVerdicts(h, check)' = LeafVerdicts(h, check)
    BY DEF LeafVerdicts, ExternalVerdicts, BandVerdict, ControlVerdict, CommandVerdicts
<1>7. \A k \in 1..n : \A h : HasRead(k, h) => HasRead(k, h)'
    BY <1>5, <1>6 DEF HasRead, DependencyVerdict, ClaimsDone
<1>8. HasRead(n, g)'
    <2>1. v \in stack'[n].read
        BY <1>1, <1>3, <1>4
    <2>2. CASE g.kind = "item"
        BY <1>1, <2>1, <2>2 DEF HasRead, DependencyVerdict, ClaimsDone
    <2>3. CASE g.kind # "item"
        BY <1>6, <2>1, <2>3 DEF HasRead
    <2>4. QED
        BY <2>2, <2>3
<1>9. ASSUME NEW k \in 1..n
      PROVE FrameStands(k)'
    <2>1. FrameStands(k)
        BY <1>1 DEF RInv
    <2>2. /\ stack'[k].item \in DOMAIN doc'.items \ DOMAIN cache'
          /\ stack'[k].todo \subseteq doc'.items[stack'[k].item].gates
        BY <1>5, <2>1 DEF FrameStands
    <2>3. \A h \in doc'.items[stack'[k].item].gates \ stack'[k].todo : HasRead(k, h)'
        BY <1>5, <1>7, <1>8, <2>1 DEF FrameStands
    <2>4. QED
        BY <2>2, <2>3 DEF FrameStands
<1>10. IsPath' /\ \A i \in DOMAIN cache : Stands(i)'
    BY <1>1, <1>4, <1>5, <1>6 DEF RInv, IsPath, ItemGates, Stands, ClaimsDone
<1>11. pc' = "resolving" /\ Loaded'
    BY DEF RInv, Resolving, Loaded, GatesNamed, ReferencesResolve, Acyclic, FreezeIsReadable,
           Conditions, Dependencies, ItemGates
<1>12. TypeOK'
    BY <1>4 DEF RInv, TypeOK
<1>13. QED
    BY <1>1, <1>4, <1>9, <1>10, <1>11, <1>12 DEF RInv

\* Starting an item that is neither settled nor in progress.
LEMMA PushKeeps ==
    ASSUME RInv, pc = "resolving", NEW i \in DOMAIN doc.items \ DOMAIN cache, i \notin InProgress,
           stack = <<>> \/ \E g \in ItemGates(Top.item) : g.id = i,
           stack' = Append(stack, FrameOf(i)), UNCHANGED <<doc, resolver, check, pc, cache>>
    PROVE RInv'
<1>0. PICK n \in Nat : n = Len(stack)
    BY DEF RInv, TypeOK
<1>1. stack \in Seq(Frame) /\ FrameOf(i) \in Frame
    BY DocIs DEF RInv, TypeOK, FrameOf, Frame
<1>2. /\ stack' \in Seq(Frame) /\ Len(stack') = n + 1 /\ stack'[n + 1] = FrameOf(i)
      /\ \A k \in 1..n : stack'[k] = stack[k]
    BY <1>0, <1>1
<1>3. \A k \in 1..(n + 1) : k \in 1..n \/ k = n + 1
    BY <1>0
<1>4. \A h : LeafVerdicts(h, check)' = LeafVerdicts(h, check)
    BY DEF LeafVerdicts, ExternalVerdicts, BandVerdict, ControlVerdict, CommandVerdicts
<1>5. \A k \in 1..n : \A h : HasRead(k, h) => HasRead(k, h)'
    BY <1>2, <1>4 DEF HasRead, DependencyVerdict, ClaimsDone
<1>6. ASSUME NEW k \in 1..(n + 1)
      PROVE FrameStands(k)'
    <2>1. CASE k \in 1..n
        <3>1. FrameStands(k) /\ stack'[k] = stack[k]
            BY <1>0, <1>2, <2>1 DEF RInv
        <3>2. QED
            BY <1>5, <2>1, <3>1 DEF FrameStands
    <2>2. CASE k = n + 1
        BY <1>2, <2>2 DEF FrameStands, FrameOf
    <2>3. QED
        BY <1>3, <2>1, <2>2
<1>7. IsPath'
    <2>1. ASSUME NEW k \in 1..(n + 1), k + 1 <= n + 1
          PROVE \E g \in ItemGates(stack'[k].item) : g.id = stack'[k + 1].item
        <3>1. CASE k + 1 <= n
            <4>1. k \in 1..n /\ k + 1 \in 1..n
                BY <1>0, <3>1
            <4>2. QED
                BY <1>0, <1>2, <3>1, <4>1 DEF RInv, IsPath
        <3>2. CASE k = n
            <4>1. stack # <<>> /\ Top = stack[n] /\ stack'[k] = Top /\ stack'[k + 1].item = i
                BY <1>0, <1>1, <1>2, <3>2 DEF Top, FrameOf
            <4>2. QED
                BY <4>1
        <3>3. QED
            BY <1>0, <2>1, <3>1, <3>2
    <2>2. ASSUME NEW k \in 1..(n + 1), NEW m \in 1..(n + 1), stack'[k].item = stack'[m].item
          PROVE k = m
        <3>1. \A x \in 1..n : stack'[x].item # i
            BY <1>0, <1>2 DEF InProgress
        <3>2. stack'[n + 1].item = i
            BY <1>2 DEF FrameOf
        <3>3. CASE k \in 1..n /\ m \in 1..n
            BY <1>0, <1>2, <2>2, <3>3 DEF RInv, IsPath
        <3>4. QED
            BY <1>3, <2>2, <3>1, <3>2, <3>3
    <2>3. \A x : ItemGates(x)' = ItemGates(x)
        BY DEF ItemGates
    <2>4. QED
        BY <1>2, <2>1, <2>2, <2>3 DEF IsPath, ItemGates
<1>8. \A x \in DOMAIN cache : Stands(x)'
    BY <1>4 DEF RInv, Stands, ItemGates, ClaimsDone
<1>9. pc' = "resolving" /\ Loaded'
    BY DEF RInv, Loaded, GatesNamed, ReferencesResolve, Acyclic, FreezeIsReadable,
           Conditions, Dependencies, ItemGates
<1>10. TypeOK'
    BY <1>2 DEF RInv, TypeOK
<1>11. QED
    BY <1>2, <1>6, <1>7, <1>8, <1>9, <1>10 DEF RInv

\* An item is settled once, by what its frame has read.
LEMMA SettleKeeps ==
    ASSUME RInv, Settle
    PROVE RInv'
<1>0. PICK n \in Nat : n = Len(stack)
    BY DEF RInv, TypeOK
<1>1. /\ stack \in Seq(Frame) /\ n \in Nat \ {0} /\ Top = stack[n] /\ Top \in Frame
      /\ Top.todo = {} /\ pc = "resolving"
    BY <1>0 DEF RInv, TypeOK, Settle, Resolving, Top
<1>2. PICK i \in Items : i = Top.item
    BY <1>1 DEF Frame
<1>3. PICK failed \in BOOLEAN :
        cache' = [j \in DOMAIN cache \cup {i} |->
                    IF j = i THEN Settled(i, Top.read, failed) ELSE cache[j]]
    BY <1>2 DEF Settle
<1>4. FrameStands(n) /\ i \in DOMAIN doc.items \ DOMAIN cache
    BY <1>0, <1>1, <1>2 DEF RInv, FrameStands
<1>5. UNCHANGED <<doc, resolver, check, pc>>
    BY DEF Settle
<1>6. /\ stack' \in Seq(Frame) /\ Len(stack') = n - 1
      /\ \A k \in 1..(n - 1) : k \in 1..n /\ stack'[k] = stack[k]
    BY <1>0, <1>1 DEF Settle
<1>7. \A h : LeafVerdicts(h, check)' = LeafVerdicts(h, check)
    BY <1>5 DEF LeafVerdicts, ExternalVerdicts, BandVerdict, ControlVerdict, CommandVerdicts
<1>8. DOMAIN cache' = DOMAIN cache \cup {i} /\ \A j \in DOMAIN cache : cache'[j] = cache[j]
    BY <1>3, <1>4
<1>9. Settled(i, Top.read, failed) \in Readiness
    BY FoldedIs DEF Settled, Readiness, Verdicts
<1>10. TypeOK'
    BY <1>3, <1>4, <1>5, <1>6, <1>8, <1>9 DEF RInv, TypeOK
<1>11. \A k \in 1..(n - 1) : \A h : HasRead(k, h) => HasRead(k, h)'
    BY <1>5, <1>6, <1>7, <1>8 DEF HasRead, DependencyVerdict, ClaimsDone
<1>12. ASSUME NEW k \in 1..(n - 1)
       PROVE FrameStands(k)'
    <2>1. FrameStands(k) /\ k \in 1..n /\ k # n
        BY <1>0, <1>6 DEF RInv
    <2>2. stack[k].item # i
        BY <1>0, <1>1, <1>2, <2>1 DEF RInv, IsPath
    <2>3. QED
        BY <1>5, <1>6, <1>8, <1>11, <2>1, <2>2 DEF FrameStands
<1>13. IsPath'
    <2>1. \A k \in 1..(n - 1) : k + 1 <= n - 1 => k + 1 \in 1..(n - 1) /\ k + 1 <= n
        BY <1>0
    <2>2. ASSUME NEW k \in 1..(n - 1), k + 1 <= n - 1
          PROVE \E g \in {h \in doc'.items[stack'[k].item].gates : h.kind = "item"} : g.id = stack'[k + 1].item
        <3>1. k \in 1..n /\ k + 1 <= n /\ stack'[k] = stack[k] /\ stack'[k + 1] = stack[k + 1]
            BY <1>6, <2>1, <2>2
        <3>2. PICK g \in ItemGates(stack[k].item) : g.id = stack[k + 1].item
            BY <1>0, <3>1 DEF RInv, IsPath
        <3>3. QED
            BY <1>5, <3>1, <3>2 DEF ItemGates
    <2>3. \A k, m \in 1..(n - 1) : stack'[k].item = stack'[m].item => k = m
        BY <1>0, <1>6 DEF RInv, IsPath
    <2>4. QED
        BY <1>6, <2>2, <2>3 DEF IsPath, ItemGates
<1>14. ASSUME NEW j \in DOMAIN cache
       PROVE Stands(j)'
    BY <1>5, <1>7, <1>8 DEF RInv, Stands, ItemGates, ClaimsDone
<1>15. Stands(i)'
    <2>1. cache'[i] = Settled(i, Top.read, failed)
        BY <1>3
    <2>2. ASSUME cache'[i].verdict = READY
          PROVE Folded(i, Top.read) = READY
        BY <2>1, <2>2 DEF Settled, READY, BLOCKED
    <2>3. ASSUME ClaimsDone(i), ~cache'[i].contradiction
          PROVE cache'[i].verdict = READY
        <3>1. cache'[i].contradiction = (failed \/ (ClaimsDone(i) /\ Folded(i, Top.read) # READY))
            BY <2>1 DEF Settled
        <3>2. ~failed /\ Folded(i, Top.read) = READY
            BY <2>3, <3>1, Zenon
        <3>3. QED
            BY <2>1, <3>2 DEF Settled
    <2>4. ASSUME Folded(i, Top.read) = READY, NEW g \in doc.items[i].gates
          PROVE Top.read = {READY} /\ HasRead(n, g)
        BY <1>1, <1>2, <1>4, <2>4, FoldedReady DEF FrameStands
    <2>5. ASSUME Folded(i, Top.read) = READY, NEW g \in doc.items[i].gates \ ItemGates(i)
          PROVE READY \in LeafVerdicts(g, check)
        BY <1>1, <2>4, <2>5 DEF HasRead, ItemGates
    <2>6. ASSUME Folded(i, Top.read) = READY, NEW g \in ItemGates(i)
          PROVE g.id \in DOMAIN cache /\ ClaimsDone(g.id) /\ cache[g.id].verdict = READY
        BY <1>1, <2>4, <2>6 DEF HasRead, ItemGates, DependencyVerdict, READY, BLOCKED
    <2>7. Folded(i, Top.read) = READY /\ doc.items[i].gates = {} => doc.items[i].ungatedBecause
        BY FoldedReady, Zenon
    <2>8. QED
        BY <1>5, <1>7, <1>8, <2>2, <2>3, <2>5, <2>6, <2>7 DEF Stands, ItemGates, ClaimsDone
<1>16. pc' = "resolving" /\ Loaded'
    BY <1>1, <1>5 DEF RInv, Loaded, GatesNamed, ReferencesResolve, Acyclic, FreezeIsReadable,
           Conditions, Dependencies, ItemGates
<1>17. QED
    BY <1>6, <1>8, <1>10, <1>12, <1>13, <1>14, <1>15, <1>16 DEF RInv

LEMMA Next_RInv == RInv /\ [Next]_vars => RInv'
<1> SUFFICES ASSUME RInv, [Next]_vars
             PROVE RInv'
    OBVIOUS
<1>0. stack \in Seq(Frame) /\ Len(stack) \in Nat
    BY DEF RInv, TypeOK
<1>1. CASE Load
    <2>1. pc' = "resolving" => Loaded'
        BY <1>1 DEF Load, Loaded, GatesNamed, ReferencesResolve, Acyclic, FreezeIsReadable,
                    Conditions, Dependencies, ItemGates
    <2>2. stack = <<>> /\ stack' = <<>> /\ pc' \in {"resolving", "refused"}
        BY <1>1 DEF Load, RInv
    <2>3. \A h : LeafVerdicts(h, check)' = LeafVerdicts(h, check)
        BY <1>1 DEF Load, LeafVerdicts, ExternalVerdicts, BandVerdict, ControlVerdict, CommandVerdicts
    <2>4. \A i \in DOMAIN cache : Stands(i)'
        BY <1>1, <2>3 DEF Load, RInv, Stands, ItemGates, ClaimsDone
    <2>5. TypeOK' /\ IsPath' /\ Len(stack') = 0 /\ cache' = cache
        BY <1>1, <2>2 DEF Load, RInv, TypeOK, IsPath
    <2>6. QED
        BY <2>1, <2>2, <2>4, <2>5 DEF RInv
<1>2. CASE StartItem
    <2>1. PICK i \in DOMAIN doc.items \ DOMAIN cache : stack' = <<FrameOf(i)>>
        BY <1>2 DEF StartItem
    <2>2. stack = <<>> /\ stack' = Append(stack, FrameOf(i)) /\ i \notin InProgress
        BY <1>2, <2>1 DEF StartItem, InProgress
    <2>3. QED
        BY <1>2, <2>1, <2>2, PushKeeps DEF StartItem
<1>3. CASE ReadLeaf
    <2>1. PICK g \in Top.todo : g.kind # "item" /\ \E v \in LeafVerdicts(g, check) : Read(g, v)
        BY <1>3 DEF ReadLeaf
    <2>2. PICK v \in LeafVerdicts(g, check) : Read(g, v)
        BY <2>1
    <2>3. v \in Verdicts
        BY LeafVerdictsAre
    <2>4. QED
        BY <1>3, <2>1, <2>2, <2>3, ReadKeeps DEF ReadLeaf
<1>4. CASE ReadCached
    <2>1. PICK g \in Top.todo :
            /\ g.kind = "item" /\ g.id \in DOMAIN cache
            /\ Read(g, DependencyVerdict(g.id, cache[g.id].verdict))
        BY <1>4 DEF ReadCached
    <2>2. DependencyVerdict(g.id, cache[g.id].verdict) \in Verdicts
        BY <2>1 DEF RInv, TypeOK, Readiness, DependencyVerdict, Verdicts
    <2>3. QED
        BY <1>4, <2>1, <2>2, ReadKeeps DEF ReadCached
<1>5. CASE Descend
    <2>1. PICK g \in Top.todo :
            /\ g.kind = "item" /\ g.id \notin DOMAIN cache
            /\ IF g.id \in DOMAIN doc.items \ InProgress
                 THEN stack' = Append(stack, FrameOf(g.id)) /\ UNCHANGED pc
                 ELSE pc' = "raised" /\ UNCHANGED stack
        BY <1>5 DEF Descend
    <2>2. Resolving /\ Loaded /\ FrameStands(Len(stack)) /\ Top = stack[Len(stack)]
        BY <1>0, <1>5 DEF Descend, Resolving, RInv, Top
    <2>3. g.id \in DOMAIN doc.items \ InProgress
        BY <2>1, <2>2, NoWayBack DEF RInv, Resolving
    <2>4. g \in ItemGates(Top.item)
        BY <2>1, <2>2 DEF FrameStands, ItemGates
    <2>5. UNCHANGED <<doc, resolver, check, pc, cache>>
        BY <1>5, <2>1, <2>3 DEF Descend
    <2>6. QED
        BY <2>1, <2>2, <2>3, <2>4, <2>5, PushKeeps DEF Resolving
<1>6. CASE Settle
    BY <1>6, SettleKeeps
<1>7. CASE Report \/ UNCHANGED vars
    <2>1. /\ UNCHANGED <<doc, resolver, check, stack, cache>>
          /\ pc' = pc \/ (pc = "resolving" /\ pc' = "reported" /\ stack = <<>>
                           /\ DOMAIN cache = DOMAIN doc.items)
        BY <1>7 DEF Report, vars
    <2>2. \A h : LeafVerdicts(h, check)' = LeafVerdicts(h, check)
        BY <2>1 DEF LeafVerdicts, ExternalVerdicts, BandVerdict, ControlVerdict, CommandVerdicts
    <2>3. \A i \in DOMAIN cache : Stands(i)'
        BY <2>1, <2>2 DEF RInv, Stands, ItemGates, ClaimsDone
    <2>4. \A k \in 1..Len(stack) : FrameStands(k)'
        BY <2>1, <2>2 DEF RInv, FrameStands, HasRead, DependencyVerdict, ClaimsDone
    <2>5. IsPath' /\ TypeOK'
        BY <2>1 DEF RInv, IsPath, TypeOK, ItemGates
    <2>6. pc' \in {"resolving", "reported"} => Loaded'
        BY <2>1 DEF RInv, Loaded, GatesNamed, ReferencesResolve, Acyclic, FreezeIsReadable,
                    Conditions, Dependencies, ItemGates
    <2>7. QED
        BY <2>1, <2>3, <2>4, <2>5, <2>6 DEF RInv
<1>8. QED
    BY <1>1, <1>2, <1>3, <1>4, <1>5, <1>6, <1>7 DEF Next

LEMMA AlwaysRInv == Spec => []RInv
BY Init_RInv, Next_RInv, PTL DEF Spec

-----------------------------------------------------------------------------
\* READY stands on READY items, so a closed set of them holds all behind an item.
LEMMA Grounded ==
    ASSUME RInv, NEW i \in DOMAIN cache, cache[i].verdict = READY, NEW j \in Behind(i)
    PROVE /\ j \in DOMAIN cache /\ cache[j].verdict = READY
          /\ j # i => ClaimsDone(j)
<1> DEFINE C == {k \in DOMAIN cache : cache[k].verdict = READY /\ (k # i => ClaimsDone(k))}
<1>1. C \in SUBSET DOMAIN doc.items /\ i \in C
    BY DEF RInv, TypeOK
<1>2. ASSUME NEW k \in C
      PROVE Dependencies(k) \subseteq C
    BY DEF RInv, Stands, Dependencies
<1> HIDE DEF C
<1>3. j \in C
    BY <1>1, <1>2 DEF Behind
<1>4. QED
    BY <1>3 DEF C

\* The cache and the stack hold what the command may hold at any time.
THEOREM TypeCorrect == Spec => []TypeOK
<1>1. RInv => TypeOK
    BY DEF RInv
<1>2. QED
    BY <1>1, AlwaysRInv, PTL

\* A READY item rests, however far down, on items that say they are done and are
\* READY, and on gates that could have opened (_readiness).
THEOREM ReadyHolds == Spec => []ReadyIsGrounded
<1>1. ASSUME RInv
      PROVE ReadyIsGrounded
    <2>1. SUFFICES ASSUME NEW i \in DOMAIN cache, cache[i].verdict = READY, NEW j \in Behind(i)
                   PROVE /\ j \in DOMAIN cache
                         /\ j # i => ClaimsDone(j)
                         /\ cache[j].verdict = READY
                         /\ doc.items[j].gates = {} => doc.items[j].ungatedBecause
                         /\ \A g \in doc.items[j].gates \ ItemGates(j) : READY \in LeafVerdicts(g, check)
        BY DEF ReadyIsGrounded
    <2>2. j \in DOMAIN cache /\ cache[j].verdict = READY /\ (j # i => ClaimsDone(j))
        BY <1>1, <2>1, Grounded
    <2>3. Stands(j)
        BY <1>1, <2>2 DEF RInv
    <2>4. QED
        BY <2>2, <2>3 DEF Stands
<1>2. QED
    BY <1>1, AlwaysRInv, PTL

\* Exit 0 is only given over a document whose finished items, and the conditions of
\* whose freeze, rest on finished work alone (cmd_roadmap).
THEOREM CleanExitHolds == Spec => []CleanExitMeansDone
<1>1. ASSUME RInv
      PROVE CleanExitMeansDone
    <2>1. SUFFICES ASSUME ExitsClean
                   PROVE /\ \A i \in DOMAIN doc.items : ClaimsDone(i) =>
                              \A j \in Behind(i) : ClaimsDone(j) /\ cache[j].verdict = READY
                         /\ doc.freeze # <<>> /\ doc.freeze[1].inForce =>
                              \A g \in Conditions : g.kind = "item" /\
                                \A j \in Behind(g.id) : ClaimsDone(j) /\ cache[j].verdict = READY
        BY DEF CleanExitMeansDone
    <2>2. ASSUME NEW i \in DOMAIN cache, cache[i].verdict = READY, ClaimsDone(i), NEW j \in Behind(i)
          PROVE ClaimsDone(j) /\ cache[j].verdict = READY
        BY <1>1, <2>2, Grounded
    <2>3. DOMAIN cache = DOMAIN doc.items /\ \A i \in DOMAIN cache : Stands(i)
        BY <1>1, <2>1 DEF RInv, ExitsClean
    <2>4. \A i \in DOMAIN doc.items : ClaimsDone(i) => cache[i].verdict = READY
        BY <2>1, <2>3 DEF ExitsClean, Stands
    <2>5. ASSUME doc.freeze # <<>>, doc.freeze[1].inForce
          PROVE \A g \in Conditions : Met(g)
        BY <2>1, <2>5 DEF ExitsClean, FreezeInForce
    <2>6. QED
        BY <2>2, <2>3, <2>4, <2>5 DEF Met
<1>2. QED
    BY <1>1, AlwaysRInv, PTL

\* The recursion never comes back to an item in progress and never asks for one that
\* is not there: the error that _readiness raises for it is never seen.
THEOREM NeverRaises == Spec => [](pc # "raised")
<1>1. RInv => pc # "raised"
    BY DEF RInv
<1>2. QED
    BY <1>1, AlwaysRInv, PTL

-----------------------------------------------------------------------------
(***************************************************************************)
(* What running the commands changes.  Plain is defined by recursion over  *)
(* the item gates; that such a function exists is shown by a largest set   *)
(* of items, closed under the gates, that has one.  The resolution is then *)
(* compared with it reading by reading.                                    *)
(***************************************************************************)

LeafReading(g) == CHOOSE v \in LeafVerdicts(g, FALSE) : TRUE

\* What gate g says without --check when the items have the verdicts P.
PlainReading(P, g) ==
    IF g.kind = "item" THEN DependencyVerdict(g.id, P[g.id]) ELSE LeafReading(g)

PlainRead(P, i) == {PlainReading(P, g) : g \in doc.items[i].gates}

\* P solves the recursion for the items C.
Solves(P, C) == P \in [C -> Verdicts] /\ \A i \in C : P[i] = Folded(i, PlainRead(P, i))

\* A verdict v of the command against a verdict u without --check.
Agrees(u, v) ==
    /\ ~check => v = u
    /\ u = BLOCKED => v = BLOCKED
    /\ u = READY => v # UNKNOWN

FrameAgrees(P, k) ==
    LET done == doc.items[stack[k].item].gates \ stack[k].todo IN
    /\ \A v \in stack[k].read : \E g \in done : Agrees(PlainReading(P, g), v)
    /\ \A g \in done : \E v \in stack[k].read : Agrees(PlainReading(P, g), v)

AgreesWith(P) ==
    /\ \A i \in DOMAIN cache : Agrees(P[i], cache[i].verdict)
    /\ \A k \in 1..Len(stack) : FrameAgrees(P, k)

PlainInv ==
    /\ pc \notin {"resolving", "reported"} => DOMAIN cache = {}
    /\ \A P \in [DOMAIN doc.items -> Verdicts] : Solves(P, DOMAIN doc.items) => AgreesWith(P)

LEMMA LeastNat == \A S \in SUBSET Nat : S # {} => \E m \in S : \A n \in S : m <= n
<1> SUFFICES ASSUME NEW S, S \subseteq Nat, S # {}
             PROVE \E m \in S : \A n \in S : m <= n
    OBVIOUS
<1>1. PICK m \in S : \A n \in S : ~ (<<n, m>> \in OpToRel(<, Nat))
    BY NatLessThanWellFounded, WFMin, Zenon
<1>2. \A n \in S : ~(n < m)
    BY <1>1 DEF OpToRel
<1>3. QED
    BY <1>2

\* Of a document that loads, the recursion has a solution.
LEMMA PlainExists ==
    ASSUME TypeOK, Loaded
    PROVE \E P : Solves(P, DOMAIN doc.items)
<1> DEFINE D == DOMAIN doc.items
           Solved(C) == (\A i \in C : Dependencies(i) \subseteq C) /\ \E P : Solves(P, C)
           Sizes == {n \in Nat : \E C \in SUBSET D : Solved(C) /\ Cardinality(D \ C) = n}
<1>1. IsFiniteSet(D)
    BY DocumentsAssumption, FS_Subset DEF TypeOK, IsDocument
<1>2. Sizes # {}
    <2> DEFINE P == [i \in {} |-> READY]
    <2>1. Solves(P, {})
        BY DEF Solves
    <2>2. Solved({}) /\ {} \in SUBSET D /\ D \ {} = D
        BY <2>1
    <2>3. Cardinality(D) \in Nat
        BY <1>1, FS_CardinalityType
    <2> HIDE DEF D, Solved
    <2>4. QED
        BY <2>2, <2>3
<1>3. PICK n \in Sizes : \A m \in Sizes : n <= m
    <2>1. Sizes \in SUBSET Nat
        OBVIOUS
    <2> HIDE DEF Sizes
    <2>2. QED
        BY <1>2, <2>1, LeastNat
<1>4. PICK C \in SUBSET D : Solved(C) /\ Cardinality(D \ C) = n
    BY <1>3
<1>5. CASE D \ C = {}
    BY <1>4, <1>5
<1>6. ASSUME D \ C # {}
      PROVE FALSE
    <2>1. PICK i \in D \ C : Dependencies(i) \cap (D \ C) = {}
        BY <1>6 DEF Loaded, Acyclic
    <2>2. Dependencies(i) \subseteq C
        BY <2>1 DEF Loaded, ReferencesResolve, Dependencies, ItemGates
    <2>3. PICK P : Solves(P, C)
        BY <1>4
    <2> DEFINE Q == [j \in C \cup {i} |-> IF j = i THEN Folded(i, PlainRead(P, i)) ELSE P[j]]
    <2>4. \A j \in C : Q[j] = P[j]
        BY <2>1
    <2>5. ASSUME NEW j \in C \cup {i}
          PROVE PlainRead(Q, j) = PlainRead(P, j)
        <3>1. Dependencies(j) \subseteq C
            BY <1>4, <2>2
        <3>2. \A g \in doc.items[j].gates : g.kind = "item" => g.id \in C
            BY <3>1 DEF Dependencies, ItemGates
        <3> HIDE DEF Q
        <3>3. \A g \in doc.items[j].gates : PlainReading(Q, g) = PlainReading(P, g)
            BY <2>4, <3>2 DEF PlainReading
        <3>4. QED
            BY <3>3 DEF PlainRead
    <2>6. Q \in [C \cup {i} -> Verdicts]
        BY <2>3, FoldedIs DEF Solves
    <2>7. ASSUME NEW j \in C \cup {i}
          PROVE Q[j] = Folded(j, PlainRead(P, j))
        BY <2>3 DEF Solves
    <2> HIDE DEF Q
    <2>8. Solves(Q, C \cup {i})
        BY <2>5, <2>6, <2>7 DEF Solves
    <2>9. Solved(C \cup {i}) /\ C \cup {i} \in SUBSET D
        BY <1>4, <2>1, <2>2, <2>8
    <2>10. IsFiniteSet(D \ C) /\ D \ (C \cup {i}) = (D \ C) \ {i}
        BY <1>1, FS_Subset
    <2>11. /\ Cardinality(D \ (C \cup {i})) \in Nat /\ Cardinality(D \ C) \in Nat
           /\ Cardinality(D \ (C \cup {i})) = Cardinality(D \ C) - 1
        <3> DEFINE E == D \ C
        <3>1. i \in E /\ IsFiniteSet(E) /\ D \ (C \cup {i}) = E \ {i}
            BY <2>1, <2>10
        <3> HIDE DEF D, E
        <3>2. /\ IsFiniteSet(E \ {i}) /\ Cardinality(E \ {i}) = Cardinality(E) - 1
            BY <3>1, FS_RemoveElement
        <3>3. Cardinality(E) \in Nat /\ Cardinality(E \ {i}) \in Nat
            BY <3>1, <3>2, FS_CardinalityType
        <3>4. QED
            BY <3>1, <3>2, <3>3 DEF E
    <2>12. Cardinality(D \ (C \cup {i})) \in Sizes
        BY <2>9, <2>11
    <2> HIDE DEF D, Solved, Sizes
    <2>13. QED
        BY <1>3, <1>4, <2>11, <2>12
<1>7. QED
    <2>1. C = D
        BY <1>5, <1>6
    <2>2. QED
        BY <1>4, <2>1

\* So Plain is one.
LEMMA PlainSolves ==
    ASSUME TypeOK, Loaded
    PROVE Solves(Plain, DOMAIN doc.items)
<1> DEFINE D == DOMAIN doc.items
           Step(P) == [i \in D |->
                         Folded(i, {IF g.kind = "item" THEN DependencyVerdict(g.id, P[g.id])
                                    ELSE CHOOSE v \in LeafVerdicts(g, FALSE) : TRUE :
                                      g \in doc.items[i].gates})]
           F == CHOOSE P : P = Step(P)
<1>1. PICK P : Solves(P, D)
    BY PlainExists
<1>2. \A Q : Step(Q) = [i \in D |-> Folded(i, PlainRead(Q, i))]
    BY Zenon DEF PlainRead, PlainReading, LeafReading
<1>3. Plain = F
    BY Zenon DEF Plain
<1> HIDE DEF Step, D
<1>4. P = Step(P)
    BY <1>1, <1>2 DEF Solves
<1>5. F = Step(F)
    BY <1>4, Zenon
<1> HIDE DEF F
<1>6. F = [i \in D |-> Folded(i, PlainRead(F, i))]
    BY <1>2, <1>5
<1>7. F \in [D -> Verdicts] /\ \A i \in D : F[i] = Folded(i, PlainRead(F, i))
    BY <1>6, FoldedIs
<1>8. QED
    BY <1>3, <1>7 DEF Solves, D

-----------------------------------------------------------------------------
LEMMA LeafOne == ASSUME NEW g PROVE LeafReading(g) \in LeafVerdicts(g, FALSE)
<1>1. \A e : ExternalVerdicts(e, FALSE) # {}
    BY DEF ExternalVerdicts
<1>2. LeafVerdicts(g, FALSE) # {}
    BY <1>1 DEF LeafVerdicts, CommandVerdicts
<1>3. QED
    BY <1>2, Zenon DEF LeafReading

\* Without --check a gate that is no item gate gives one verdict, and with it
\* nothing that contradicts it.
LEMMA LeafAgrees ==
    ASSUME NEW g, NEW v \in LeafVerdicts(g, check), check \in BOOLEAN
    PROVE Agrees(LeafReading(g), v)
<1>0. READY # UNKNOWN /\ READY # BLOCKED /\ BLOCKED # UNKNOWN
    BY DEF READY, BLOCKED, UNKNOWN
<1>1. \A u : Agrees(u, u)
    BY <1>0 DEF Agrees
<1>2. \A u : LeafVerdicts(g, FALSE) = {u} => LeafReading(g) = u
    BY DEF LeafReading
<1>3. ASSUME NEW u, LeafVerdicts(g, FALSE) = {u}, LeafVerdicts(g, check) = {u}
      PROVE Agrees(LeafReading(g), v)
    BY <1>1, <1>2, <1>3
<1>4. ASSUME LeafVerdicts(g, FALSE) = {UNKNOWN},
             LeafVerdicts(g, check) = IF check THEN {READY, BLOCKED} ELSE {UNKNOWN}
      PROVE Agrees(LeafReading(g), v)
    BY <1>0, <1>2, <1>4 DEF Agrees
<1>5. CASE g.kind = "external"
    <2>1. \A checked : LeafVerdicts(g, checked) = ExternalVerdicts(g.id, checked)
        BY <1>5 DEF LeafVerdicts
    <2> DEFINE e == doc.externals[g.id]
    <2>2. CASE ~e.attained
        <3>1. \A checked : LeafVerdicts(g, checked) = {BLOCKED}
            BY <2>1, <2>2 DEF ExternalVerdicts
        <3>2. QED
            BY <1>3, <3>1
    <2>3. CASE e.attained /\ ~e.verify
        <3>1. \A checked : LeafVerdicts(g, checked) = {READY}
            BY <2>1, <2>3 DEF ExternalVerdicts
        <3>2. QED
            BY <1>3, <3>1
    <2>4. CASE e.attained /\ e.verify
        <3>1. \A checked : LeafVerdicts(g, checked) = IF checked THEN {READY, BLOCKED} ELSE {UNKNOWN}
            BY <2>1, <2>4 DEF ExternalVerdicts
        <3>2. QED
            BY <1>4, <3>1
    <2>5. QED
        BY <2>2, <2>3, <2>4
<1>6. CASE g.kind = "command"
    <2>1. \A checked : LeafVerdicts(g, checked) = IF checked THEN {READY, BLOCKED} ELSE {UNKNOWN}
        BY <1>6 DEF LeafVerdicts, CommandVerdicts
    <2>2. QED
        BY <1>4, <2>1
<1>7. CASE g.kind = "band_attained"
    <2>1. \A checked : LeafVerdicts(g, checked) = {BandVerdict(g.id)}
        BY <1>7 DEF LeafVerdicts
    <2>2. QED
        BY <1>3, <2>1
<1>8. CASE g.kind = "control_attested"
    <2>1. \A checked : LeafVerdicts(g, checked) = {ControlVerdict(g.id)}
        BY <1>8 DEF LeafVerdicts
    <2>2. QED
        BY <1>3, <2>1
<1>9. CASE g.kind \notin {"external", "command", "band_attained", "control_attested"}
    <2>1. \A checked : LeafVerdicts(g, checked) = {UNKNOWN}
        BY <1>9 DEF LeafVerdicts
    <2>2. QED
        BY <1>3, <2>1
<1>10. QED
    BY <1>5, <1>6, <1>7, <1>8, <1>9

\* The fold of readings that agree one by one.
LEMMA FoldAgrees ==
    ASSUME NEW i, NEW p \in SUBSET Verdicts, NEW r \in SUBSET Verdicts,
           \A v \in r : \E u \in p : Agrees(u, v),
           \A u \in p : \E v \in r : Agrees(u, v),
           doc.items[i].gates # {} => p # {}
    PROVE Agrees(Folded(i, p), Folded(i, r))
<1>0. READY # UNKNOWN /\ READY # BLOCKED /\ BLOCKED # UNKNOWN
    BY DEF READY, BLOCKED, UNKNOWN
<1>1. CASE ~check
    <2>1. p = r
        BY <1>1 DEF Agrees
    <2>2. QED
        BY <1>0, <2>1 DEF Agrees
<1>2. CASE doc.items[i].gates = {}
    <2>1. Folded(i, p) = Folded(i, r) /\ Folded(i, p) # BLOCKED
        BY <1>0, <1>2, Zenon DEF Folded
    <2>2. QED
        BY <1>0, <2>1 DEF Agrees
<1>3. CASE check /\ doc.items[i].gates # {}
    <2>1. \A s : Folded(i, s) = IF UNKNOWN \in s THEN UNKNOWN
                                ELSE IF s = {READY} THEN READY ELSE BLOCKED
        BY <1>3 DEF Folded
    <2>2. UNKNOWN \notin p => UNKNOWN \notin r
        BY <1>0 DEF Agrees, Verdicts
    <2>3. BLOCKED \in p => BLOCKED \in r
        BY DEF Agrees
    <2>4. UNKNOWN \notin p /\ p # {READY} => BLOCKED \in p
        BY <1>3 DEF Verdicts
    <2>5. QED
        BY <1>0, <1>3, <2>1, <2>2, <2>3, <2>4 DEF Agrees
<1>4. QED
    BY <1>1, <1>2, <1>3

LEMMA DependencyAgrees ==
    ASSUME NEW i, NEW u, NEW v, Agrees(u, v)
    PROVE Agrees(DependencyVerdict(i, u), DependencyVerdict(i, v))
BY DEF Agrees, DependencyVerdict, READY, BLOCKED, UNKNOWN

\* What an item's gates say depends on the document and the resolver alone.
LEMMA PlainStays ==
    ASSUME UNCHANGED <<doc, resolver, check>>
    PROVE /\ \A P, g : PlainReading(P, g)' = PlainReading(P, g)
          /\ \A P : Solves(P, DOMAIN doc.items)' <=> Solves(P, DOMAIN doc.items)
          /\ \A u, v : Agrees(u, v)' <=> Agrees(u, v)
<1>1. \A g : LeafVerdicts(g, FALSE)' = LeafVerdicts(g, FALSE)
    BY DEF LeafVerdicts, ExternalVerdicts, BandVerdict, ControlVerdict, CommandVerdicts
<1>2. \A g : LeafReading(g)' = LeafReading(g)
    <2>1. SUFFICES ASSUME NEW g PROVE LeafReading(g)' = LeafReading(g)
        OBVIOUS
    <2>2. LeafVerdicts(g, FALSE)' = LeafVerdicts(g, FALSE)
        BY <1>1
    <2>3. QED
        BY <2>2, Zenon DEF LeafReading
<1>3. \A P, g : PlainReading(P, g)' = PlainReading(P, g)
    BY <1>2 DEF PlainReading, DependencyVerdict, ClaimsDone
<1>4. \A P, i : PlainRead(P, i)' = PlainRead(P, i)
    BY <1>3 DEF PlainRead
<1>5. \A i, s : Folded(i, s)' = Folded(i, s)
    BY DEF Folded
<1>6. \A P : Solves(P, DOMAIN doc.items)' <=> Solves(P, DOMAIN doc.items)
    BY <1>4, <1>5 DEF Solves
<1>7. QED
    BY <1>3, <1>6 DEF Agrees

-----------------------------------------------------------------------------
\* Nothing a step leaves of the cache, and of the frames below, changes its agreement.
LEMMA FrameStays ==
    ASSUME UNCHANGED <<doc, resolver, check>>, NEW P, NEW k, stack'[k] = stack[k], FrameAgrees(P, k)
    PROVE FrameAgrees(P, k)'
BY PlainStays DEF FrameAgrees

LEMMA ReadAgrees ==
    ASSUME RInv, Resolving, NEW P, AgreesWith(P), NEW g \in Top.todo, NEW v, Read(g, v),
           UNCHANGED <<doc, resolver, check, pc, cache>>,
           IF g.kind = "item"
           THEN g.id \in DOMAIN cache /\ v = DependencyVerdict(g.id, cache[g.id].verdict)
           ELSE v \in LeafVerdicts(g, check)
    PROVE AgreesWith(P)'
<1>0. PICK n \in Nat : n = Len(stack)
    BY DEF RInv, TypeOK
<1> DEFINE new == [item |-> Top.item, todo |-> Top.todo \ {g}, read |-> Top.read \cup {v}]
<1>1. stack \in Seq(Frame) /\ n \in 1..n /\ n = Len(stack) /\ Top = stack[n]
    BY <1>0 DEF RInv, TypeOK, Resolving, Top
<1>2. stack' = [stack EXCEPT ![n] = new]
    BY <1>0 DEF Read, Top
<1>3. new.item = Top.item /\ new.todo = Top.todo \ {g} /\ new.read = Top.read \cup {v}
    OBVIOUS
<1> HIDE DEF new
<1>4. Len(stack') = n /\ \A k \in 1..n : stack'[k] = IF k = n THEN new ELSE stack[k]
    BY <1>1, <1>2
<1>5. Agrees(PlainReading(P, g), v)
    <2>1. CASE g.kind = "item"
        BY <2>1, DependencyAgrees DEF AgreesWith, PlainReading
    <2>2. CASE g.kind # "item"
        BY <2>2, LeafAgrees DEF PlainReading, RInv, TypeOK
    <2>3. QED
        BY <2>1, <2>2
<1>6. FrameAgrees(P, n)'
    <2> DEFINE G == doc.items[Top.item].gates
    <2>1. FrameAgrees(P, n) /\ FrameStands(n)
        BY <1>1 DEF AgreesWith, RInv
    <2>2. g \in G /\ G \ (Top.todo \ {g}) = (G \ Top.todo) \cup {g}
        BY <1>1, <2>1 DEF FrameStands
    <2>3. /\ \A w \in Top.read : \E h \in G \ Top.todo : Agrees(PlainReading(P, h), w)
          /\ \A h \in G \ Top.todo : \E w \in Top.read : Agrees(PlainReading(P, h), w)
        BY <1>1, <2>1 DEF FrameAgrees
    <2>4. stack'[n] = new /\ doc'.items[new.item].gates = G
        BY <1>1, <1>3, <1>4
    <2> HIDE DEF G
    <2>5. /\ \A w \in Top.read \cup {v} :
               \E h \in (G \ Top.todo) \cup {g} : Agrees(PlainReading(P, h), w)
          /\ \A h \in (G \ Top.todo) \cup {g} :
               \E w \in Top.read \cup {v} : Agrees(PlainReading(P, h), w)
        BY <1>5, <2>3
    <2>6. QED
        BY <1>3, <2>2, <2>4, <2>5, PlainStays DEF FrameAgrees
<1>7. ASSUME NEW k \in 1..n
      PROVE FrameAgrees(P, k)'
    <2>1. CASE k = n
        BY <1>6, <2>1
    <2>2. CASE k # n
        BY <1>1, <1>4, <2>2, FrameStays DEF AgreesWith
    <2>3. QED
        BY <2>1, <2>2
<1>8. QED
    BY <1>4, <1>7, PlainStays DEF AgreesWith

LEMMA PushAgrees ==
    ASSUME RInv, NEW P, AgreesWith(P), NEW i \in DOMAIN doc.items,
           stack' = Append(stack, FrameOf(i)), UNCHANGED <<doc, resolver, check, pc, cache>>
    PROVE AgreesWith(P)'
<1>0. PICK n \in Nat : n = Len(stack)
    BY DEF RInv, TypeOK
<1>1. stack \in Seq(Frame) /\ FrameOf(i) \in Frame
    BY DocIs DEF RInv, TypeOK, FrameOf, Frame
<1>2. /\ Len(stack') = n + 1 /\ stack'[n + 1] = FrameOf(i)
      /\ \A k \in 1..n : stack'[k] = stack[k]
    BY <1>0, <1>1
<1>3. FrameAgrees(P, n + 1)'
    BY <1>2 DEF FrameAgrees, FrameOf
<1>4. ASSUME NEW k \in 1..(n + 1)
      PROVE FrameAgrees(P, k)'
    <2>1. CASE k = n + 1
        BY <1>3, <2>1
    <2>2. CASE k \in 1..n
        BY <1>0, <1>2, <2>2, FrameStays DEF AgreesWith
    <2>3. QED
        BY <1>0, <2>1, <2>2
<1>5. QED
    BY <1>2, <1>4, PlainStays DEF AgreesWith

LEMMA SettleAgrees ==
    ASSUME RInv, NEW P, Solves(P, DOMAIN doc.items), AgreesWith(P), Settle
    PROVE AgreesWith(P)'
<1>0. PICK n \in Nat : n = Len(stack)
    BY DEF RInv, TypeOK
<1>1. /\ stack \in Seq(Frame) /\ n \in 1..n /\ Top = stack[n] /\ Top \in Frame /\ Top.todo = {}
    BY <1>0 DEF RInv, TypeOK, Settle, Resolving, Top
<1>2. PICK i \in Items : i = Top.item
    BY <1>1 DEF Frame
<1>3. PICK failed \in BOOLEAN :
        /\ failed => check /\ HasShipped(Top.item) /\ doc.items[Top.item].acceptance # {}
        /\ cache' = [j \in DOMAIN cache \cup {i} |->
                       IF j = i THEN Settled(i, Top.read, failed) ELSE cache[j]]
    BY <1>2 DEF Settle
<1>4. /\ FrameAgrees(P, n) /\ i \in DOMAIN doc.items \ DOMAIN cache
    BY <1>0, <1>1, <1>2 DEF RInv, FrameStands, AgreesWith
<1>5. UNCHANGED <<doc, resolver, check>>
    BY DEF Settle
<1>6. Len(stack') = n - 1 /\ \A k \in 1..(n - 1) : k \in 1..n /\ stack'[k] = stack[k]
    BY <1>0, <1>1 DEF Settle
<1>7. Agrees(Folded(i, PlainRead(P, i)), Folded(i, Top.read))
    <2> DEFINE p == PlainRead(P, i)
               r == Top.read
    <2>1. /\ \A v \in r : \E g \in doc.items[i].gates : Agrees(PlainReading(P, g), v)
          /\ \A g \in doc.items[i].gates : \E v \in r : Agrees(PlainReading(P, g), v)
        BY <1>1, <1>2, <1>4 DEF FrameAgrees
    <2>2. (\A v \in r : \E u \in p : Agrees(u, v)) /\ (\A u \in p : \E v \in r : Agrees(u, v))
        BY <2>1 DEF PlainRead
    <2>3. doc.items[i].gates # {} => p # {}
        BY DEF PlainRead
    <2>4. r \in SUBSET Verdicts
        BY <1>1 DEF Frame
    <2>5. p \in SUBSET Verdicts
        <3>1. \A g \in doc.items[i].gates : PlainReading(P, g) \in Verdicts
            <4>1. SUFFICES ASSUME NEW g \in doc.items[i].gates
                           PROVE PlainReading(P, g) \in Verdicts
                OBVIOUS
            <4>2. CASE g.kind = "item"
                <5>1. Loaded /\ g.id \in DOMAIN doc.items
                    BY <1>4, <4>2 DEF RInv, Settle, Resolving, Loaded, ReferencesResolve
                <5>2. P[g.id] \in Verdicts
                    BY <5>1 DEF Solves
                <5>3. QED
                    BY <4>2, <5>2 DEF PlainReading, DependencyVerdict, Verdicts
            <4>3. CASE g.kind # "item"
                BY <4>3, LeafOne, LeafVerdictsAre DEF PlainReading
            <4>4. QED
                BY <4>2, <4>3
        <3>2. QED
            BY <3>1 DEF PlainRead
    <2> HIDE DEF p, r
    <2>6. Agrees(Folded(i, p), Folded(i, r))
        BY <2>2, <2>3, <2>4, <2>5, FoldAgrees
    <2>7. QED
        BY <2>6 DEF p, r
<1>8. Agrees(P[i], cache'[i].verdict)
    <2>1. P[i] = Folded(i, PlainRead(P, i))
        BY <1>4 DEF Solves
    <2>2. cache'[i].verdict = IF failed THEN BLOCKED ELSE Folded(i, Top.read)
        BY <1>3 DEF Settled
    <2>3. failed => check
        BY <1>3
    <2>4. CASE failed
        BY <2>2, <2>3, <2>4 DEF Agrees, BLOCKED, UNKNOWN
    <2>5. CASE ~failed
        BY <1>7, <2>1, <2>2, <2>5
    <2>6. QED
        BY <2>4, <2>5
<1>9. \A j \in DOMAIN cache' : Agrees(P[j], cache'[j].verdict)
    BY <1>3, <1>8 DEF AgreesWith
<1>10. \A k \in 1..(n - 1) : FrameAgrees(P, k)'
    BY <1>0, <1>5, <1>6, FrameStays DEF AgreesWith
<1>11. QED
    BY <1>5, <1>6, <1>9, <1>10, PlainStays DEF AgreesWith

LEMMA PlainStep == RInv /\ PlainInv /\ [Next]_vars => PlainInv'
<1> SUFFICES ASSUME RInv, PlainInv, [Next]_vars PROVE PlainInv'
    OBVIOUS
<1>0. UNCHANGED <<doc, resolver, check>> /\ stack \in Seq(Frame)
    BY DEF Next, Load, StartItem, ReadLeaf, ReadCached, Descend, Settle, Report, vars, RInv, TypeOK
<1>a. pc' \notin {"resolving", "reported"} => DOMAIN cache' = {}
    <2>1. pc' # "raised"
        BY Next_RInv DEF RInv
    <2>2. CASE pc' = pc /\ cache' = cache
        BY <2>2 DEF PlainInv
    <2>3. CASE Load
        BY <2>3 DEF Load, PlainInv
    <2>4. CASE Settle \/ Report
        BY <2>4 DEF Settle, Resolving, Report
    <2>5. CASE Descend
        BY <2>1, <2>2, <2>5 DEF Descend
    <2>6. QED
        BY <2>2, <2>3, <2>4, <2>5 DEF Next, StartItem, ReadLeaf, ReadCached, vars
<1>1. SUFFICES ASSUME NEW P \in [DOMAIN doc.items -> Verdicts], Solves(P, DOMAIN doc.items)
               PROVE AgreesWith(P)'
    BY <1>0, <1>a, PlainStays DEF PlainInv
<1>2. AgreesWith(P)
    BY <1>1 DEF PlainInv
<1>3. CASE UNCHANGED <<stack, cache>>
    <2>1. \A k \in 1..Len(stack) : FrameAgrees(P, k)'
        BY <1>0, <1>2, <1>3, FrameStays DEF AgreesWith
    <2>2. QED
        BY <1>0, <1>2, <1>3, <2>1, PlainStays DEF AgreesWith
<1>4. CASE StartItem
    <2>1. PICK i \in DOMAIN doc.items \ DOMAIN cache : stack' = <<FrameOf(i)>>
        BY <1>4 DEF StartItem
    <2>2. stack' = Append(stack, FrameOf(i))
        BY <1>4, <2>1 DEF StartItem
    <2>3. QED
        BY <1>2, <1>4, <2>2, PushAgrees DEF StartItem
<1>5. CASE ReadLeaf
    <2>1. PICK g \in Top.todo : g.kind # "item" /\ \E v \in LeafVerdicts(g, check) : Read(g, v)
        BY <1>5 DEF ReadLeaf
    <2>2. PICK v \in LeafVerdicts(g, check) : Read(g, v)
        BY <2>1
    <2>3. QED
        BY <1>2, <1>5, <2>1, <2>2, ReadAgrees DEF ReadLeaf
<1>6. CASE ReadCached
    <2>1. PICK g \in Top.todo :
            /\ g.kind = "item" /\ g.id \in DOMAIN cache
            /\ Read(g, DependencyVerdict(g.id, cache[g.id].verdict))
        BY <1>6 DEF ReadCached
    <2>2. QED
        BY <1>2, <1>6, <2>1, ReadAgrees DEF ReadCached
<1>7. CASE Descend
    <2>1. PICK g \in Top.todo :
            IF g.id \in DOMAIN doc.items \ InProgress
            THEN stack' = Append(stack, FrameOf(g.id)) /\ UNCHANGED pc
            ELSE pc' = "raised" /\ UNCHANGED stack
        BY <1>7 DEF Descend
    <2>2. CASE g.id \in DOMAIN doc.items \ InProgress
        BY <1>2, <1>7, <2>1, <2>2, PushAgrees DEF Descend
    <2>3. CASE g.id \notin DOMAIN doc.items \ InProgress
        BY <1>3, <1>7, <2>1, <2>3 DEF Descend
    <2>4. QED
        BY <2>2, <2>3
<1>8. CASE Settle
    BY <1>1, <1>2, <1>8, SettleAgrees
<1>9. QED
    BY <1>3, <1>4, <1>5, <1>6, <1>7, <1>8 DEF Next, Load, Report, vars

\* ChecksOnlySettle: with --check, what was BLOCKED stays BLOCKED and what was
\* READY does not become UNKNOWN, however the commands answer, in whatever order
\* items and gates are read; without it the cache gives the recursive definition
\* of readiness (resolve).
THEOREM ChecksHold == Spec => []ChecksOnlySettle
<1>1. Init => PlainInv
    <2>1. Init => DOMAIN cache = {} /\ Len(stack) = 0
        BY DEF Init
    <2>2. QED
        BY <2>1 DEF PlainInv, AgreesWith
<1>2. RInv /\ PlainInv => ChecksOnlySettle
    <2>1. SUFFICES ASSUME RInv, PlainInv, NEW i \in DOMAIN cache
                   PROVE Agrees(Plain[i], cache[i].verdict)
        BY DEF ChecksOnlySettle, Agrees
    <2>2. Loaded /\ TypeOK
        BY <2>1 DEF RInv, PlainInv
    <2>3. Solves(Plain, DOMAIN doc.items)
        BY <2>2, PlainSolves
    <2>4. AgreesWith(Plain)
        BY <2>1, <2>3 DEF PlainInv, Solves
    <2>5. QED
        BY <2>4 DEF AgreesWith
<1>3. QED
    BY <1>1, <1>2, AlwaysRInv, PlainStep, PTL DEF Spec

-----------------------------------------------------------------------------
(***************************************************************************)
(* A command ends.  Every step reads a gate for the first time, starts an  *)
(* item, settles one, or loads or reports.                                 *)
(***************************************************************************)

\* The gates still to be read, each with the item it is read for.
Unread ==
    {u \in (DOMAIN doc.items \ DOMAIN cache) \X UNION {doc.items[i].gates : i \in DOMAIN doc.items} :
       /\ u[2] \in doc.items[u[1]].gates
       /\ \A k \in 1..Len(stack) : stack[k].item = u[1] => u[2] \in stack[k].todo}

Unsettled == DOMAIN doc.items \ DOMAIN cache
NotStarted == Unsettled \ InProgress

Work == Cardinality(Unread) + Cardinality(NotStarted) + Cardinality(Unsettled)

StepsLeft ==
    CASE pc = "loading" -> Work + 2
      [] pc = "resolving" -> Work + 1
      [] OTHER -> 0

LEMMA WorkIsFinite ==
    ASSUME TypeOK
    PROVE /\ IsFiniteSet(Unread) /\ Cardinality(Unread) \in Nat
          /\ IsFiniteSet(Unsettled) /\ Cardinality(Unsettled) \in Nat
          /\ IsFiniteSet(NotStarted) /\ Cardinality(NotStarted) \in Nat
          /\ Work \in Nat
<1> DEFINE G == UNION {doc.items[i].gates : i \in DOMAIN doc.items}
<1>1. IsFiniteSet(DOMAIN doc.items) /\ IsFiniteSet(G)
    BY DocumentsAssumption, FS_Subset DEF TypeOK, IsDocument
<1>2. IsFiniteSet(Unsettled) /\ IsFiniteSet(NotStarted)
    <2>1. Unsettled \in SUBSET DOMAIN doc.items /\ NotStarted \in SUBSET DOMAIN doc.items
        BY DEF Unsettled, NotStarted
    <2>2. QED
        BY <1>1, <2>1, FS_Subset
<1>3. IsFiniteSet(Unread)
    <2>1. IsFiniteSet(Unsettled \X G)
        BY <1>1, <1>2, FS_Product
    <2>2. Unread \in SUBSET (Unsettled \X G)
        BY DEF Unread, Unsettled
    <2>3. QED
        BY <2>1, <2>2, FS_Subset
<1>4. /\ Cardinality(Unread) \in Nat /\ Cardinality(Unsettled) \in Nat
      /\ Cardinality(NotStarted) \in Nat
    BY <1>2, <1>3, FS_CardinalityType
<1>5. QED
    BY <1>2, <1>3, <1>4 DEF Work

\* Of two finite sets the smaller, and one that lost a member.
LEMMA Fewer ==
    ASSUME NEW S, IsFiniteSet(S), NEW T \in SUBSET S
    PROVE /\ Cardinality(T) \in Nat /\ Cardinality(S) \in Nat
          /\ Cardinality(T) <= Cardinality(S)
          /\ \A x \in S \ T : Cardinality(T) < Cardinality(S)
<1>1. IsFiniteSet(T) /\ Cardinality(T) <= Cardinality(S) /\ (Cardinality(S) = Cardinality(T) => S = T)
    BY FS_Subset
<1>2. Cardinality(T) \in Nat /\ Cardinality(S) \in Nat
    BY <1>1, FS_CardinalityType
<1>3. QED
    BY <1>1, <1>2

LEMMA WorkFalls ==
    ASSUME RInv, RInv', Unread' \subseteq Unread, Unsettled' \subseteq Unsettled,
           NotStarted' \subseteq NotStarted,
           Unread' # Unread \/ Unsettled' # Unsettled \/ NotStarted' # NotStarted
    PROVE Work' \in Nat /\ Work' < Work
<1>1. /\ IsFiniteSet(Unread) /\ IsFiniteSet(Unsettled) /\ IsFiniteSet(NotStarted)
    BY WorkIsFinite DEF RInv
<1> DEFINE a == Cardinality(Unread)
           b == Cardinality(NotStarted)
           c == Cardinality(Unsettled)
           d == Cardinality(Unread')
           e == Cardinality(NotStarted')
           f == Cardinality(Unsettled')
<1>2. a \in Nat /\ d \in Nat /\ d <= a /\ (Unread' # Unread => d < a)
    BY <1>1, Fewer
<1>3. b \in Nat /\ e \in Nat /\ e <= b /\ (NotStarted' # NotStarted => e < b)
    BY <1>1, Fewer
<1>4. c \in Nat /\ f \in Nat /\ f <= c /\ (Unsettled' # Unsettled => f < c)
    BY <1>1, Fewer
<1>5. Work = a + b + c /\ Work' = d + e + f
    BY DEF Work
<1> HIDE DEF a, b, c, d, e, f
<1>6. QED
    BY <1>2, <1>3, <1>4, <1>5

LEMMA ReadUsesUp ==
    ASSUME RInv, RInv', Resolving, NEW g \in Top.todo, NEW v, Read(g, v),
           UNCHANGED <<doc, resolver, check, pc, cache>>
    PROVE Work' \in Nat /\ Work' < Work
<1>0. PICK n \in Nat : n = Len(stack)
    BY DEF RInv, TypeOK
<1> DEFINE new == [item |-> Top.item, todo |-> Top.todo \ {g}, read |-> Top.read \cup {v}]
<1>1. stack \in Seq(Frame) /\ n \in 1..n /\ n = Len(stack) /\ Top = stack[n]
    BY <1>0 DEF RInv, TypeOK, Resolving, Top
<1>2. stack' = [stack EXCEPT ![n] = new]
    BY <1>0 DEF Read, Top
<1>3. new.item = Top.item /\ new.todo = Top.todo \ {g}
    OBVIOUS
<1> HIDE DEF new
<1>4. Len(stack') = n /\ \A k \in 1..n : stack'[k] = IF k = n THEN new ELSE stack[k]
    BY <1>1, <1>2
<1>5. \A k \in 1..n : stack'[k].item = stack[k].item /\ stack'[k].todo \subseteq stack[k].todo
    BY <1>1, <1>3, <1>4
<1>6. Unread' \subseteq Unread
    BY <1>1, <1>4, <1>5 DEF Unread
<1>7. Unsettled' = Unsettled /\ NotStarted' = NotStarted
    BY <1>1, <1>4, <1>5 DEF Unsettled, NotStarted, InProgress
<1>8. <<Top.item, g>> \in Unread /\ <<Top.item, g>> \notin Unread'
    <2>1. /\ Top.item \in DOMAIN doc.items \ DOMAIN cache /\ g \in doc.items[Top.item].gates
          /\ \A k \in 1..n : stack[k].item = Top.item => k = n
        BY <1>1 DEF RInv, FrameStands, IsPath
    <2>2. <<Top.item, g>> \in Unread
        BY <1>1, <2>1 DEF Unread
    <2>3. stack'[n].item = Top.item /\ g \notin stack'[n].todo
        BY <1>1, <1>3, <1>4
    <2>4. <<Top.item, g>> \notin Unread'
        BY <1>1, <1>4, <2>3 DEF Unread
    <2>5. QED
        BY <2>2, <2>4
<1>9. QED
    BY <1>6, <1>7, <1>8, WorkFalls

LEMMA PushUsesUp ==
    ASSUME RInv, RInv', NEW i \in DOMAIN doc.items \ DOMAIN cache, i \notin InProgress,
           stack' = Append(stack, FrameOf(i)), UNCHANGED <<doc, resolver, check, pc, cache>>
    PROVE Work' \in Nat /\ Work' < Work
<1>0. PICK n \in Nat : n = Len(stack)
    BY DEF RInv, TypeOK
<1>1. stack \in Seq(Frame) /\ FrameOf(i) \in Frame
    BY DocIs DEF RInv, TypeOK, FrameOf, Frame
<1>2. /\ Len(stack') = n + 1 /\ stack'[n + 1] = FrameOf(i)
      /\ \A k \in 1..n : k \in 1..(n + 1) /\ stack'[k] = stack[k]
    BY <1>0, <1>1
<1>3. Unread' \subseteq Unread /\ Unsettled' = Unsettled
    BY <1>0, <1>2 DEF Unread, Unsettled
<1>4. InProgress \subseteq InProgress' /\ i \in InProgress'
    <2>1. stack'[n + 1].item = i /\ n + 1 \in 1..(n + 1)
        BY <1>0, <1>2 DEF FrameOf
    <2>2. QED
        BY <1>0, <1>2, <2>1 DEF InProgress
<1>5. NotStarted' \subseteq NotStarted /\ i \in NotStarted /\ i \notin NotStarted'
    BY <1>3, <1>4 DEF NotStarted, Unsettled
<1>6. QED
    BY <1>3, <1>5, WorkFalls

LEMMA SettleUsesUp ==
    ASSUME RInv, RInv', Settle
    PROVE Work' \in Nat /\ Work' < Work
<1>0. PICK n \in Nat : n = Len(stack)
    BY DEF RInv, TypeOK
<1>1. stack \in Seq(Frame) /\ n \in 1..n /\ n = Len(stack) /\ Top = stack[n] /\ doc' = doc
    BY <1>0 DEF RInv, TypeOK, Settle, Resolving, Top
<1>2. PICK i : i = Top.item /\ i \in DOMAIN doc.items \ DOMAIN cache
    BY <1>1 DEF RInv, FrameStands
<1>3. DOMAIN cache' = DOMAIN cache \cup {i}
    BY <1>2 DEF Settle
<1>4. Len(stack') = n - 1 /\ \A k \in 1..(n - 1) : k \in 1..n /\ stack'[k] = stack[k]
    BY <1>0, <1>1 DEF Settle
<1>5. \A k \in 1..n : k \in 1..(n - 1) \/ stack[k].item = i
    BY <1>1, <1>2
<1>6. Unsettled' = Unsettled \ {i} /\ i \in Unsettled
    BY <1>1, <1>2, <1>3 DEF Unsettled
<1>7. InProgress \subseteq InProgress' \cup {i}
    BY <1>1, <1>4, <1>5 DEF InProgress
<1>8. NotStarted' \subseteq NotStarted
    BY <1>6, <1>7 DEF NotStarted
<1>9. Unread' \subseteq Unread
    BY <1>1, <1>3, <1>4, <1>5 DEF Unread
<1>10. QED
    BY <1>6, <1>8, <1>9, WorkFalls

\* A command on any document takes at most two steps more than it has gates to read
\* and twice the items to settle, whatever the commands answer: _readiness recurses
\* without looping.  What a run checks as Reports adds only that a command which has
\* not reported has a next step.
THEOREM StepsRunOut == Spec => [][StepsLeft' \in Nat /\ StepsLeft' < StepsLeft]_vars
<1>1. RInv /\ [Next]_vars => [StepsLeft' \in Nat /\ StepsLeft' < StepsLeft]_vars
    <2>1. SUFFICES ASSUME RInv, Next
                   PROVE StepsLeft' \in Nat /\ StepsLeft' < StepsLeft
        OBVIOUS
    <2>2. RInv' /\ Work \in Nat
        BY <2>1, Next_RInv, WorkIsFinite DEF RInv
    <2>3. ASSUME pc = "resolving", pc' = "resolving", Work' \in Nat, Work' < Work
          PROVE StepsLeft' \in Nat /\ StepsLeft' < StepsLeft
        BY <2>2, <2>3 DEF StepsLeft
    <2>4. CASE Load
        <3>1. /\ pc = "loading" /\ pc' \in {"resolving", "refused"}
              /\ UNCHANGED <<doc, stack, cache>>
            BY <2>4 DEF Load
        <3>2. Work' = Work
            BY <3>1 DEF Work, Unread, NotStarted, Unsettled, InProgress
        <3>3. QED
            BY <2>2, <3>1, <3>2 DEF StepsLeft
    <2>5. CASE StartItem
        <3>1. PICK i \in DOMAIN doc.items \ DOMAIN cache : stack' = <<FrameOf(i)>>
            BY <2>5 DEF StartItem
        <3>2. stack' = Append(stack, FrameOf(i)) /\ i \notin InProgress
            BY <2>5, <3>1 DEF StartItem, InProgress
        <3>3. Work' \in Nat /\ Work' < Work
            BY <2>1, <2>2, <2>5, <3>2, PushUsesUp DEF StartItem
        <3>4. QED
            BY <2>3, <2>5, <3>3 DEF StartItem
    <2>6. CASE ReadLeaf
        <3>1. PICK g \in Top.todo : \E v \in LeafVerdicts(g, check) : Read(g, v)
            BY <2>6 DEF ReadLeaf
        <3>2. Work' \in Nat /\ Work' < Work
            BY <2>1, <2>2, <2>6, <3>1, ReadUsesUp DEF ReadLeaf
        <3>3. QED
            BY <2>3, <2>6, <3>2 DEF ReadLeaf, Resolving
    <2>7. CASE ReadCached
        <3>1. PICK g \in Top.todo : Read(g, DependencyVerdict(g.id, cache[g.id].verdict))
            BY <2>7 DEF ReadCached
        <3>2. Work' \in Nat /\ Work' < Work
            BY <2>1, <2>2, <2>7, <3>1, ReadUsesUp DEF ReadCached
        <3>3. QED
            BY <2>3, <2>7, <3>2 DEF ReadCached, Resolving
    <2>8. CASE Descend
        <3>1. PICK g \in Top.todo :
                /\ g.id \notin DOMAIN cache
                /\ IF g.id \in DOMAIN doc.items \ InProgress
                     THEN stack' = Append(stack, FrameOf(g.id)) /\ UNCHANGED pc
                     ELSE pc' = "raised" /\ UNCHANGED stack
            BY <2>8 DEF Descend
        <3>2. /\ g.id \in DOMAIN doc.items \ InProgress /\ UNCHANGED pc
              /\ stack' = Append(stack, FrameOf(g.id))
            BY <2>2, <3>1 DEF RInv
        <3>3. Work' \in Nat /\ Work' < Work
            BY <2>1, <2>2, <2>8, <3>1, <3>2, PushUsesUp DEF Descend
        <3>4. QED
            BY <2>3, <2>8, <3>2, <3>3 DEF Descend, Resolving
    <2>9. CASE Settle
        <3>1. Work' \in Nat /\ Work' < Work
            BY <2>1, <2>2, <2>9, SettleUsesUp
        <3>2. QED
            BY <2>3, <2>9, <3>1 DEF Settle, Resolving
    <2>10. CASE Report
        BY <2>2, <2>10 DEF Report, StepsLeft
    <2>11. QED
        BY <2>1, <2>4, <2>5, <2>6, <2>7, <2>8, <2>9, <2>10 DEF Next
<1>2. QED
    BY <1>1, AlwaysRInv, PTL DEF Spec
=============================================================================
