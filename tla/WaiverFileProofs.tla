--------------------------- MODULE WaiverFileProofs ---------------------------
(***************************************************************************)
(* Theorems about waivers.jsonl and the commands that extend it, for any   *)
(* registry, any number of commands and any bounds.                        *)
(*                                                                         *)
(* The first part is about registers, as sets: which of the rules a        *)
(* register keeps when a record is taken away, how many waivers a control  *)
(* can have, what one more waiver does to the licences.  The second        *)
(* follows the commands: a candidate was validated with the register its   *)
(* command loaded, and no waiver renews one that is not on file.           *)
(***************************************************************************)
EXTENDS WaiverFile, FiniteSetTheorems, WellFoundedInduction, TLAPS

-----------------------------------------------------------------------------
(***************************************************************************)
(* Registers.                                                              *)
(***************************************************************************)

\* Every waiver that renews names one of the register, on the same control.
Parented(R) ==
    \A w \in R : w.renews # NoWaiver => \E v \in R : v.id = w.renews /\ v.control = w.control

\* A longer chain of renewals is one that a larger register has as well.
LEMMA ChainsGrow ==
    ASSUME NEW R, NEW S \in SUBSET R, NEW n PROVE Chain(S, n) \subseteq Chain(R, n)
    BY DEF Chain

\* A part of a valid register is valid unless a waiver lost the one it renews.
LEMMA PartsAreValid ==
    ASSUME NEW R, NEW S \in SUBSET R, ValidRegister(R), Parented(S)
    PROVE ValidRegister(S)
<1>1. \A w \in S : WellFormed(w)
    BY DEF ValidRegister
<1>2. IdsUnique(S) /\ WithinPolicy(S) /\ OneChainPerScope(S)
    BY DEF ValidRegister, IdsUnique, WithinPolicy, OneChainPerScope
<1>3. RenewalsSound(S)
    BY ChainsGrow DEF ValidRegister, RenewalsSound, Parented
<1>4. QED
    BY <1>1, <1>2, <1>3 DEF ValidRegister

LEMMA ValidIsParented == \A R : ValidRegister(R) => Parented(R)
    BY DEF ValidRegister, RenewalsSound, Parented

\* Cap one allows one renewal of an original and no second one, cap zero none.
LEMMA ParentsAreRoots ==
    ASSUME NEW R \in SUBSET Waiver, ValidRegister(R),
           NEW w \in R, NEW v \in R, w.renews # NoWaiver, v.id = w.renews
    PROVE MaxRenewals = 1 /\ v.renews = NoWaiver
<1>1. Chain(R, MaxRenewals + 1) = {}
    BY DEF ValidRegister, RenewalsSound
<1>2. MaxRenewals = 0 \/ MaxRenewals = 1
    BY PolicyAssumption
<1>3. MaxRenewals = 1
    <2> SUFFICES ASSUME MaxRenewals = 0 PROVE FALSE
        BY <1>2
    <2> DEFINE s == [i \in 0..1 |-> IF i = 0 THEN w ELSE v]
    <2>1. s \in [0..1 -> R] /\ s[0] = w /\ s[1] = v
        OBVIOUS
    <2>2. \A i \in 0..(1 - 1) : s[i].renews = s[i + 1].id
        <3> SUFFICES ASSUME NEW i \in 0..(1 - 1) PROVE s[i].renews = s[i + 1].id
            OBVIOUS
        <3>1. i = 0 /\ i + 1 = 1
            OBVIOUS
        <3> HIDE DEF s
        <3>2. QED
            BY <2>1, <3>1
    <2> HIDE DEF s
    <2>3. s \in Chain(R, 1)
        BY <2>1, <2>2 DEF Chain
    <2>4. QED
        BY <1>1, <2>3
<1>4. ASSUME v.renews # NoWaiver PROVE FALSE
    <2>1. PICK u \in R : u.id = v.renews
        BY <1>4, ValidIsParented DEF Parented
    <2> DEFINE s == [i \in 0..2 |-> IF i = 0 THEN w ELSE IF i = 1 THEN v ELSE u]
    <2>2. s \in [0..2 -> R] /\ s[0] = w /\ s[1] = v /\ s[2] = u
        OBVIOUS
    <2>3. \A i \in 0..(2 - 1) : s[i].renews = s[i + 1].id
        <3> SUFFICES ASSUME NEW i \in 0..(2 - 1) PROVE s[i].renews = s[i + 1].id
            OBVIOUS
        <3>1. \/ i = 0 /\ i + 1 = 1
              \/ i = 1 /\ i + 1 = 2
            OBVIOUS
        <3> HIDE DEF s
        <3>2. QED
            BY <2>1, <2>2, <3>1
    <2> HIDE DEF s
    <2>4. s \in Chain(R, 2)
        BY <2>2, <2>3 DEF Chain
    <2>5. QED
        BY <1>1, <1>3, <2>4
<1>5. QED
    BY <1>3, <1>4

\* The waivers of one control: at most an original per band, as originals on
\* one control share no band, and at most a renewal per original.
LEMMA WindowsBounded ==
    ASSUME NEW R \in SUBSET Waiver, IsFiniteSet(R), ValidRegister(R), NEW c
    PROVE LET on == {w \in R : w.control = c}
              roots == {w \in on : w.renews = NoWaiver}
          IN  /\ Cardinality(roots) <= Cardinality(Bands)
              /\ Cardinality(on) <= Cardinality(roots) * (MaxRenewals + 1)
<1> DEFINE on == {w \in R : w.control = c}
           roots == {w \in on : w.renews = NoWaiver}
           kids == {w \in on : w.renews # NoWaiver}
           parent == [w \in kids |-> CHOOSE v \in R : v.id = w.renews /\ v.control = w.control]
           band == [w \in roots |-> CHOOSE b \in Bands : b \in w.bands]
<1>1. Cardinality(roots) <= Cardinality(Bands)
    <2>1. \A w \in roots : \E b \in Bands : b \in w.bands
        BY DEF ValidRegister, WellFormed, Waiver
    <2>2. \A w \in roots : band[w] \in Bands /\ band[w] \in w.bands
        BY <2>1
    <2>3. \A v, w \in roots : band[v] = band[w] => v = w
        BY <2>2 DEF ValidRegister, OneChainPerScope
    <2>4. band \in Injection(roots, Bands)
        BY <2>2, <2>3 DEF Injection, IsInjective
    <2> HIDE DEF band, roots
    <2>5. QED
        BY <2>4, FS_Injection, VocabularyAssumption
<1>2. IsFiniteSet(roots) /\ IsFiniteSet(kids) /\ IsFiniteSet(on)
    BY FS_Subset
<1>3. \A w \in kids : parent[w] \in roots /\ parent[w].id = w.renews
    <2> SUFFICES ASSUME NEW w \in kids PROVE parent[w] \in roots /\ parent[w].id = w.renews
        OBVIOUS
    <2>1. \E v \in R : v.id = w.renews /\ v.control = w.control
        BY ValidIsParented DEF Parented
    <2>2. parent[w] \in R /\ parent[w].id = w.renews /\ parent[w].control = w.control
        BY <2>1
    <2> HIDE DEF parent
    <2>3. QED
        BY <2>2, ParentsAreRoots
<1>4. parent \in Injection(kids, roots)
    <2>1. \A v, w \in kids : parent[v] = parent[w] => v = w
        BY <1>3 DEF ValidRegister, RenewalsSound
    <2>2. parent \in [kids -> roots]
        <3>1. \A w \in kids : parent[w] \in roots
            BY <1>3
        <3>2. QED
            BY <3>1
    <2>3. QED
        BY <2>1, <2>2 DEF Injection, IsInjective
<1>5. Cardinality(kids) <= Cardinality(roots)
    <2> HIDE DEF parent, kids, roots
    <2>1. QED
        BY <1>2, <1>4, FS_Injection
<1>6. on = roots \cup kids /\ roots \cap kids = {}
    OBVIOUS
<1>7. Cardinality(on) = Cardinality(roots) + Cardinality(kids)
    <2> HIDE DEF on, roots, kids
    <2>1. Cardinality(roots \cap kids) = 0
        BY <1>6, FS_EmptySet
    <2>2. Cardinality(roots) \in Nat /\ Cardinality(kids) \in Nat
        BY <1>2, FS_CardinalityType
    <2>3. Cardinality(roots \cup kids)
             = Cardinality(roots) + Cardinality(kids) - Cardinality(roots \cap kids)
        BY <1>2, FS_Union
    <2>4. QED
        BY <1>6, <2>1, <2>2, <2>3
<1>8. MaxRenewals = 0 => kids = {}
    BY ValidIsParented, ParentsAreRoots DEF Parented
<1>9. Cardinality(on) <= Cardinality(roots) * (MaxRenewals + 1)
    <2> HIDE DEF on, roots, kids
    <2>1. Cardinality(roots) \in Nat /\ Cardinality(kids) \in Nat
        BY <1>2, FS_CardinalityType
    <2>2. CASE MaxRenewals = 0
        BY <1>7, <1>8, <2>1, <2>2, FS_EmptySet
    <2>3. CASE MaxRenewals = 1
        BY <1>5, <1>7, <2>1, <2>3
    <2>4. QED
        BY <2>2, <2>3, PolicyAssumption
<1>10. QED
    BY <1>1, <1>9

\* Every non-empty set of naturals has a least element.
LEMMA LeastNat == \A S \in SUBSET Nat : S # {} => \E m \in S : \A n \in S : m <= n
<1> SUFFICES ASSUME NEW S, S \subseteq Nat, S # {}
             PROVE \E m \in S : \A n \in S : m <= n
    OBVIOUS
<1>1. PICK m \in S : \A n \in S : ~ (<<n, m>> \in OpToRel(<, Nat))
    BY NatLessThanWellFounded, WFMin, Zenon
<1>2. \A n \in S : ~(n < m)
    BY <1>1 DEF OpToRel
<1>3. QED
    BY <1>2

\* Among waivers some is sooner than all the others.
LEMMA SomeIsSoonest ==
    ASSUME NEW M \in SUBSET Waiver, M # {} PROVE \E w \in M : \A v \in M : Sooner(w, v)
<1> DEFINE Times == {w.issued_at : w \in M}
<1>1. \A w \in M : w.issued_at \in Nat /\ IdRank[w.id] \in Nat
    BY VocabularyAssumption DEF Waiver
<1>2. PICK m \in Times : \A n \in Times : m <= n
    <2>1. Times \in SUBSET Nat /\ Times # {}
        BY <1>1
    <2> HIDE DEF Times
    <2>2. QED
        BY <2>1, LeastNat
<1> DEFINE first == {w \in M : w.issued_at = m}
           Ranks == {IdRank[w.id] : w \in first}
<1>3. PICK k \in Ranks : \A n \in Ranks : k <= n
    <2>1. Ranks \in SUBSET Nat /\ Ranks # {}
        BY <1>1, <1>2
    <2> HIDE DEF Ranks
    <2>2. QED
        BY <2>1, LeastNat
<1>4. PICK w \in first : IdRank[w.id] = k
    OBVIOUS
<1>5. ASSUME NEW v \in M PROVE Sooner(w, v)
    <2>1. w.issued_at = m /\ m <= v.issued_at /\ m \in Nat /\ v.issued_at \in Nat
        BY <1>1, <1>2, <1>4
    <2>2. CASE v.issued_at = m
        BY <1>3, <1>4, <2>1, <2>2 DEF Sooner
    <2>3. CASE v.issued_at # m
        BY <2>1, <2>3 DEF Sooner
    <2>4. QED
        BY <2>2, <2>3
<1>6. QED
    BY <1>4, <1>5

\* A control is covered for a caller exactly when some effective waiver
\* covers it without excluding the caller.
LEMMA CoveredExactly ==
    ASSUME NEW R \in SUBSET Waiver, NEW c, NEW b, NEW at, NEW claimed
    PROVE Covering(R, c, b, at, claimed) # {}
            <=> \E w \in Effective(R, at) : Covers(w, c, b) /\ ~Excludes(w, claimed)
<1> DEFINE match == {w \in Effective(R, at) : Covers(w, c, b) /\ ~Excludes(w, claimed)}
<1>1. match \in SUBSET Waiver
    BY DEF Effective, Active
<1>2. Covering(R, c, b, at, claimed) = {w \in match : \A v \in match : Sooner(w, v)}
    BY DEF Covering
<1>3. match # {} <=> \E w \in Effective(R, at) : Covers(w, c, b) /\ ~Excludes(w, claimed)
    OBVIOUS
<1> HIDE DEF match
<1>4. match # {} => \E w \in match : \A v \in match : Sooner(w, v)
    BY <1>1, SomeIsSoonest
<1>5. QED
    BY <1>2, <1>3, <1>4

\* In a larger register that stays within the cap everything effective stays so.
LEMMA WithinCapKeeps ==
    ASSUME NEW R, IsFiniteSet(R), NEW S \in SUBSET R, NEW at, ~OverCap(R, at)
    PROVE Effective(S, at) \subseteq Effective(R, at)
<1>1. Active(S, at) \subseteq Active(R, at) /\ IsFiniteSet(Active(R, at))
    BY FS_Subset DEF Active
<1>2. Cardinality(Active(S, at)) <= Cardinality(Active(R, at))
    BY <1>1, FS_Subset
<1>3. /\ Cardinality(Active(S, at)) \in Nat
      /\ Cardinality(Active(R, at)) \in Nat
      /\ MaxActive \in Nat
    BY <1>1, FS_Subset, FS_CardinalityType, PolicyAssumption
<1>4. ~OverCap(S, at)
    BY <1>2, <1>3 DEF OverCap
<1>5. QED
    BY <1>1, <1>4 DEF Effective

-----------------------------------------------------------------------------
(***************************************************************************)
(* Lines and commands.                                                     *)
(***************************************************************************)

Line == Waiver \cup {Torn, Glued}

\* What a command is about to append was validated with what it loaded, under
\* an id that was free there.
Candidates ==
    \A p \in Processes : pc[p] = "writing" =>
      /\ cand[p] \in Waiver
      /\ ValidRegister(known[p] \cup {cand[p]})
      /\ \A v \in known[p] : v.id # cand[p].id

\* What a command loaded is still on file: lines are only added, and only a
\* torn one is written over.
OnFile == \A p \in Processes : known[p] \subseteq Lines

IInv == TypeOK /\ Candidates /\ OnFile /\ Parented(Lines \cap Waiver) /\ OnlyRacesBreakTheFile

LEMMA WellFormedLines ==
    ASSUME TypeOK
    PROVE /\ Lines \subseteq Line
          /\ ~Malformed => Lines \subseteq Waiver
          /\ IsFiniteSet(Lines)
          /\ Cardinality(Lines) \in Nat
          /\ Len(file) \in Nat
          /\ Cardinality(Lines) <= Len(file)
<1>1. Len(file) \in Nat /\ DOMAIN file = 1..Len(file) /\ \A i \in DOMAIN file : file[i] \in Line
    BY DEF TypeOK, Line
<1>2. Lines \subseteq Line /\ (~Malformed => Lines \subseteq Waiver)
    BY <1>1 DEF Lines, Line, Malformed
<1> DEFINE at == [i \in 1..Len(file) |-> file[i]]
<1>3. at \in Surjection(1..Len(file), Lines)
    BY <1>1 DEF Surjection, Lines
<1>4. IsFiniteSet(1..Len(file)) /\ Cardinality(1..Len(file)) = Len(file)
    BY <1>1, FS_Interval
<1> HIDE DEF at
<1>5. IsFiniteSet(Lines) /\ Cardinality(Lines) <= Len(file)
    BY <1>3, <1>4, FS_Surjection
<1>6. QED
    BY <1>1, <1>2, <1>5, FS_CardinalityType

LEMMA LinesAppended ==
    ASSUME TypeOK, NEW x, file' = Append(file, x)
    PROVE /\ Lines' = Lines \cup {x}
          /\ Len(file') = Len(file) + 1
          /\ x \in Line => file' \in Seq(Line)
<1>1. file \in Seq(Line) /\ Len(file) \in Nat
    BY DEF TypeOK, Line
<1>2. /\ DOMAIN file' = 1..(Len(file) + 1)
      /\ file'[Len(file) + 1] = x
      /\ \A i \in 1..Len(file) : file'[i] = file[i]
    BY <1>1
<1>3. Lines' = {file[i] : i \in 1..Len(file)} \cup {x}
    <2>1. \A i \in 1..(Len(file) + 1) : i \in 1..Len(file) \/ i = Len(file) + 1
        BY <1>1
    <2>2. QED
        BY <1>1, <1>2, <2>1 DEF Lines
<1>4. QED
    BY <1>1, <1>3 DEF Lines

\* A line written behind a torn one only turns the torn one into a glued one.
LEMMA LinesGlued ==
    ASSUME TypeOK, TornEnd, file' = [file EXCEPT ![Len(file)] = Glued]
    PROVE /\ Lines' \cap Waiver = Lines \cap Waiver
          /\ Malformed'
          /\ file' \in Seq(Line)
<1>1. file \in Seq(Line) /\ Len(file) \in Nat /\ Len(file) \in 1..Len(file) /\ file[Len(file)] = Torn
    BY DEF TypeOK, Line, TornEnd
<1>2. file' \in Seq(Line) /\ DOMAIN file' = DOMAIN file /\ Glued \in Line
    BY <1>1 DEF Line
<1>3. Glued \in Lines'
    BY <1>1, <1>2 DEF Lines
<1>4. ASSUME NEW w \in Waiver PROVE w \in Lines' <=> w \in Lines
    <2>1. w # Torn /\ w # Glued
        BY LineAssumption
    <2>2. QED
        BY <1>1, <1>2, <2>1 DEF Lines
<1>5. QED
    BY <1>2, <1>3, <1>4 DEF Malformed

\* What a step does to the file: nothing, a mark that it does not load any more
\* and the same waivers, or the candidate of one command as a line of its own.
LEMMA Written ==
    ASSUME TypeOK, [Next]_vars
    PROVE \/ file' = file
          \/ Malformed' /\ Lines' \cap Waiver = Lines \cap Waiver /\ file' \in Seq(Line)
          \/ \E p \in Processes : AppendLine(p) /\ file' = Append(file, cand[p])
<1>1. ASSUME NEW p \in Processes, AppendLine(p), TornEnd
      PROVE Malformed' /\ Lines' \cap Waiver = Lines \cap Waiver /\ file' \in Seq(Line)
    BY <1>1, LinesGlued DEF AppendLine
<1>2. ASSUME NEW p \in Processes, TearLine(p), ~TornEnd
      PROVE Malformed' /\ Lines' \cap Waiver = Lines \cap Waiver /\ file' \in Seq(Line)
    <2>1. file' = Append(file, Torn)
        BY <1>2 DEF TearLine
    <2>2. Lines' = Lines \cup {Torn} /\ file' \in Seq(Line)
        BY <2>1, LinesAppended DEF Line
    <2>3. QED
        BY <2>2, LineAssumption DEF Malformed
<1>3. ASSUME NEW p \in Processes, AppendLine(p), ~TornEnd PROVE file' = Append(file, cand[p])
    BY <1>3 DEF AppendLine
<1>4. QED
    BY <1>1, <1>2, <1>3 DEF Next, vars, Tick, Load, Validate, TearLine, Exit

LEMMA Init_IInv == Init => IInv
<1> SUFFICES ASSUME Init PROVE IInv
    OBVIOUS
<1>1. TypeOK
    <2>1. file \in Seq(Waiver \cup {Torn, Glued})
        BY DEF Init
    <2>2. QED
        BY <2>1 DEF Init, TypeOK
<1>2. Lines = {}
    BY DEF Init, Lines
<1>3. Candidates /\ OnFile /\ Parented(Lines \cap Waiver)
    BY <1>2 DEF Init, Candidates, OnFile, Parented
<1>4. Loads
    <2>1. Chain({}, MaxRenewals + 1) = {}
        BY PolicyAssumption DEF Chain
    <2>2. ValidRegister({})
        BY <2>1 DEF ValidRegister, IdsUnique, WithinPolicy, RenewalsSound, OneChainPerScope
    <2>3. Cardinality(Lines) = 0 /\ Len(file) = 0
        BY <1>2, FS_EmptySet DEF Init
    <2>4. QED
        BY <1>2, <2>2, <2>3 DEF Loads, Malformed
<1>5. QED
    BY <1>1, <1>3, <1>4 DEF IInv, OnlyRacesBreakTheFile

\* The candidate of a command is a waiver that is valid with what it loaded.
LEMMA Validated ==
    ASSUME TypeOK, NEW p \in Processes, Validate(p)
    PROVE \E w \in Waiver : /\ \A v \in known[p] : v.id # w.id
                            /\ ValidRegister(known[p] \cup {w})
                            /\ cand' = [cand EXCEPT ![p] = w]
<1>1. PICK i \in WaiverIds, c \in Controls, B \in SUBSET Bands, a \in Operators, s \in Operators,
           ttl \in 1..(MaxTtl + 1), r \in WaiverIds \cup {NoWaiver} :
             LET w == [id |-> i, control |-> c, bands |-> B, accountable |-> a, issued_by |-> s,
                       issued_at |-> now, expires_at |-> now + ttl, renews |-> r]
             IN  /\ \A v \in known[p] : v.id # i
                 /\ ValidRegister(known[p] \cup {w})
                 /\ cand' = [cand EXCEPT ![p] = w]
    BY Zenon DEF Validate
<1> DEFINE w == [id |-> i, control |-> c, bands |-> B, accountable |-> a, issued_by |-> s,
                 issued_at |-> now, expires_at |-> now + ttl, renews |-> r]
<1>2. now \in Nat /\ now + ttl \in Nat
    BY PolicyAssumption DEF TypeOK
<1>3. w \in Waiver
    BY <1>2, OperatorAssumption DEF Waiver
<1>4. w.id = i
    OBVIOUS
<1> HIDE DEF w
<1>5. ValidRegister(known[p] \cup {w}) /\ cand' = [cand EXCEPT ![p] = w]
    BY <1>1 DEF w
<1>6. QED
    BY <1>1, <1>3, <1>4, <1>5

\* Besides the file, a step moves one command: it loads, it validates a
\* candidate, or it is gone.
LEMMA Next_Types == TypeOK /\ [Next]_vars => TypeOK'
<1> SUFFICES ASSUME TypeOK, [Next]_vars PROVE TypeOK'
    OBVIOUS
<1>1. file' \in Seq(Line)
    <2>1. ASSUME NEW p \in Processes, AppendLine(p), file' = Append(file, cand[p])
          PROVE file' \in Seq(Line)
        <3>1. cand[p] \in Waiver
            BY <2>1 DEF TypeOK, AppendLine
        <3>2. QED
            BY <2>1, <3>1, LinesAppended DEF Line
    <2>2. QED
        BY <2>1, Written DEF TypeOK, Line
<1>2. now' \in Nat
    BY DEF TypeOK, Next, vars, Tick, Load, Validate, AppendLine, TearLine, Exit
<1>3. stale' \in BOOLEAN
    BY DEF TypeOK, Next, vars, Tick, Load, Validate, AppendLine, TearLine, Exit
<1>4. /\ pc' \in [Processes -> {"idle", "loaded", "writing"}]
      /\ known' \in [Processes -> SUBSET Waiver]
      /\ cand' \in [Processes -> Waiver \cup {NoWaiver}]
      /\ \A p \in Processes : pc'[p] = "writing" <=> cand'[p] # NoWaiver
    <2>1. CASE UNCHANGED <<pc, known, cand>>
        BY <2>1 DEF TypeOK
    <2>2. ASSUME NEW p \in Processes, Load(p)
          PROVE <1>4!:
        <3>1. Lines \subseteq Waiver
            BY <2>2, WellFormedLines DEF Load, Loads
        <3>2. QED
            BY <2>2, <3>1 DEF Load, TypeOK
    <2>3. ASSUME NEW p \in Processes, Validate(p)
          PROVE <1>4!:
        <3>1. PICK w \in Waiver : cand' = [cand EXCEPT ![p] = w]
            BY <2>3, Validated
        <3>2. w # NoWaiver
            BY <3>1, LineAssumption
        <3>3. QED
            BY <2>3, <3>1, <3>2 DEF Validate, TypeOK
    <2>4. ASSUME NEW p \in Processes, Forget(p)
          PROVE <1>4!:
        BY <2>4 DEF Forget, TypeOK
    <2>5. QED
        BY <2>1, <2>2, <2>3, <2>4 DEF Next, vars, Tick, AppendLine, TearLine, Exit
<1>5. QED
    BY <1>1, <1>2, <1>3, <1>4 DEF TypeOK, Line

\* A command holds something only between its load and its end.
LEMMA Held ==
    ASSUME TypeOK, [Next]_vars, NEW p \in Processes
    PROVE \/ known'[p] = known[p] /\ cand'[p] = cand[p] /\ pc'[p] = pc[p]
          \/ known'[p] = {} /\ pc'[p] = "idle"
          \/ known'[p] = Lines /\ pc'[p] = "loaded" /\ file' = file
          \/ known'[p] = known[p] /\ Validate(p)
<1>1. ASSUME NEW q \in Processes, Forget(q)
      PROVE \/ known'[p] = known[p] /\ cand'[p] = cand[p] /\ pc'[p] = pc[p]
            \/ known'[p] = {} /\ pc'[p] = "idle"
    BY <1>1 DEF Forget, TypeOK
<1>2. ASSUME NEW q \in Processes, Load(q)
      PROVE \/ known'[p] = known[p] /\ cand'[p] = cand[p] /\ pc'[p] = pc[p]
            \/ known'[p] = Lines /\ pc'[p] = "loaded" /\ file' = file
    BY <1>2 DEF Load, TypeOK
<1>3. ASSUME NEW q \in Processes, Validate(q)
      PROVE \/ known'[p] = known[p] /\ cand'[p] = cand[p] /\ pc'[p] = pc[p]
            \/ known'[p] = known[p] /\ q = p
    BY <1>3 DEF Validate, TypeOK
<1>4. CASE UNCHANGED <<pc, known, cand>>
    BY <1>4
<1>5. QED
    BY <1>1, <1>2, <1>3, <1>4 DEF Next, vars, Tick, AppendLine, TearLine, Exit

LEMMA Next_Candidates == IInv /\ [Next]_vars => Candidates'
<1> SUFFICES ASSUME IInv, [Next]_vars, NEW p \in Processes, pc'[p] = "writing"
             PROVE /\ cand'[p] \in Waiver
                   /\ ValidRegister(known'[p] \cup {cand'[p]})
                   /\ \A v \in known'[p] : v.id # cand'[p].id
    BY DEF Candidates
<1>1. TypeOK /\ Candidates
    BY DEF IInv
<1>2. CASE known'[p] = known[p] /\ cand'[p] = cand[p] /\ pc'[p] = pc[p]
    BY <1>1, <1>2 DEF Candidates
<1>3. CASE known'[p] = known[p] /\ Validate(p)
    <2>1. PICK w \in Waiver : /\ \A v \in known[p] : v.id # w.id
                              /\ ValidRegister(known[p] \cup {w})
                              /\ cand' = [cand EXCEPT ![p] = w]
        BY <1>1, <1>3, Validated
    <2>2. cand'[p] = w
        BY <1>1, <2>1 DEF TypeOK
    <2>3. QED
        BY <1>3, <2>1, <2>2
<1>4. QED
    BY <1>1, <1>2, <1>3, Held

\* No waiver leaves the file.
LEMMA WaiversStay ==
    ASSUME TypeOK, [Next]_vars PROVE Lines \cap Waiver \subseteq Lines'
<1>1. ASSUME NEW p \in Processes, file' = Append(file, cand[p]) PROVE Lines \subseteq Lines'
    BY <1>1, LinesAppended
<1>2. file' = file => Lines' = Lines
    BY DEF Lines
<1>3. QED
    BY <1>1, <1>2, Written

LEMMA Next_OnFile == IInv /\ [Next]_vars => OnFile'
<1> SUFFICES ASSUME IInv, [Next]_vars, NEW p \in Processes PROVE known'[p] \subseteq Lines'
    BY DEF OnFile
<1>1. TypeOK /\ known[p] \subseteq Lines \cap Waiver
    BY DEF IInv, OnFile, TypeOK
<1>2. file' = file => Lines' = Lines
    BY DEF Lines
<1>3. \/ known'[p] \in {known[p], {}}
      \/ known'[p] = Lines /\ file' = file
    BY <1>1, Held
<1>4. QED
    BY <1>1, <1>2, <1>3, WaiversStay

LEMMA Next_Parented == IInv /\ [Next]_vars => Parented(Lines \cap Waiver)'
<1> SUFFICES ASSUME IInv, [Next]_vars PROVE Parented(Lines' \cap Waiver)
    OBVIOUS
<1>1. TypeOK /\ Candidates /\ OnFile /\ Parented(Lines \cap Waiver)
    BY DEF IInv
<1>2. ASSUME NEW p \in Processes, AppendLine(p), file' = Append(file, cand[p])
      PROVE Parented(Lines' \cap Waiver)
    <2> DEFINE w == cand[p]
    <2>1. w \in Waiver /\ ValidRegister(known[p] \cup {w})
        BY <1>1, <1>2 DEF Candidates, AppendLine
    <2>2. known[p] \cup {w} \subseteq Lines' \cap Waiver /\ Lines' = Lines \cup {w}
        BY <1>1, <1>2, <2>1, LinesAppended DEF OnFile, TypeOK
    <2> HIDE DEF w
    <2>3. Lines' \cap Waiver = (Lines \cap Waiver) \cup {w}
        BY <2>1, <2>2
    <2>4. Parented(known[p] \cup {w})
        BY <2>1, ValidIsParented
    <2>5. QED
        BY <1>1, <2>2, <2>3, <2>4 DEF Parented
<1>3. file' = file => Lines' = Lines
    BY DEF Lines
<1>4. QED
    BY <1>1, <1>2, <1>3, Written

\* A line appended to a register that was not stale leaves one that loads: the
\* file held exactly what the candidate was validated with.
LEMMA Next_OnlyRaces == IInv /\ [Next]_vars => OnlyRacesBreakTheFile'
<1> SUFFICES ASSUME IInv, [Next]_vars, ~stale', ~Malformed' PROVE Loads'
    BY DEF OnlyRacesBreakTheFile
<1>1. TypeOK /\ Candidates /\ OnlyRacesBreakTheFile /\ TypeOK'
    BY Next_Types DEF IInv
<1>2. ~stale
    BY DEF Next, vars, Tick, Load, Validate, AppendLine, TearLine, Exit
<1>3. CASE file' = file
    BY <1>1, <1>2, <1>3 DEF OnlyRacesBreakTheFile, Malformed, Loads, Lines
<1>4. ASSUME NEW p \in Processes, AppendLine(p), file' = Append(file, cand[p]) PROVE Loads'
    <2> DEFINE w == cand[p]
    <2>1. /\ w \in Waiver /\ ValidRegister(known[p] \cup {w})
          /\ \A v \in known[p] : v.id # w.id
        BY <1>1, <1>4 DEF Candidates, AppendLine
    <2>2. known[p] = Lines
        BY <1>4 DEF AppendLine
    <2>3. Lines' = Lines \cup {w} /\ Len(file') = Len(file) + 1
        BY <1>1, <1>4, LinesAppended
    <2> HIDE DEF w
    <2>4. ~Malformed
        BY <2>3 DEF Malformed
    <2>5. Cardinality(Lines) = Len(file)
        BY <1>1, <1>2, <2>4 DEF OnlyRacesBreakTheFile, Loads
    <2>6. w \notin Lines
        BY <2>1, <2>2
    <2>7. Cardinality(Lines \cup {w}) = Cardinality(Lines) + 1
        BY <1>1, <2>6, WellFormedLines, FS_AddElement
    <2>8. QED
        BY <2>1, <2>2, <2>3, <2>5, <2>7 DEF Loads
<1>5. QED
    BY <1>3, <1>4, <1>1, Written

LEMMA Next_IInv == IInv /\ [Next]_vars => IInv'
    BY Next_Types, Next_Candidates, Next_OnFile, Next_Parented, Next_OnlyRaces DEF IInv

LEMMA Invariant == Spec => []IInv
<1>1. QED
    BY Init_IInv, Next_IInv, PTL DEF Spec

\* Lines are waivers or the two marks of a tear, and only a command that is
\* about to append holds a candidate.
THEOREM TypeCorrect == Spec => []TypeOK
<1>1. IInv => TypeOK
    BY DEF IInv
<1>2. QED
    BY <1>1, Invariant, PTL

\* The file stops loading only through a line torn by a crash or an append that
\* rested on a register the file had moved on from.
THEOREM RacesHold == Spec => []OnlyRacesBreakTheFile
<1>1. IInv => OnlyRacesBreakTheFile
    BY DEF IInv
<1>2. QED
    BY <1>1, Invariant, PTL

\* Renewals that move between the bands of a control add no window to it.
THEOREM WindowsHold == Spec => []ControlWindowsBounded
<1>1. TypeOK => ControlWindowsBounded
    <2> SUFFICES ASSUME TypeOK, Loads PROVE ControlWindowsBounded
        BY DEF ControlWindowsBounded
    <2>1. Lines \in SUBSET Waiver /\ IsFiniteSet(Lines) /\ ValidRegister(Lines)
        BY WellFormedLines DEF Loads
    <2>2. QED
        BY <2>1, WindowsBounded DEF ControlWindowsBounded
<1>2. QED
    BY <1>1, TypeCorrect, PTL

-----------------------------------------------------------------------------
\* A file that loads after one more line loaded before: the line can neither
\* mend a rule nor supply what a waiver on file renews.
LEMMA LoadedBefore == IInv /\ [Next]_vars /\ Loads' => Loads
<1> SUFFICES ASSUME IInv, [Next]_vars, Loads' PROVE Loads
    OBVIOUS
<1>1. TypeOK /\ Parented(Lines \cap Waiver)
    BY DEF IInv
<1>2. CASE file' = file
    BY <1>2 DEF Loads, Malformed, Lines
<1>3. ASSUME NEW p \in Processes, AppendLine(p), file' = Append(file, cand[p]) PROVE Loads
    <2> DEFINE w == cand[p]
    <2>1. Lines' = Lines \cup {w} /\ Len(file') = Len(file) + 1
        BY <1>1, <1>3, LinesAppended
    <2> HIDE DEF w
    <2>2. ~Malformed
        BY <2>1 DEF Loads, Malformed
    <2>3. /\ Lines \subseteq Waiver /\ IsFiniteSet(Lines)
          /\ Cardinality(Lines) \in Nat /\ Len(file) \in Nat /\ Cardinality(Lines) <= Len(file)
        BY <1>1, <2>2, WellFormedLines
    <2>4. Cardinality(Lines \cup {w}) = Len(file) + 1
        BY <2>1 DEF Loads
    <2>5. Cardinality(Lines) = Len(file)
        <3>1. Cardinality(Lines \cup {w}) \in {Cardinality(Lines), Cardinality(Lines) + 1}
            BY <2>3, FS_AddElement
        <3>2. QED
            BY <2>3, <2>4, <3>1
    <2>6. Lines \cap Waiver = Lines
        BY <2>3
    <2>7. ValidRegister(Lines)
        BY <1>1, <2>1, <2>6, PartsAreValid DEF Loads
    <2>8. QED
        BY <2>2, <2>5, <2>7 DEF Loads
<1>4. QED
    BY <1>1, <1>2, <1>3, Written DEF Loads

\* No further command makes a gate read again what it refused.
THEOREM RefusalHolds == Spec => RefusedStaysRefused
<1>1. IInv /\ [Next]_vars => (~Loads => ~Loads')
    BY LoadedBefore
<1>2. QED
    BY <1>1, Invariant, PTL DEF Spec, RefusedStaysRefused

\* One more waiver takes a licence away only by putting the register over its
\* cap, and then it takes all of them.
THEOREM IssuingHolds == Spec => IssuingRevokesOnlyByCap
<1> DEFINE Act == Loads /\ Loads' /\ file' # file =>
                    IF OverCap(Lines', now) THEN Licensed' = {} ELSE Licensed \subseteq Licensed'
<1>1. TypeOK /\ [Next]_vars => Act
    <2> SUFFICES ASSUME TypeOK, [Next]_vars, Loads, Loads', file' # file
                 PROVE IF OverCap(Lines', now) THEN Licensed' = {} ELSE Licensed \subseteq Licensed'
        OBVIOUS
    <2>1. PICK p \in Processes : AppendLine(p) /\ file' = Append(file, cand[p])
        BY Written DEF Loads
    <2>2. now' = now /\ Lines \subseteq Lines'
        BY <2>1, LinesAppended DEF AppendLine
    <2>3. cand[p] \in Waiver
        BY <2>1 DEF TypeOK, AppendLine
    <2>4. Lines \in SUBSET Waiver /\ IsFiniteSet(Lines)
        BY WellFormedLines DEF Loads
    <2>5. Lines' \in SUBSET Waiver /\ IsFiniteSet(Lines')
        BY <2>1, <2>3, <2>4, LinesAppended, FS_AddElement
    <2>6. CASE OverCap(Lines', now)
        <3>1. Effective(Lines', now') = {}
            BY <2>2, <2>6 DEF Effective
        <3>2. Licensed' = {}
            BY <3>1 DEF Licensed, Covering
        <3>3. QED
            BY <2>6, <3>2
    <2>7. CASE ~OverCap(Lines', now)
        <3>1. Effective(Lines, now) \subseteq Effective(Lines', now')
            BY <2>2, <2>5, <2>7, WithinCapKeeps
        <3>2. ASSUME NEW c, NEW b, NEW claimed, Covering(Lines, c, b, now, claimed) # {}
              PROVE Covering(Lines', c, b, now', claimed) # {}
            BY <2>4, <2>5, <3>1, <3>2, CoveredExactly
        <3>3. Licensed \subseteq Licensed'
            BY <3>2 DEF Licensed
        <3>4. QED
            BY <2>7, <3>3
    <2>8. QED
        BY <2>6, <2>7
<1>2. QED
    BY <1>1, TypeCorrect, PTL DEF Spec, IssuingRevokesOnlyByCap
=============================================================================
