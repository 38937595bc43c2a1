-------------------------- MODULE EvidenceSinkProofs --------------------------
(***************************************************************************)
(* Theorems about EvidenceSink for any ids, outcomes, processes, windows   *)
(* and bounds.  The argument: a step leaves every line as it is, except    *)
(* that a torn one may be glued (StepExtends); a verdict whose append      *)
(* returned is in the sink, or the sink no longer reads (KeptInv); a       *)
(* discharge follows the verdict it names, unless it names one that no     *)
(* command has read (GroundedInv); and a record that a gate is about to    *)
(* append has an id that no line names yet (FreshInv).                     *)
(***************************************************************************)
EXTENDS EvidenceSink, FiniteSetTheorems, WellFoundedInduction, TLAPS

Record == EvidenceRecord \cup DischargeRecord

\* t is s with more lines and perhaps a torn line glued.
Extends(s, t) ==
    /\ Len(s) <= Len(t)
    /\ \A i \in 1..Len(s) : t[i] = s[i] \/ (s[i] = Torn /\ t[i] = Glued)

\* A recorded verdict is a line of the sink, or the sink does not read.
KeptInv ==
    \/ ~Readable(sink)
    \/ \A v \in appended : \E i \in DOMAIN sink : sink[i] = v

\* The ids of verdicts before the first line that does not parse: those a command
\* can have read.
ReadIds(s) == {s[i].verdict_id : i \in Of(s, "evidence") \cap Yielded(s)}

\* Line i of s names a made-up id, or a verdict recorded before it, or is itself
\* out of reach and names what no command has read.
GroundedAt(s, i) ==
    \/ s[i].verdict_id \in OtherIds
    \/ \E j \in Of(s, "evidence") : j < i /\ s[j].verdict_id = s[i].verdict_id
    \/ i \notin Yielded(s) /\ s[i].verdict_id \notin ReadIds(s)

GroundedInv ==
    /\ \A i \in Of(sink, "discharge") : GroundedAt(sink, i)
    /\ \A p \in Processes :
         line[p] # NoLine /\ line[p].kind = "discharge" => line[p].verdict_id \in ReadIds(sink)
    /\ \A d \in appended : d.kind = "discharge" => d.verdict_id \in ReadIds(sink)

\* The ids that lines name.
Named(s) == {s[i].verdict_id : i \in Of(s, "evidence") \cup Of(s, "discharge")}

Pending(p) == line[p] # NoLine /\ line[p].kind = "evidence"

FreshInv ==
    /\ Named(sink) \cup Reported \subseteq drawn \cup OtherIds
    /\ \A p \in Processes : line[p] # NoLine => line[p].verdict_id \in drawn \cup OtherIds
    /\ \A p \in Processes : Pending(p) =>
         /\ line[p].verdict_id \in drawn
         /\ line[p].verdict_id \notin Named(sink) \cup Reported
         /\ \A q \in Processes : q # p /\ line[q] # NoLine => line[q].verdict_id # line[p].verdict_id

\* The performer of a gate's verdict has a name.
PerformerInv ==
    /\ \A p \in Processes : Pending(p) => AuditFold[line[p].performer] # NoName
    /\ \A v \in Verdicts : AuditFold[v.performer] # NoName

IInv == TypeOK /\ KeptInv /\ GroundedInv /\ FreshInv /\ PerformerInv

-----------------------------------------------------------------------------
\* The kinds of lines are told apart by their kind field.
LEMMA Kinds ==
    /\ Record \subseteq Line /\ {Stray, Torn, Glued} \subseteq Line
    /\ NoLine \notin Record
    /\ \A r \in Record : r.kind \in {"evidence", "discharge"}
    /\ \A r \in Line : r.kind = "evidence" => r \in EvidenceRecord
    /\ \A r \in Line : r.kind = "discharge" => r \in DischargeRecord
    /\ Stray.kind = "stray" /\ Torn.kind = "torn" /\ Glued.kind = "glued"
    /\ \A r \in Line : r.kind = "torn" => r = Torn
BY SinkAssumption DEF Record, Line, EvidenceRecord, DischargeRecord, Stray, Torn, Glued

\* EvidenceRecord.build gives a record.
LEMMA EvidenceOfTyped ==
    ASSUME NEW v \in Outcomes \cup OtherOutcomes, NEW i \in VerdictIds \cup OtherIds,
           NEW t \in 0..MaxTime
    PROVE  EvidenceOf(v, i, t) \in EvidenceRecord /\ EvidenceOf(v, i, t).kind = "evidence"
<1>1. v \in Outcome /\ t \in Nat
  BY SinkAssumption
<1> QED BY <1>1 DEF EvidenceOf, Outcome, EvidenceRecord

\* EvidenceSink.append changes no line that parses, and the record is in the
\* file afterwards or glued to a torn line.
LEMMA WrittenExtends ==
    ASSUME sink \in Seq(Line), NEW l \in Line
    PROVE  /\ Written(l) \in Seq(Line)
           /\ Extends(sink, Written(l))
           /\ \/ Len(Written(l)) = Len(sink) /\ ~Readable(Written(l))
              \/ Len(Written(l)) = Len(sink) + 1 /\ Written(l)[Len(sink) + 1] = l
<1>1. CASE TornEnd
  <2>1. /\ Written(l) = [sink EXCEPT ![Len(sink)] = Glued]
        /\ Len(sink) \in 1..Len(sink) /\ Glued \in Line /\ sink[Len(sink)] = Torn
    BY <1>1, Kinds DEF Written, TornEnd
  <2>2. Written(l) \in Seq(Line) /\ Len(Written(l)) = Len(sink)
    BY <2>1
  <2>3. Written(l)[Len(sink)] = Glued
    BY <2>1
  <2>4. \A i \in 1..Len(sink) : i # Len(sink) => Written(l)[i] = sink[i]
    BY <2>1
  <2>5. ~Readable(Written(l))
    <3>1. Len(sink) \in DOMAIN Written(l)
      BY <2>1, <2>2
    <3> QED BY <3>1, <2>3, Kinds DEF Readable, Malformed
  <2>6. Extends(sink, Written(l))
    <3>1. Len(sink) <= Len(Written(l))
      BY <2>2
    <3>2. \A i \in 1..Len(sink) : Written(l)[i] = sink[i] \/ (sink[i] = Torn /\ Written(l)[i] = Glued)
      BY <2>1, <2>3, <2>4
    <3> QED BY <3>1, <3>2 DEF Extends
  <2> QED BY <2>2, <2>5, <2>6
<1>2. CASE ~TornEnd
  <2>1. Written(l) = Append(sink, l)
    BY <1>2 DEF Written
  <2> QED BY <2>1 DEF Extends
<1> QED BY <1>1, <1>2

\* So does the part of a line that a failing append leaves.
LEMMA TornExtends ==
    ASSUME sink \in Seq(Line)
    PROVE  Append(sink, Torn) \in Seq(Line) /\ Extends(sink, Append(sink, Torn))
BY Kinds DEF Extends

-----------------------------------------------------------------------------
\* What a step can do to the sink, and to what was reported as recorded.
StepExtends ==
    /\ Extends(sink, sink')
    /\ appended \subseteq appended'
    /\ \/ appended' = appended
       \/ ~Readable(sink')
       \/ /\ \A v \in appended' : v \in appended \/ \E i \in DOMAIN sink' : sink'[i] = v

\* So do the parameters of a discharge.
LEMMA DischargeTyped ==
    ASSUME NEW i \in VerdictIds \cup OtherIds, NEW o \in Obligations, NEW b \in Principals
    PROVE  /\ DischargeOf(i, o, b) \in DischargeRecord
           /\ DischargeOf(i, o, b).kind = "discharge" /\ DischargeOf(i, o, b).verdict_id = i
BY DEF DischargeRecord, DischargeOf

\* The ids a program can have learned are ids of records.
LEMMA KnownTyped ==
    ASSUME TypeOK
    PROVE  Known \subseteq VerdictIds \cup OtherIds /\ Reported \subseteq VerdictIds \cup OtherIds
<1>1. Known \subseteq VerdictIds \cup OtherIds
  BY Kinds DEF TypeOK, Known, Of, EvidenceRecord
<1>2. Reported \subseteq VerdictIds \cup OtherIds
  BY DEF TypeOK, Reported, EvidenceRecord, DischargeRecord
<1> QED BY <1>1, <1>2

\* What another program writes: a line that is stray, or of a known, a reported
\* or a made-up id.
LEMMA OtherWrites ==
    ASSUME TypeOK, OtherWriter
    PROVE  \E l \in Line :
             /\ sink' = Written(l)
             /\ l.kind \in {"evidence", "discharge"} => l.verdict_id \in Known \cup Reported \cup OtherIds
<1>1. CASE sink' = Written(Stray)
  BY <1>1, Kinds
<1>2. ASSUME NEW i \in Known \cup Reported \cup OtherIds, NEW v \in OtherOutcomes, NEW t \in 0..MaxTime,
             sink' = Written(EvidenceOf(v, i, t))
      PROVE  \E l \in Line :
               /\ sink' = Written(l)
               /\ l.kind \in {"evidence", "discharge"} => l.verdict_id \in Known \cup Reported \cup OtherIds
  <2>1. EvidenceOf(v, i, t) \in Line
    BY KnownTyped, EvidenceOfTyped, Kinds DEF Record
  <2>2. EvidenceOf(v, i, t).verdict_id = i
    BY DEF EvidenceOf
  <2> QED BY <1>2, <2>1, <2>2
<1>3. ASSUME NEW i \in Known \cup Reported \cup OtherIds, NEW o \in Obligations, NEW b \in Principals,
             sink' = Written(DischargeOf(i, o, b))
      PROVE  \E l \in Line :
               /\ sink' = Written(l)
               /\ l.kind \in {"evidence", "discharge"} => l.verdict_id \in Known \cup Reported \cup OtherIds
  <2>1. DischargeOf(i, o, b) \in Line /\ DischargeOf(i, o, b).verdict_id = i
    BY KnownTyped, DischargeTyped, Kinds DEF Record
  <2> QED BY <1>3, <2>1
<1> QED BY <1>1, <1>2, <1>3 DEF OtherWriter

\* Every step keeps the types, adds lines and takes none back.
LEMMA StepTyped ==
    ASSUME TypeOK, [Next]_vars
    PROVE  TypeOK' /\ StepExtends
<1> USE DEF TypeOK
<1>1. CASE UNCHANGED vars
  BY <1>1 DEF vars, StepExtends, Extends
<1>2. CASE OtherWriter
  <2>1. PICK l \in Line : sink' = Written(l)
    BY <1>2, OtherWrites
  <2> QED BY <1>2, <2>1, WrittenExtends DEF OtherWriter, StepExtends
<1>3. ASSUME NEW p \in Processes, BuildRecord(p)
      PROVE  TypeOK' /\ StepExtends
  <2>1. PICK v \in Outcomes, i \in VerdictIds \ drawn, t \in 0..MaxTime :
          drawn' = drawn \cup {i} /\ line' = [line EXCEPT ![p] = EvidenceOf(v, i, t)]
    BY <1>3 DEF BuildRecord
  <2>2. EvidenceOf(v, i, t) \in EvidenceRecord
    BY EvidenceOfTyped
  <2> QED BY <1>3, <2>1, <2>2 DEF BuildRecord, StepExtends, Extends
<1>4. ASSUME NEW p \in Processes, BuildDischarge(p)
      PROVE  TypeOK' /\ StepExtends
  <2>1. PICK i \in Known, o \in Obligations, b \in Principals :
          line' = [line EXCEPT ![p] = DischargeOf(i, o, b)]
    BY <1>4 DEF BuildDischarge
  <2>2. DischargeOf(i, o, b) \in DischargeRecord
    BY KnownTyped, DischargeTyped
  <2> QED BY <1>4, <2>1, <2>2 DEF BuildDischarge, StepExtends, Extends
<1>5. ASSUME NEW p \in Processes, AppendLine(p)
      PROVE  TypeOK' /\ StepExtends
  <2>1. line[p] \in Record /\ line[p] \in Line
    BY <1>5, Kinds DEF AppendLine, Record
  <2>2. /\ sink' = Written(line[p]) /\ appended' = appended \cup {line[p]}
        /\ line' = [line EXCEPT ![p] = NoLine] /\ drawn' = drawn
    BY <1>5 DEF AppendLine
  <2>3. /\ sink' \in Seq(Line)
        /\ Extends(sink, sink')
        /\ ~Readable(sink') \/ \E i \in DOMAIN sink' : sink'[i] = line[p]
    BY <2>1, <2>2, WrittenExtends
  <2>4. TypeOK'
    BY <2>1, <2>2, <2>3 DEF Record
  <2> QED BY <2>2, <2>3, <2>4 DEF StepExtends
<1>6. ASSUME NEW p \in Processes, AppendFails(p)
      PROVE  TypeOK' /\ StepExtends
  <2>1. line[p] \in Record /\ line[p] \in Line
    BY <1>6, Kinds DEF AppendFails, Record
  <2>2. sink' \in Seq(Line) /\ Extends(sink, sink')
    <3>1. sink' = sink \/ sink' = Append(sink, Torn) \/ sink' = Written(line[p])
      BY <1>6 DEF AppendFails
    <3>2. CASE sink' = sink
      BY <3>2 DEF Extends
    <3>3. CASE sink' = Append(sink, Torn)
      BY <3>3, TornExtends
    <3>4. CASE sink' = Written(line[p])
      BY <3>4, <2>1, WrittenExtends
    <3> QED BY <3>1, <3>2, <3>3, <3>4
  <2>3. TypeOK'
    BY <1>6, <2>2 DEF AppendFails
  <2> QED BY <1>6, <2>2, <2>3 DEF AppendFails, StepExtends
<1> QED BY <1>1, <1>2, <1>3, <1>4, <1>5, <1>6 DEF Next

\* TypeOK: the sink holds lines and every pending append is a record.
THEOREM TypeCorrect == Spec => []TypeOK
<1>1. Init => TypeOK
  BY DEF Init, TypeOK
<1>2. TypeOK /\ [Next]_vars => TypeOK'
  BY StepTyped
<1> QED BY <1>1, <1>2, PTL DEF Spec

-----------------------------------------------------------------------------
\* Parsed lines keep their place and their kind, and no line before them
\* changes its kind, other than a torn one that is glued.
LEMMA LinesKept ==
    ASSUME NEW s \in Seq(Line), NEW t \in Seq(Line), Extends(s, t),
           NEW k \in {"evidence", "discharge", "stray"}
    PROVE  /\ Of(s, k) \subseteq Of(t, k)
           /\ \A i \in Of(s, k) : i \in 1..Len(s) /\ t[i] = s[i]
           /\ \A i \in Of(t, k) : i <= Len(s) => i \in Of(s, k)
<1>1. /\ DOMAIN s = 1..Len(s) /\ DOMAIN t = 1..Len(t)
      /\ Len(s) \in Nat /\ Len(t) \in Nat /\ Len(s) <= Len(t)
  BY DEF Extends
<1>2. \A i \in 1..Len(s) : t[i] = s[i] \/ (s[i] = Torn /\ t[i] = Glued)
  BY DEF Extends
<1>3. \A i \in 1..Len(s) : s[i].kind = k => t[i] = s[i]
  BY <1>2, Kinds
<1>4. \A i \in 1..Len(s) : t[i].kind = k => s[i].kind = k
  BY <1>2, Kinds
<1> QED BY <1>1, <1>3, <1>4 DEF Of

\* The first record under an id stays the first.
LEMMA VerdictLinesKept ==
    ASSUME NEW s \in Seq(Line), NEW t \in Seq(Line), Extends(s, t)
    PROVE  /\ VerdictLines(s) \subseteq VerdictLines(t)
           /\ \A i \in VerdictLines(t) : i <= Len(s) => i \in VerdictLines(s)
<1>1. /\ Of(s, "evidence") \subseteq Of(t, "evidence")
      /\ \A i \in Of(s, "evidence") : i \in 1..Len(s) /\ t[i] = s[i]
      /\ \A i \in Of(t, "evidence") : i <= Len(s) => i \in Of(s, "evidence")
  BY LinesKept
<1>2. \A i \in Of(t, "evidence") : i \in Nat
  BY DEF Of
<1>3. Len(s) \in Nat
  OBVIOUS
<1>4. ASSUME NEW i \in VerdictLines(s)
      PROVE  i \in VerdictLines(t)
  <2>1. i \in Of(s, "evidence") /\ i \in Of(t, "evidence") /\ i \in 1..Len(s)
    BY <1>1 DEF VerdictLines
  <2>2. ASSUME NEW j \in Of(t, "evidence"), j < i
        PROVE  t[j].verdict_id # t[i].verdict_id
    <3>1. j \in Of(s, "evidence")
      BY <1>1, <1>2, <1>3, <2>1, <2>2
    <3> QED BY <1>1, <2>1, <2>2, <3>1 DEF VerdictLines
  <2> QED BY <2>1, <2>2 DEF VerdictLines
<1>5. ASSUME NEW i \in VerdictLines(t), i <= Len(s)
      PROVE  i \in VerdictLines(s)
  <2>1. i \in Of(t, "evidence") /\ i \in Of(s, "evidence")
    BY <1>1, <1>5 DEF VerdictLines
  <2>2. ASSUME NEW j \in Of(s, "evidence"), j < i
        PROVE  s[j].verdict_id # s[i].verdict_id
    BY <1>1, <2>1, <2>2, <1>5 DEF VerdictLines
  <2> QED BY <2>1, <2>2 DEF VerdictLines
<1> QED BY <1>4, <1>5

\* A line that pays goes on paying.
LEMMA PaysKept ==
    ASSUME NEW s \in Seq(Line), NEW t \in Seq(Line), Extends(s, t),
           NEW d \in Of(s, "discharge"), Pays(s, d)
    PROVE  d \in Of(t, "discharge") /\ t[d] = s[d] /\ Pays(t, d)
<1>1. d \in Of(t, "discharge") /\ t[d] = s[d]
  BY LinesKept
<1>2. PICK i \in Owed(s, d) : ~SelfDischarge(s[d].by, s[i].performer)
  BY DEF Pays
<1>3. i \in VerdictLines(s) /\ i \in Of(s, "evidence")
  BY DEF Owed, VerdictLines
<1>4. t[i] = s[i] /\ i \in VerdictLines(t)
  BY <1>3, LinesKept, VerdictLinesKept
<1>5. i \in Owed(t, d)
  BY <1>1, <1>4 DEF Owed
<1> QED BY <1>1, <1>2, <1>4, <1>5 DEF Pays

\* PaidStaysPaid: no later line undoes a payment.
THEOREM PaidAlwaysStaysPaid == Spec => PaidStaysPaid
<1>1. ASSUME TypeOK, [Next]_vars
      PROVE  Paid(sink) \subseteq Paid(sink')
  <2>1. sink \in Seq(Line) /\ sink' \in Seq(Line) /\ Extends(sink, sink')
    BY <1>1, StepTyped DEF TypeOK, StepExtends
  <2> QED BY <2>1, PaysKept DEF Paid
<1>2. TypeOK /\ [Next]_vars => [Paid(sink) \subseteq Paid(sink')]_vars
  BY <1>1
<1> QED BY <1>2, TypeCorrect, PTL DEF Spec, PaidStaysPaid

-----------------------------------------------------------------------------
\* A sink that does not read never reads again.
LEMMA UnreadableStays ==
    ASSUME NEW s \in Seq(Line), NEW t \in Seq(Line), Extends(s, t), ~Readable(s)
    PROVE  ~Readable(t)
<1>1. PICK i \in DOMAIN s : Malformed(s[i])
  BY DEF Readable
<1>2. i \in 1..Len(s) /\ i \in DOMAIN t
  BY DEF Extends
<1>3. Malformed(t[i])
  BY <1>1, <1>2, Kinds DEF Extends, Malformed
<1> QED BY <1>2, <1>3 DEF Readable

\* A step keeps every recorded verdict in the sink, or the sink unreadable.
LEMMA KeptStep ==
    ASSUME TypeOK, KeptInv, [Next]_vars
    PROVE  KeptInv'
<1>1. /\ sink \in Seq(Line) /\ sink' \in Seq(Line) /\ appended \in SUBSET Record
      /\ Extends(sink, sink') /\ StepExtends
  BY StepTyped DEF TypeOK, StepExtends, Record
<1>2. CASE ~Readable(sink)
  BY <1>1, <1>2, UnreadableStays DEF KeptInv
<1>3. CASE \A v \in appended : \E i \in DOMAIN sink : sink[i] = v
  <2>1. \A v \in appended : \E i \in DOMAIN sink' : sink'[i] = v
    <3> SUFFICES ASSUME NEW v \in appended PROVE \E i \in DOMAIN sink' : sink'[i] = v
      OBVIOUS
    <3>1. PICK i \in DOMAIN sink : sink[i] = v
      BY <1>3
    <3>2. v \in Record /\ v # Torn
      BY <1>1, Kinds
    <3> QED BY <1>1, <3>1, <3>2 DEF Extends
  <2>2. CASE ~Readable(sink')
    BY <2>2 DEF KeptInv
  <2>3. CASE \A v \in appended' : v \in appended \/ \E i \in DOMAIN sink' : sink'[i] = v
    BY <2>1, <2>3 DEF KeptInv
  <2> QED BY <1>1, <2>1, <2>2, <2>3 DEF StepExtends, KeptInv
<1> QED BY <1>2, <1>3 DEF KeptInv

\* Ids once known stay known.
LEMMA KnownGrows ==
    ASSUME TypeOK, TypeOK', Extends(sink, sink')
    PROVE  Known \subseteq Known'
<1>1. sink \in Seq(Line) /\ sink' \in Seq(Line)
  BY DEF TypeOK
<1>2. ASSUME NEW i \in Of(sink, "evidence")
      PROVE  i \in Of(sink', "evidence") /\ sink'[i] = sink[i]
  BY <1>1, LinesKept
<1> QED BY <1>2 DEF Known

\* Lines before the first that does not parse stay so, and none joins them once
\* there is one that does not.
LEMMA YieldedKept ==
    ASSUME NEW s \in Seq(Line), NEW t \in Seq(Line), Extends(s, t)
    PROVE  /\ \A i \in Yielded(s) : i \in Yielded(t) /\ i \in 1..Len(s) /\ t[i] = s[i]
           /\ \A i \in Yielded(t) : i <= Len(s) => i \in Yielded(s)
           /\ ~Readable(s) => Yielded(t) \subseteq Yielded(s)
           /\ Readable(s) => Yielded(s) = 1..Len(s)
<1>1. /\ DOMAIN s = 1..Len(s) /\ DOMAIN t = 1..Len(t) /\ Len(s) \in Nat /\ Len(t) \in Nat
      /\ Len(s) <= Len(t)
  BY DEF Extends
<1>2. \A i \in 1..Len(s) : /\ Malformed(s[i]) <=> Malformed(t[i])
                           /\ ~Malformed(s[i]) => t[i] = s[i]
  BY Kinds DEF Extends, Malformed
<1>3. ASSUME NEW i \in Yielded(s)
      PROVE  i \in Yielded(t) /\ i \in 1..Len(s) /\ t[i] = s[i]
  <2>1. i \in 1..Len(s) /\ \A j \in 1..i : j \in 1..Len(s) /\ ~Malformed(s[j])
    BY <1>1 DEF Yielded
  <2> QED BY <1>1, <1>2, <2>1 DEF Yielded
<1>4. ASSUME NEW i \in Yielded(t), i <= Len(s)
      PROVE  i \in Yielded(s)
  <2>1. i \in 1..Len(s) /\ \A j \in 1..i : j \in 1..Len(s) /\ ~Malformed(t[j])
    BY <1>1, <1>4 DEF Yielded
  <2> QED BY <1>1, <1>2, <2>1 DEF Yielded
<1>5. ASSUME ~Readable(s), NEW i \in Yielded(t)
      PROVE  i \in Yielded(s)
  <2>1. PICK m \in 1..Len(s) : Malformed(s[m])
    BY <1>1, <1>5 DEF Readable
  <2>2. Malformed(t[m])
    BY <1>2, <2>1
  <2>3. i \in 1..Len(t) /\ ~(m \in 1..i)
    BY <1>1, <2>2 DEF Yielded
  <2>4. i <= Len(s)
    BY <1>1, <2>1, <2>3
  <2> QED BY <1>4, <2>4
<1>6. ASSUME Readable(s)
      PROVE  Yielded(s) = 1..Len(s)
  <2>1. \A i \in 1..Len(s) : \A j \in 1..i : j \in 1..Len(s)
    BY <1>1
  <2> QED BY <1>1, <1>6, <2>1 DEF Yielded, Readable
<1> QED BY <1>3, <1>4, <1>5, <1>6

LEMMA ReadIdsKept ==
    ASSUME NEW s \in Seq(Line), NEW t \in Seq(Line), Extends(s, t)
    PROVE  /\ ReadIds(s) \subseteq ReadIds(t)
           /\ ~Readable(s) => ReadIds(t) \subseteq ReadIds(s)
<1>1. ASSUME NEW i \in Of(s, "evidence") \cap Yielded(s)
      PROVE  i \in Of(t, "evidence") \cap Yielded(t) /\ t[i] = s[i]
  BY LinesKept, YieldedKept
<1>2. ASSUME ~Readable(s), NEW i \in Of(t, "evidence") \cap Yielded(t)
      PROVE  i \in Of(s, "evidence") \cap Yielded(s) /\ t[i] = s[i]
  <2>1. i \in Yielded(s)
    BY <1>2, YieldedKept
  <2>2. i \in 1..Len(s) /\ i <= Len(s) /\ t[i] = s[i]
    BY <2>1, YieldedKept
  <2> QED BY <2>1, <2>2, LinesKept
<1> QED BY <1>1, <1>2 DEF ReadIds

\* A line that was grounded stays so.
LEMMA GroundedKept ==
    ASSUME NEW s \in Seq(Line), NEW t \in Seq(Line), Extends(s, t),
           NEW i \in Of(s, "discharge"), GroundedAt(s, i)
    PROVE  GroundedAt(t, i)
<1>1. i \in 1..Len(s) /\ t[i] = s[i]
  BY LinesKept
<1>2. CASE s[i].verdict_id \in OtherIds
  BY <1>1, <1>2 DEF GroundedAt
<1>3. CASE \E j \in Of(s, "evidence") : j < i /\ s[j].verdict_id = s[i].verdict_id
  <2>1. PICK j \in Of(s, "evidence") : j < i /\ s[j].verdict_id = s[i].verdict_id
    BY <1>3
  <2>2. j \in Of(t, "evidence") /\ t[j] = s[j]
    BY LinesKept
  <2> QED BY <1>1, <2>1, <2>2 DEF GroundedAt
<1>4. CASE i \notin Yielded(s) /\ s[i].verdict_id \notin ReadIds(s)
  <2>1. ~Readable(s)
    BY <1>1, <1>4, YieldedKept
  <2>2. i \notin Yielded(t) /\ s[i].verdict_id \notin ReadIds(t)
    BY <1>4, <2>1, YieldedKept, ReadIdsKept
  <2> QED BY <1>1, <2>2 DEF GroundedAt
<1> QED BY <1>2, <1>3, <1>4 DEF GroundedAt

\* A line of one of the three kinds that is not in the old sink is the new one.
LEMMA NewLine ==
    ASSUME TypeOK, NEW l \in Line, sink' = Written(l),
           NEW k \in {"evidence", "discharge", "stray"}, NEW i \in Of(sink', k), i > Len(sink)
    PROVE  i = Len(sink) + 1 /\ sink'[i] = l
<1>1. /\ sink \in Seq(Line) /\ sink' \in Seq(Line) /\ Len(sink) \in Nat
      /\ \/ Len(sink') = Len(sink)
         \/ Len(sink') = Len(sink) + 1 /\ sink'[Len(sink) + 1] = l
  BY WrittenExtends DEF TypeOK
<1>2. i \in 1..Len(sink')
  BY <1>1 DEF Of
<1> QED BY <1>1, <1>2

\* A new discharge line is grounded if the id it names is known or made up, and
\* in a sink that does not read whatever it names.
LEMMA GroundedByKnown ==
    ASSUME TypeOK, NEW l \in Line, sink' = Written(l), TypeOK',
           \A i \in Of(sink, "discharge") : GroundedAt(sink, i),
           l.kind = "discharge" => l.verdict_id \in Known \cup OtherIds \/ ~Readable(sink)
    PROVE  \A i \in Of(sink', "discharge") : GroundedAt(sink', i)
<1>1. /\ sink \in Seq(Line) /\ sink' \in Seq(Line) /\ Len(sink) \in Nat
      /\ Extends(sink, sink')
  BY WrittenExtends DEF TypeOK
<1> SUFFICES ASSUME NEW i \in Of(sink', "discharge")
             PROVE  GroundedAt(sink', i)
  OBVIOUS
<1>2. i \in Nat /\ sink'[i].kind = "discharge"
  BY <1>1 DEF Of
<1>3. CASE i <= Len(sink)
  <2>1. i \in Of(sink, "discharge")
    BY <1>1, <1>3, LinesKept
  <2> QED BY <1>1, <2>1, GroundedKept
<1>4. CASE i > Len(sink)
  <2>1. i = Len(sink) + 1 /\ sink'[i] = l
    BY <1>4, NewLine
  <2>2. CASE l.verdict_id \in OtherIds
    BY <2>1, <2>2 DEF GroundedAt
  <2>3. CASE l.verdict_id \in Known
    <3>1. PICK j \in Of(sink, "evidence") : sink[j].verdict_id = l.verdict_id
      BY <2>3 DEF Known
    <3>2. j \in Of(sink', "evidence") /\ sink'[j] = sink[j] /\ j \in 1..Len(sink)
      BY <1>1, LinesKept
    <3>3. j < i
      BY <1>1, <2>1, <3>2
    <3> QED BY <2>1, <3>1, <3>2, <3>3 DEF GroundedAt
  <2>4. CASE ~Readable(sink) /\ l.verdict_id \notin Known
    <3>1. i \notin Yielded(sink')
      <4>1. Yielded(sink') \subseteq Yielded(sink) /\ \A x \in Yielded(sink) : x \in 1..Len(sink)
        BY <1>1, <2>4, YieldedKept
      <4> QED BY <1>1, <1>4, <4>1
    <3>2. l.verdict_id \notin ReadIds(sink')
      <4>1. ReadIds(sink') \subseteq ReadIds(sink)
        BY <1>1, <2>4, ReadIdsKept
      <4>2. ReadIds(sink) \subseteq Known
        BY DEF ReadIds, Known
      <4> QED BY <2>4, <4>1, <4>2
    <3> QED BY <2>1, <3>1, <3>2 DEF GroundedAt
  <2> QED BY <1>2, <2>1, <2>2, <2>3, <2>4
<1> QED BY <1>1, <1>2, <1>3, <1>4

\* An id that is reported is known, in a sink that reads.
LEMMA ReportedKnown ==
    ASSUME KeptInv, Readable(sink)
    PROVE  Reported \subseteq Known
<1> SUFFICES ASSUME NEW v \in appended, v.kind = "evidence" PROVE v.verdict_id \in Known
  BY DEF Reported
<1>1. PICK i \in DOMAIN sink : sink[i] = v
  BY DEF KeptInv
<1> QED BY <1>1 DEF Known, Of

\* How the sink changes: by another program, by nothing or a torn line, or by the
\* record of a process.
LEMMA StepWrites ==
    ASSUME TypeOK, [Next]_vars
    PROVE  \/ OtherWriter
           \/ sink' = sink
           \/ sink' = Append(sink, Torn)
           \/ \E p \in Processes : line[p] \in Record /\ line[p] \in Line /\ sink' = Written(line[p])
<1>1. \A p \in Processes : line[p] # NoLine => line[p] \in Record /\ line[p] \in Line
  BY Kinds DEF TypeOK, Record
<1> QED BY <1>1 DEF Next, BuildRecord, BuildDischarge, AppendLine, AppendFails, vars

\* Only the steps of a process change its line, and only an append that returns
\* is reported.
LEMMA LineStep ==
    ASSUME TypeOK, [Next]_vars, NEW q \in Processes
    PROVE  line'[q] = line[q] \/ BuildRecord(q) \/ BuildDischarge(q) \/ AppendLine(q) \/ AppendFails(q)
<1>1. CASE UNCHANGED vars \/ OtherWriter
  BY <1>1 DEF vars, OtherWriter
<1>2. ASSUME NEW p \in Processes, BuildRecord(p) \/ BuildDischarge(p) \/ AppendLine(p) \/ AppendFails(p), p # q
      PROVE  line'[q] = line[q]
  <2>1. \E r : line' = [line EXCEPT ![p] = r]
    BY <1>2 DEF BuildRecord, BuildDischarge, AppendLine, AppendFails
  <2> QED BY <1>2, <2>1 DEF TypeOK
<1> QED BY <1>1, <1>2 DEF Next

LEMMA AppendedStep ==
    ASSUME [Next]_vars, NEW d \in appended'
    PROVE  d \in appended \/ \E p \in Processes : line[p] # NoLine /\ d = line[p] /\ AppendLine(p)
BY DEF Next, vars, OtherWriter, BuildRecord, BuildDischarge, AppendLine, AppendFails

LEMMA GroundedStep ==
    ASSUME TypeOK, KeptInv, GroundedInv, [Next]_vars
    PROVE  GroundedInv'
<1>1. /\ TypeOK' /\ Extends(sink, sink') /\ sink \in Seq(Line) /\ sink' \in Seq(Line)
      /\ ReadIds(sink) \subseteq ReadIds(sink')
  <2>1. TypeOK' /\ Extends(sink, sink') /\ sink \in Seq(Line) /\ sink' \in Seq(Line)
    BY StepTyped DEF StepExtends, TypeOK
  <2> QED BY <2>1, ReadIdsKept
<1>2. \A i \in Of(sink', "discharge") : GroundedAt(sink', i)
  <2>1. CASE OtherWriter
    <3>1. PICK l \in Line :
            /\ sink' = Written(l)
            /\ l.kind \in {"evidence", "discharge"} => l.verdict_id \in Known \cup Reported \cup OtherIds
      BY <2>1, OtherWrites
    <3>2. l.kind = "discharge" => l.verdict_id \in Known \cup OtherIds \/ ~Readable(sink)
      BY <3>1, ReportedKnown
    <3> QED BY <1>1, <3>1, <3>2, GroundedByKnown DEF GroundedInv
  <2>2. CASE sink' = sink
    BY <2>2 DEF GroundedInv
  <2>3. CASE sink' = Append(sink, Torn)
    <3>1. \A i \in Of(sink', "discharge") : i \in Of(sink, "discharge")
      BY <1>1, <2>3, Kinds DEF Of
    <3> QED BY <1>1, <3>1, GroundedKept DEF GroundedInv
  <2>4. ASSUME NEW p \in Processes, line[p] \in Record, line[p] \in Line, sink' = Written(line[p])
        PROVE  \A i \in Of(sink', "discharge") : GroundedAt(sink', i)
    <3>1. line[p] # NoLine
      BY <2>4, Kinds
    <3>2. line[p].kind = "discharge" => line[p].verdict_id \in Known
      BY <3>1 DEF GroundedInv, ReadIds, Known
    <3> QED BY <1>1, <2>4, <3>2, GroundedByKnown DEF GroundedInv
  <2> QED BY <2>1, <2>2, <2>3, <2>4, StepWrites
<1>3. ASSUME NEW q \in Processes, line'[q] # NoLine, line'[q].kind = "discharge"
      PROVE  line'[q].verdict_id \in ReadIds(sink')
  <2>1. CASE line'[q] = line[q]
    BY <1>1, <1>3, <2>1 DEF GroundedInv
  <2>2. CASE BuildRecord(q)
    <3>1. PICK v \in Outcomes, i \in VerdictIds, t \in 0..MaxTime :
            line' = [line EXCEPT ![q] = EvidenceOf(v, i, t)]
      BY <2>2 DEF BuildRecord
    <3>2. line'[q] = EvidenceOf(v, i, t)
      BY <3>1 DEF TypeOK
    <3> QED BY <1>3, <3>2 DEF EvidenceOf
  <2>3. CASE BuildDischarge(q)
    <3>1. PICK i \in Known, o \in Obligations, b \in Principals :
            line' = [line EXCEPT ![q] = DischargeOf(i, o, b)]
      BY <2>3 DEF BuildDischarge
    <3>2. line'[q].verdict_id = i
      BY <3>1 DEF TypeOK, DischargeOf
    <3>3. Readable(sink)
      BY <2>3 DEF BuildDischarge
    <3>4. Known \subseteq ReadIds(sink)
      <4>1. Of(sink, "evidence") \subseteq Yielded(sink)
        BY <3>3, <1>1 DEF Of, Yielded, Readable
      <4> QED BY <4>1 DEF Known, ReadIds
    <3> QED BY <1>1, <3>2, <3>4
  <2>4. CASE AppendLine(q) \/ AppendFails(q)
    <3>1. line'[q] = NoLine
      BY <2>4 DEF AppendLine, AppendFails, TypeOK
    <3> QED BY <1>3, <3>1
  <2>5. line'[q] = line[q] \/ BuildRecord(q) \/ BuildDischarge(q) \/ AppendLine(q) \/ AppendFails(q)
    BY LineStep
  <2> QED BY <2>1, <2>2, <2>3, <2>4, <2>5
<1>4. ASSUME NEW d \in appended', d.kind = "discharge"
      PROVE  d.verdict_id \in ReadIds(sink')
  <2>1. CASE d \in appended
    BY <1>1, <1>4, <2>1 DEF GroundedInv
  <2>2. CASE \E p \in Processes : line[p] # NoLine /\ d = line[p]
    BY <1>1, <1>4, <2>2 DEF GroundedInv
  <2> QED BY <2>1, <2>2, AppendedStep
<1> QED BY <1>2, <1>3, <1>4 DEF GroundedInv

\* The ids that a longer sink names are the old ones and that of the new line.
LEMMA NamedWritten ==
    ASSUME TypeOK, TypeOK', NEW l \in Line, sink' = Written(l)
    PROVE  \A x \in Named(sink') :
             x \in Named(sink) \/ (l.kind \in {"evidence", "discharge"} /\ x = l.verdict_id)
<1>1. /\ sink \in Seq(Line) /\ sink' \in Seq(Line) /\ Len(sink) \in Nat /\ Extends(sink, sink')
  BY WrittenExtends DEF TypeOK
<1>2. ASSUME NEW k \in {"evidence", "discharge"}, NEW i \in Of(sink', k)
      PROVE  \/ i \in Of(sink, k) /\ sink'[i] = sink[i]
             \/ sink'[i] = l /\ l.kind = k
  <2>1. i \in Nat /\ sink'[i].kind = k
    BY <1>1 DEF Of
  <2>2. CASE i <= Len(sink)
    BY <1>1, <2>2, LinesKept
  <2>3. CASE i > Len(sink)
    BY <2>1, <2>3, NewLine
  <2> QED BY <1>1, <2>1, <2>2, <2>3
<1> QED BY <1>2 DEF Named

LEMMA NamedTorn ==
    ASSUME TypeOK, sink' = Append(sink, Torn)
    PROVE  Named(sink') \subseteq Named(sink)
<1>1. ASSUME NEW k \in {"evidence", "discharge"}, NEW i \in Of(sink', k)
      PROVE  i \in Of(sink, k) /\ sink'[i] = sink[i]
  BY Kinds DEF Of, TypeOK
<1> QED BY <1>1 DEF Named

\* Ids drawn are not made up.
LEMMA DrawnOrOther == TypeOK => drawn \cap OtherIds = {}
BY EvidenceAssumption DEF TypeOK

\* A step that names no id of a pending record keeps them fresh.
LEMMA FreshByNames ==
    ASSUME TypeOK, FreshInv, drawn' = drawn, NEW X \in SUBSET (drawn \cup OtherIds),
           Named(sink)' \subseteq Named(sink) \cup X,
           Reported' \subseteq Reported \cup X,
           \A q \in Processes : line'[q] = line[q] \/ line'[q] = NoLine,
           \A q \in Processes : line'[q] # NoLine /\ Pending(q) => line[q].verdict_id \notin X
    PROVE  FreshInv'
<1>1. Named(sink)' \cup Reported' \subseteq drawn' \cup OtherIds
  BY DEF FreshInv
<1>2. \A p \in Processes : line'[p] # NoLine => line'[p].verdict_id \in drawn' \cup OtherIds
  BY DEF FreshInv
<1>3. ASSUME NEW p \in Processes, Pending(p)'
      PROVE  /\ line'[p].verdict_id \in drawn'
             /\ line'[p].verdict_id \notin Named(sink)' \cup Reported'
             /\ \A q \in Processes : q # p /\ line'[q] # NoLine => line'[q].verdict_id # line'[p].verdict_id
  <2>1. line'[p] = line[p] /\ Pending(p) /\ line'[p] # NoLine
    BY <1>3 DEF Pending
  <2>2. line[p].verdict_id \notin X
    BY <2>1
  <2>3. line[p].verdict_id \in drawn /\ line[p].verdict_id \notin Named(sink) \cup Reported
    BY <2>1 DEF FreshInv
  <2>4. \A q \in Processes : q # p /\ line[q] # NoLine => line[q].verdict_id # line[p].verdict_id
    BY <2>1 DEF FreshInv
  <2> QED BY <2>1, <2>2, <2>3, <2>4
<1> QED BY <1>1, <1>2, <1>3 DEF FreshInv

\* No step names the id of a record that is still to be appended.
LEMMA FreshStep ==
    ASSUME TypeOK, FreshInv, [Next]_vars
    PROVE  FreshInv'
<1>0. TypeOK' /\ Known \subseteq Named(sink)
  BY StepTyped DEF Known, Named
<1>1. CASE UNCHANGED vars
  BY <1>1 DEF vars, FreshInv, Pending, Reported, Named, Of
<1>2. CASE OtherWriter
  <2>1. PICK l \in Line :
          /\ sink' = Written(l)
          /\ l.kind \in {"evidence", "discharge"} => l.verdict_id \in Known \cup Reported \cup OtherIds
    BY <1>2, OtherWrites
  <2>2. UNCHANGED <<drawn, line, appended>>
    BY <1>2 DEF OtherWriter
  <2>3. Named(sink)' \subseteq Named(sink) \cup (Reported \cup OtherIds) /\ Reported' = Reported
    <3>1. Named(sink)' = Named(sink')
      BY DEF Named, Of
    <3> QED BY <1>0, <2>1, <2>2, <3>1, NamedWritten DEF Reported
  <2>4. Reported \cup OtherIds \in SUBSET (drawn \cup OtherIds)
    BY DEF FreshInv
  <2>5. \A q \in Processes : Pending(q) => line[q].verdict_id \notin Reported \cup OtherIds
    BY DrawnOrOther DEF FreshInv
  <2> QED BY <2>2, <2>3, <2>4, <2>5, FreshByNames
<1>3. ASSUME NEW p \in Processes, BuildRecord(p)
      PROVE  FreshInv'
  <2>1. PICK v \in Outcomes, i \in VerdictIds \ drawn, t \in 0..MaxTime :
          drawn' = drawn \cup {i} /\ line' = [line EXCEPT ![p] = EvidenceOf(v, i, t)]
    BY <1>3 DEF BuildRecord
  <2>2. /\ line'[p].verdict_id = i /\ i \notin drawn \cup OtherIds
        /\ \A q \in Processes : q # p => line'[q] = line[q]
    BY <2>1, EvidenceAssumption DEF TypeOK, EvidenceOf
  <2>3. Named(sink)' = Named(sink) /\ Reported' = Reported
    BY <1>3 DEF BuildRecord, Named, Of, Reported
  <2>4. Named(sink)' \cup Reported' \subseteq drawn' \cup OtherIds
    BY <2>1, <2>3 DEF FreshInv
  <2>5. ASSUME NEW q \in Processes, line'[q] # NoLine
        PROVE  line'[q].verdict_id \in drawn' \cup OtherIds
    BY <2>1, <2>2, <2>5 DEF FreshInv
  <2>6. ASSUME NEW q \in Processes, Pending(q)'
        PROVE  /\ line'[q].verdict_id \in drawn'
               /\ line'[q].verdict_id \notin Named(sink)' \cup Reported'
               /\ \A r \in Processes : r # q /\ line'[r] # NoLine => line'[r].verdict_id # line'[q].verdict_id
    <3>1. CASE q = p
      <4>1. \A r \in Processes : r # p /\ line'[r] # NoLine => line'[r].verdict_id \in drawn \cup OtherIds
        BY <2>2 DEF FreshInv
      <4>2. i \in drawn' /\ i \notin Named(sink)' \cup Reported'
        BY <2>1, <2>2, <2>3 DEF FreshInv
      <4> QED BY <2>2, <3>1, <4>1, <4>2
    <3>2. CASE q # p
      <4>1. Pending(q) /\ line'[q] = line[q]
        BY <2>2, <2>6, <3>2 DEF Pending
      <4>2. line[q].verdict_id \in drawn /\ line[q].verdict_id \notin Named(sink) \cup Reported
        BY <4>1 DEF FreshInv
      <4>3. \A r \in Processes : r # q /\ line[r] # NoLine => line[r].verdict_id # line[q].verdict_id
        BY <4>1 DEF FreshInv
      <4>4. \A r \in Processes : r # q /\ line'[r] # NoLine => line'[r].verdict_id # line'[q].verdict_id
        BY <2>2, <4>1, <4>2, <4>3
      <4> QED BY <2>1, <2>3, <4>1, <4>2, <4>4
    <3> QED BY <3>1, <3>2
  <2> QED BY <2>4, <2>5, <2>6 DEF FreshInv
<1>4. ASSUME NEW p \in Processes, BuildDischarge(p)
      PROVE  FreshInv'
  <2>1. PICK i \in Known, o \in Obligations, b \in Principals :
          line' = [line EXCEPT ![p] = DischargeOf(i, o, b)]
    BY <1>4 DEF BuildDischarge
  <2>2. /\ line'[p] = DischargeOf(i, o, b) /\ line'[p].verdict_id = i /\ line'[p].kind # "evidence"
        /\ \A q \in Processes : q # p => line'[q] = line[q]
    BY <2>1 DEF TypeOK, DischargeOf
  <2>3. /\ Named(sink)' = Named(sink) /\ Reported' = Reported /\ drawn' = drawn
        /\ i \in Named(sink) /\ i \in drawn \cup OtherIds
    <3>1. i \in Named(sink)
      BY <1>0
    <3> QED BY <1>4, <3>1 DEF BuildDischarge, Named, Of, Reported, FreshInv
  <2>4. ASSUME NEW q \in Processes, line'[q] # NoLine
        PROVE  line'[q].verdict_id \in drawn' \cup OtherIds
    BY <2>2, <2>3, <2>4 DEF FreshInv
  <2>5. ASSUME NEW q \in Processes, Pending(q)'
        PROVE  /\ line'[q].verdict_id \in drawn'
               /\ line'[q].verdict_id \notin Named(sink)' \cup Reported'
               /\ \A r \in Processes : r # q /\ line'[r] # NoLine => line'[r].verdict_id # line'[q].verdict_id
    <3>1. q # p
      BY <2>2, <2>5 DEF Pending
    <3>2. Pending(q) /\ line'[q] = line[q]
      BY <2>2, <2>5, <3>1 DEF Pending
    <3>3. line[q].verdict_id \in drawn /\ line[q].verdict_id \notin Named(sink) \cup Reported
      BY <3>2 DEF FreshInv
    <3>4. \A r \in Processes : r # q /\ line[r] # NoLine => line[r].verdict_id # line[q].verdict_id
      BY <3>2 DEF FreshInv
    <3>5. \A r \in Processes : r # q /\ line'[r] # NoLine => line'[r].verdict_id # line'[q].verdict_id
      BY <2>2, <2>3, <3>2, <3>3, <3>4
    <3> QED BY <2>3, <3>2, <3>3, <3>5
  <2>6. Named(sink)' \cup Reported' \subseteq drawn' \cup OtherIds
    BY <2>3 DEF FreshInv
  <2> QED BY <2>4, <2>5, <2>6 DEF FreshInv
<1>5. ASSUME NEW p \in Processes, AppendLine(p) \/ AppendFails(p)
      PROVE  FreshInv'
  <2>1. /\ line[p] # NoLine /\ line[p] \in Line /\ drawn' = drawn
        /\ line' = [line EXCEPT ![p] = NoLine]
    BY <1>5, Kinds DEF AppendLine, AppendFails, TypeOK, Record
  <2> DEFINE X == {line[p].verdict_id}
  <2>2. X \in SUBSET (drawn \cup OtherIds)
    BY <2>1 DEF FreshInv
  <2>3. Named(sink)' \subseteq Named(sink) \cup X
    <3>1. Named(sink)' = Named(sink')
      BY DEF Named, Of
    <3>2. sink' = sink \/ sink' = Append(sink, Torn) \/ sink' = Written(line[p])
      BY <1>5 DEF AppendLine, AppendFails
    <3> QED BY <1>0, <2>1, <3>1, <3>2, NamedWritten, NamedTorn
  <2>4. Reported' \subseteq Reported \cup X
    BY <1>5 DEF AppendLine, AppendFails, Reported
  <2>5. \A q \in Processes : line'[q] = line[q] \/ line'[q] = NoLine
    BY <2>1 DEF TypeOK
  <2>6. \A q \in Processes : line'[q] # NoLine /\ Pending(q) => line[q].verdict_id \notin X
    <3>1. \A q \in Processes : line'[q] # NoLine => q # p
      BY <2>1 DEF TypeOK
    <3> QED BY <2>1, <3>1 DEF FreshInv
  <2> HIDE DEF X
  <2> QED BY <2>1, <2>2, <2>3, <2>4, <2>5, <2>6, FreshByNames
<1> QED BY <1>1, <1>2, <1>3, <1>4, <1>5 DEF Next

\* A gate records no verdict of a nameless performer.
LEMMA PerformerStep ==
    ASSUME TypeOK, PerformerInv, [Next]_vars
    PROVE  PerformerInv'
<1>1. ASSUME NEW q \in Processes, Pending(q)'
      PROVE  AuditFold[line'[q].performer] # NoName
  <2>1. CASE line'[q] = line[q]
    BY <1>1, <2>1 DEF PerformerInv, Pending
  <2>2. CASE BuildRecord(q)
    <3>1. PICK v \in Outcomes, i \in VerdictIds, t \in 0..MaxTime :
            line' = [line EXCEPT ![q] = EvidenceOf(v, i, t)]
      BY <2>2 DEF BuildRecord
    <3>2. line'[q].performer = v.performer
      BY <3>1 DEF TypeOK, EvidenceOf
    <3> QED BY <3>2, SinkAssumption
  <2>3. CASE BuildDischarge(q)
    <3>1. PICK i \in Known, o \in Obligations, b \in Principals :
            line' = [line EXCEPT ![q] = DischargeOf(i, o, b)]
      BY <2>3 DEF BuildDischarge
    <3>2. line'[q].kind = "discharge"
      BY <3>1 DEF TypeOK, DischargeOf
    <3> QED BY <1>1, <3>2 DEF Pending
  <2>4. CASE AppendLine(q) \/ AppendFails(q)
    <3>1. line'[q] = NoLine
      BY <2>4 DEF AppendLine, AppendFails, TypeOK
    <3> QED BY <1>1, <3>1 DEF Pending
  <2> QED BY <2>1, <2>2, <2>3, <2>4, LineStep
<1>2. ASSUME NEW v \in Verdicts'
      PROVE  AuditFold[v.performer] # NoName
  <2>1. v \in appended' /\ v.kind = "evidence"
    BY DEF Verdicts
  <2>2. CASE v \in appended
    BY <2>1, <2>2 DEF PerformerInv, Verdicts
  <2>3. CASE \E p \in Processes : line[p] # NoLine /\ v = line[p]
    BY <2>1, <2>3 DEF PerformerInv, Pending
  <2> QED BY <2>1, <2>2, <2>3, AppendedStep
<1> QED BY <1>1, <1>2 DEF PerformerInv

LEMMA Inductive == Spec => []IInv
<1>1. Init => IInv
  BY DEF Init, IInv, TypeOK, KeptInv, GroundedInv, FreshInv, PerformerInv, Pending, Named, Reported,
         Verdicts, Of, Readable
<1>2. IInv /\ [Next]_vars => IInv'
  BY StepTyped, KeptStep, GroundedStep, FreshStep, PerformerStep DEF IInv
<1> QED BY <1>1, <1>2, PTL DEF Spec

\* DischargesFollowVerdicts: a discharge the command reported as done has its
\* verdict in the sink, and before it unless the id is made up by another writer.
THEOREM DischargesAlwaysFollow == Spec => []DischargesFollowVerdicts
<1>1. IInv => DischargesFollowVerdicts
  <2> SUFFICES ASSUME IInv, NEW d \in appended, d.kind = "discharge",
                      NEW i \in DOMAIN sink, sink[i] = d
               PROVE  \E j \in Of(sink, "evidence") :
                        sink[j].verdict_id = d.verdict_id /\ (j < i \/ d.verdict_id \in OtherIds)
    BY DEF DischargesFollowVerdicts
  <2>1. i \in Of(sink, "discharge")
    BY DEF Of
  <2>2. GroundedAt(sink, i) /\ d.verdict_id \in ReadIds(sink)
    BY <2>1 DEF IInv, GroundedInv
  <2>3. \E j \in Of(sink, "evidence") : sink[j].verdict_id = d.verdict_id
    BY <2>2 DEF ReadIds
  <2> QED BY <2>2, <2>3 DEF GroundedAt
<1> QED BY <1>1, Inductive, PTL

-----------------------------------------------------------------------------
\* On a sink that audits clean every obligation of a recorded ALLOW is paid.
LEMMA SettledWhenPaid ==
    ASSUME IInv, Readable(sink), ObligationFaults(sink) = {},
           NEW v \in Verdicts, NEW o \in v.obligations, <<v.verdict_id, o>> \in Paid(sink)
    PROVE  \E b \in DischargedBy(v, o) : AuditFold[b] # AuditFold[v.performer]
<1>1. PICK i \in DOMAIN sink : sink[i] = v
  BY DEF IInv, KeptInv, Verdicts
<1>2. v.kind = "evidence"
  BY DEF Verdicts
<1>3. i \in Of(sink, "evidence") /\ i \in VerdictLines(sink)
  BY <1>1, <1>2 DEF Of, ObligationFaults
<1>4. PICK d \in Of(sink, "discharge") :
        Pays(sink, d) /\ sink[d].verdict_id = v.verdict_id /\ sink[d].obligation = o
  BY DEF Paid
<1>5. PICK k \in Owed(sink, d) : ~SelfDischarge(sink[d].by, sink[k].performer)
  BY <1>4 DEF Pays
<1>6. k \in VerdictLines(sink) /\ k \in Of(sink, "evidence") /\ sink[k].verdict_id = v.verdict_id
  BY <1>4, <1>5 DEF Owed, VerdictLines
<1>7. k \in Nat /\ i \in Nat
  BY <1>3, <1>6 DEF Of, IInv, TypeOK
<1>8. k = i
  BY <1>1, <1>3, <1>6, <1>7 DEF VerdictLines
<1>9. sink[d].by \in DischargedBy(v, o)
  BY <1>4 DEF DischargedBy
<1>10. AuditFold[v.performer] # NoName
  BY DEF IInv, PerformerInv
<1>11. AuditFold[sink[d].by] # AuditFold[v.performer]
  BY <1>1, <1>5, <1>8, <1>10 DEF SelfDischarge
<1> QED BY <1>9, <1>11

\* CleanMeansPaid: no clean report of the obligations command hides a debt.
THEOREM CleanAlwaysPaid == Spec => []CleanMeansPaid
<1>1. IInv => CleanMeansPaid
  <2> SUFFICES ASSUME IInv, NEW v \in Verdicts, v.decision = "ALLOW", NEW o \in v.obligations
               PROVE  LET settled == \E b \in DischargedBy(v, o) : AuditFold[b] # AuditFold[v.performer]
                      IN  /\ ObligationsClean(sink) => settled
                          /\ \A at \in 0..MaxTime :
                               ObligationsCleanWithGrace(sink, at) => settled \/ at - v.at < Grace
    BY DEF CleanMeansPaid
  <2>1. ASSUME Readable(sink), ObligationFaults(sink) = {}, <<v.verdict_id, o>> \notin Paid(sink)
        PROVE  \E i \in Unpaid(sink) : sink[i] = v
    <3>1. PICK i \in DOMAIN sink : sink[i] = v
      BY <2>1 DEF IInv, KeptInv, Verdicts
    <3>2. v.kind = "evidence"
      BY DEF Verdicts
    <3>3. i \in VerdictLines(sink)
      BY <2>1, <3>1, <3>2 DEF Of, ObligationFaults
    <3> QED BY <2>1, <3>1, <3>3 DEF Unpaid
  <2> DEFINE settled == \E b \in DischargedBy(v, o) : AuditFold[b] # AuditFold[v.performer]
  <2>2. ObligationsClean(sink) => settled
    BY <2>1, SettledWhenPaid DEF ObligationsClean
  <2>3. ASSUME NEW at \in 0..MaxTime, ObligationsCleanWithGrace(sink, at)
        PROVE  settled \/ at - v.at < Grace
    BY <2>1, <2>3, SettledWhenPaid DEF ObligationsCleanWithGrace
  <2> QED BY <2>2, <2>3
<1> QED BY <1>1, Inductive, PTL

-----------------------------------------------------------------------------
\* A sink without a first malformed line has none at all.
LEMMA FaultlessReads ==
    ASSUME NEW s \in Seq(Line), EnvelopeFaults(s) = {}
    PROVE  Readable(s)
<1> DEFINE M == {i \in DOMAIN s : Malformed(s[i])}
<1> SUFFICES ASSUME M # {} PROVE FALSE
  BY DEF Readable
<1>1. M \subseteq Nat
  OBVIOUS
<1>2. PICK x \in M : \A y \in M : ~ (<<y, x>> \in OpToRel(<, Nat))
  BY <1>1, WFMin, NatLessThanWellFounded, Zenon
<1>3. \A y \in M : ~ (y < x)
  BY <1>1, <1>2 DEF OpToRel
<1>4. \A j \in 1..(x - 1) : j \in DOMAIN s /\ j < x
  OBVIOUS
<1>5. x \in EnvelopeFaults(s)
  BY <1>3, <1>4 DEF EnvelopeFaults
<1> QED BY <1>5

\* The lines of a sink an audit counts are finitely many.
LEMMA DenialsFinite ==
    ASSUME NEW s \in Seq(Line), NEW e, NEW at
    PROVE  IsFiniteSet(OutsideDenials(s, e, at))
<1>1. IsFiniteSet(1..Len(s))
  BY FS_Interval
<1>2. OutsideDenials(s, e, at) \in SUBSET (1..Len(s))
  BY DEF OutsideDenials, Yielded
<1> QED BY <1>1, <1>2, FS_Subset

\* DenialsArm: as many recorded denials as arm the trigger leave no clean report.
THEOREM DenialsAlwaysArm == Spec => []DenialsArm
<1>1. IInv => DenialsArm
  <2> SUFFICES ASSUME IInv, NEW at \in 0..MaxTime, NEW e \in Envelopes, EnvelopesClean(sink, at)
               PROVE  LET denied == {v \in Verdicts : /\ v.decision # "ALLOW" /\ v.outside
                                                      /\ v.envelope_ref = e /\ v.at >= at - Window}
                      IN  ~ (Cardinality(denied) >= Threshold)
    BY DEF DenialsArm
  <2> DEFINE D == {v \in Verdicts : /\ v.decision # "ALLOW" /\ v.outside
                                    /\ v.envelope_ref = e /\ v.at >= at - Window}
             L == OutsideDenials(sink, e, at)
             f == [i \in L |-> sink[i]]
             I == {sink[i] : i \in L}
  <2>1. sink \in Seq(Line) /\ Readable(sink)
    BY FaultlessReads DEF IInv, TypeOK, EnvelopesClean
  <2>2. \A i \in DOMAIN sink : i \in Yielded(sink)
    BY <2>1 DEF Yielded, Readable
  <2>3. D \subseteq I
    <3> SUFFICES ASSUME NEW v \in D PROVE \E i \in L : sink[i] = v
      OBVIOUS
    <3>1. v \in appended /\ v.kind = "evidence"
      BY DEF Verdicts
    <3>2. PICK i \in DOMAIN sink : sink[i] = v
      BY <2>1, <3>1 DEF IInv, KeptInv
    <3>3. i \in L
      BY <2>2, <3>1, <3>2 DEF OutsideDenials
    <3> QED BY <3>2, <3>3
  <2>4. IsFiniteSet(L) /\ f \in Surjection(L, I)
    BY <2>1, DenialsFinite DEF Surjection
  <2>5. IsFiniteSet(I) /\ Cardinality(I) <= Cardinality(L)
    BY <2>4, FS_Surjection
  <2>6. IsFiniteSet(D) /\ Cardinality(D) <= Cardinality(I)
    BY <2>3, <2>5, FS_Subset
  <2>7. Cardinality(D) \in Nat /\ Cardinality(I) \in Nat /\ Cardinality(L) \in Nat
    BY <2>4, <2>5, <2>6, FS_CardinalityType
  <2>8. ~ (Cardinality(L) >= Threshold)
    BY DEF EnvelopesClean, Armed
  <2>9. ~ (Cardinality(D) >= Threshold)
    <3> HIDE DEF D, L, I
    <3> QED BY <2>5, <2>6, <2>7, <2>8, EvidenceAssumption
  <2> QED BY <2>9
<1> QED BY <1>1, Inductive, PTL

-----------------------------------------------------------------------------
\* A line that is a fault stays one, unless its verdict is supplied: a discharge
\* that pays later does so by a line that no command had left to write, because
\* the id of a record still to be appended is named by no line.
LEMMA FaultKept ==
    ASSUME IInv, [Next]_vars, NEW i \in ObligationFaults(sink)
    PROVE  i \in ObligationFaults(sink') \/ SuppliedByOther(i)
<1>1. /\ sink \in Seq(Line) /\ sink' \in Seq(Line) /\ Len(sink) \in Nat
      /\ Extends(sink, sink') /\ TypeOK /\ TypeOK'
  BY StepTyped DEF IInv, TypeOK, StepExtends
<1>2. CASE i \in Of(sink, "stray")
  BY <1>1, <1>2, LinesKept DEF ObligationFaults
<1>3. CASE i \in Of(sink, "evidence") \ VerdictLines(sink)
  <2>1. i \in Of(sink', "evidence") /\ i <= Len(sink)
    BY <1>1, <1>3, LinesKept
  <2>2. i \notin VerdictLines(sink')
    BY <1>1, <1>3, <2>1, VerdictLinesKept
  <2> QED BY <2>1, <2>2 DEF ObligationFaults
<1>4. CASE i \in Of(sink, "discharge") /\ ~Pays(sink, i)
  <2>1. i \in Of(sink', "discharge") /\ sink'[i] = sink[i] /\ i \in 1..Len(sink)
    BY <1>1, <1>4, LinesKept
  <2>2. ASSUME Pays(sink', i) PROVE SuppliedByOther(i)
    <3>1. PICK k \in Owed(sink', i) : ~SelfDischarge(sink'[i].by, sink'[k].performer)
      BY <2>2 DEF Pays
    <3>2. /\ k \in VerdictLines(sink') /\ k \in Of(sink', "evidence") /\ k \in Nat
          /\ sink'[k].verdict_id = sink[i].verdict_id
          /\ sink'[i].obligation \in sink'[k].obligations
      BY <1>1, <2>1, <3>1 DEF Owed, VerdictLines, Of
    <3>3. ~(k <= Len(sink))
      <4> SUFFICES ASSUME k <= Len(sink) PROVE FALSE
        OBVIOUS
      <4>1. k \in VerdictLines(sink) /\ sink'[k] = sink[k]
        BY <1>1, <3>2, VerdictLinesKept, LinesKept
      <4>2. k \in Owed(sink, i)
        BY <2>1, <3>2, <4>1 DEF Owed
      <4> QED BY <1>4, <2>1, <3>1, <4>1, <4>2 DEF Pays
    <3>4. k > Len(sink)
      BY <1>1, <3>2, <3>3
    <3>5. sink[i].verdict_id \notin Known
      <4> SUFFICES ASSUME NEW j \in Of(sink, "evidence"), sink[j].verdict_id = sink[i].verdict_id
                   PROVE  FALSE
        BY DEF Known
      <4>1. j \in Of(sink', "evidence") /\ sink'[j] = sink[j] /\ j \in 1..Len(sink)
        BY <1>1, LinesKept
      <4>2. j < k
        BY <1>1, <3>2, <3>4, <4>1
      <4> QED BY <3>2, <4>1, <4>2 DEF VerdictLines
    <3>6. sink[i].verdict_id \in Known'
      BY <3>2 DEF Known
    <3>7. line' = line
      <4>1. CASE OtherWriter
        BY <4>1 DEF OtherWriter
      <4>2. CASE sink' = sink
        BY <3>5, <3>6, <4>2 DEF Known
      <4>3. CASE sink' = Append(sink, Torn)
        <5>1. k \in Of(sink, "evidence")
          BY <1>1, <3>2, <4>3, Kinds DEF Of
        <5> QED BY <1>1, <3>3, <5>1 DEF Of
      <4>4. ASSUME NEW p \in Processes, line[p] \in Record, line[p] \in Line, sink' = Written(line[p])
            PROVE  FALSE
        <5>1. sink'[k] = line[p]
          BY <1>1, <3>2, <3>4, <4>4, NewLine
        <5>2. Pending(p)
          BY <3>2, <4>4, <5>1, Kinds DEF Pending, Of
        <5>3. sink[i].verdict_id \in Named(sink)
          BY <1>4 DEF Named
        <5> QED BY <3>2, <5>1, <5>2, <5>3 DEF IInv, FreshInv
      <4> QED BY <1>1, <4>1, <4>2, <4>3, <4>4, StepWrites
    <3>8. sink[i].kind = "discharge"
      BY <1>4 DEF Of
    <3> QED BY <3>5, <3>6, <3>7, <3>8 DEF SuppliedByOther
  <2> QED BY <2>1, <2>2 DEF ObligationFaults
<1> QED BY <1>2, <1>3, <1>4 DEF ObligationFaults

\* An envelope audit that complains of a sink complains of any longer one.
LEMMA UncleanKept ==
    ASSUME NEW s \in Seq(Line), NEW t \in Seq(Line), Extends(s, t),
           NEW at, ~EnvelopesClean(s, at)
    PROVE  ~EnvelopesClean(t, at)
<1>1. /\ DOMAIN s = 1..Len(s) /\ DOMAIN t = 1..Len(t) /\ Len(s) \in Nat /\ Len(t) \in Nat
      /\ Len(s) <= Len(t)
  BY DEF Extends
<1>2. \A i \in 1..Len(s) : /\ Malformed(s[i]) <=> Malformed(t[i])
                           /\ ~Malformed(s[i]) => t[i] = s[i]
  BY Kinds DEF Extends, Malformed
<1>3. CASE EnvelopeFaults(s) # {}
  <2>1. PICK i \in 1..Len(s) : Malformed(s[i]) /\ \A j \in 1..(i - 1) : ~Malformed(s[j])
    BY <1>1, <1>3 DEF EnvelopeFaults
  <2>2. \A j \in 1..(i - 1) : j \in 1..Len(s)
    BY <1>1
  <2>3. i \in EnvelopeFaults(t)
    BY <1>1, <1>2, <2>1, <2>2 DEF EnvelopeFaults
  <2> QED BY <2>3 DEF EnvelopesClean
<1>4. CASE Armed(s, at) # {}
  <2>1. PICK e \in Envelopes : Cardinality(OutsideDenials(s, e, at)) >= Threshold
    BY <1>4 DEF Armed
  <2>2. \A i \in Yielded(s) : i \in Yielded(t) /\ t[i] = s[i]
    <3> SUFFICES ASSUME NEW i \in Yielded(s) PROVE i \in Yielded(t) /\ t[i] = s[i]
      OBVIOUS
    <3>1. i \in 1..Len(s) /\ \A j \in 1..i : j \in 1..Len(s) /\ ~Malformed(s[j])
      BY <1>1 DEF Yielded
    <3> QED BY <1>1, <1>2, <3>1 DEF Yielded
  <2>3. OutsideDenials(s, e, at) \subseteq OutsideDenials(t, e, at)
    BY <2>2 DEF OutsideDenials
  <2>4. IsFiniteSet(OutsideDenials(t, e, at)) /\ IsFiniteSet(OutsideDenials(s, e, at))
    BY DenialsFinite
  <2>5. Cardinality(OutsideDenials(s, e, at)) <= Cardinality(OutsideDenials(t, e, at))
    BY <2>3, <2>4, FS_Subset
  <2>6. /\ Cardinality(OutsideDenials(s, e, at)) \in Nat
        /\ Cardinality(OutsideDenials(t, e, at)) \in Nat
    BY <2>4, FS_CardinalityType
  <2>7. Cardinality(OutsideDenials(t, e, at)) >= Threshold
    BY <2>1, <2>5, <2>6, EvidenceAssumption
  <2> QED BY <2>7 DEF EnvelopesClean, Armed
<1> QED BY <1>3, <1>4 DEF EnvelopesClean

\* AppendingHidesNothing: what an audit complains of is never taken back, but for
\* a discharge whose verdict another writer supplies.
THEOREM AppendingNeverHides == Spec => AppendingHidesNothing
<1> DEFINE Kept ==
        /\ \A i \in ObligationFaults(sink) : i \in ObligationFaults(sink') \/ SuppliedByOther(i)
        /\ \A at \in 0..MaxTime : ~EnvelopesClean(sink, at) => ~EnvelopesClean(sink', at)
<1>1. ASSUME IInv, [Next]_vars
      PROVE  Kept
  <2>1. /\ sink \in Seq(Line) /\ sink' \in Seq(Line) /\ Extends(sink, sink') /\ TypeOK'
    BY <1>1, StepTyped DEF IInv, TypeOK, StepExtends
  <2>2. \A i \in ObligationFaults(sink) : i \in ObligationFaults(sink') \/ SuppliedByOther(i)
    BY <1>1, FaultKept
  <2>3. \A at \in 0..MaxTime : ~EnvelopesClean(sink, at) => ~EnvelopesClean(sink', at)
    BY <2>1, UncleanKept
  <2> QED BY <2>2, <2>3
<1>2. IInv /\ [Next]_vars => [Kept]_vars
  BY <1>1
<1> QED BY <1>2, Inductive, PTL DEF Spec, AppendingHidesNothing
=============================================================================
