------------------------- MODULE AttestationLogProofs -------------------------
(***************************************************************************)
(* Theorems about AttestationLog for any controls, windows, processes and  *)
(* bounds.  The argument: the lines of the file never change once they can *)
(* be parsed (WrittenKeeps), a process has folded exactly a prefix of them *)
(* (LoadInv), and the file holds whatever was reported as recorded unless  *)
(* it can no longer be parsed at all (FileInv).  For the refinement of     *)
(* AttestationBoard a file is folded by recursion and a step adds at most  *)
(* one record to it.                                                       *)
(***************************************************************************)
EXTENDS AttestationLog, WellFoundedInduction, TLAPS

\* Whatever was reported as recorded is a line of the file, or the file holds a
\* malformed line.
FileInv ==
    \/ \E i \in 1..Len(log) : log[i] \in Malformed
    \/ \A a \in acked : \E i \in 1..Len(log) : log[i] = a

\* A process has folded the first cursor[p] lines of the text it read, all of
\* them well formed, and that text held what had been reported by then.
LoadOf(p) ==
    /\ cursor[p] <= read[p]
    /\ read[p] <= Len(log)
    /\ \A i \in 1..cursor[p] : log[i] \notin Malformed /\ log[i] \in known[p]
    /\ \/ \E i \in 1..read[p] : log[i] \in Malformed
       \/ \A a \in heard[p] : \E i \in 1..read[p] : log[i] = a
    /\ pc[p] \in {"running", "probing"} => cursor[p] = read[p]

LoadInv == \A p \in Processes : LoadOf(p)

IInv == TypeOK /\ NewestWins /\ FileInv /\ LoadInv

-----------------------------------------------------------------------------
\* Folding one more attestation keeps a store the resolution of what it was
\* given: the rule of AttestationStore.record does not depend on the order.
LEMMA RecordedResolves ==
    ASSUME NEW s \in Store, NEW K \in SUBSET Attestation, NEW a \in Attestation,
           Resolves(s, K)
    PROVE  Recorded(s, a) \in Store /\ Resolves(Recorded(s, a), K \cup {a})
<1> DEFINE t == Recorded(s, a)
<1>1. t \in Store
  BY DEF Recorded, Store, Attestation
<1>2. ASSUME NEW c \in Controls, c # a.control
      PROVE  t[c] = s[c] /\ {b \in K \cup {a} : b.control = c} = {b \in K : b.control = c}
  BY <1>2 DEF Recorded, Store, Attestation
<1>3. ASSUME NEW c \in Controls, c = a.control
      PROVE  /\ t[c] \in {b \in K \cup {a} : b.control = c}
             /\ \A b \in K \cup {a} : b.control = c =>
                  /\ b.issued_at <= t[c].issued_at
                  /\ b.issued_at = t[c].issued_at /\ ~b.result => ~t[c].result
  <2>1. CASE {b \in K : b.control = c} = {}
    <3>1. s[c] = NoRecord
      BY <2>1 DEF Resolves
    <3>2. t[c] = a
      BY <3>1, <1>3 DEF Recorded, Store
    <3> QED BY <3>2, <2>1, <1>3 DEF Attestation
  <2>2. CASE {b \in K : b.control = c} # {}
    <3>1. /\ s[c] \in K /\ s[c].control = c
          /\ \A b \in K : b.control = c =>
               /\ b.issued_at <= s[c].issued_at
               /\ b.issued_at = s[c].issued_at /\ ~b.result => ~s[c].result
      BY <2>2 DEF Resolves
    <3>2. s[c] \in Attestation /\ s[c] # NoRecord
      BY <3>1, NoRecordAssumption
    <3>3. CASE Supersedes(a, s[c])
      <4>1. t[c] = a
        BY <3>3, <1>3 DEF Recorded, Store
      <4> QED BY <4>1, <3>1, <3>2, <3>3, <1>3 DEF Supersedes, Attestation
    <3>4. CASE ~Supersedes(a, s[c])
      <4>1. t[c] = s[c]
        BY <3>4, <3>2, <1>3 DEF Recorded
      <4> QED BY <4>1, <3>1, <3>2, <3>4, <1>3 DEF Supersedes, Attestation
    <3> QED BY <3>3, <3>4
  <2> QED BY <2>1, <2>2
<1>4. Resolves(t, K \cup {a})
  <2> SUFFICES ASSUME NEW c \in Controls
               PROVE  LET on == {b \in K \cup {a} : b.control = c} IN
                      IF on = {} THEN t[c] = NoRecord
                      ELSE /\ t[c] \in on
                           /\ \A b \in on :
                                /\ b.issued_at <= t[c].issued_at
                                /\ b.issued_at = t[c].issued_at /\ ~b.result => ~t[c].result
    BY DEF Resolves
  <2>1. CASE c # a.control
    BY <2>1, <1>2 DEF Resolves
  <2>2. CASE c = a.control
    BY <2>2, <1>3
  <2> QED BY <2>1, <2>2
<1> QED BY <1>1, <1>4

\* An append changes no line that can be parsed, repairs none that cannot, and
\* leaves the new record in the file or a malformed line in its place.
LEMMA WrittenKeeps ==
    ASSUME log \in Seq(Line), NEW a \in Attestation
    PROVE  /\ Written(a) \in Seq(Line)
           /\ Len(log) <= Len(Written(a))
           /\ \A i \in 1..Len(log) :
                /\ log[i] \notin Malformed => Written(a)[i] = log[i]
                /\ log[i] \in Malformed => Written(a)[i] \in Malformed
           /\ \/ \E i \in 1..Len(Written(a)) : Written(a)[i] \in Malformed
              \/ \E i \in 1..Len(Written(a)) : Written(a)[i] = a
<1>1. CASE log # <<>> /\ log[Len(log)] = Torn
  <2>1. Written(a) = [log EXCEPT ![Len(log)] = Glued]
    BY <1>1 DEF Written
  <2>2. Len(log) \in 1..Len(log) /\ Glued \in Line /\ Glued \in Malformed /\ Torn \in Malformed
    BY <1>1 DEF Line, Malformed
  <2>3. Written(a) \in Seq(Line) /\ Len(Written(a)) = Len(log)
    BY <2>1, <2>2
  <2>4. Written(a)[Len(log)] = Glued
    BY <2>1, <2>2
  <2>5. \A i \in 1..Len(log) : i # Len(log) => Written(a)[i] = log[i]
    BY <2>1, <2>2
  <2> QED BY <1>1, <2>2, <2>3, <2>4, <2>5
<1>2. CASE ~(log # <<>> /\ log[Len(log)] = Torn)
  <2>1. Written(a) = Append(log, a)
    BY <1>2 DEF Written
  <2>2. a \in Line
    BY DEF Line
  <2> QED BY <2>1, <2>2
<1> QED BY <1>1, <1>2

-----------------------------------------------------------------------------
\* An append by anyone leaves a process's load as it was.
LEMMA GrowthKeepsLoad ==
    ASSUME TypeOK, NEW q \in Processes, LoadOf(q),
           log' \in Seq(Line), Len(log) <= Len(log'),
           \A i \in 1..Len(log) :
             /\ log[i] \notin Malformed => log'[i] = log[i]
             /\ log[i] \in Malformed => log'[i] \in Malformed,
           read'[q] = read[q], cursor'[q] = cursor[q], heard'[q] = heard[q],
           known[q] \subseteq known'[q],
           pc'[q] \in {"running", "probing"} => pc[q] \in {"running", "probing"}
    PROVE  LoadOf(q)'
<1>1. /\ cursor[q] \in Nat /\ read[q] \in Nat /\ Len(log) \in Nat /\ Len(log') \in Nat
      /\ cursor[q] <= read[q] /\ read[q] <= Len(log)
      /\ heard[q] \in SUBSET Attestation
  BY DEF TypeOK, LoadOf
<1>2. \A i \in 1..cursor[q] : log'[i] \notin Malformed /\ log'[i] \in known'[q]
  <2>1. \A i \in 1..cursor[q] : i \in 1..Len(log) /\ log[i] \notin Malformed /\ log[i] \in known[q]
    BY <1>1 DEF LoadOf
  <2> QED BY <2>1
<1>3. \/ \E i \in 1..read[q] : log'[i] \in Malformed
      \/ \A a \in heard[q] : \E i \in 1..read[q] : log'[i] = a
  <2>1. \A i \in 1..read[q] : i \in 1..Len(log)
    BY <1>1
  <2>2. \A a \in heard[q] : a \notin Malformed
    BY <1>1, LineAssumption
  <2>3. CASE \E i \in 1..read[q] : log[i] \in Malformed
    BY <2>1, <2>3
  <2>4. CASE \A a \in heard[q] : \E i \in 1..read[q] : log[i] = a
    BY <2>1, <2>2, <2>4
  <2> QED BY <2>3, <2>4 DEF LoadOf
<1> QED BY <1>1, <1>2, <1>3 DEF LoadOf

\* A process that ends leaves nothing behind but the file.
LEMMA ForgetKeeps ==
    ASSUME TypeOK, NewestWins, LoadInv, NEW p \in Processes, Forget(p),
           UNCHANGED <<now, acked>>, log' \in Seq(Line), Len(log) <= Len(log'),
           \A i \in 1..Len(log) :
             /\ log[i] \notin Malformed => log'[i] = log[i]
             /\ log[i] \in Malformed => log'[i] \in Malformed
    PROVE  TypeOK' /\ NewestWins' /\ LoadInv'
<1>1. TypeOK'
  BY DEF TypeOK, Forget, EmptyStore, Store
<1>2. NewestWins'
  <2>1. Resolves(EmptyStore, {})
    BY DEF Resolves, EmptyStore
  <2> QED BY <2>1 DEF TypeOK, NewestWins, Forget
<1>3. ASSUME NEW q \in Processes PROVE LoadOf(q)'
  <2>1. CASE q = p
    BY <2>1 DEF TypeOK, Forget, LoadOf
  <2>2. CASE q # p
    <3>1. /\ read'[q] = read[q] /\ cursor'[q] = cursor[q] /\ heard'[q] = heard[q]
          /\ known'[q] = known[q] /\ pc'[q] = pc[q]
      BY <2>2 DEF TypeOK, Forget
    <3>2. LoadOf(q)
      BY DEF LoadInv
    <3> QED BY <3>1, <3>2, GrowthKeepsLoad
  <2> QED BY <2>1, <2>2
<1> QED BY <1>1, <1>2, <1>3 DEF LoadInv

LEMMA InitIInv == Init => IInv
<1> SUFFICES ASSUME Init PROVE IInv
  OBVIOUS
<1>1. TypeOK
  BY DEF Init, TypeOK, EmptyStore, Store
<1>2. NewestWins
  BY DEF Init, NewestWins, Resolves, EmptyStore
<1>3. FileInv /\ LoadInv
  BY DEF Init, FileInv, LoadInv, LoadOf
<1> QED BY <1>1, <1>2, <1>3 DEF IInv

\* The lines a torn write leaves: only the last one can change, and it was
\* unparsable already.
LEMMA TearKeeps ==
    ASSUME TypeOK, NEW p \in Processes, TearLine(p)
    PROVE  /\ log' \in Seq(Line) /\ Len(log) <= Len(log')
           /\ \A i \in 1..Len(log) : log'[i] = log[i]
           /\ \E i \in 1..Len(log') : log'[i] \in Malformed
<1>1. CASE log # <<>> /\ log[Len(log)] = Torn
  BY <1>1 DEF TypeOK, TearLine, Malformed
<1>2. CASE ~(log # <<>> /\ log[Len(log)] = Torn)
  <2>1. log' = Append(log, Torn)
    BY <1>2 DEF TearLine
  <2>2. Torn \in Line /\ Torn \in Malformed
    BY DEF Line, Malformed
  <2>3. log \in Seq(Line)
    BY DEF TypeOK
  <2>4. log' \in Seq(Line) /\ Len(log') = Len(log) + 1 /\ log'[Len(log) + 1] = Torn
    BY <2>1, <2>2, <2>3
  <2>5. \A i \in 1..Len(log) : log'[i] = log[i]
    BY <2>1, <2>2, <2>3
  <2>6. Len(log) + 1 \in 1..Len(log') /\ Len(log) <= Len(log')
    BY <2>3, <2>4
  <2> QED BY <2>2, <2>4, <2>5, <2>6
<1> QED BY <1>1, <1>2

-----------------------------------------------------------------------------
\* The steps that write the file with a whole record.
LEMMA AppendKeepsFile ==
    ASSUME TypeOK, FileInv, NEW a \in Attestation, log' = Written(a), acked' = acked \cup {a}
    PROVE  FileInv'
<1>1. log \in Seq(Line) /\ Len(log) \in Nat
  BY DEF TypeOK
<1>2. /\ log' \in Seq(Line)
      /\ Len(log) <= Len(log')
      /\ \A i \in 1..Len(log) :
           /\ log[i] \notin Malformed => log'[i] = log[i]
           /\ log[i] \in Malformed => log'[i] \in Malformed
      /\ \/ \E i \in 1..Len(log') : log'[i] \in Malformed
         \/ \E i \in 1..Len(log') : log'[i] = a
  BY <1>1, WrittenKeeps
<1>3. \A i \in 1..Len(log) : i \in 1..Len(log')
  BY <1>1, <1>2
<1>4. CASE \E i \in 1..Len(log') : log'[i] \in Malformed
  BY <1>4 DEF FileInv
<1>5. CASE ~\E i \in 1..Len(log') : log'[i] \in Malformed
  <2>1. \A b \in acked : \E i \in 1..Len(log) : log[i] = b
    BY <1>2, <1>3, <1>5 DEF FileInv
  <2>2. \A b \in acked' : \E i \in 1..Len(log') : log'[i] = b
    BY <2>1, <1>2, <1>3, <1>5
  <2> QED BY <2>2 DEF FileInv
<1> QED BY <1>4, <1>5

LEMMA TickStep == IInv /\ Tick => IInv'
BY DEF IInv, Tick, TypeOK, NewestWins, FileInv, LoadInv, LoadOf

LEMMA ForeignAppendStep == IInv /\ ForeignAppend => IInv'
<1> SUFFICES ASSUME IInv, ForeignAppend PROVE IInv'
  OBVIOUS
<1>1. PICK a \in Attestation : log' = Written(a) /\ acked' = acked \cup {a}
  <2>1. PICK c \in Controls, r \in BOOLEAN, t \in 0..MaxTime :
          LET a == [control |-> c, result |-> r, issued_at |-> t] IN
          log' = Written(a) /\ acked' = acked \cup {a}
    BY DEF ForeignAppend
  <2>2. [control |-> c, result |-> r, issued_at |-> t] \in Attestation
    BY BoundAssumption DEF Attestation
  <2> QED BY <2>1, <2>2
<1>2. UNCHANGED <<now, pc, read, cursor, store, todo, forced, run, known, heard>>
  BY DEF ForeignAppend
<1>3. TypeOK'
  BY <1>1, <1>2, WrittenKeeps DEF IInv, TypeOK
<1>4. NewestWins' /\ FileInv'
  BY <1>1, <1>2, AppendKeepsFile DEF IInv, NewestWins
<1>5. ASSUME NEW q \in Processes PROVE LoadOf(q)'
  <2>1. LoadOf(q) /\ TypeOK /\ log \in Seq(Line)
    BY DEF IInv, LoadInv, TypeOK
  <2> QED BY <2>1, <1>1, <1>2, WrittenKeeps, GrowthKeepsLoad
<1> QED BY <1>3, <1>4, <1>5 DEF IInv, LoadInv

LEMMA RecordRunStep == ASSUME NEW p \in Processes PROVE IInv /\ RecordRun(p) => IInv'
<1> SUFFICES ASSUME IInv, RecordRun(p) PROVE IInv'
  OBVIOUS
<1>1. PICK a \in Attestation :
        /\ log' = Written(a)
        /\ store' = [store EXCEPT ![p] = Recorded(@, a)]
        /\ known' = [known EXCEPT ![p] = @ \cup {a}]
        /\ acked' = acked \cup {a}
  <2>1. PICK r \in BOOLEAN :
          LET a == [control |-> run[p].control, result |-> r, issued_at |-> run[p].ran_at] IN
          /\ log' = Written(a)
          /\ store' = [store EXCEPT ![p] = Recorded(@, a)]
          /\ known' = [known EXCEPT ![p] = @ \cup {a}]
          /\ acked' = acked \cup {a}
    BY DEF RecordRun
  <2>2. run[p] \in RunStart
    BY DEF RecordRun, IInv, TypeOK
  <2>3. [control |-> run[p].control, result |-> r, issued_at |-> run[p].ran_at] \in Attestation
    BY <2>2 DEF RunStart, Attestation
  <2> QED BY <2>1, <2>3
<1>2. /\ pc[p] = "probing" /\ pc' = [pc EXCEPT ![p] = "running"]
      /\ run' = [run EXCEPT ![p] = NoRecord]
      /\ UNCHANGED <<now, read, cursor, todo, forced, heard>>
  BY DEF RecordRun
<1>3. /\ Recorded(store[p], a) \in Store
      /\ Resolves(Recorded(store[p], a), known[p] \cup {a})
  BY RecordedResolves DEF IInv, TypeOK, NewestWins
<1>4. TypeOK'
  BY <1>1, <1>2, <1>3, WrittenKeeps DEF IInv, TypeOK
<1>5. NewestWins'
  BY <1>1, <1>3 DEF IInv, TypeOK, NewestWins
<1>6. FileInv'
  BY <1>1, AppendKeepsFile DEF IInv
<1>7. ASSUME NEW q \in Processes PROVE LoadOf(q)'
  <2>1. LoadOf(q) /\ TypeOK /\ log \in Seq(Line)
    BY DEF IInv, LoadInv, TypeOK
  <2>2. known[q] \subseteq known'[q]
    BY <1>1 DEF IInv, TypeOK
  <2>3. pc'[q] \in {"running", "probing"} => pc[q] \in {"running", "probing"}
    BY <1>2 DEF IInv, TypeOK
  <2> QED BY <2>1, <2>2, <2>3, <1>1, <1>2, WrittenKeeps, GrowthKeepsLoad
<1> QED BY <1>4, <1>5, <1>6, <1>7 DEF IInv, LoadInv

LEMMA FoldLineStep == ASSUME NEW p \in Processes PROVE IInv /\ FoldLine(p) => IInv'
<1> SUFFICES ASSUME IInv, FoldLine(p) PROVE IInv'
  OBVIOUS
<1> DEFINE line == log[cursor[p] + 1]
<1>1. /\ cursor[p] \in Nat /\ read[p] \in Nat /\ Len(log) \in Nat
      /\ cursor[p] < read[p] /\ read[p] <= Len(log)
  BY DEF FoldLine, IInv, TypeOK, LoadInv, LoadOf
<1>2. line \in Attestation /\ line \notin Malformed
  <2>1. line \in Line
    BY <1>1 DEF IInv, TypeOK
  <2> QED BY <2>1 DEF FoldLine, Line
<1>3. /\ cursor' = [cursor EXCEPT ![p] = @ + 1]
      /\ store' = [store EXCEPT ![p] = Recorded(@, line)]
      /\ known' = [known EXCEPT ![p] = @ \cup {line}]
      /\ pc[p] = "folding"
      /\ UNCHANGED <<log, now, pc, read, todo, forced, run, acked, heard>>
  BY DEF FoldLine
<1>4. /\ Recorded(store[p], line) \in Store
      /\ Resolves(Recorded(store[p], line), known[p] \cup {line})
  BY <1>2, RecordedResolves DEF IInv, TypeOK, NewestWins
<1>5. TypeOK'
  BY <1>1, <1>2, <1>3, <1>4 DEF IInv, TypeOK
<1>6. NewestWins'
  BY <1>3, <1>4 DEF IInv, TypeOK, NewestWins
<1>7. FileInv'
  BY <1>3 DEF IInv, FileInv
<1>8. ASSUME NEW q \in Processes PROVE LoadOf(q)'
  <2>1. CASE q = p
    <3>1. cursor'[p] = cursor[p] + 1 /\ known'[p] = known[p] \cup {line}
      BY <1>3 DEF IInv, TypeOK
    <3>2. \A i \in 1..cursor'[p] : log[i] \notin Malformed /\ log[i] \in known'[p]
      BY <1>1, <1>2, <3>1 DEF IInv, LoadInv, LoadOf
    <3> QED BY <2>1, <3>1, <3>2, <1>1, <1>3 DEF IInv, LoadInv, LoadOf
  <2>2. CASE q # p
    <3>1. cursor'[q] = cursor[q] /\ known'[q] = known[q]
      BY <2>2, <1>3 DEF IInv, TypeOK
    <3> QED BY <3>1, <1>3 DEF IInv, LoadInv, LoadOf
  <2> QED BY <2>1, <2>2
<1> QED BY <1>5, <1>6, <1>7, <1>8 DEF IInv, LoadInv

\* A process that reads the text hears whatever has been reported, or a
\* malformed line it will stop at.
LEMMA ReadTextStep == ASSUME NEW p \in Processes PROVE IInv /\ ReadText(p) => IInv'
<1> SUFFICES ASSUME IInv, ReadText(p) PROVE IInv'
  OBVIOUS
<1>1. TypeOK' /\ NewestWins' /\ FileInv'
  BY DEF IInv, TypeOK, NewestWins, FileInv, ReadText
<1>2. ASSUME NEW q \in Processes PROVE LoadOf(q)'
  <2>1. CASE q = p
    <3>1. read'[p] = Len(log) /\ heard'[p] = acked /\ pc'[p] = "folding"
      BY DEF ReadText, IInv, TypeOK
    <3>2. cursor[p] \in Nat /\ read[p] \in Nat /\ Len(log) \in Nat
          /\ cursor[p] <= read[p] /\ read[p] <= Len(log)
      BY DEF IInv, TypeOK, LoadInv, LoadOf
    <3> QED BY <2>1, <3>1, <3>2 DEF ReadText, IInv, FileInv, LoadInv, LoadOf
  <2>2. CASE q # p
    <3>1. read'[q] = read[q] /\ heard'[q] = heard[q] /\ pc'[q] = pc[q]
      BY <2>2 DEF ReadText, IInv, TypeOK
    <3> QED BY <3>1 DEF ReadText, IInv, LoadInv, LoadOf
  <2> QED BY <2>1, <2>2
<1> QED BY <1>1, <1>2 DEF IInv, LoadInv

LEMMA LocalStep ==
    ASSUME NEW p \in Processes
    PROVE  IInv /\ (Loaded(p) \/ SkipCurrent(p) \/ StartProvider(p)) => IInv'
<1> SUFFICES ASSUME IInv, Loaded(p) \/ SkipCurrent(p) \/ StartProvider(p) PROVE IInv'
  OBVIOUS
<1>1. UNCHANGED <<log, now, read, cursor, store, known, acked, heard>>
  BY DEF Loaded, SkipCurrent, StartProvider
<1>2. NewestWins' /\ FileInv'
  BY <1>1 DEF IInv, NewestWins, FileInv
<1>3. TypeOK'
  <2>1. CASE Loaded(p)
    BY <2>1 DEF IInv, TypeOK, Loaded
  <2>2. CASE SkipCurrent(p)
    BY <2>2 DEF IInv, TypeOK, SkipCurrent
  <2>3. CASE StartProvider(p)
    <3>1. PICK c \in todo[p] :
            /\ todo' = [todo EXCEPT ![p] = @ \ {c}]
            /\ run' = [run EXCEPT ![p] = [control |-> c, ran_at |-> now]]
      BY <2>3 DEF StartProvider
    <3>2. [control |-> c, ran_at |-> now] \in RunStart
      BY DEF IInv, TypeOK, RunStart
    <3> QED BY <2>3, <3>1, <3>2 DEF IInv, TypeOK, StartProvider
  <2> QED BY <2>1, <2>2, <2>3
<1>4. ASSUME NEW q \in Processes PROVE LoadOf(q)'
  <2>1. pc'[q] \in {"running", "probing"} => cursor[q] = read[q]
    BY DEF IInv, TypeOK, LoadInv, LoadOf, Loaded, SkipCurrent, StartProvider
  <2> QED BY <2>1, <1>1 DEF IInv, LoadInv, LoadOf
<1> QED BY <1>2, <1>3, <1>4 DEF IInv, LoadInv

LEMMA EndStep ==
    ASSUME NEW p \in Processes
    PROVE  IInv /\ (FoldMalformed(p) \/ TearLine(p) \/ Exit(p)) => IInv'
<1> SUFFICES ASSUME IInv, FoldMalformed(p) \/ TearLine(p) \/ Exit(p) PROVE IInv'
  OBVIOUS
<1>1. TypeOK /\ NewestWins /\ LoadInv /\ Forget(p) /\ UNCHANGED <<now, acked>>
  BY DEF IInv, FoldMalformed, TearLine, Exit
<1>2. CASE UNCHANGED log
  <2>1. log' \in Seq(Line) /\ Len(log) <= Len(log')
    BY <1>2 DEF IInv, TypeOK
  <2>2. FileInv'
    BY <1>1, <1>2 DEF IInv, FileInv
  <2> QED BY <1>1, <1>2, <2>1, <2>2, ForgetKeeps DEF IInv
<1>3. CASE TearLine(p)
  <2>1. /\ log' \in Seq(Line) /\ Len(log) <= Len(log')
        /\ \A i \in 1..Len(log) : log'[i] = log[i]
        /\ \E i \in 1..Len(log') : log'[i] \in Malformed
    BY <1>1, <1>3, TearKeeps
  <2>2. FileInv'
    BY <2>1 DEF FileInv
  <2>3. TypeOK' /\ NewestWins' /\ LoadInv'
    BY <1>1, <2>1, ForgetKeeps
  <2> QED BY <2>2, <2>3 DEF IInv
<1> QED BY <1>2, <1>3 DEF FoldMalformed, Exit

LEMMA NextIInv == IInv /\ [Next]_vars => IInv'
<1> SUFFICES ASSUME IInv, [Next]_vars PROVE IInv'
  OBVIOUS
<1>1. CASE UNCHANGED vars
  <2>1. UNCHANGED <<log, now, pc, read, cursor, store, todo, forced, run, known, acked, heard>>
    BY <1>1 DEF vars
  <2>2. TypeOK'
    BY <2>1 DEF IInv, TypeOK
  <2>3. NewestWins' /\ FileInv'
    BY <2>1 DEF IInv, NewestWins, FileInv
  <2>4. LoadInv'
    BY <2>1 DEF IInv, LoadInv, LoadOf
  <2> QED BY <2>2, <2>3, <2>4 DEF IInv
<1>2. CASE Tick
  BY <1>2, TickStep
<1>3. CASE ForeignAppend
  BY <1>3, ForeignAppendStep
<1>4. ASSUME NEW p \in Processes,
             \/ ReadText(p) \/ FoldLine(p) \/ FoldMalformed(p) \/ Loaded(p)
             \/ SkipCurrent(p) \/ StartProvider(p) \/ RecordRun(p)
             \/ TearLine(p) \/ Exit(p)
      PROVE  IInv'
  BY <1>4, ReadTextStep, FoldLineStep, RecordRunStep, LocalStep, EndStep
<1> QED BY <1>1, <1>2, <1>3, <1>4 DEF Next

-----------------------------------------------------------------------------
\* The inductive invariant holds in every reachable state.
LEMMA Invariance == Spec => []IInv
<1> QED BY InitIInv, NextIInv, PTL DEF Spec

\* The state of the file and of every process keeps its type, for any number of
\* controls, processes, lines and instants.
THEOREM TypeCorrect == Spec => []TypeOK
<1>1. IInv => TypeOK
  BY DEF IInv
<1> QED BY <1>1, Invariance, PTL

\* AttestationStore.record resolves whatever it is given to the newest
\* attestation of each control, a FAIL on a tie, in every process and always.
THEOREM NewestAlwaysWins == Spec => []NewestWins
<1>1. IInv => NewestWins
  BY DEF IInv
<1> QED BY <1>1, Invariance, PTL

\* No attestation that was reported as recorded is missing from a store that
\* was loaded afterwards, whatever crashed while the file was being extended.
THEOREM AckedAlwaysHeard == Spec => []AckedIsHeard
<1>1. IInv => AckedIsHeard
  <2> SUFFICES ASSUME IInv, NEW p \in Processes, pc[p] \in {"running", "probing"},
                      NEW a \in heard[p]
               PROVE  a \in known[p]
    BY DEF AckedIsHeard
  <2>1. LoadOf(p) /\ cursor[p] = read[p]
    BY DEF IInv, LoadInv, LoadOf
  <2>2. \E i \in 1..cursor[p] : log[i] = a
    BY <2>1 DEF LoadOf
  <2> QED BY <2>1, <2>2 DEF LoadOf
<1> QED BY <1>1, Invariance, PTL

\* A control is held only over PASSes strictly newer than every denial reported
\* before the load.
THEOREM AckedFailAlwaysStands == Spec => []AckedFailStands
<1>1. IInv /\ AckedIsHeard => AckedFailStands
  <2> SUFFICES ASSUME IInv, AckedIsHeard, NEW p \in Processes,
                      pc[p] \in {"running", "probing"}, NEW f \in heard[p],
                      ~f.result, Holds(store[p], f.control, now)
               PROVE  \E a \in known[p] :
                        a.control = f.control /\ a.result /\ a.issued_at > f.issued_at
    BY DEF AckedFailStands
  <2>1. f \in known[p] /\ f \in Attestation /\ known[p] \subseteq Attestation
    BY DEF AckedIsHeard, IInv, TypeOK
  <2>2. f.control \in Controls
    BY <2>1 DEF Attestation
  <2> DEFINE s == store[p][f.control]
  <2>3. /\ s \in known[p] /\ s.control = f.control
        /\ f.issued_at <= s.issued_at
        /\ f.issued_at = s.issued_at => ~s.result
    BY <2>1, <2>2 DEF IInv, NewestWins, Resolves
  <2>4. s.result
    BY DEF Holds, IsCurrent
  <2>5. s.issued_at > f.issued_at
    BY <2>1, <2>3, <2>4 DEF Attestation
  <2> QED BY <2>3, <2>4, <2>5
<1> QED BY <1>1, Invariance, AckedAlwaysHeard, PTL

-----------------------------------------------------------------------------
(***************************************************************************)
(* The answers of the file.  FreshLoad folds the lines with a recursive    *)
(* function; that such a function exists, is the only one and agrees with  *)
(* that of a longer file is shown by the least line for which it fails.    *)
(***************************************************************************)

LEMMA LeastNat == \A S \in SUBSET Nat : S # {} => \E m \in S : \A n \in S : m <= n
<1> SUFFICES ASSUME NEW S, S \subseteq Nat, S # {}
             PROVE \E m \in S : \A n \in S : m <= n
  OBVIOUS
<1>1. PICK m \in S : \A n \in S : ~ (<<n, m>> \in OpToRel(<, Nat))
  BY NatLessThanWellFounded, WFMin, Zenon
<1>2. \A n \in S : ~(n < m)
  BY <1>1 DEF OpToRel
<1> QED BY <1>2

\* f folds the first k lines of l.
Folds(f, l, k) ==
    f = [n \in 0..k |-> IF n = 0 THEN EmptyStore ELSE Recorded(f[n - 1], l[n])]

FirstLines(l, k) == {l[i] : i \in 1..k}

\* Of the first k lines a fold makes the one store they resolve to.
LEMMA FoldResolves ==
    ASSUME NEW l, NEW k \in Nat, \A i \in 1..k : l[i] \in Attestation, NEW f, Folds(f, l, k)
    PROVE  \A n \in 0..k : f[n] \in Store /\ Resolves(f[n], FirstLines(l, n))
<1> DEFINE Bad == {n \in 0..k : ~(f[n] \in Store /\ Resolves(f[n], FirstLines(l, n)))}
<1> SUFFICES ASSUME Bad # {} PROVE FALSE
  OBVIOUS
<1>1. PICK n \in Bad : \A m \in Bad : n <= m
  <2>1. Bad \in SUBSET Nat
    OBVIOUS
  <2> HIDE DEF Bad
  <2> QED BY <2>1, LeastNat
<1>2. f[0] = EmptyStore
  BY DEF Folds
<1>3. CASE n = 0
  <2>1. EmptyStore \in Store
    BY DEF EmptyStore, Store
  <2>2. FirstLines(l, 0) = {}
    BY DEF FirstLines
  <2>3. Resolves(EmptyStore, {})
    BY DEF Resolves, EmptyStore
  <2> QED BY <1>1, <1>2, <1>3, <2>1, <2>2, <2>3
<1>4. CASE n # 0
  <2>1. n \in 1..k /\ n - 1 \in 0..k /\ n - 1 \notin Bad
    BY <1>1, <1>4
  <2>2. f[n] = Recorded(f[n - 1], l[n])
    BY <2>1 DEF Folds
  <2>3. f[n - 1] \in Store /\ Resolves(f[n - 1], FirstLines(l, n - 1)) /\ l[n] \in Attestation
    BY <2>1
  <2>4. FirstLines(l, n - 1) \in SUBSET Attestation
    BY <2>1 DEF FirstLines
  <2>5. FirstLines(l, n) = FirstLines(l, n - 1) \cup {l[n]}
    <3>1. \A i \in 1..n : i \in 1..(n - 1) \/ i = n
      BY <2>1
    <3>2. \A i \in 1..(n - 1) : i \in 1..n
      BY <2>1
    <3> QED BY <2>1, <3>1, <3>2 DEF FirstLines
  <2>6. f[n] \in Store /\ Resolves(f[n], FirstLines(l, n))
    BY <2>2, <2>3, <2>4, <2>5, RecordedResolves
  <2> QED BY <1>1, <2>6
<1> QED BY <1>3, <1>4

LEMMA FoldUnique ==
    ASSUME NEW l, NEW k \in Nat, NEW f, Folds(f, l, k), NEW g, Folds(g, l, k)
    PROVE  f = g
<1> DEFINE Bad == {n \in 0..k : f[n] # g[n]}
<1>1. Bad = {}
  <2> SUFFICES ASSUME Bad # {} PROVE FALSE
    OBVIOUS
  <2>1. PICK n \in Bad : \A m \in Bad : n <= m
    <3>1. Bad \in SUBSET Nat
      OBVIOUS
    <3> HIDE DEF Bad
    <3> QED BY <3>1, LeastNat
  <2>2. n # 0
    BY <2>1 DEF Folds
  <2>3. n \in 0..k /\ n - 1 \in 0..k /\ n - 1 \notin Bad
    BY <2>1, <2>2
  <2>4. f[n] = Recorded(f[n - 1], l[n]) /\ g[n] = Recorded(g[n - 1], l[n])
    BY <2>2, <2>3 DEF Folds
  <2> QED BY <2>1, <2>3, <2>4
<1>2. \A n \in 0..k : f[n] = g[n]
  BY <1>1
<1>3. f = [n \in 0..k |-> f[n]] /\ g = [n \in 0..k |-> g[n]]
  BY DEF Folds
<1> QED BY <1>2, <1>3

\* A fold of k lines and one line more.
LEMMA FoldExtends ==
    ASSUME NEW l, NEW m, NEW k \in Nat, \A i \in 1..k : m[i] = l[i], NEW f, Folds(f, l, k)
    PROVE  \E g : Folds(g, m, k + 1) /\ g[k + 1] = Recorded(f[k], m[k + 1])
<1> DEFINE g == [n \in 0..(k + 1) |-> IF n = k + 1 THEN Recorded(f[k], m[k + 1]) ELSE f[n]]
<1>1. ASSUME NEW n \in 0..(k + 1)
      PROVE  g[n] = IF n = 0 THEN EmptyStore ELSE Recorded(g[n - 1], m[n])
  <2>1. CASE n = 0
    <3>1. g[0] = f[0] /\ f[0] = EmptyStore
      BY DEF Folds
    <3> QED BY <2>1, <3>1
  <2>2. CASE n \in 1..k
    <3>1. g[n] = f[n] /\ g[n - 1] = f[n - 1] /\ f[n] = Recorded(f[n - 1], l[n])
      BY <2>2 DEF Folds
    <3> HIDE DEF g
    <3> QED BY <2>2, <3>1
  <2>3. CASE n = k + 1
    <3>1. g[n] = Recorded(f[k], m[k + 1]) /\ g[n - 1] = f[k] /\ n # 0
      BY <2>3
    <3> HIDE DEF g
    <3> QED BY <2>3, <3>1
  <2>4. n = 0 \/ n \in 1..k \/ n = k + 1
    OBVIOUS
  <2> QED BY <2>1, <2>2, <2>3, <2>4
<1>2. g = [n \in 0..(k + 1) |-> g[n]] /\ g[k + 1] = Recorded(f[k], m[k + 1])
  OBVIOUS
<1> HIDE DEF g
<1>3. Folds(g, m, k + 1)
  BY <1>1, <1>2 DEF Folds
<1> QED BY <1>2, <1>3

LEMMA FoldExists == ASSUME NEW l, NEW k \in Nat PROVE \E f : Folds(f, l, k)
<1> DEFINE Bad == {n \in Nat : ~\E f : Folds(f, l, n)}
<1> SUFFICES ASSUME Bad # {} PROVE FALSE
  OBVIOUS
<1>1. PICK n \in Bad : \A m \in Bad : n <= m
  <2>1. Bad \in SUBSET Nat
    OBVIOUS
  <2> HIDE DEF Bad
  <2> QED BY <2>1, LeastNat
<1>2. n # 0
  <2> DEFINE f == [i \in 0..0 |-> EmptyStore]
  <2>1. Folds(f, l, 0)
    BY DEF Folds
  <2> QED BY <1>1, <2>1
<1>3. n - 1 \in Nat /\ n - 1 \notin Bad /\ (n - 1) + 1 = n
  BY <1>1, <1>2
<1>4. PICK f : Folds(f, l, n - 1)
  BY <1>3
<1>5. \E g : Folds(g, l, (n - 1) + 1)
  <2> DEFINE j == n - 1
  <2>1. j \in Nat /\ Folds(f, l, j)
    BY <1>3, <1>4
  <2> HIDE DEF j
  <2>2. \E g : Folds(g, l, j + 1)
    BY <2>1, FoldExtends
  <2> QED BY <2>2 DEF j
<1> QED BY <1>1, <1>3, <1>5

Unparsable(l) == \E i \in DOMAIN l : l[i] \in Malformed
LinesOf(l) == {l[i] : i \in DOMAIN l}

\* A file that parses answers with the fold of all its lines.
LEMMA FromFileFolds ==
    ASSUME NEW l, Len(l) \in Nat, ~Unparsable(l)
    PROVE  \E f : Folds(f, l, Len(l)) /\ FromFile(l) = f[Len(l)]
<1> DEFINE f == CHOOSE f : f = [n \in 0..Len(l) |->
                                  IF n = 0 THEN EmptyStore ELSE Recorded(f[n - 1], l[n])]
<1>1. \E g : Folds(g, l, Len(l))
  BY FoldExists
<1>2. f = [n \in 0..Len(l) |-> IF n = 0 THEN EmptyStore ELSE Recorded(f[n - 1], l[n])]
  BY <1>1, Zenon DEF Folds
<1>3. FromFile(l) = f[Len(l)]
  BY DEF FromFile, Unparsable
<1> HIDE DEF f
<1>4. Folds(f, l, Len(l))
  BY <1>2 DEF Folds
<1> QED BY <1>3, <1>4

\* What a load answers: over a file that parses, the newest record of each
\* control and, at one instant, the denial.
LEMMA FromFileResolves ==
    ASSUME NEW l \in Seq(Line)
    PROVE  IF Unparsable(l) THEN FromFile(l) = Torn
           ELSE /\ FromFile(l) \in Store /\ FromFile(l) # Torn
                /\ Resolves(FromFile(l), LinesOf(l))
<1>1. Unparsable(l) => FromFile(l) = Torn
  BY DEF Unparsable, FromFile
<1> SUFFICES ASSUME ~Unparsable(l)
             PROVE  /\ FromFile(l) \in Store /\ FromFile(l) # Torn
                    /\ Resolves(FromFile(l), LinesOf(l))
  BY <1>1
<1>2. /\ Len(l) \in Nat /\ DOMAIN l = 1..Len(l)
      /\ \A i \in 1..Len(l) : l[i] \in Attestation
  BY DEF Line, Unparsable
<1>3. PICK f : Folds(f, l, Len(l)) /\ FromFile(l) = f[Len(l)]
  BY <1>2, FromFileFolds
<1>4. FromFile(l) \in Store /\ Resolves(FromFile(l), FirstLines(l, Len(l)))
  BY <1>2, <1>3, FoldResolves
<1>5. FirstLines(l, Len(l)) = LinesOf(l)
  BY <1>2 DEF FirstLines, LinesOf
<1> QED BY <1>4, <1>5, LineAssumption

\* A line more is folded behind those that were there.
LEMMA FromFileExtends ==
    ASSUME NEW l \in Seq(Line), ~Unparsable(l), NEW a \in Attestation
    PROVE  FromFile(Append(l, a)) = Recorded(FromFile(l), a)
<1> DEFINE m == Append(l, a)
           k == Len(l)
<1>1. /\ k \in Nat /\ DOMAIN l = 1..k /\ DOMAIN m = 1..(k + 1)
      /\ Len(m) = k + 1 /\ \A i \in 1..k : m[i] = l[i]
      /\ m[k + 1] = a /\ a \notin Malformed
  BY LineAssumption
<1>2. ~Unparsable(m)
  BY <1>1 DEF Unparsable
<1> SUFFICES FromFile(m) = Recorded(FromFile(l), a)
  OBVIOUS
<1> HIDE DEF m
<1>3. PICK f : Folds(f, l, k) /\ FromFile(l) = f[k]
  BY <1>1, FromFileFolds
<1>4. PICK h : Folds(h, m, k + 1) /\ FromFile(m) = h[k + 1]
  BY <1>1, <1>2, FromFileFolds
<1> HIDE DEF k
<1>5. PICK g : Folds(g, m, k + 1) /\ g[k + 1] = Recorded(f[k], m[k + 1])
  BY <1>1, <1>3, FoldExtends
<1>6. h = g
  BY <1>1, <1>4, <1>5, FoldUnique
<1> QED BY <1>1, <1>3, <1>4, <1>5, <1>6

\* A step of any process or host does one of four things to the file.
LEMMA FileStep ==
    ASSUME TypeOK, [Next]_vars
    PROVE  \/ log' = log
           \/ Unparsable(log')
           \/ ~Unparsable(log) /\ \E a \in Attestation : log' = Append(log, a)
<1>1. ASSUME NEW a \in Attestation, log' = Written(a)
      PROVE  \/ Unparsable(log')
             \/ ~Unparsable(log) /\ \E b \in Attestation : log' = Append(log, b)
  <2>1. log \in Seq(Line) /\ DOMAIN log = 1..Len(log) /\ Len(log) \in Nat
    BY DEF TypeOK
  <2>2. log' \in Seq(Line) /\ DOMAIN log' = 1..Len(log') /\ Len(log) <= Len(log') /\ Len(log') \in Nat
    BY <1>1, <2>1, WrittenKeeps
  <2>3. \A i \in 1..Len(log) : i \in 1..Len(log')
    BY <2>1, <2>2
  <2>4. CASE Unparsable(log)
    BY <1>1, <2>1, <2>2, <2>3, <2>4, WrittenKeeps DEF Unparsable
  <2>5. CASE ~Unparsable(log)
    <3>1. ~(log # <<>> /\ log[Len(log)] = Torn)
      BY <2>1, <2>5 DEF Unparsable, Malformed
    <3>2. log' = Append(log, a)
      BY <1>1, <3>1 DEF Written
    <3> QED BY <2>5, <3>2
  <2> QED BY <2>4, <2>5
<1>2. ASSUME NEW p \in Processes, RecordRun(p)
      PROVE  \E a \in Attestation : log' = Written(a)
  <2>1. run[p] \in RunStart
    BY <1>2 DEF RecordRun, TypeOK
  <2> QED BY <1>2, <2>1 DEF RecordRun, RunStart, Attestation
<1>3. ASSUME ForeignAppend PROVE \E a \in Attestation : log' = Written(a)
  BY <1>3, BoundAssumption DEF ForeignAppend, Attestation
<1>4. ASSUME NEW p \in Processes, TearLine(p) PROVE log' = log \/ Unparsable(log')
  <2>1. CASE log # <<>> /\ log[Len(log)] = Torn
    BY <1>4, <2>1 DEF TearLine
  <2>2. CASE ~(log # <<>> /\ log[Len(log)] = Torn)
    <3>1. log' = Append(log, Torn) /\ log \in Seq(Line) /\ Len(log) \in Nat
      BY <1>4, <2>2 DEF TearLine, TypeOK
    <3>2. Len(log) + 1 \in DOMAIN log' /\ log'[Len(log) + 1] = Torn
      BY <3>1
    <3> QED BY <3>2 DEF Unparsable, Malformed
  <2> QED BY <2>1, <2>2
<1>5. CASE UNCHANGED log
  BY <1>5
<1> QED BY <1>1, <1>2, <1>3, <1>4, <1>5
     DEF Next, vars, Tick, ReadText, FoldLine, FoldMalformed, Loaded, SkipCurrent, StartProvider, Exit

\* Folding one record in leaves every other answer alone and replaces its own
\* only by a higher one.
LEMMA StepRises ==
    ASSUME IInv, [Next]_vars
    PROVE  [Board!Next]_FreshLoad
<1>0. TypeOK /\ log \in Seq(Line)
  BY DEF IInv, TypeOK
<1>1. CASE log' = log
  BY <1>1 DEF FreshLoad
<1>2. CASE Unparsable(log')
  <2>1. FreshLoad' = Torn
    BY <1>2 DEF FreshLoad, FromFile, Unparsable
  <2>2. CASE FreshLoad = Torn
    BY <2>1, <2>2
  <2>3. CASE FreshLoad # Torn
    BY <2>1, <2>3 DEF Board!Next
  <2> QED BY <2>2, <2>3
<1>3. ASSUME ~Unparsable(log), NEW a \in Attestation, log' = Append(log, a)
      PROVE  [Board!Next]_FreshLoad
  <2>1. /\ FreshLoad \in Store /\ FreshLoad # Torn /\ Resolves(FreshLoad, LinesOf(log))
    BY <1>0, <1>3, FromFileResolves DEF FreshLoad
  <2>2. FreshLoad' = Recorded(FreshLoad, a)
    BY <1>0, <1>3, FromFileExtends DEF FreshLoad
  <2> DEFINE c == a.control
             s == FreshLoad
  <2>3. c \in Controls /\ s[c] \in Attestation \cup {NoRecord}
    BY <2>1 DEF Attestation, Store
  <2>4. s[c] # NoRecord => s[c] \in Attestation /\ s[c].control = c
    BY <2>1, <2>3, NoRecordAssumption DEF Resolves
  <2>5. CASE ~(s[c] = NoRecord \/ Supersedes(a, s[c])) \/ a = s[c]
    <3>1. Recorded(s, a) = s
      BY <2>1, <2>3, <2>5 DEF Recorded, Store
    <3> QED BY <2>2, <3>1
  <2>6. CASE (s[c] = NoRecord \/ Supersedes(a, s[c])) /\ a # s[c]
    <3>1. FreshLoad' = [s EXCEPT ![c] = a]
      BY <2>2, <2>6 DEF Recorded
    <3>2. FreshLoad'[c] = a /\ FreshLoad' # s
      BY <2>1, <2>3, <2>6, <3>1 DEF Store
    <3>3. s[c] # NoRecord /\ a.issued_at = s[c].issued_at /\ ~a.result => s[c].result
      BY <2>4, <2>6 DEF Attestation
    <3>4. Board!Above(a, s[c])
      BY <2>4, <2>6, <3>3 DEF Board!Above, Supersedes
    <3>5. Board!Raise(c)
      BY <1>3, <3>1, <3>2, <3>4 DEF Board!Raise, Board!Attestation, Attestation
    <3> QED BY <2>1, <2>3, <3>2, <3>5 DEF Board!Next
  <2> QED BY <2>5, <2>6
<1> QED BY <1>0, <1>1, <1>2, <1>3, FileStep

\* AnswersOnlyRise: the file, with the processes and hosts that append to it,
\* implements the board of answers - a fresh load answers each control with
\* what it answered before or with something newer or, at one instant, denying,
\* until the file stops loading for good.
THEOREM AnswersRise == Spec => AnswersOnlyRise
<1>1. Init => Board!Init
  <2> SUFFICES ASSUME Init PROVE FreshLoad = EmptyStore
    BY DEF Board!Init, EmptyStore
  <2>1. Len(<<>>) = 0 /\ log = <<>> /\ DOMAIN log = {}
    BY DEF Init
  <2>2. ~Unparsable(log)
    BY <2>1 DEF Unparsable
  <2>3. PICK f : Folds(f, log, Len(log)) /\ FreshLoad = f[Len(log)]
    BY <2>1, <2>2, FromFileFolds DEF FreshLoad
  <2> QED BY <2>1, <2>3 DEF Folds
<1> QED BY <1>1, StepRises, Invariance, PTL DEF Spec, AnswersOnlyRise, Board!Spec

\* Whatever some command has reported as recorded decides the answer of every later
\* load that does not fail: it answers on that control with a record as new, and
\* with a denial where a reported denial is of the same instant.
AnswersReported ==
    FreshLoad # Torn =>
      \A a \in acked :
        LET s == FreshLoad[a.control] IN
        /\ s \in Attestation /\ s.control = a.control
        /\ a.issued_at <= s.issued_at
        /\ a.issued_at = s.issued_at /\ ~a.result => ~s.result

\* AnswersReported is kept by every step: no append, tear or glue between the
\* report and the load takes a reported record out of the answer.
THEOREM ReportedIsAnswered == Spec => []AnswersReported
<1>1. IInv => AnswersReported
  <2> SUFFICES ASSUME IInv, FreshLoad # Torn, NEW a \in acked
               PROVE  LET s == FreshLoad[a.control] IN
                      /\ s \in Attestation /\ s.control = a.control
                      /\ a.issued_at <= s.issued_at
                      /\ a.issued_at = s.issued_at /\ ~a.result => ~s.result
    BY DEF AnswersReported
  <2>1. log \in Seq(Line) /\ a \in Attestation
    BY DEF IInv, TypeOK
  <2>2. ~Unparsable(log) /\ Resolves(FreshLoad, LinesOf(log))
    BY <2>1, FromFileResolves DEF FreshLoad
  <2>3. a \in LinesOf(log)
    BY <2>2 DEF IInv, FileInv, Unparsable, LinesOf
  <2>4. a.control \in Controls
    BY <2>1 DEF Attestation
  <2>5. LinesOf(log) \subseteq Attestation
    BY <2>1, <2>2 DEF LinesOf, Unparsable, Line
  <2> DEFINE s == FreshLoad[a.control]
  <2>6. s \in LinesOf(log) /\ s.control = a.control
    BY <2>2, <2>3, <2>4 DEF Resolves
  <2>7. a.issued_at <= s.issued_at /\ (a.issued_at = s.issued_at /\ ~a.result => ~s.result)
    BY <2>2, <2>3, <2>4 DEF Resolves
  <2> HIDE DEF s
  <2> QED BY <2>5, <2>6, <2>7 DEF s
<1> QED BY <1>1, Invariance, PTL
=============================================================================
