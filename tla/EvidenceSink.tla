----------------------------- MODULE EvidenceSink -----------------------------
(***************************************************************************)
(* The evidence sink and the commands that extend it.                      *)
(*                                                                         *)
(* `neuraxis gate` draws a verdict id, stamps the verdict with the clock   *)
(* of its host and appends the record.  `neuraxis discharge` reads the     *)
(* whole sink, refuses a verdict that is not in it, and appends a record   *)
(* of its own.  Nothing is locked, an append may fail or be cut short, and *)
(* the sink is a file that others can write as well.  The audits read it   *)
(* once, at any moment, and are operators on its lines (EvidenceAudits).   *)
(***************************************************************************)
EXTENDS EvidenceAudits

CONSTANTS
    Processes,
    Outcomes,       \* bound: what an evaluation may come to
    OtherOutcomes,  \* bound: what an evidence record of another writer may say
    NoLine,
    MaxLines,       \* bound: lines in the sink
    MaxTime         \* bound: instants on the clocks

Outcome ==
    [decision : Decisions, performer : Principals, obligations : SUBSET Obligations,
     envelope_ref : Envelopes \cup {NoEnvelope}, outside : BOOLEAN]

ASSUME SinkAssumption ==
    /\ Outcomes \subseteq Outcome /\ OtherOutcomes \subseteq Outcome
    /\ \A v \in Outcomes : AuditFold[v.performer] # NoName     \* model.py, __post_init__
    /\ NoLine \notin Line
    /\ MaxLines \in Nat /\ MaxTime \in Nat

VARIABLES
    sink,       \* the lines of the file
    drawn,      \* verdict ids drawn so far
    line,       \* the record a process is about to append
    appended    \* history: records whose append returned to its command

vars == <<sink, drawn, line, appended>>

TypeOK ==
    /\ sink \in Seq(Line)
    /\ drawn \in SUBSET VerdictIds
    /\ line \in [Processes -> EvidenceRecord \cup DischargeRecord \cup {NoLine}]
    /\ appended \in SUBSET (EvidenceRecord \cup DischargeRecord)

Init ==
    /\ sink = <<>>
    /\ drawn = {}
    /\ line = [p \in Processes |-> NoLine]
    /\ appended = {}

-----------------------------------------------------------------------------
TornEnd == sink # <<>> /\ sink[Len(sink)] = Torn

Written(l) == IF TornEnd THEN [sink EXCEPT ![Len(sink)] = Glued] ELSE Append(sink, l)

Known == {sink[i].verdict_id : i \in Of(sink, "evidence")}
Reported == {v.verdict_id : v \in {r \in appended : r.kind = "evidence"}}

EvidenceOf(v, i, t) ==
    [kind |-> "evidence", verdict_id |-> i, at |-> t, decision |-> v.decision,
     performer |-> v.performer, obligations |-> v.obligations,
     envelope_ref |-> v.envelope_ref, outside |-> v.outside]

DischargeOf(i, o, b) == [kind |-> "discharge", verdict_id |-> i, obligation |-> o, by |-> b]

\* The gate has decided; EvidenceRecord.build draws a random id.
BuildRecord(p) ==
    /\ line[p] = NoLine
    /\ \E v \in Outcomes, i \in VerdictIds \ drawn, t \in 0..MaxTime :
         /\ drawn' = drawn \cup {i}
         /\ line' = [line EXCEPT ![p] = EvidenceOf(v, i, t)]
    /\ UNCHANGED <<sink, appended>>

\* Mutant: the verdict is not looked up.
BuildDischargeUnseen(p) ==
    /\ line[p] = NoLine
    /\ Readable(sink)
    /\ \E i \in drawn, o \in Obligations, b \in Principals :
         line' = [line EXCEPT ![p] = DischargeOf(i, o, b)]
    /\ UNCHANGED <<sink, drawn, appended>>

\* cmd_discharge reads the whole sink; a line that does not parse ends it.  Any
\* known verdict, any obligation and any name will do here.
BuildDischarge(p) ==
    /\ line[p] = NoLine
    /\ Readable(sink)
    /\ \E i \in Known, o \in Obligations, b \in Principals :
         line' = [line EXCEPT ![p] = DischargeOf(i, o, b)]
    /\ UNCHANGED <<sink, drawn, appended>>

\* Mutant: the command hands on whatever it was about to write.
AppendLineBlindly(p) ==
    /\ Len(sink) < MaxLines
    /\ sink' = Written(line[p])
    /\ appended' = appended \cup {line[p]}
    /\ line' = [line EXCEPT ![p] = NoLine]
    /\ UNCHANGED drawn

AppendLine(p) ==
    /\ line[p] # NoLine
    /\ Len(sink) < MaxLines
    /\ sink' = Written(line[p])
    /\ appended' = appended \cup {line[p]}
    /\ line' = [line EXCEPT ![p] = NoLine]
    /\ UNCHANGED drawn

\* EvidenceError, or the process dies: the sink may hold nothing of the line, a
\* part of it, or all of it.
AppendFails(p) ==
    /\ line[p] # NoLine
    /\ Len(sink) < MaxLines
    /\ sink' \in {sink, IF TornEnd THEN sink ELSE Append(sink, Torn), Written(line[p])}
    /\ line' = [line EXCEPT ![p] = NoLine]
    /\ UNCHANGED <<drawn, appended>>

\* Another program writes a line of its own.  Ids are random: it can repeat one
\* that it has read in the sink or that a gate reported, or make one up.
OtherWriter ==
    /\ Len(sink) < MaxLines
    /\ \/ sink' = Written(Stray)
       \/ \E i \in Known \cup Reported \cup OtherIds :
            \/ \E v \in OtherOutcomes, t \in 0..MaxTime : sink' = Written(EvidenceOf(v, i, t))
            \/ \E o \in Obligations, b \in Principals : sink' = Written(DischargeOf(i, o, b))
    /\ UNCHANGED <<drawn, line, appended>>

Next ==
    \/ OtherWriter
    \/ \E p \in Processes :
         BuildRecord(p) \/ BuildDischarge(p) \/ AppendLine(p) \/ AppendFails(p)

Spec == Init /\ [][Next]_vars

-----------------------------------------------------------------------------
\* What an ALLOW of the gate owes: the verdicts whose append returned.
Verdicts == {v \in appended : v.kind = "evidence"}

DischargedBy(v, o) ==
    {sink[d].by : d \in {e \in Of(sink, "discharge") :
                           sink[e].verdict_id = v.verdict_id /\ sink[e].obligation = o}}

\* When the obligations command reports clean, every obligation of every ALLOW
\* that was recorded has a discharge by a name other than the performer's, or
\* is younger than the grace asked for: no line appended by anybody, no torn
\* line and no order of the lines hides a debt (audit_obligations).
CleanMeansPaid ==
    \A v \in Verdicts : v.decision = "ALLOW" =>
      \A o \in v.obligations :
        LET settled == \E b \in DischargedBy(v, o) : AuditFold[b] # AuditFold[v.performer]
        IN  /\ ObligationsClean(sink) => settled
            /\ \A at \in 0..MaxTime :
                 ObligationsCleanWithGrace(sink, at) => settled \/ at - v.at < Grace

\* As many out-of-envelope denials as arm the trigger, recorded inside the
\* window, and no envelope audit reports clean: a torn sink is a fault and never
\* a shorter sample (audit_envelopes).
DenialsArm ==
    \A at \in 0..MaxTime, e \in Envelopes :
      LET denied == {v \in Verdicts : /\ v.decision # "ALLOW" /\ v.outside
                                     /\ v.envelope_ref = e /\ v.at >= at - Window}
      IN  Cardinality(denied) >= Threshold => ~EnvelopesClean(sink, at)

\* The one fault that a later line can take back: the verdict that discharge i
\* names was not in the sink and now is, and it is no command's record.
SuppliedByOther(i) ==
    /\ sink[i].kind = "discharge"
    /\ sink[i].verdict_id \in Known' \ Known
    /\ line' = line

\* Nothing a command appends takes back what an audit complains of, and of what
\* others append only an evidence record under an id that a discharge already
\* names, because the join waits for the last line (audit_obligations): any
\* other line that is a fault stays one.  An envelope audit that is not clean at
\* an instant stays so whoever writes.
AppendingHidesNothing ==
    [][/\ \A i \in ObligationFaults(sink) : i \in ObligationFaults(sink') \/ SuppliedByOther(i)
       /\ \A at \in 0..MaxTime : ~EnvelopesClean(sink, at) => ~EnvelopesClean(sink', at)]_vars

\* Nor can a later line undo a payment: a second record under the id of a
\* verdict changes neither what it owes nor who performed it.
PaidStaysPaid == [][Paid(sink) \subseteq Paid(sink')]_vars

\* A discharge the command reports as done pays or fails to pay on its own
\* account, never for want of a verdict; the verdict is before it, unless the id
\* is one that another writer made up (cmd_discharge).
DischargesFollowVerdicts ==
    \A d \in appended : d.kind = "discharge" =>
      \A i \in DOMAIN sink : sink[i] = d =>
        \E j \in Of(sink, "evidence") :
          sink[j].verdict_id = d.verdict_id /\ (j < i \/ d.verdict_id \in OtherIds)

-----------------------------------------------------------------------------
\* The claim of audit_obligations: discharges are joined to the ALLOWs that owe
\* them, only an ALLOW owes anything, and a discharge of what its verdict did not
\* owe is a fault.
PaidIsOwed ==
    \A i \in Of(sink, "discharge") :
      sink[i] \in appended /\ Pays(sink, i) =>
        \E v \in Owed(sink, i) : sink[v].decision = "ALLOW"
=============================================================================
