---------------------------- MODULE EvidenceAudits ----------------------------
(***************************************************************************)
(* The two audits of evidence.py as operators on the lines of an evidence  *)
(* sink: which obligations are owed and paid, and which envelopes gather   *)
(* denials.                                                                *)
(*                                                                         *)
(* A verdict record keeps what an audit reads; whether its reasons start   *)
(* with OUT_OF_ENVELOPE is the field `outside`.  A discharge keeps what is *)
(* joined.  A stray line parses and is of neither kind.  A line that does  *)
(* not parse is either torn, the last one of a process that died inside    *)
(* it, or glued, a torn line that a later append continued.                *)
(***************************************************************************)
EXTENDS Integers, Sequences, FiniteSets

CONSTANTS
    Principals,
    AuditFold,      \* strip and casefold, by which the audit compares names
    NoName,         \* what a name that is blank or missing folds to
    VerdictIds,     \* bound: the ids evaluations draw
    OtherIds,       \* bound: ids made up by other writers of the sink
    Obligations,
    Envelopes,
    NoEnvelope,
    Window,         \* of the envelope audit
    Threshold,
    Grace           \* of the obligations command

Decisions == {"ALLOW", "DENY", "ESCALATE", "WAIT_FOR_AUTHORITY", "DELEGATE"}

EvidenceRecord ==
    [kind : {"evidence"}, verdict_id : VerdictIds \cup OtherIds, at : Nat, decision : Decisions,
     performer : Principals, obligations : SUBSET Obligations,
     envelope_ref : Envelopes \cup {NoEnvelope}, outside : BOOLEAN]

DischargeRecord ==
    [kind : {"discharge"}, verdict_id : VerdictIds \cup OtherIds,
     obligation : Obligations, by : Principals]

Stray == [kind |-> "stray"]
Torn == [kind |-> "torn"]
Glued == [kind |-> "glued"]
Line == EvidenceRecord \cup DischargeRecord \cup {Stray, Torn, Glued}

ASSUME EvidenceAssumption ==
    /\ VerdictIds \cap OtherIds = {}
    /\ NoEnvelope \notin Envelopes
    /\ Window \in Nat /\ Threshold \in Nat \ {0} /\ Grace \in Nat

-----------------------------------------------------------------------------
Malformed(line) == line.kind \in {"torn", "glued"}
Readable(s) == \A i \in DOMAIN s : ~Malformed(s[i])

Of(s, kind) == {i \in DOMAIN s : s[i].kind = kind}

\* Mutant: the last record of an id is kept.
VerdictLinesLast(s) ==
    {i \in Of(s, "evidence") :
       \A j \in Of(s, "evidence") : j > i => s[j].verdict_id # s[i].verdict_id}

\* The first record of an id is the verdict, any other is a fault.
VerdictLines(s) ==
    {i \in Of(s, "evidence") :
       \A j \in Of(s, "evidence") : j < i => s[j].verdict_id # s[i].verdict_id}

Owed(s, d) ==
    {i \in VerdictLines(s) :
       s[i].verdict_id = s[d].verdict_id /\ s[d].obligation \in s[i].obligations}

\* Mutant: nobody looks who discharged it.
PaysAnybody(s, d) == Owed(s, d) # {}

SelfDischarge(by, performer) ==
    AuditFold[by] # NoName /\ AuditFold[performer] # NoName /\ AuditFold[by] = AuditFold[performer]

\* Line d pays: it names a known verdict, an obligation that verdict carries,
\* and is not known to be of the performer.
Pays(s, d) == \E i \in Owed(s, d) : ~SelfDischarge(s[d].by, s[i].performer)

Paid(s) == {<<s[d].verdict_id, s[d].obligation>> : d \in {e \in Of(s, "discharge") : Pays(s, e)}}

\* Mutant: a discharge that does not pay is forgiven once another one does.
ObligationFaultsForgiving(s) ==
    Of(s, "stray") \cup (Of(s, "evidence") \ VerdictLines(s))
    \cup {d \in Of(s, "discharge") : <<s[d].verdict_id, s[d].obligation>> \notin Paid(s)}

\* The lines audit_obligations reports as faults.
ObligationFaults(s) ==
    Of(s, "stray") \cup (Of(s, "evidence") \ VerdictLines(s))
    \cup {d \in Of(s, "discharge") : ~Pays(s, d)}

Unpaid(s) ==
    {i \in VerdictLines(s) :
       /\ s[i].decision = "ALLOW"
       /\ \E o \in s[i].obligations : <<s[i].verdict_id, o>> \notin Paid(s)}

\* The obligations command; a line that does not parse ends it with an error.
ObligationsClean(s) == Readable(s) /\ ObligationFaults(s) = {} /\ Unpaid(s) = {}

ObligationsCleanWithGrace(s, at) ==
    /\ Readable(s)
    /\ ObligationFaults(s) = {}
    /\ \A i \in Unpaid(s) : at - s[i].at < Grace

-----------------------------------------------------------------------------
\* What _tolerant yields before the first line that does not parse.
Yielded(s) == {i \in DOMAIN s : \A j \in 1..i : ~Malformed(s[j])}

\* Mutant: the audit ends quietly where the sink does.
EnvelopeFaultsSwallowed(s) == {}

EnvelopeFaults(s) == {i \in DOMAIN s : Malformed(s[i]) /\ \A j \in 1..(i - 1) : ~Malformed(s[j])}

\* Every record counts, also a second one of an id.
OutsideDenials(s, e, at) ==
    {i \in Yielded(s) :
       /\ s[i].kind = "evidence"
       /\ s[i].decision # "ALLOW" /\ s[i].outside
       /\ s[i].envelope_ref = e
       /\ s[i].at >= at - Window}

Armed(s, at) == {e \in Envelopes : Cardinality(OutsideDenials(s, e, at)) >= Threshold}

EnvelopesClean(s, at) == Armed(s, at) = {} /\ EnvelopeFaults(s) = {}
=============================================================================
