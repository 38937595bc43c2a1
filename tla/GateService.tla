----------------------------- MODULE GateService -----------------------------
(***************************************************************************)
(* `neuraxis gate`: one process per request, reading files that other      *)
(* commands extend meanwhile.                                              *)
(*                                                                         *)
(* cmd_gate loads the attestations, then the waivers, then the envelopes,  *)
(* each file at a moment of its own; it evaluates the request at the time  *)
(* of day; record_decision appends the verdict to the evidence sink, and   *)
(* only what comes back from there is reported.  The append may fail with  *)
(* or without part of the line written, and the process may die anywhere.  *)
(*                                                                         *)
(* The files are represented by what loads from them; AttestationLog and   *)
(* WaiverFile model how they come to be.                                   *)
(***************************************************************************)
EXTENDS Guard, Sequences

CONSTANTS
    Processes,
    Asked,      \* bound: the requests the commands are run with
    Requests,   \* the requests whose answers the properties compare
    NoVerdict,
    Torn, Glued,        \* see AttestationLog
    WaiverPool, EnvelopePool,   \* bound: the records operators may issue
    MaxChanges,         \* bound: lines other commands append to the three files
    MaxVerdicts,        \* bound: evaluations
    MaxTime             \* bound: instants of the clock

ASSUME ServiceAssumption ==
    /\ Asked \subseteq Request /\ Requests \subseteq Request
    /\ WaiverPool \subseteq Waiver /\ EnvelopePool \subseteq Envelope
    /\ NoVerdict \notin Verdict
    /\ MaxChanges \in Nat /\ MaxVerdicts \in Nat /\ MaxTime \in Nat

VARIABLES
    now,
    atts, waivers, envelopes,   \* what a load of the three files gives now
    changes,    \* lines appended to them so far
    sink,       \* the lines of the evidence sink
    issued,     \* verdict ids drawn so far
    pc,         \* "idle", "atts", "waivers", "loaded", "recording", "reporting"
    view,       \* what the process has loaded
    verdict,    \* its verdict
    ticket,     \* the verdict id of its record, 0 when it has none
    sinking,    \* whether --evidence-sink was given
    told        \* history: what callers were told, with the id of its record

files == <<atts, waivers, envelopes, changes>>
vars == <<now, files, sink, issued, pc, view, verdict, ticket, sinking, told>>

EmptyView == [atts |-> EmptyStore, waivers |-> {}, envelopes |-> {}]

\* EvidenceRecord.build: the waivers of the verdict are not among its fields.
RecordOf(v, n) ==
    [verdict_id |-> n, decision |-> v.decision, obligations |-> v.obligations,
     says_conditional |-> v.says_conditional]
EvidenceRecord ==
    [verdict_id : Nat, decision : Decisions, obligations : SUBSET Obligations,
     says_conditional : BOOLEAN]

ASSUME LineAssumption == Torn \notin EvidenceRecord /\ Glued \notin EvidenceRecord

TypeOK ==
    /\ now \in Nat
    /\ atts \in Store /\ waivers \in SUBSET Waiver /\ envelopes \in SUBSET Envelope
    /\ changes \in Nat
    /\ sink \in Seq(EvidenceRecord \cup {Torn, Glued})
    /\ issued \in Nat
    /\ pc \in [Processes -> {"idle", "atts", "waivers", "loaded", "recording", "reporting"}]
    /\ view \in [Processes -> View]
    /\ verdict \in [Processes -> Verdict \cup {NoVerdict}]
    /\ \A p \in Processes : pc[p] \in {"recording", "reporting"} => verdict[p] # NoVerdict
    /\ ticket \in [Processes -> Nat]
    /\ sinking \in [Processes -> BOOLEAN]
    /\ told \in SUBSET [verdict : Verdict, verdict_id : Nat, sinking : BOOLEAN]

Init ==
    /\ now = 0
    /\ atts = EmptyStore /\ waivers = {} /\ envelopes = {}
    /\ changes = 0
    /\ sink \in {<<>>, <<Torn>>}    \* a command before may have died in its line
    /\ issued = 0
    /\ pc = [p \in Processes |-> "idle"]
    /\ view = [p \in Processes |-> EmptyView]
    /\ verdict = [p \in Processes |-> NoVerdict]
    /\ ticket = [p \in Processes |-> 0]
    /\ sinking = [p \in Processes |-> FALSE]
    /\ told = {}

-----------------------------------------------------------------------------
\* The other commands.
Tick ==
    /\ now < MaxTime
    /\ now' = now + 1
    /\ UNCHANGED <<files, sink, issued, pc, view, verdict, ticket, sinking, told>>

Change ==
    /\ changes < MaxChanges
    /\ changes' = changes + 1

Attest ==
    /\ Change
    /\ \E c \in Controls, r \in BOOLEAN :
         atts' = Recorded(atts, [control |-> c, result |-> r, issued_at |-> now])
    /\ UNCHANGED <<now, waivers, envelopes, sink, issued, pc, view, verdict, ticket, sinking, told>>

Waive ==
    /\ Change
    /\ \E w \in WaiverPool :
         /\ \A v \in waivers : v.id # w.id
         /\ w.issued_at = now
         /\ ValidRegister(waivers \cup {w})
         /\ waivers' = waivers \cup {w}
    /\ UNCHANGED <<now, atts, envelopes, sink, issued, pc, view, verdict, ticket, sinking, told>>

Declare ==
    /\ Change
    /\ \E e \in EnvelopePool :
         /\ \A f \in envelopes : f.id # e.id
         /\ e.issued_at = now
         /\ e.capability \in EnvelopeBounded
         /\ ValidEnvelopes(envelopes \cup {e}, RegisterPolicy)
         /\ envelopes' = envelopes \cup {e}
    /\ UNCHANGED <<now, atts, waivers, sink, issued, pc, view, verdict, ticket, sinking, told>>

-----------------------------------------------------------------------------
Forget(p) ==
    /\ pc' = [pc EXCEPT ![p] = "idle"]
    /\ view' = [view EXCEPT ![p] = EmptyView]
    /\ verdict' = [verdict EXCEPT ![p] = NoVerdict]
    /\ ticket' = [ticket EXCEPT ![p] = 0]
    /\ sinking' = [sinking EXCEPT ![p] = FALSE]

LoadAttestations(p) ==
    /\ pc[p] = "idle"
    /\ issued < MaxVerdicts
    /\ pc' = [pc EXCEPT ![p] = "atts"]
    /\ view' = [view EXCEPT ![p].atts = atts]
    /\ UNCHANGED <<now, files, sink, issued, verdict, ticket, sinking, told>>

LoadWaivers(p) ==
    /\ pc[p] = "atts"
    /\ pc' = [pc EXCEPT ![p] = "waivers"]
    /\ view' = [view EXCEPT ![p].waivers = waivers]
    /\ UNCHANGED <<now, files, sink, issued, verdict, ticket, sinking, told>>

LoadEnvelopes(p) ==
    /\ pc[p] = "waivers"
    /\ pc' = [pc EXCEPT ![p] = "loaded"]
    /\ view' = [view EXCEPT ![p].envelopes = envelopes]
    /\ UNCHANGED <<now, files, sink, issued, verdict, ticket, sinking, told>>

\* The request is read after the files; nothing loaded is looked at again.
EvaluateRequest(p) ==
    /\ pc[p] = "loaded"
    /\ issued < MaxVerdicts
    /\ issued' = issued + 1
    /\ pc' = [pc EXCEPT ![p] = "recording"]
    /\ \E r \in Asked : verdict' = [verdict EXCEPT ![p] = Evaluate(view[p], r, now)]
    /\ \E s \in BOOLEAN : sinking' = [sinking EXCEPT ![p] = s]
    /\ view' = [view EXCEPT ![p] = EmptyView]
    /\ ticket' = [ticket EXCEPT ![p] = issued']
    /\ UNCHANGED <<now, files, sink, told>>

TornEnd == sink # <<>> /\ sink[Len(sink)] = Torn

Written(p) ==
    IF TornEnd THEN [sink EXCEPT ![Len(sink)] = Glued]
    ELSE Append(sink, RecordOf(verdict[p], ticket[p]))

RecordDecision(p) ==
    /\ pc[p] = "recording"
    /\ sinking[p]
    /\ sink' = Written(p)
    /\ pc' = [pc EXCEPT ![p] = "reporting"]
    /\ UNCHANGED <<now, files, issued, view, verdict, ticket, sinking, told>>

NoSink(p) ==
    /\ pc[p] = "recording"
    /\ ~sinking[p]
    /\ pc' = [pc EXCEPT ![p] = "reporting"]
    /\ ticket' = [ticket EXCEPT ![p] = 0]
    /\ UNCHANGED <<now, files, sink, issued, view, verdict, sinking, told>>

\* What a write that did not end well may leave: nothing, part of the line, or
\* the whole line when only the closing of the file failed.
Unwritten(p) ==
    sink' \in {sink, IF TornEnd THEN sink ELSE Append(sink, Torn), Written(p)}

\* Mutant: the failure is logged and the verdict stands.
RecordFailsSilently(p) ==
    /\ pc[p] = "recording"
    /\ sinking[p]
    /\ Unwritten(p)
    /\ pc' = [pc EXCEPT ![p] = "reporting"]
    /\ UNCHANGED <<now, files, issued, view, verdict, ticket, sinking, told>>

\* Mutant: the failure leaves no verdict at all.
RecordFailsBlankly(p) ==
    /\ pc[p] = "recording"
    /\ sinking[p]
    /\ Unwritten(p)
    /\ pc' = [pc EXCEPT ![p] = "reporting"]
    /\ ticket' = [ticket EXCEPT ![p] = 0]
    /\ verdict' = [verdict EXCEPT ![p] = NoVerdict]
    /\ UNCHANGED <<now, files, issued, view, sinking, told>>

\* EvidenceError: an ALLOW that owes a trace becomes a denial, and no verdict id
\* is reported.
RecordFails(p) ==
    /\ pc[p] = "recording"
    /\ sinking[p]
    /\ Unwritten(p)
    /\ pc' = [pc EXCEPT ![p] = "reporting"]
    /\ ticket' = [ticket EXCEPT ![p] = 0]
    /\ verdict' = IF verdict[p].decision = "ALLOW" /\ "emit_evidence" \in verdict[p].obligations
                  THEN [verdict EXCEPT ![p] = Plain("DENY")]
                  ELSE verdict
    /\ UNCHANGED <<now, files, issued, view, sinking, told>>

Report(p) ==
    /\ pc[p] = "reporting"
    /\ told' = told \cup {[verdict |-> verdict[p], verdict_id |-> ticket[p], sinking |-> sinking[p]]}
    /\ Forget(p)
    /\ UNCHANGED <<now, files, sink, issued>>

\* Killed, also inside the write; or one of the files did not load.
Exit(p) ==
    /\ pc[p] # "idle"
    /\ IF pc[p] = "recording" /\ sinking[p] THEN Unwritten(p) ELSE sink' = sink
    /\ Forget(p)
    /\ UNCHANGED <<now, files, issued, told>>

Next ==
    \/ Tick \/ Attest \/ Waive \/ Declare
    \/ \E p \in Processes :
         \/ LoadAttestations(p) \/ LoadWaivers(p) \/ LoadEnvelopes(p) \/ EvaluateRequest(p)
         \/ RecordDecision(p) \/ NoSink(p) \/ RecordFails(p) \/ Report(p) \/ Exit(p)

Spec == Init /\ [][Next]_vars

-----------------------------------------------------------------------------
Readable == ~ \E i \in DOMAIN sink : sink[i] \in {Torn, Glued}
Records == {sink[i] : i \in {j \in DOMAIN sink : sink[j] \notin {Torn, Glued}}}

\* Nobody is told ALLOW, where a trace is owed and a sink was given, without a
\* record of that ALLOW in the sink; at worst the record is glued to a torn line,
\* and then the sink does not read at all.  Nor does a record ever contradict
\* what was told under its id (record_decision).
ToldIsTraced ==
    \A t \in told :
      /\ t.sinking /\ t.verdict.decision = "ALLOW" /\ "emit_evidence" \in t.verdict.obligations
           => (\E e \in Records : e.verdict_id = t.verdict_id) \/ ~Readable
      /\ \A e \in Records : e.verdict_id = t.verdict_id =>
           e.decision = t.verdict.decision /\ e.obligations = t.verdict.obligations

Answer(p, r) == Evaluate(view[p], r, now)
Ready == {p \in Processes : pc[p] = "loaded"}

\* Naming a performer never gets a request through that would not get through
\* without one: every identity claimed is one more that waivers exclude, that
\* the verifier must differ from and that the envelope must bound.
PerformerNeverHelps ==
    \A p \in Ready, r \in Requests :
      Answer(p, r).decision = "ALLOW" =>
        Answer(p, [r EXCEPT !.performer = Nobody]).decision = "ALLOW"

\* Spelling a name differently never helps: to the checks where a match denies,
\* names with one aggressive fold are one principal; to the one where a match
\* authorises, an envelope, another spelling is another principal.
RespellingNeverHelps ==
    \A p \in Ready, r \in Requests, q \in Principals :
      /\ r.verifier # Nobody /\ Fold[q] = Fold[r.verifier]
           => Answer(p, [r EXCEPT !.verifier = q]) = Answer(p, r)
      /\ Fold[q] = Fold[r.identity] /\ Strict[q] # Strict[r.identity]
           => IF r.capability \in EnvelopeBounded
              THEN ~(/\ Answer(p, r).decision = "ALLOW"
                     /\ Answer(p, [r EXCEPT !.identity = q]).decision = "ALLOW")
              ELSE Answer(p, [r EXCEPT !.identity = q]) = Answer(p, r)

\* Attesting controls never turns an answer into a denial, and a waiver stands
\* for the attestation only: once the waived controls are proven, the request
\* owes exactly what it owed under the waiver.
EvidenceNeverHurts ==
    \A p \in Ready, r \in Requests, c \in Controls :
      LET pass == [control |-> c, result |-> TRUE, issued_at |-> now]
          after == Evaluate([view[p] EXCEPT !.atts = Recorded(@, pass)], r, now)
      IN  Answer(p, r).decision # "DENY" =>
            /\ after.decision = Answer(p, r).decision
            /\ after.obligations = Answer(p, r).obligations

\* A verdict names waivers exactly when a control somewhere in the closure of
\* the band is unproven at the instant of the evaluation.
UnconditionalMeansProven ==
    \A p \in Ready, r \in Requests :
      Answer(p, r).decision \in {"ALLOW", "ESCALATE", "WAIT_FOR_AUTHORITY"} =>
        (Answer(p, r).waivers = {} <=>
           \A b \in Closure(BandOf[r.capability]), c \in Controls :
             c \in Requires[b] => Holds(view[p].atts, c, now))

\* A guard and the gate differ where envelopes matter and nowhere else: the guard
\* permits what the gate does not only if the verifier holds a stake in what it
\* verifies, and refuses what the gate permits only if an envelope bounds it
\* (guard.py, CapabilityGuard).
GuardDiffersByEnvelopes ==
    \A p \in Ready, r \in Requests :
      LET gate == Answer(p, r).decision = "ALLOW"
          guard == Permits(view[p], r, now)
      IN  /\ guard /\ ~gate => AuthorityOver(view[p].envelopes, r.verifier, r.scope, now) # {}
          /\ gate /\ ~guard => r.capability \in EnvelopeBounded
-----------------------------------------------------------------------------
\* The claim of gate.py: waivers are carried on every non-DENY verdict so that a
\* conditional authority is recorded as conditional wherever the verdict lands,
\* including in the evidence sink.
ConditionalIsRecorded ==
    \A t \in told, e \in Records :
      e.verdict_id = t.verdict_id /\ t.verdict.waivers # {} => e.says_conditional

\* The claim of gate.py: the envelope policy is re-checked at use, so that a
\* register built with the default policy and handed to a gate whose registry
\* tightened the ceiling carries no envelope that registry would have refused.
PolicyRecheckedAtUse ==
    \A p \in Ready, r \in Requests :
      Answer(p, r).decision = "ALLOW" /\ r.capability \in EnvelopeBounded =>
        \E e \in view[p].envelopes :
          e.id = r.envelope_ref /\ WithinEnvelopePolicy(RegistryPolicy, e)
=============================================================================
