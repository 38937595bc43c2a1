---------------------------- MODULE GateContract ----------------------------
(***************************************************************************)
(* What `neuraxis gate` says to another process, an exit code and a        *)
(* verdict on stdout, and what the JavaScript client makes of it: an ALLOW *)
(* counts when both halves are known and agree, and everything else is a   *)
(* block or an error that is never a verdict.                              *)
(***************************************************************************)
EXTENDS Guard, Integers, Sequences

ExitOf == [ALLOW |-> 0, DENY |-> 10, ESCALATE |-> 11, WAIT_FOR_AUTHORITY |-> 12, DELEGATE |-> 13]
ExitError == 2

\* How one invocation ended: whether it ran, was cut off by the time limit, or was
\* never started; its exit code; and the decision its stdout carries.
Outcome ==
    [end : {"exited", "killed", "unspawned"}, exit : Nat,
     verdict : Decisions \cup {"foreign", "silent"}]

Exited(code, said) == [end |-> "exited", exit |-> code, verdict |-> said]
Unreachable == [end |-> "unspawned", exit |-> 0, verdict |-> "silent"]

\* cmd_gate with --json, and an error that main turns into a message.
Answer(d) == Exited(ExitOf[d], d)
Fault == Exited(ExitError, "silent")

\* An exception that main does not catch, as when the file is there and may not be
\* read.
Crash == Exited(1, "silent")

\* One run of the command: the view that its files make, the time of day, and what
\* became of it.  "unrecorded" is an answer whose evidence could not be written.
Answering == {"answers", "unrecorded"}
Fates == Answering \cup {"errors", "crashes", "dies", "unspawned"}
Moment == [view : View, at : Nat, fate : Fates]

\* The decision it comes to report (record_decision).
Said(m, r) ==
    LET v == Evaluate(m.view, r, m.at) IN
    IF m.fate = "unrecorded" /\ v.decision = "ALLOW" /\ "emit_evidence" \in v.obligations
    THEN "DENY" ELSE v.decision

\* The ways it may end for the process that started it.  A stdout that cannot be
\* written ends it like an exception, or with 120; it may be killed or cut off with
\* the verdict already out.
Replies(m, r) ==
    {o \in Outcome :
        \/ m.fate \in Answering /\ o = Answer(Said(m, r))
        \/ m.fate = "errors" /\ o = Fault
        \/ m.fate = "crashes" /\ o.end = "exited" /\ o.exit \in {1, 120}
             /\ o.verdict \in {"silent", "foreign"}
        \/ m.fate = "dies" /\ o.end = "killed" /\ o.verdict \in {Said(m, r), "silent", "foreign"}
        \/ m.fate = "unspawned" /\ o = Unreachable}

\* The run answers with an ALLOW.
Allows(m, r) == m.fate \in Answering /\ Said(m, r) = "ALLOW"

-----------------------------------------------------------------------------
\* createClient().check: the exit code is one of the contract's, and the verdict
\* says what the code means.
Agrees(o) ==
    /\ o.end = "exited"
    /\ o.exit # ExitError
    /\ \E d \in Decisions : o.exit = ExitOf[d] /\ o.verdict = d
Checked(o) == IF Agrees(o) THEN o.verdict ELSE "throws"

\* withCapability runs its function, and the lease issuer of the examples issues.
Licensed(o) == Checked(o) = "ALLOW"
=============================================================================
