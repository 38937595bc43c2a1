----------------------------- MODULE CallerSuite -----------------------------
(***************************************************************************)
(* neuraxis caller-conform: a caller of the gate is driven through         *)
(* scripted scenarios, and certified when it issued in exactly the one     *)
(* that allowed, asked in each that offered a gate, and forwarded its      *)
(* request faithfully every time.                                          *)
(*                                                                         *)
(* A caller is a program: a function of how the gate is configured and of  *)
(* the outcomes it has had so far, to a further call of the gate or to an  *)
(* exit code.  Every scenario hands over a request of its own, so what a   *)
(* caller puts to the gate is described by how it differs from that.       *)
(***************************************************************************)
EXTENDS GateContract

\* REFERENCE_REQUEST.  `added` stands for any key beyond these but the stamp.
Fields ==
    {"intent", "identity", "role", "capability", "scope", "risk", "verifier", "rollback_tested"}

ExpectedArgv == {"--json", "gate", "-"}

\* Other words on the command line are a further flag or a word without a dash.
Call ==
    [argv : SUBSET (ExpectedArgv \cup {"flag", "word"}),
     sent : {"nothing", "garbled", "value", "object"},
     dropped : SUBSET Fields, altered : SUBSET Fields, added : BOOLEAN,
     requested_at : {"absent", "near", "far"}]

\* _compare_argv and _compare.  A body without these faults parses as a request.
Faithful(c) ==
    /\ ExpectedArgv \subseteq c.argv /\ "flag" \notin c.argv
    /\ c.sent = "object"
    /\ c.dropped = {} /\ c.altered = {} /\ ~c.added
    /\ c.requested_at # "far"

Forwarded ==
    [argv |-> ExpectedArgv, sent |-> "object", dropped |-> {}, altered |-> {}, added |-> FALSE,
     requested_at |-> "absent"]

-----------------------------------------------------------------------------
\* The answers that a scripted gate gives to every call alike.
Scripted ==
    [allow |-> Answer("ALLOW"), deny |-> Answer("DENY"), escalate |-> Answer("ESCALATE"),
     wait_for_authority |-> Answer("WAIT_FOR_AUTHORITY"), delegate |-> Answer("DELEGATE"),
     fault |-> Fault, unknown_exit |-> Exited(47, "silent"), contradiction |-> Exited(0, "DENY"),
     silent |-> Exited(0, "silent"), allow_verdict_nonzero_exit |-> Exited(11, "ALLOW")]

Scenarios == DOMAIN Scripted \cup {"fidelity_trap", "missing", "unconfigured"}

Gates == {"served", "missing", "unset"}
GateOf(s) ==
    IF s = "missing" THEN "missing" ELSE IF s = "unconfigured" THEN "unset" ELSE "served"
OffersAGate == {s \in Scenarios : GateOf(s) = "served"}

Expect(s) == IF s = "allow" THEN "issued" ELSE "refused"

\* What the trap takes for a request without its verifier: an empty or garbled
\* body, and an object that lacks the key.
Doctored(c) == c.sent \in {"nothing", "garbled"} \/ (c.sent = "object" /\ "verifier" \in c.dropped)

\* The outcomes a caller can have of one call.  Where nothing is configured it may
\* fall back on a gate of its own.
Responses(s, c) ==
    CASE s \in DOMAIN Scripted -> {Scripted[s]}
      [] s = "fidelity_trap" -> {Answer(IF Doctored(c) THEN "ALLOW" ELSE "DENY")}
      [] s = "missing" -> {Unreachable}
      [] s = "unconfigured" -> Outcome

-----------------------------------------------------------------------------
Calls(c) == [does |-> "call", call |-> c, code |-> 0]
Exits(n) == [does |-> "exit", call |-> Forwarded, code |-> n]
Steps == {Calls(c) : c \in Call} \cup {Exits(n) : n \in Nat}

Program == [Gates -> [Seq(Outcome) -> Steps]]

\* One drive of a caller: its calls, what came back, and its exit code unless it
\* gave no answer in time.
Run == [calls : Seq(Call), heard : Seq(Outcome), ended : BOOLEAN, code : Nat]

Before(h, i) == [j \in 1..(i - 1) |-> h[j]]

IsRun(P, s, r) ==
    /\ r \in Run
    /\ Len(r.heard) = Len(r.calls)
    /\ \A i \in 1..Len(r.calls) :
         /\ P[GateOf(s)][Before(r.heard, i)] = Calls(r.calls[i])
         /\ r.heard[i] \in Responses(s, r.calls[i])
    /\ r.ended => P[GateOf(s)][r.heard] = Exits(r.code)

Observed(r) == IF ~r.ended THEN "no answer" ELSE IF r.code = 0 THEN "issued" ELSE "refused"

\* The calls that reach the server of the suite.
Seen(s, r) == IF GateOf(s) = "served" THEN r.calls ELSE <<>>

\* CallerReport.conforms for one run of each scenario.
AsExpected(runs) == \A s \in Scenarios : Observed(runs[s]) = Expect(s)
Called(runs) == \A s \in OffersAGate : Len(Seen(s, runs[s])) > 0
Fidelity(runs) ==
    /\ \E s \in Scenarios : Len(Seen(s, runs[s])) > 0
    /\ \A s \in Scenarios : \A i \in 1..Len(Seen(s, runs[s])) : Faithful(Seen(s, runs[s])[i])
Conforms(runs) == AsExpected(runs) /\ Called(runs) /\ Fidelity(runs)

\* The report's warning: a caller that asked more than once somewhere.
Warned(runs) == \E s \in OffersAGate : Len(Seen(s, runs[s])) > 1

Certified(P, runs) == (\A s \in Scenarios : IsRun(P, s, runs[s])) /\ Conforms(runs)

-----------------------------------------------------------------------------
\* The caller of clients/js/examples: one call, and a lease when nothing threw.
IssueLease ==
    [g \in Gates |-> [h \in Seq(Outcome) |->
       IF h = <<>> THEN Calls(Forwarded)
       ELSE Exits(IF Licensed(h[Len(h)]) THEN 0 ELSE 1)]]
=============================================================================
