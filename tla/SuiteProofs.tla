----------------------------- MODULE SuiteProofs -----------------------------
(***************************************************************************)
(* Theorems about the two black-box suites: about the callers of the gate, *)
(* for any registry, any state of the files and any program, and about the *)
(* sources of attestations, for any answers of the source.                 *)
(***************************************************************************)
EXTENDS DeployedCaller, SourceSuite, TLAPS

\* Evaluate reaches one of the five decisions, whatever it is given.
LEMMA Decided == \A v, r, at : Evaluate(v, r, at).decision \in Decisions
BY DEF Evaluate, Plain, Resting, Decisions

LEMMA Codes ==
    /\ ExitError \notin {ExitOf[d] : d \in Decisions}
    /\ \A d, e \in Decisions : ExitOf[d] = ExitOf[e] => d = e
    /\ \A d \in Decisions : ExitOf[d] \in Nat
BY SMT DEF ExitOf, ExitError, Decisions

LEMMA SaidIsADecision == \A m, r : Said(m, r) \in Decisions
BY Decided DEF Said, Decisions

\* A run that answers, or that says why not, ends in one way.
LEMMA Replied ==
    \A m, r :
      /\ m.fate \in Answering => Replies(m, r) = {Answer(Said(m, r))}
      /\ m.fate = "errors" => Replies(m, r) = {Fault}
<1>1. \A d \in Decisions : Answer(d) \in Outcome
    BY Codes, SMT DEF Answer, Exited, Outcome
<1>2. Fault \in Outcome
    BY SMT DEF Fault, Exited, Outcome, ExitError
<1>3. QED
    BY <1>1, <1>2, SaidIsADecision DEF Replies, Answering

-----------------------------------------------------------------------------
\* Of everything that a gate, a broken gate or something else in its place can
\* answer, the client acts on one outcome: exit 0 and a verdict that says ALLOW.
THEOREM ClientActsOnOneOutcome ==
    \A o \in Outcome : Licensed(o) <=> o = Answer("ALLOW")
<1> SUFFICES ASSUME NEW o \in Outcome
             PROVE Licensed(o) <=> o = Answer("ALLOW")
    OBVIOUS
<1>1. Answer("ALLOW") = [end |-> "exited", exit |-> 0, verdict |-> "ALLOW"]
    BY DEF Answer, Exited, ExitOf
<1>2. "ALLOW" \in Decisions /\ "throws" # "ALLOW" /\ ExitOf["ALLOW"] = 0 /\ ExitError = 2
    BY DEF Decisions, ExitOf, ExitError
<1>3. ASSUME Licensed(o) PROVE o = Answer("ALLOW")
    <2>1. Agrees(o) /\ o.verdict = "ALLOW"
        BY <1>2, <1>3 DEF Licensed, Checked
    <2>2. o.end = "exited" /\ o.exit = 0
        BY <1>2, <2>1 DEF Agrees
    <2>3. QED
        BY <1>1, <2>1, <2>2, SMT DEF Outcome
<1>4. ASSUME o = Answer("ALLOW") PROVE Licensed(o)
    <2>1. o.end = "exited" /\ o.exit = 0 /\ o.verdict = "ALLOW"
        BY <1>1, <1>4
    <2>2. QED
        BY <1>2, <2>1, SMT DEF Licensed, Checked, Agrees
<1>5. QED
    BY <1>3, <1>4

\* However a run of the gate ends, with an answer, an error, an exception, by being
\* killed with an ALLOW already printed, or before it starts, the client licenses
\* exactly when the gate answered with an ALLOW.
THEOREM ClientFollowsTheGate ==
    \A m, r : \A o \in Replies(m, r) : Licensed(o) <=> Allows(m, r)
<1> SUFFICES ASSUME NEW m, NEW r, NEW o \in Replies(m, r)
             PROVE Licensed(o) <=> Allows(m, r)
    OBVIOUS
<1>1. Licensed(o) <=> o = Answer("ALLOW")
    BY ClientActsOnOneOutcome DEF Replies
<1>2. /\ Answer("ALLOW").end = "exited" /\ Answer("ALLOW").exit = 0
      /\ \A d : Answer(d) = Answer("ALLOW") <=> d = "ALLOW"
    BY DEF Answer, Exited, ExitOf
<1>3. Fault.exit = 2 /\ Unreachable.end = "unspawned"
    BY DEF Fault, Unreachable, Exited, ExitError
<1>4. CASE m.fate \in Answering
    <2>1. o = Answer(Said(m, r))
        BY <1>4, Replied
    <2>2. QED
        BY <1>1, <1>2, <1>4, <2>1 DEF Allows
<1>5. CASE m.fate \notin Answering
    <2>1. o # Answer("ALLOW")
        BY <1>2, <1>3, <1>5 DEF Replies
    <2>2. QED
        BY <1>1, <1>5, <2>1 DEF Allows
<1>6. QED
    BY <1>4, <1>5

-----------------------------------------------------------------------------
\* The scenarios whose gate gives every call one answer.
LEMMA ScriptedNames ==
    DOMAIN Scripted =
        {"allow", "deny", "escalate", "wait_for_authority", "delegate", "fault", "unknown_exit",
         "contradiction", "silent", "allow_verdict_nonzero_exit"}
BY DEF Scripted

LEMMA ScriptedServed ==
    \A s \in DOMAIN Scripted : GateOf(s) = "served" /\ \A c : Responses(s, c) = {Scripted[s]}
<1> SUFFICES ASSUME NEW s \in DOMAIN Scripted
             PROVE GateOf(s) = "served" /\ \A c : Responses(s, c) = {Scripted[s]}
    OBVIOUS
<1>1. s \notin {"fidelity_trap", "missing", "unconfigured"}
    BY ScriptedNames
<1>2. GateOf(s) = "served"
    BY <1>1 DEF GateOf
<1>3. ASSUME NEW c PROVE Responses(s, c) = {Scripted[s]}
    <2> DEFINE Trap == {Answer(IF Doctored(c) THEN "ALLOW" ELSE "DENY")}
    <2> HIDE DEF Trap
    <2>1. Responses(s, c) =
            CASE s \in DOMAIN Scripted -> {Scripted[s]}
              [] s = "fidelity_trap" -> Trap
              [] s = "missing" -> {Unreachable}
              [] s = "unconfigured" -> Outcome
        BY DEF Responses, Trap
    <2>2. QED
        BY <1>1, <2>1
<1>4. QED
    BY <1>2, <1>3

\* Whatever the gate answers, or complains of, is what some scenario's gate says,
\* and that scenario expects a lease only when it is an ALLOW.
LEMMA EveryAnswerIsScripted ==
    \A m, r : m.fate \in Answering \cup {"errors"} =>
      \E s \in DOMAIN Scripted :
        /\ Replies(m, r) = {Scripted[s]}
        /\ Expect(s) = "issued" => Allows(m, r)
<1> SUFFICES ASSUME NEW m, NEW r, m.fate \in Answering \cup {"errors"}
             PROVE \E s \in DOMAIN Scripted :
                     /\ Replies(m, r) = {Scripted[s]}
                     /\ Expect(s) = "issued" => Allows(m, r)
    OBVIOUS
<1> DEFINE d == Said(m, r)
<1>1. d \in {"ALLOW", "DENY", "ESCALATE", "WAIT_FOR_AUTHORITY", "DELEGATE"}
    BY SaidIsADecision DEF Decisions
<1>2. /\ Scripted["allow"] = Answer("ALLOW") /\ Scripted["deny"] = Answer("DENY")
      /\ Scripted["escalate"] = Answer("ESCALATE")
      /\ Scripted["wait_for_authority"] = Answer("WAIT_FOR_AUTHORITY")
      /\ Scripted["delegate"] = Answer("DELEGATE") /\ Scripted["fault"] = Fault
    BY DEF Scripted
<1>3. CASE m.fate = "errors"
    <2>1. Replies(m, r) = {Scripted["fault"]}
        BY <1>2, <1>3, Replied
    <2>2. QED
        BY <2>1, ScriptedNames DEF Expect
<1>4. CASE m.fate \in Answering
    <2>1. Replies(m, r) = {Answer(d)}
        BY <1>4, Replied
    <2>2. Allows(m, r) <=> d = "ALLOW"
        BY <1>4 DEF Allows
    <2> HIDE DEF d
    <2>3. QED
        BY ScriptedNames, <1>1, <1>2, <2>1, <2>2 DEF Expect
<1>5. QED
    BY <1>3, <1>4

\* The gate of a steady, rehearsed deployment answers as the gate of one scenario.
LEMMA SteadyIsScripted ==
    ASSUME Steady, Rehearsed
    PROVE \E s \in DOMAIN Scripted :
            /\ \A m \in Moments : Replies(m, Asks) = {Scripted[s]}
            /\ Expect(s) = "issued" => \E m \in Moments : Allows(m, Asks)
<1>1. CASE Moments = {}
    <2>1. "deny" \in DOMAIN Scripted /\ Expect("deny") # "issued"
        BY DEF Scripted, Expect
    <2>2. QED
        BY <1>1, <2>1
<1>2. CASE Moments # {}
    <2>1. PICK m \in Moments : TRUE
        BY <1>2
    <2>2. PICK s \in DOMAIN Scripted :
            /\ Replies(m, Asks) = {Scripted[s]}
            /\ Expect(s) = "issued" => Allows(m, Asks)
        BY EveryAnswerIsScripted DEF Rehearsed
    <2>3. QED
        BY <2>1, <2>2 DEF Steady
<1>3. QED
    BY <1>1, <1>2

\* The deployed caller retraces its run of the scenario s.
Retraces(s, r) ==
    /\ heard \in Seq(Outcome)
    /\ Len(heard) <= Len(r.calls)
    /\ \A i \in 1..Len(heard) : heard[i] = Scripted[s]
    /\ outcome # "asking" => outcome = Expect(s)

\* What is heard is what the run had heard before its next call, and is all of it
\* when there is none.
LEMMA Retraced ==
    ASSUME NEW s \in DOMAIN Scripted, NEW r, IsRun(Caller, s, r), Retraces(s, r)
    PROVE /\ GateOf(s) = "served"
          /\ Len(heard) < Len(r.calls) => Now = Calls(r.calls[Len(heard) + 1])
          /\ Len(heard) = Len(r.calls) /\ r.ended => Now = Exits(r.code)
<1>1. GateOf(s) = "served"
    BY ScriptedServed
<1>2. /\ r.calls \in Seq(Call) /\ r.heard \in Seq(Outcome) /\ Len(r.heard) = Len(r.calls)
      /\ \A i \in 1..Len(r.calls) : r.heard[i] = Scripted[s]
    <2>1. \A c : Responses(s, c) = {Scripted[s]}
        BY ScriptedServed
    <2>2. QED
        BY <2>1 DEF IsRun, Run
<1>3. heard \in Seq(Outcome) /\ Len(heard) <= Len(r.calls)
      /\ \A i \in 1..Len(heard) : heard[i] = Scripted[s]
    BY DEF Retraces
<1>4. ASSUME Len(heard) < Len(r.calls)
      PROVE Now = Calls(r.calls[Len(heard) + 1])
    <2> DEFINE k == Len(heard) + 1
    <2>1. k \in 1..Len(r.calls) /\ k - 1 = Len(heard)
        BY <1>2, <1>3, <1>4
    <2>2. \A j \in 1..Len(heard) : r.heard[j] = heard[j]
        BY <1>2, <1>3, <1>4
    <2>3. heard = [j \in 1..Len(heard) |-> heard[j]]
        BY <1>3
    <2>4. Before(r.heard, k) = heard
        BY <2>1, <2>2, <2>3 DEF Before
    <2>5. Caller["served"][Before(r.heard, k)] = Calls(r.calls[k])
        BY <1>1, <2>1 DEF IsRun
    <2>6. QED
        BY <2>4, <2>5 DEF Now
<1>5. ASSUME Len(heard) = Len(r.calls), r.ended
      PROVE Now = Exits(r.code)
    <2>1. heard = r.heard
        <3> DEFINE h == r.heard
        <3>1. h \in Seq(Outcome) /\ Len(h) = Len(heard)
            BY <1>2, <1>5
        <3>2. \A j \in 1..Len(heard) : h[j] = heard[j]
            BY <1>2, <1>3, <1>5
        <3> HIDE DEF h
        <3>3. heard = h
            BY <1>3, <3>1, <3>2
        <3>4. QED
            BY <3>3 DEF h
    <2>2. QED
        BY <1>1, <1>5, <2>1 DEF IsRun, Now
<1>6. QED
    BY <1>1, <1>4, <1>5

\* A caller that the suite certified, put to work before a gate whose answer holds
\* still while it asks, issues a lease only on an ALLOW, however often it asks and
\* whatever it does in between, as long as the gate ends every call in a way that the
\* suite plays.  It then answers as the gate of some scenario, and the caller repeats
\* the run that the suite has watched.
THEOREM CertifiedCallerFollowsTheGate ==
    ASSUME NEW runs, Certified(Caller, runs), Steady, Rehearsed
    PROVE Spec => []IssuedOnAllow
<1>1. PICK s \in DOMAIN Scripted :
        /\ \A m \in Moments : Replies(m, Asks) = {Scripted[s]}
        /\ Expect(s) = "issued" => \E m \in Moments : Allows(m, Asks)
    BY SteadyIsScripted
<1> DEFINE r == runs[s]
<1>2. s \in Scenarios /\ GateOf(s) = "served"
    BY ScriptedServed DEF Scenarios
<1>3. IsRun(Caller, s, r) /\ r.calls \in Seq(Call)
    BY <1>2 DEF Certified, IsRun, Run
<1>4. r.ended /\ Expect(s) = IF r.code = 0 THEN "issued" ELSE "refused"
    BY <1>2 DEF Certified, Conforms, AsExpected, Observed, Expect
<1>5. \A i \in 1..Len(r.calls) : Faithful(r.calls[i])
    BY <1>2 DEF Certified, Conforms, Fidelity, Seen
<1> HIDE DEF r
<1>6. Init => Retraces(s, r)
    BY <1>3 DEF Init, Retraces
<1>7. Retraces(s, r) /\ [Next]_vars => Retraces(s, r)'
    <2> SUFFICES ASSUME Retraces(s, r), [Next]_vars
                 PROVE Retraces(s, r)'
        OBVIOUS
    <2>1. /\ Len(heard) < Len(r.calls) => Now = Calls(r.calls[Len(heard) + 1])
          /\ Len(heard) = Len(r.calls) => Now = Exits(r.code)
        BY <1>3, <1>4, Retraced
    <2>2. heard \in Seq(Outcome) /\ Len(heard) \in Nat /\ Len(r.calls) \in Nat
          /\ Len(heard) <= Len(r.calls) /\ \A i \in 1..Len(heard) : heard[i] = Scripted[s]
        BY <1>3 DEF Retraces
    <2>3. CASE Ask
        <3>1. Len(heard) < Len(r.calls)
            BY <2>1, <2>2, <2>3 DEF Ask, Exits
        <3>2. Now.call = r.calls[Len(heard) + 1] /\ Faithful(Now.call)
            BY <1>5, <2>1, <2>2, <3>1 DEF Calls
        <3>3. PICK o \in Outcome : o = Scripted[s] /\ heard' = Append(heard, o)
            BY <1>1, <2>3, <3>2 DEF Ask
        <3>4. heard' \in Seq(Outcome) /\ Len(heard') = Len(heard) + 1
              /\ \A i \in 1..Len(heard') : heard'[i] = Scripted[s]
            BY <2>2, <3>3
        <3>5. outcome' = outcome /\ outcome = "asking"
            BY <2>3 DEF Ask
        <3>6. QED
            BY <2>2, <3>1, <3>4, <3>5 DEF Retraces
    <2>4. CASE Exit
        <3>1. Len(heard) = Len(r.calls)
            BY <2>1, <2>2, <2>4 DEF Exit, Calls
        <3>2. outcome' = Expect(s) /\ heard' = heard
            BY <1>4, <2>1, <2>4, <3>1 DEF Exit, Exits
        <3>3. QED
            BY <2>2, <3>2 DEF Retraces
    <2>5. CASE UNCHANGED vars
        BY <2>5 DEF vars, Retraces
    <2>6. QED
        BY <2>3, <2>4, <2>5 DEF Next
<1>8. Retraces(s, r) => IssuedOnAllow
    BY <1>1 DEF Retraces, IssuedOnAllow
<1>9. QED
    BY <1>6, <1>7, <1>8, PTL DEF Spec

\* A certified caller about which the report warns of nothing asks once, and needs
\* no steady gate: the files and the clock may change under it as they like, as long
\* as the gate ends every call in a way that the suite plays.
THEOREM UnwarnedCallerFollowsTheGate ==
    ASSUME NEW runs, Certified(Caller, runs), ~Warned(runs), Rehearsed
    PROVE Spec => []IssuedOnAllow
<1> DEFINE Answered(s) ==
             /\ Retraces(s, runs[s]) /\ Len(heard) = 1
             /\ Expect(s) = "issued" => \E m \in Moments : Allows(m, Asks)
           Inv == (heard = <<>> /\ outcome = "asking") \/ \E s \in DOMAIN Scripted : Answered(s)
<1>1. \A s \in DOMAIN Scripted :
        /\ IsRun(Caller, s, runs[s]) /\ runs[s].calls \in Seq(Call) /\ Len(runs[s].calls) = 1
        /\ Faithful(runs[s].calls[1])
        /\ runs[s].ended /\ Expect(s) = IF runs[s].code = 0 THEN "issued" ELSE "refused"
    <2> SUFFICES ASSUME NEW s \in DOMAIN Scripted
                 PROVE /\ IsRun(Caller, s, runs[s]) /\ runs[s].calls \in Seq(Call)
                       /\ Len(runs[s].calls) = 1
                       /\ Faithful(runs[s].calls[1])
                       /\ runs[s].ended
                       /\ Expect(s) = IF runs[s].code = 0 THEN "issued" ELSE "refused"
        OBVIOUS
    <2>1. s \in OffersAGate /\ s \in Scenarios /\ Seen(s, runs[s]) = runs[s].calls
        BY ScriptedServed DEF Scenarios, OffersAGate, Seen
    <2>2. IsRun(Caller, s, runs[s]) /\ runs[s].calls \in Seq(Call)
        BY <2>1 DEF Certified, IsRun, Run
    <2>3. Len(runs[s].calls) = 1
        <3> DEFINE n == Len(runs[s].calls)
        <3>1. n \in Nat
            BY <2>2
        <3>2. n > 0
            BY <2>1 DEF Certified, Conforms, Called
        <3>3. ~(n > 1)
            BY <2>1 DEF Warned
        <3> HIDE DEF n
        <3>4. n = 1
            BY <3>1, <3>2, <3>3
        <3>5. QED
            BY <3>4 DEF n
    <2>4. Faithful(runs[s].calls[1])
        BY <2>1, <2>3 DEF Certified, Conforms, Fidelity
    <2>5. runs[s].ended /\ Expect(s) = IF runs[s].code = 0 THEN "issued" ELSE "refused"
        BY <2>1 DEF Certified, Conforms, AsExpected, Observed, Expect
    <2>6. QED
        BY <2>2, <2>3, <2>4, <2>5
<1>2. Init => Inv
    BY DEF Init
<1>3. Inv /\ [Next]_vars => Inv'
    <2> SUFFICES ASSUME Inv, [Next]_vars
                 PROVE Inv'
        OBVIOUS
    <2>1. CASE Ask
        <3>1. \A s \in DOMAIN Scripted : ~Answered(s)
            <4> SUFFICES ASSUME NEW s \in DOMAIN Scripted, Answered(s)
                         PROVE FALSE
                OBVIOUS
            <4>1. Now = Exits(runs[s].code)
                BY <1>1, Retraced
            <4>2. QED
                BY <2>1, <4>1 DEF Ask, Exits
        <3>2. heard = <<>> /\ outcome = "asking"
            BY <3>1
        <3>3. "deny" \in DOMAIN Scripted
            BY ScriptedNames
        <3>4. Retraces("deny", runs["deny"])
            BY <1>1, <3>2, <3>3 DEF Retraces
        <3>5. Now = Calls(runs["deny"].calls[1])
            <4>1. Len(heard) = 0
                BY <3>2
            <4>2. Len(heard) < Len(runs["deny"].calls)
                BY <1>1, <3>3, <4>1
            <4>3. QED
                BY <1>1, <3>3, <3>4, <4>1, <4>2, Retraced
        <3>6. PICK o \in Outcome, m \in Moments : o \in Replies(m, Asks) /\ heard' = Append(heard, o)
            BY <1>1, <2>1, <3>3, <3>5 DEF Ask, Calls
        <3>7. PICK s \in DOMAIN Scripted :
                /\ Replies(m, Asks) = {Scripted[s]}
                /\ Expect(s) = "issued" => Allows(m, Asks)
            BY EveryAnswerIsScripted DEF Rehearsed
        <3>8. heard' \in Seq(Outcome) /\ Len(heard') = 1 /\ heard'[1] = Scripted[s]
            BY <3>2, <3>6, <3>7
        <3>9. Retraces(s, runs[s])'
            BY <1>1, <2>1, <3>2, <3>8 DEF Retraces, Ask
        <3>10. QED
            BY <3>7, <3>8, <3>9
    <2>2. CASE Exit
        <3>1. ~(heard = <<>> /\ outcome = "asking")
            <4> SUFFICES ASSUME heard = <<>>, outcome = "asking"
                         PROVE FALSE
                OBVIOUS
            <4>1. "deny" \in DOMAIN Scripted /\ Len(heard) = 0
                BY ScriptedNames
            <4>2. Retraces("deny", runs["deny"])
                BY <1>1, <4>1 DEF Retraces
            <4>3. Len(heard) < Len(runs["deny"].calls)
                BY <1>1, <4>1
            <4>4. Now.does = "call"
                BY <1>1, <4>1, <4>2, <4>3, Retraced DEF Calls
            <4>5. QED
                BY <2>2, <4>4 DEF Exit
        <3>2. PICK s \in DOMAIN Scripted : Answered(s)
            BY <3>1
        <3>3. Now = Exits(runs[s].code)
            BY <1>1, <3>2, Retraced
        <3>4. outcome' = Expect(s) /\ heard' = heard
            BY <1>1, <2>2, <3>3 DEF Exit, Exits
        <3>5. Retraces(s, runs[s])'
            BY <3>2, <3>4 DEF Retraces
        <3>6. QED
            BY <3>2, <3>4, <3>5
    <2>3. CASE UNCHANGED vars
        BY <2>3 DEF vars, Retraces
    <2>4. QED
        BY <2>1, <2>2, <2>3 DEF Next
<1>4. Inv => IssuedOnAllow
    BY DEF Retraces, IssuedOnAllow
<1>5. QED
    BY <1>2, <1>3, <1>4, PTL DEF Spec

-----------------------------------------------------------------------------
\* The outcome that each scenario has for a call of IssueLease.
Met(s) ==
    IF s \in DOMAIN Scripted THEN Scripted[s]
    ELSE IF s = "fidelity_trap" THEN Answer("DENY") ELSE Unreachable

LEMMA MetIsAResponse ==
    \A s \in Scenarios :
      /\ Met(s) \in Outcome /\ Met(s) \in Responses(s, Forwarded)
      /\ Licensed(Met(s)) <=> s = "allow"
<1>1. \A s \in Scenarios : Met(s) \in Outcome
    BY ScriptedNames, Codes, SMT
    DEF Met, Scripted, Scenarios, Answer, Fault, Exited, Unreachable, Outcome, Decisions, ExitError
<1>2. \A s \in Scenarios : Met(s) \in Responses(s, Forwarded)
    <2>1. \A s \in DOMAIN Scripted : Met(s) \in Responses(s, Forwarded)
        BY ScriptedServed DEF Met
    <2>2. Met("fidelity_trap") \in Responses("fidelity_trap", Forwarded)
        BY ScriptedNames DEF Met, Responses, Forwarded, Doctored
    <2>3. Met("missing") \in Responses("missing", Forwarded)
        BY ScriptedNames DEF Met, Responses
    <2>4. Met("unconfigured") \in Responses("unconfigured", Forwarded)
        BY ScriptedNames DEF Met, Responses, Unreachable, Outcome
    <2>5. QED
        BY <2>1, <2>2, <2>3, <2>4 DEF Scenarios
<1>3. \A s \in Scenarios : Met(s) = Answer("ALLOW") <=> s = "allow"
    <2>1. Answer("ALLOW") = [end |-> "exited", exit |-> 0, verdict |-> "ALLOW"]
        BY DEF Answer, Exited, ExitOf
    <2>2. \A s \in Scenarios : Met(s) = Answer("ALLOW") => s = "allow"
        BY <2>1, ScriptedNames, SMT
        DEF Met, Scripted, Scenarios, Answer, ExitOf, Fault, Exited, Unreachable
    <2>3. Met("allow") = Answer("ALLOW")
        BY ScriptedNames DEF Met, Scripted
    <2>4. QED
        BY <2>2, <2>3
<1>4. QED
    BY <1>1, <1>2, <1>3, ClientActsOnOneOutcome

\* A program that forwards the request, and on the first answer leaves, has a run
\* of each scenario with one call.
Once(s, n) == [calls |-> <<Forwarded>>, heard |-> <<Met(s)>>, ended |-> TRUE, code |-> n]

LEMMA ForwardedIsFaithful == Forwarded \in Call /\ Faithful(Forwarded)
BY DEF Forwarded, Call, Faithful, ExpectedArgv

LEMMA OnceIsARun ==
    ASSUME NEW P, NEW s \in Scenarios, NEW n \in Nat,
           P[GateOf(s)][<<>>] = Calls(Forwarded), P[GateOf(s)][<<Met(s)>>] = Exits(n)
    PROVE IsRun(P, s, Once(s, n))
<1> DEFINE r == Once(s, n)
<1>1. /\ r.calls = <<Forwarded>> /\ r.heard = <<Met(s)>> /\ r.ended /\ r.code = n
    BY DEF Once
<1>2. r \in Run
    BY ForwardedIsFaithful, MetIsAResponse DEF Once, Run
<1>3. Len(r.calls) = 1 /\ Len(r.heard) = 1 /\ r.calls[1] = Forwarded /\ r.heard[1] = Met(s)
    BY <1>1
<1>4. Before(r.heard, 1) = <<>>
    <2> HIDE DEF r
    <2>1. Before(r.heard, 1) = [j \in {} |-> r.heard[j]]
        BY DEF Before
    <2>2. <<>> = [j \in {} |-> r.heard[j]]
        OBVIOUS
    <2>3. QED
        BY <2>1, <2>2
<1>5. ASSUME NEW i \in 1..Len(r.calls)
      PROVE P[GateOf(s)][Before(r.heard, i)] = Calls(r.calls[i])
            /\ r.heard[i] \in Responses(s, r.calls[i])
    <2>1. i = 1
        BY <1>3
    <2>2. QED
        BY <2>1, <1>3, <1>4, MetIsAResponse
<1> HIDE DEF r
<1>6. QED
    BY <1>1, <1>2, <1>3, <1>5 DEF IsRun, r

\* A program that forwards the request, and issues on the first answer of exactly
\* the scenario that allows, is certified without a warning.
LEMMA OnceConforms ==
    ASSUME NEW P,
           \A s \in Scenarios :
             /\ P[GateOf(s)][<<>>] = Calls(Forwarded)
             /\ P[GateOf(s)][<<Met(s)>>] = Exits(IF Licensed(Met(s)) THEN 0 ELSE 1)
    PROVE \E runs : Certified(P, runs) /\ ~Warned(runs)
<1> DEFINE code(s) == IF Licensed(Met(s)) THEN 0 ELSE 1
           runs == [s \in Scenarios |-> Once(s, code(s))]
<1>2. \A s \in Scenarios : IsRun(P, s, Once(s, code(s)))
    <2> SUFFICES ASSUME NEW s \in Scenarios
                 PROVE IsRun(P, s, Once(s, code(s)))
        OBVIOUS
    <2>1. P[GateOf(s)][<<Met(s)>>] = Exits(code(s)) /\ code(s) \in Nat
        OBVIOUS
    <2> HIDE DEF code
    <2>2. QED
        BY <2>1, OnceIsARun
<1>3. \A s \in Scenarios :
        /\ runs[s] = Once(s, code(s))
        /\ Observed(runs[s]) = Expect(s)
        /\ Seen(s, runs[s]) = IF GateOf(s) = "served" THEN <<Forwarded>> ELSE <<>>
    BY MetIsAResponse DEF Once, Observed, Expect, Seen
<1> HIDE DEF runs
<1>4. \A s \in Scenarios :
        /\ GateOf(s) = "served" => Len(Seen(s, runs[s])) > 0 /\ ~(Len(Seen(s, runs[s])) > 1)
        /\ GateOf(s) # "served" => ~(Len(Seen(s, runs[s])) > 1)
        /\ \A i \in 1..Len(Seen(s, runs[s])) : Seen(s, runs[s])[i] = Forwarded
    <2>1. Len(<<Forwarded>>) > 0 /\ ~(Len(<<Forwarded>>) > 1) /\ ~(Len(<<>>) > 1)
          /\ (\A i \in 1..Len(<<Forwarded>>) : <<Forwarded>>[i] = Forwarded)
          /\ (\A i \in 1..Len(<<>>) : <<>>[i] = Forwarded)
        OBVIOUS
    <2>2. TAKE s \in Scenarios
    <2>3. CASE GateOf(s) = "served"
        <3>1. Seen(s, runs[s]) = <<Forwarded>>
            BY <1>3, <2>3
        <3>2. QED
            BY <2>1, <2>3, <3>1, Zenon
    <2>4. CASE GateOf(s) # "served"
        <3>1. Seen(s, runs[s]) = <<>>
            BY <1>3, <2>4
        <3>2. QED
            BY <2>1, <2>4, <3>1, Zenon
    <2>5. QED
        BY <2>3, <2>4
<1>5. AsExpected(runs)
    BY <1>3 DEF AsExpected
<1>6. Called(runs) /\ ~Warned(runs)
    BY <1>4 DEF Called, Warned, OffersAGate
<1>7. Fidelity(runs)
    <2>1. "deny" \in Scenarios /\ GateOf("deny") = "served"
        BY ScriptedServed, ScriptedNames DEF Scenarios
    <2>2. \A s \in Scenarios : \A i \in 1..Len(Seen(s, runs[s])) : Faithful(Seen(s, runs[s])[i])
        BY <1>4, ForwardedIsFaithful
    <2>3. QED
        BY <1>4, <2>1, <2>2 DEF Fidelity
<1>8. QED
    BY <1>2, <1>3, <1>5, <1>6, <1>7 DEF Certified, Conforms

\* The lease issuer of the examples is certified, with no warning, where nothing
\* is installed that it could fall back on.
THEOREM IssueLeaseConforms ==
    \E runs : Certified(IssueLease, runs) /\ ~Warned(runs)
<1>1. \A s \in Scenarios : GateOf(s) \in Gates
    BY DEF GateOf, Gates
<1>2. ASSUME NEW s \in Scenarios
      PROVE /\ IssueLease[GateOf(s)][<<>>] = Calls(Forwarded)
            /\ IssueLease[GateOf(s)][<<Met(s)>>] = Exits(IF Licensed(Met(s)) THEN 0 ELSE 1)
    <2> DEFINE h == <<Met(s)>>
    <2>1. <<>> \in Seq(Outcome) /\ h \in Seq(Outcome) /\ h # <<>> /\ h[Len(h)] = Met(s)
        BY MetIsAResponse
    <2> HIDE DEF h
    <2>2. IssueLease[GateOf(s)][h] = Exits(IF Licensed(h[Len(h)]) THEN 0 ELSE 1)
        BY <1>1, <2>1 DEF IssueLease
    <2>3. IssueLease[GateOf(s)][<<>>] = Calls(Forwarded)
        BY <1>1, <2>1 DEF IssueLease
    <2>4. QED
        BY <2>1, <2>2, <2>3 DEF h
<1>3. QED
    BY <1>2, OnceConforms

\* A caller that knows the codes of the contract and the one unknown code that a
\* scenario plays, and takes the exit of a crashed gate for permission.
Trusting ==
    [g \in Gates |-> [h \in Seq(Outcome) |->
       IF h = <<>> THEN Calls(Forwarded)
       ELSE Exits(IF h = <<Crash>> \/ Licensed(h[Len(h)]) THEN 0 ELSE 1)]]

\* That the deployment ends its calls as the suite does is not idle either: a file
\* that may not be read ends the gate with exit 1, which no scenario plays, and a
\* caller can be certified without a warning that issues on it.
THEOREM CertificateSaysNothingOfCrashes ==
    /\ \A m, r : m.fate = "crashes" => Crash \in Replies(m, r)
    /\ \E P \in Program :
         /\ \E runs : Certified(P, runs) /\ ~Warned(runs)
         /\ P["served"][<<>>] = Calls(Forwarded)
         /\ P["served"][<<Crash>>] = Exits(0)
<1>1. Crash = [end |-> "exited", exit |-> 1, verdict |-> "silent"]
    BY DEF Crash, Exited
<1>2. Crash \in Outcome
    BY <1>1, SMT DEF Outcome
<1>3. \A m, r : m.fate = "crashes" => Crash \in Replies(m, r)
    BY <1>1, <1>2 DEF Replies
<1>4. \A s \in Scenarios : Met(s) # Crash
    BY <1>1, ScriptedNames, SMT
    DEF Met, Scripted, Scenarios, Answer, ExitOf, Fault, ExitError, Exited, Unreachable
<1>5. \A s \in Scenarios : GateOf(s) \in Gates
    BY DEF GateOf, Gates
<1>6. ASSUME NEW g \in Gates, NEW h \in Seq(Outcome)
      PROVE Trusting[g][h] =
              IF h = <<>> THEN Calls(Forwarded)
              ELSE Exits(IF h = <<Crash>> \/ Licensed(h[Len(h)]) THEN 0 ELSE 1)
    BY DEF Trusting
<1>7. Trusting \in Program
    <2>1. Calls(Forwarded) \in Steps /\ Exits(0) \in Steps /\ Exits(1) \in Steps
        BY ForwardedIsFaithful DEF Steps
    <2>2. QED
        BY <2>1 DEF Trusting, Program
<1>8. <<>> \in Seq(Outcome) /\ <<Crash>> \in Seq(Outcome) /\ <<Crash>> # <<>>
    BY <1>2
<1>9. ASSUME NEW s \in Scenarios
      PROVE /\ Trusting[GateOf(s)][<<>>] = Calls(Forwarded)
            /\ Trusting[GateOf(s)][<<Met(s)>>] = Exits(IF Licensed(Met(s)) THEN 0 ELSE 1)
    <2> DEFINE h == <<Met(s)>>
    <2>1. h \in Seq(Outcome) /\ h # <<>> /\ h # <<Crash>> /\ h[Len(h)] = Met(s)
        BY <1>4, MetIsAResponse
    <2> HIDE DEF h
    <2>2. Trusting[GateOf(s)][h] = Exits(IF Licensed(h[Len(h)]) THEN 0 ELSE 1)
        BY <1>5, <1>6, <2>1
    <2>3. QED
        BY <1>5, <1>6, <1>8, <2>1, <2>2 DEF h
<1>10. \E runs : Certified(Trusting, runs) /\ ~Warned(runs)
    BY <1>9, OnceConforms
<1>11. "served" \in Gates
    BY DEF Gates
<1>12. Trusting["served"][<<>>] = Calls(Forwarded) /\ Trusting["served"][<<Crash>>] = Exits(0)
    BY <1>6, <1>8, <1>11
<1>13. QED
    BY <1>3, <1>7, <1>10, <1>12

\* A caller that asks again after an ESCALATE, and takes a DENY in reply for an
\* answer.
Stubborn ==
    [g \in Gates |-> [h \in Seq(Outcome) |->
       IF h = <<>> \/ h = <<Answer("ESCALATE")>> THEN Calls(Forwarded)
       ELSE IF h = <<Answer("ESCALATE"), Answer("DENY")>> \/ Licensed(h[Len(h)])
       THEN Exits(0) ELSE Exits(1)]]

Twice ==
    [calls |-> <<Forwarded, Forwarded>>, heard |-> <<Answer("ESCALATE"), Answer("ESCALATE")>>,
     ended |-> TRUE, code |-> 1]

\* The report's warning is not idle: no scenario gives one answer and then another,
\* so a caller can be certified that issues after an ESCALATE and a DENY, both of
\* them given to faithful calls.
THEOREM CertificateNeedsSteadiness ==
    \E P \in Program : \E runs :
      /\ Certified(P, runs) /\ Warned(runs)
      /\ P["served"][<<>>] = Calls(Forwarded)
      /\ P["served"][<<Answer("ESCALATE")>>] = Calls(Forwarded)
      /\ P["served"][<<Answer("ESCALATE"), Answer("DENY")>>] = Exits(0)
<1> DEFINE e == Answer("ESCALATE")
           d == Answer("DENY")
           code(s) == IF Licensed(Met(s)) THEN 0 ELSE 1
           runs == [s \in Scenarios |-> IF s = "escalate" THEN Twice ELSE Once(s, code(s))]
<1>1. \A s \in Scenarios : GateOf(s) \in Gates
    BY DEF GateOf, Gates
<1>2. /\ e \in Outcome /\ d \in Outcome /\ e # d /\ ~Licensed(e)
      /\ "escalate" \in Scenarios /\ GateOf("escalate") = "served"
      /\ Met("escalate") = e
      /\ \A s \in Scenarios : Met(s) = e => s = "escalate"
    <2>1. e = [end |-> "exited", exit |-> 11, verdict |-> "ESCALATE"]
          /\ d = [end |-> "exited", exit |-> 10, verdict |-> "DENY"]
        BY DEF Answer, Exited, ExitOf
    <2>2. e \in Outcome /\ d \in Outcome /\ e # d
        BY <2>1, SMT DEF Outcome, Decisions
    <2>3. "escalate" \in Scenarios /\ GateOf("escalate") = "served" /\ Met("escalate") = e
        BY ScriptedNames, ScriptedServed DEF Scenarios, Met, Scripted
    <2>4. \A s \in Scenarios : Met(s) = e => s = "escalate"
        BY <2>1, ScriptedNames, SMT
        DEF Met, Scripted, Scenarios, Answer, ExitOf, Fault, Exited, Unreachable
    <2>5. QED
        BY <2>2, <2>3, <2>4, MetIsAResponse
<1> HIDE DEF e, d
<1>3. \A g \in Gates, h \in Seq(Outcome) :
        Stubborn[g][h] = IF h = <<>> \/ h = <<e>> THEN Calls(Forwarded)
                         ELSE IF h = <<e, d>> \/ Licensed(h[Len(h)]) THEN Exits(0) ELSE Exits(1)
    BY DEF Stubborn, e, d
<1>4. <<>> \in Seq(Outcome) /\ <<e>> \in Seq(Outcome) /\ <<e, d>> \in Seq(Outcome)
      /\ <<e, e>> \in Seq(Outcome)
    BY <1>2
<1>5. Stubborn \in Program
    <2>1. Calls(Forwarded) \in Steps /\ Exits(0) \in Steps /\ Exits(1) \in Steps
        BY ForwardedIsFaithful DEF Steps
    <2>2. QED
        BY <2>1 DEF Stubborn, Program
<1>6. /\ \A g \in Gates : Stubborn[g][<<>>] = Calls(Forwarded) /\ Stubborn[g][<<e>>] = Calls(Forwarded)
      /\ \A g \in Gates : Stubborn[g][<<e, d>>] = Exits(0) /\ Stubborn[g][<<e, e>>] = Exits(1)
    <2>1. <<e, d>> # <<>> /\ <<e, d>> # <<e>> /\ <<e, e>> # <<>> /\ <<e, e>> # <<e>>
          /\ <<e, e>> # <<e, d>> /\ Len(<<e, e>>) = 2 /\ <<e, e>>[2] = e
        BY <1>2
    <2>2. QED
        BY <1>2, <1>3, <1>4, <2>1
<1>7. \A s \in Scenarios : IsRun(Stubborn, s, runs[s])
    <2>1. ASSUME NEW s \in Scenarios, s # "escalate"
          PROVE IsRun(Stubborn, s, Once(s, code(s)))
        <3> DEFINE h == <<Met(s)>>
        <3>1. h \in Seq(Outcome) /\ h # <<>> /\ h[Len(h)] = Met(s) /\ h # <<e>> /\ h # <<e, d>>
            BY <1>2, <2>1, MetIsAResponse
        <3> HIDE DEF h
        <3>2. Stubborn[GateOf(s)][h] = Exits(code(s))
            BY <1>1, <1>3, <3>1
        <3>3. code(s) \in Nat
            OBVIOUS
        <3> HIDE DEF code
        <3>4. QED
            BY <1>1, <1>6, <3>2, <3>3, OnceIsARun DEF h
    <2>2. IsRun(Stubborn, "escalate", Twice)
        <3>1. /\ Twice.calls = <<Forwarded, Forwarded>> /\ Twice.heard = <<e, e>>
              /\ Twice.ended /\ Twice.code = 1
            BY DEF Twice, e
        <3>2. Twice \in Run
            BY <1>2, ForwardedIsFaithful DEF Twice, Run, e
        <3>3. Before(<<e, e>>, 1) = <<>> /\ Before(<<e, e>>, 2) = <<e>>
            BY <1>2 DEF Before
        <3>4. ASSUME NEW i \in 1..2
              PROVE /\ Stubborn["served"][Before(<<e, e>>, i)] = Calls(<<Forwarded, Forwarded>>[i])
                    /\ <<e, e>>[i] \in Responses("escalate", <<Forwarded, Forwarded>>[i])
            <4>1. <<Forwarded, Forwarded>>[i] = Forwarded /\ <<e, e>>[i] = e
                OBVIOUS
            <4>2. e \in Responses("escalate", Forwarded)
                BY <1>2, MetIsAResponse
            <4>3. "served" \in Gates /\ (i = 1 \/ i = 2)
                BY DEF Gates
            <4>4. QED
                BY <1>6, <3>3, <4>1, <4>2, <4>3
        <3>5. Len(Twice.calls) = 2 /\ Len(Twice.heard) = 2
            BY <3>1
        <3>6. Stubborn["served"][<<e, e>>] = Exits(1)
            BY <1>6 DEF Gates
        <3>7. QED
            BY <1>2, <3>1, <3>2, <3>4, <3>5, <3>6 DEF IsRun
    <2>3. QED
        BY <2>1, <2>2
<1>8. \A s \in Scenarios :
        /\ Observed(runs[s]) = Expect(s)
        /\ Seen(s, runs[s]) = IF s = "escalate" THEN <<Forwarded, Forwarded>>
                              ELSE IF GateOf(s) = "served" THEN <<Forwarded>> ELSE <<>>
    BY <1>2, MetIsAResponse DEF Once, Twice, Observed, Expect, Seen
<1> HIDE DEF runs
<1>9. \A s \in Scenarios :
        /\ GateOf(s) # "served" => Len(Seen(s, runs[s])) = 0
        /\ GateOf(s) = "served" => Len(Seen(s, runs[s])) > 0
        /\ s = "escalate" => Len(Seen(s, runs[s])) > 1
        /\ \A i \in 1..Len(Seen(s, runs[s])) : Seen(s, runs[s])[i] = Forwarded
    <2>1. Len(<<Forwarded>>) > 0 /\ Len(<<Forwarded, Forwarded>>) > 1 /\ Len(<<>>) = 0
          /\ Len(<<Forwarded, Forwarded>>) > 0
          /\ (\A i \in 1..Len(<<Forwarded>>) : <<Forwarded>>[i] = Forwarded)
          /\ (\A i \in 1..Len(<<Forwarded, Forwarded>>) : <<Forwarded, Forwarded>>[i] = Forwarded)
          /\ (\A i \in 1..Len(<<>>) : <<>>[i] = Forwarded)
        OBVIOUS
    <2>2. QED
        BY <1>2, <1>8, <2>1
<1>10. AsExpected(runs)
    BY <1>8 DEF AsExpected
<1>11. Called(runs) /\ Warned(runs)
    <2>1. Len(Seen("escalate", runs["escalate"])) > 1
        BY <1>2, <1>9
    <2>2. QED
        BY <1>2, <1>9, <2>1 DEF Called, Warned, OffersAGate
<1>12. Fidelity(runs)
    BY <1>2, <1>9, ForwardedIsFaithful DEF Fidelity
<1>13. Certified(Stubborn, runs) /\ Warned(runs)
    BY <1>7, <1>10, <1>11, <1>12 DEF Certified, Conforms
<1>14. "served" \in Gates
    BY DEF Gates
<1>15. QED
    BY <1>5, <1>6, <1>13, <1>14 DEF e, d

-----------------------------------------------------------------------------
Locating == References \ (Unlocating \cup {NoString})

\* What a source that looks its answers up emits: the result the scenario wants,
\* under one of two references.
LookedUp(c, r, first) ==
    [s \in SourceScenarios |->
        [end |-> "object", result |-> IF s = "positive" THEN "pass" ELSE "fail", control |-> c,
         issued_at |-> "zoned", evidence_ref |-> IF s \in first THEN r[1] ELSE r[2]]]

LEMMA LookedUpIsATrial ==
    ASSUME NEW c \in Controls, NEW r \in References \X References, NEW first
    PROVE LookedUp(c, r, first) \in Trial
<1>1. ASSUME NEW s \in SourceScenarios PROVE LookedUp(c, r, first)[s] \in Output
    BY <1>1 DEF LookedUp, Output
<1>2. QED
    BY <1>1 DEF Trial, LookedUp

\* The suite asks every rule of the answers and none of how they came about: a
\* table of scenario names with two references in it conforms for every control
\* and kind, where one with a single reference does not (conformance.py:311-320).
\* Its live run may say FAIL, as its run without authority does, so that rule 3
\* ("the same answer for a powerful and a powerless identity is not a check",
\* conformance.py:436-437) is not what is checked.
THEOREM TableWithTwoReferencesConforms ==
    ASSUME NEW c \in Controls, NEW kind,
           NEW r \in Locating \X Locating,
           Blank \in Unlocating
    PROVE /\ r[1] # r[2] => SourceConforms(c, kind, LookedUp(c, r, {"live"}))
          /\ ~SourceConforms(c, kind, LookedUp(c, r, {}))
          /\ LookedUp(c, r, {"live"})["live"].result = LookedUp(c, r, {"live"})["powerless"].result
<1>1. /\ "live" \in Required(kind) /\ "positive" \in Required(kind)
      /\ Required(kind) \subseteq SourceScenarios
    BY DEF Required, SourceScenarios
<1>2. ASSUME NEW first, NEW s \in SourceScenarios
      PROVE LET o == LookedUp(c, r, first)[s]
            IN  /\ o.end = "object" /\ ResultOf(o) = (IF s = "positive" THEN "pass" ELSE "fail")
                /\ o.control = c /\ Carries(o) /\ o.evidence_ref \notin {Blank, NoString}
                /\ o.evidence_ref = IF s \in first THEN r[1] ELSE r[2]
                /\ o.result = IF s = "positive" THEN "pass" ELSE "fail"
    BY DEF LookedUp, ResultOf, Carries, Locating
<1>3. ASSUME r[1] # r[2] PROVE SourceConforms(c, kind, LookedUp(c, r, {"live"}))
    <2>1. ~OneReference(kind, LookedUp(c, r, {"live"}))
        BY <1>1, <1>2, <1>3 DEF OneReference
    <2>2. LiveSound(c, kind, LookedUp(c, r, {"live"}))
        BY <1>1, <1>2, <2>1 DEF LiveSound
    <2>3. \A s \in Required(kind) \ {"live"} :
            Demanded[s] = IF s = "positive" THEN "pass" ELSE "fail"
        BY <1>1 DEF Demanded, SourceScenarios
    <2>4. QED
        BY <1>1, <1>2, <2>2, <2>3 DEF SourceConforms
<1>4. OneReference(kind, LookedUp(c, r, {}))
    BY <1>1, <1>2 DEF OneReference
<1>5. LookedUp(c, r, {"live"})["live"].result = LookedUp(c, r, {"live"})["powerless"].result
    BY <1>2 DEF SourceScenarios
<1>6. QED
    BY <1>3, <1>4, <1>5 DEF SourceConforms, LiveSound

\* A source that conforms as a probe conforms as an audit exactly when the four
\* runs that an audit is judged by do not all cite one reference.
THEOREM AuditAsksLessButForOneReference ==
    \A c, t : SourceConforms(c, "probe", t) =>
        (SourceConforms(c, "audit", t) <=> ~OneReference("audit", t))
<1> SUFFICES ASSUME NEW c, NEW t, SourceConforms(c, "probe", t)
             PROVE SourceConforms(c, "audit", t) <=> ~OneReference("audit", t)
    OBVIOUS
<1>1. Required("audit") \subseteq Required("probe")
    BY DEF Required, SourceScenarios
<1>2. QED
    BY <1>1 DEF SourceConforms, LiveSound

\* And that case arises: the same source is refused as an audit and accepted as a
\* probe, the kind of which the module says that "omitting it tightens rather than
\* relaxes" (conformance.py:42).
THEOREM ProbeMayBeTheLighterKind ==
    ASSUME NEW c \in Controls,
           NEW r \in Locating \X Locating,
           r[1] # r[2], Blank \in Unlocating
    PROVE \E t \in Trial : SourceConforms(c, "probe", t) /\ ~SourceConforms(c, "audit", t)
<1> DEFINE t == LookedUp(c, r, {"powerless"})
<1>1. ASSUME NEW s \in SourceScenarios
      PROVE /\ t[s].end = "object" /\ ResultOf(t[s]) = (IF s = "positive" THEN "pass" ELSE "fail")
            /\ t[s].control = c /\ Carries(t[s]) /\ t[s].evidence_ref \notin {Blank, NoString}
            /\ t[s].evidence_ref = IF s = "powerless" THEN r[1] ELSE r[2]
    BY DEF LookedUp, ResultOf, Carries, Locating
<1>2. t \in Trial
    BY LookedUpIsATrial DEF Locating
<1> HIDE DEF t
<1>3. /\ Required("probe") = SourceScenarios
      /\ Required("audit") = SourceScenarios \ {"powerless"}
    BY DEF Required
<1>4. ~OneReference("probe", t)
    BY <1>1, <1>3 DEF OneReference, SourceScenarios
<1>5. OneReference("audit", t)
    BY <1>1, <1>3 DEF OneReference, SourceScenarios
<1>6. \A s \in SourceScenarios \ {"live"} :
        Demanded[s] = IF s = "positive" THEN "pass" ELSE "fail"
    BY DEF Demanded, SourceScenarios
<1>7. SourceConforms(c, "probe", t)
    BY <1>1, <1>3, <1>4, <1>6 DEF SourceConforms, LiveSound, SourceScenarios
<1>8. QED
    BY <1>2, <1>5, <1>7 DEF SourceConforms, LiveSound

\* The control is compared in the live run alone: a source that conforms goes on
\* conforming when its other runs attest other controls.
THEOREM OnlyLiveNamesItsControl ==
    \A c, kind, d : \A t \in Trial :
        LET u == [s \in SourceScenarios |->
                    IF s = "live" THEN t[s] ELSE [t[s] EXCEPT !.control = d[s]]]
        IN  SourceConforms(c, kind, t) <=> SourceConforms(c, kind, u)
<1> SUFFICES ASSUME NEW c, NEW kind, NEW d, NEW t \in Trial
             PROVE LET u == [s \in SourceScenarios |->
                               IF s = "live" THEN t[s] ELSE [t[s] EXCEPT !.control = d[s]]]
                   IN  SourceConforms(c, kind, t) <=> SourceConforms(c, kind, u)
    OBVIOUS
<1> DEFINE u == [s \in SourceScenarios |->
                   IF s = "live" THEN t[s] ELSE [t[s] EXCEPT !.control = d[s]]]
<1>1. ASSUME NEW s \in SourceScenarios
      PROVE /\ u[s].end = t[s].end /\ u[s].result = t[s].result
            /\ u[s].issued_at = t[s].issued_at /\ u[s].evidence_ref = t[s].evidence_ref
    BY DEF Trial, Output
<1>2. u["live"] = t["live"] /\ "live" \in SourceScenarios
    BY DEF SourceScenarios
<1> HIDE DEF u
<1>3. \A s \in SourceScenarios : ResultOf(u[s]) = ResultOf(t[s]) /\ (Carries(u[s]) <=> Carries(t[s]))
    BY <1>1 DEF ResultOf, Carries
<1>4. Required(kind) \subseteq SourceScenarios
    BY DEF Required
<1>5. OneReference(kind, u) <=> OneReference(kind, t)
    BY <1>1, <1>4 DEF OneReference
<1>6. LiveSound(c, kind, u) <=> LiveSound(c, kind, t)
    BY <1>2, <1>5 DEF LiveSound
<1>7. QED
    BY <1>3, <1>4, <1>6 DEF SourceConforms, u
=============================================================================
