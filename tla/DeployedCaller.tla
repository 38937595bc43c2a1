--------------------------- MODULE DeployedCaller ---------------------------
(***************************************************************************)
(* A caller at work: it asks the gate about one request, perhaps several   *)
(* times, and then issues or refuses.  Each reply is the gate's own, over  *)
(* whatever the files held and the clock showed at that moment, however    *)
(* its run ended; a call that is not faithful puts another request to the  *)
(* gate, and may hear anything.                                            *)
(***************************************************************************)
EXTENDS CallerSuite

CONSTANTS
    Caller,     \* a Program
    Asks,       \* the request it was handed
    Moments     \* the moments at which it may be answered

VARIABLES
    heard,      \* what the gate has said so far
    outcome     \* "asking", "issued", "refused"

vars == <<heard, outcome>>

TypeOK == heard \in Seq(Outcome) /\ outcome \in {"asking", "issued", "refused"}

Init == heard = <<>> /\ outcome = "asking"

Now == Caller["served"][heard]

Ask ==
    /\ outcome = "asking"
    /\ Now.does = "call"
    /\ \E o \in Outcome :
         /\ Faithful(Now.call) => \E m \in Moments : o \in Replies(m, Asks)
         /\ heard' = Append(heard, o)
    /\ UNCHANGED outcome

Exit ==
    /\ outcome = "asking"
    /\ Now.does = "exit"
    /\ outcome' = IF Now.code = 0 THEN "issued" ELSE "refused"
    /\ UNCHANGED heard

Next == Ask \/ Exit

Spec == Init /\ [][Next]_vars

-----------------------------------------------------------------------------
\* What the gate may say does not change while the caller is asking.
Steady == \A m, n \in Moments : Replies(m, Asks) = Replies(n, Asks)

\* The gate ends every call in one of the ways that a scenario of the suite plays:
\* it is not killed, it starts, and nothing escapes its main.
Rehearsed == \A m \in Moments : m.fate \in Answering \cup {"errors"}

\* A lease is issued on an ALLOW that the gate gave.
IssuedOnAllow == outcome = "issued" => \E m \in Moments : Allows(m, Asks)
=============================================================================
