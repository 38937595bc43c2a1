--------------------------- MODULE AttestationBoard ---------------------------
(***************************************************************************)
(* What the attestation file promises to the next process that loads it:   *)
(* one answer per control, which an append can only raise.  A later        *)
(* instant is above an earlier one and, at one instant, the denial is      *)
(* above the pass.  The file may also become unreadable, for good; an      *)
(* unreadable file answers nothing and so opens nothing.                   *)
(***************************************************************************)
EXTENDS AttestationStore

CONSTANT Unreadable

VARIABLE answer

Above(a, b) ==
    \/ b = NoRecord
    \/ a.issued_at > b.issued_at
    \/ a.issued_at = b.issued_at /\ ~a.result /\ b.result

Init == answer = [c \in Controls |-> NoRecord]

Raise(c) ==
    \E a \in {answer'[c]} :
      /\ a \in Attestation /\ a.control = c
      /\ Above(a, answer[c])
      /\ answer' = [answer EXCEPT ![c] = a]

\* Every step is a change, and nothing changes after the file is unreadable.
Next ==
    /\ answer' # answer
    /\ answer # Unreadable
    /\ answer' = Unreadable \/ \E c \in Controls : Raise(c)

Spec == Init /\ [][Next]_answer
=============================================================================
