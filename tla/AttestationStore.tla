--------------------------- MODULE AttestationStore ---------------------------
(***************************************************************************)
(* The in-memory attestation store of attestation.py and the currency rule *)
(* of model.py, as operators on a function from controls to records.       *)
(*                                                                         *)
(* An attestation keeps the three fields the resolution looks at.  The     *)
(* issuer, the evidence reference and the provenance are carried by the    *)
(* code and read by no rule modelled here.  Instants and ages are natural  *)
(* numbers: only their order and their difference matter.                  *)
(***************************************************************************)
EXTENDS Integers

CONSTANTS
    Controls,   \* the control ids of the registry
    MaxAge,     \* MaxAge[c], Registry.max_age_for(c)
    NoRecord    \* what AttestationStore.get answers for an unknown control

Attestation == [control : Controls, result : BOOLEAN, issued_at : Nat]

ASSUME MaxAgeAssumption == MaxAge \in [Controls -> Nat]
ASSUME NoRecordAssumption == NoRecord \notin Attestation

Store == [Controls -> Attestation \cup {NoRecord}]

EmptyStore == [c \in Controls |-> NoRecord]

\* Mutant: a tie goes to the later line.
SupersedesLastLineWins(a, b) == a.issued_at >= b.issued_at

\* Mutant: a tie goes to the permission.
SupersedesTieAllows(a, b) ==
    \/ a.issued_at > b.issued_at
    \/ a.issued_at = b.issued_at /\ a.result

\* A tie goes to the denial, anything else to the newer instant.
Supersedes(a, b) ==
    \/ a.issued_at > b.issued_at
    \/ a.issued_at = b.issued_at /\ ~a.result

\* Mutant: the last line wins, whatever its instant.
RecordedUnconditionally(s, a) == [s EXCEPT ![a.control] = a]

Recorded(s, a) ==
    IF s[a.control] = NoRecord \/ Supersedes(a, s[a.control])
    THEN [s EXCEPT ![a.control] = a]
    ELSE s

\* What folding the attestations K into an empty store is meant to give: on
\* each control the newest of them and, at one instant, the denial.
Resolves(s, K) ==
    \A c \in Controls :
      LET on == {a \in K : a.control = c} IN
      IF on = {} THEN s[c] = NoRecord
      ELSE /\ s[c] \in on
           /\ \A a \in on :
                /\ a.issued_at <= s[c].issued_at
                /\ a.issued_at = s[c].issued_at /\ ~a.result => ~s[c].result

\* Passing, not future-dated and not expired; the window is closed at its end.
IsCurrent(a, maxAge, at) ==
    /\ a.result
    /\ at >= a.issued_at
    /\ at - a.issued_at <= maxAge

Holds(s, c, at) == s[c] # NoRecord /\ IsCurrent(s[c], MaxAge[c], at)

MissingControls(s, S, at) == {c \in S : ~Holds(s, c, at)}
=============================================================================
