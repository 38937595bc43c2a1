--------------------------- MODULE MCAttestationLog ---------------------------
(***************************************************************************)
(* AttestationLog on a small instance: every control has the same window.  *)
(***************************************************************************)
EXTENDS AttestationLog, TLC

MCMaxAge == [c \in Controls |-> 1]

MCSymmetry == Permutations(Processes)
=============================================================================
