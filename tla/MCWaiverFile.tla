----------------------------- MODULE MCWaiverFile -----------------------------
(***************************************************************************)
(* WaiverFile for TLC: the definitions the configurations use as values.   *)
(***************************************************************************)
EXTENDS WaiverFile, TLC

SameFold == [p \in Principals |-> p]
AnyRank == [i \in WaiverIds |-> 0]
Symmetry == Permutations(Processes) \cup Permutations(WaiverIds) \cup Permutations(Bands)
=============================================================================
