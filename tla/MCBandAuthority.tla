---------------------------- MODULE MCBandAuthority ----------------------------
(***************************************************************************)
(* BandAuthority on every graph over three bands.  Two of the bands list   *)
(* their prerequisites in opposite orders; A and B may name a band more    *)
(* than once, and A even so often that the loop guard trips on a graph     *)
(* without a cycle.                                                        *)
(***************************************************************************)
EXTENDS BandAuthority
LOCAL INSTANCE SequencesExt

CONSTANTS A, B, C

Ascending == {<<>>, <<A>>, <<B>>, <<C>>, <<A, B>>, <<A, C>>, <<B, C>>, <<A, B, C>>}
Descending == {Reverse(l) : l \in Ascending}

\* One round for each mention is more than the guard allows three bands.
Endless == [i \in 1..20 |-> C]

MCLists ==
    [b \in Bands |-> CASE b = A -> Ascending \cup {<<C, C>>, <<C, B, C>>, Endless}
                       [] b = B -> Descending \cup {<<C, C, A>>}
                       [] OTHER -> Ascending]
=============================================================================
