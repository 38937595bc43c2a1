---------------------------- MODULE MCEvidenceSink ----------------------------
(* One obligation, one envelope, two spellings of one performer, and a blank. *)
EXTENDS EvidenceSink, TLC

CONSTANTS ann, ANN, bob, blank, v1, v2, trace, e1

MCAuditFold == ann :> ann @@ ANN :> ann @@ bob :> bob @@ blank :> blank

MCOutcome(d, who, owed, e, outside) ==
    [decision |-> d, performer |-> who, obligations |-> owed, envelope_ref |-> e,
     outside |-> outside]
MCOutcomes ==
    {MCOutcome("ALLOW", ann, {trace}, NoEnvelope, FALSE),
     MCOutcome("WAIT_FOR_AUTHORITY", bob, {trace}, NoEnvelope, FALSE),
     MCOutcome("DENY", ann, {}, e1, TRUE)}

\* Another program can leave the performer out.
MCOtherOutcomes ==
    {MCOutcome("ALLOW", blank, {trace}, NoEnvelope, FALSE),
     MCOutcome("DENY", ann, {}, e1, TRUE)}

Symmetry == Permutations({v1, v2}) \cup Permutations(Processes)
=============================================================================
