-------------------------------- MODULE Guard --------------------------------
(***************************************************************************)
(* CapabilityGuard: the gate at a call site.  The guard builds a gate of   *)
(* its own from the attestations and the waivers it is given, without an   *)
(* envelope register, and runs what it guards on ALLOW only.               *)
(***************************************************************************)
EXTENDS Gate

\* Mutant: the waivers are defaulted away as the envelopes are.
GuardedViewBare(v) == [v EXCEPT !.envelopes = {}, !.waivers = {}]

\* GovernanceGate(registry, attestations, waivers)
GuardedView(v) == [v EXCEPT !.envelopes = {}]

Check(v, r, at) == Evaluate(GuardedView(v), r, at)

\* `require` yields instead of raising.
Permits(v, r, at) == Check(v, r, at).decision = "ALLOW"

\* The request of a decorated function: no performer, no ratification, no
\* envelope and no adjustments can be given.
Decorated(c, role, caller, verifier, rollback, risk, scope) ==
    [capability |-> c, role |-> role, identity |-> caller, performer |-> Nobody,
     verifier |-> verifier, rollback_tested |-> rollback, ratified |-> FALSE, risk |-> risk,
     envelope_ref |-> NoEnvelope, scope |-> scope, adjustments |-> {}]
=============================================================================
