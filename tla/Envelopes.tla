------------------------------ MODULE Envelopes ------------------------------
(***************************************************************************)
(* The declared bounds of envelope.py as operators on a set of records:    *)
(* what EnvelopeRegister accepts, and what an accepted envelope admits.    *)
(*                                                                         *)
(* A scope is compared with a target component by component; Under[s] is   *)
(* the outcome of that comparison for every target, and an unparsable      *)
(* scope lies under none.  An adjustment is one parameter with one value,  *)
(* and the limits of an envelope are the adjustments that they contain.    *)
(***************************************************************************)
EXTENDS Integers, FiniteSets

CONSTANTS
    Capabilities,
    Principals,
    Fold,           \* normalise_principal: its collisions must only ever deny
    Strict,         \* strict_principal: its equality authorises
    EnvelopeIds,
    Targets,
    Scopes, Unparsable, Under,
    Adjustments

Envelope ==
    [id : EnvelopeIds, principal : Principals, capability : Capabilities,
     signed_by : Principals, targets : SUBSET Targets, limits : SUBSET Adjustments,
     issued_at : Nat, expires_at : Nat]

\* `signers` empty means that any signer will do.
EnvelopePolicy == [signers : SUBSET Principals, max_ttl : Nat]

ASSUME ScopeAssumption ==
    /\ Unparsable \subseteq Scopes
    /\ Under \in [Scopes -> SUBSET Targets]
    /\ \A s \in Unparsable : Under[s] = {}
\* Whatever strict_principal takes for one name, the aggressive fold does too.
\* Principals are names without invisible characters: strict_principal turns any
\* other into the empty name, which no declared principal has.
ASSUME FoldAssumption ==
    \A i, j \in Principals : Strict[i] = Strict[j] => Fold[i] = Fold[j]

-----------------------------------------------------------------------------
EnvelopeWellFormed(e) ==
    /\ e.targets # {} /\ e.limits # {}
    /\ e.expires_at > e.issued_at
    /\ Fold[e.signed_by] # Fold[e.principal]

SignerPermitted(policy, s) ==
    policy.signers = {} \/ Strict[s] \in {Strict[t] : t \in policy.signers}

WithinEnvelopePolicy(policy, e) ==
    e.expires_at - e.issued_at <= policy.max_ttl /\ SignerPermitted(policy, e.signed_by)

ValidEnvelopes(E, policy) ==
    /\ \A e \in E : EnvelopeWellFormed(e) /\ WithinEnvelopePolicy(policy, e)
    /\ \A e, f \in E : e.id = f.id => e = f

-----------------------------------------------------------------------------
EnvelopeActive(e, at) == e.issued_at <= at /\ at < e.expires_at

\* Mutant: the fold that is safe for denials decides a permission.
BoundsByFold(e, i) == Fold[i] = Fold[e.principal]

Bounds(e, i) == Strict[i] = Strict[e.principal]

CoversTarget(e, s) == Under[s] \cap e.targets # {}

\* The envelopes that may let i change what it is asked to verify: a scope
\* nobody can parse is taken to lie under all of them.
AuthorityOver(E, i, s, at) ==
    {e \in E : /\ EnvelopeActive(e, at)
               /\ Fold[i] = Fold[e.principal]
               /\ s \in Unparsable \/ CoversTarget(e, s)}
=============================================================================
