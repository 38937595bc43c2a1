--------------------------------- MODULE Gate ---------------------------------
(***************************************************************************)
(* GovernanceGate.evaluate as a pure function of a request, of the three   *)
(* registers one process has loaded, and of one instant: the chain role,   *)
(* authority, scope, evidence, ratification, risk.                         *)
(*                                                                         *)
(* The registry is constant.  Its band graph is acyclic, as load_registry  *)
(* requires, and the closure of a band is the one BandAuthority proves     *)
(* band_closure to compute.  A verdict leaves out the prose of its reasons,*)
(* except whether they say that the authority is conditional.              *)
(***************************************************************************)
EXTENDS Envelopes

CONSTANTS
    Controls, MaxAge, NoRecord,                             \* see AttestationStore
    Bands, WaiverIds, IdRank, NoWaiver, NonCompensable,     \* see Waivers
    MaxTtl, MaxActive, MaxRenewals,
    DependsOn,      \* DependsOn[b], the prerequisites of a band
    Requires,       \* Requires[b], the controls a band needs
    Owed,           \* Owed[c], what a control obliges every ALLOW of its bands to
    BandOf,         \* BandOf[c], the band of a capability
    EnvelopeBounded, NonDelegable,  \* capabilities
    Roles, Grants,  \* Grants[r], the bands role r is granted
    Nobody,         \* no performer, or no verifier, is named
    NoEnvelope,     \* the request names no envelope
    EscalateAt,     \* rank of registry.escalate_at_risk
    RegistryPolicy, \* registry.envelope_policy
    RegisterPolicy  \* the policy the envelope register was built with

INSTANCE AttestationStore
INSTANCE Waivers

Obligations == {"emit_evidence", "independent_verification", "tested_rollback", "human_ratification"}
Decisions == {"ALLOW", "DENY", "ESCALATE", "WAIT_FOR_AUTHORITY", "DELEGATE"}

ASSUME GateAssumption ==
    /\ DependsOn \in [Bands -> SUBSET Bands]
    /\ Requires \in [Bands -> SUBSET Controls]
    /\ Owed \in [Controls -> SUBSET Obligations]
    /\ BandOf \in [Capabilities -> Bands]
    /\ Grants \in [Roles -> SUBSET Bands]
    /\ EnvelopeBounded \subseteq Capabilities /\ NonDelegable \subseteq Capabilities
    /\ Nobody \notin Principals /\ NoEnvelope \notin EnvelopeIds
    /\ EscalateAt \in Nat
    /\ MaxAge \in [Controls -> Nat] /\ NoRecord \notin Attestation
    /\ IdRank \in [WaiverIds -> Nat]
    /\ RegistryPolicy \in EnvelopePolicy /\ RegisterPolicy \in EnvelopePolicy

Request ==
    [capability : Capabilities, role : Roles, identity : Principals,
     performer : Principals \cup {Nobody}, verifier : Principals \cup {Nobody},
     rollback_tested : BOOLEAN, ratified : BOOLEAN, risk : Nat,
     envelope_ref : EnvelopeIds \cup {NoEnvelope}, scope : Scopes,
     adjustments : SUBSET Adjustments]

\* What one process has loaded.
View == [atts : Store, waivers : SUBSET Waiver, envelopes : SUBSET Envelope]

Verdict ==
    [decision : Decisions, obligations : SUBSET Obligations, waivers : SUBSET WaiverIds,
     says_conditional : BOOLEAN]

-----------------------------------------------------------------------------
\* Mutant: a named performer stands in for the caller.
ClaimedPerformer(r) == IF r.performer = Nobody THEN {r.identity} ELSE {r.performer}

Claimed(r) == {r.identity} \cup ({r.performer} \ {Nobody})

Granting(b) == {role \in Roles : b \in Grants[role]}

Closure(b) ==
    {x \in Bands : \A C \in SUBSET Bands :
       b \in C /\ (\A y \in C : DependsOn[y] \subseteq C) => x \in C}

\* BandResolver: the controls of one band that do not hold, each licensed by a
\* waiver or missing.
Unmet(v, b, at) == MissingControls(v.atts, Requires[b], at)
LicensedBy(v, b, at, claimed) == UNION {Covering(v.waivers, c, b, at, claimed) : c \in Unmet(v, b, at)}
Missing(v, b, at, claimed) == {c \in Unmet(v, b, at) : Covering(v.waivers, c, b, at, claimed) = {}}

AuthorityHolds(v, b, at, claimed) == \A x \in Closure(b) : Missing(v, x, at, claimed) = {}
\* Mutant: the waivers of the band itself are left out.
RestsOnPrerequisites(v, b, at, claimed) ==
    {w.id : w \in UNION {LicensedBy(v, x, at, claimed) : x \in Closure(b) \ {b}}}

RestsOn(v, b, at, claimed) == {w.id : w \in UNION {LicensedBy(v, x, at, claimed) : x \in Closure(b)}}

ObligationsOf(b) == UNION {Owed[c] : c \in Requires[b]}

-----------------------------------------------------------------------------
\* _check_envelope, up to and from the point where its denial carries the
\* obligations of the band.
EnvelopeApplies(e, v, r, at) ==
    /\ e.id = r.envelope_ref
    /\ EnvelopeActive(e, at)
    /\ WithinEnvelopePolicy(RegisterPolicy, e)
    /\ SignerPermitted(RegistryPolicy, e.signed_by)
    /\ e.capability = r.capability
    /\ \A i \in Claimed(r) : Bounds(e, i)
    /\ r.adjustments # {}

WithinBounds(e, r) ==
    r.scope \notin Unparsable /\ CoversTarget(e, r.scope) /\ r.adjustments \subseteq e.limits

EnvelopeNamed(v, r, at) ==
    r.capability \in EnvelopeBounded => \E e \in v.envelopes : EnvelopeApplies(e, v, r, at)

EnvelopeKept(v, r, at) ==
    r.capability \in EnvelopeBounded =>
      \E e \in v.envelopes : EnvelopeApplies(e, v, r, at) /\ WithinBounds(e, r)

\* NX-INV-2: named, none of the claimed identities, and without a stake.
VerifierIndependent(v, r, at) ==
    /\ r.verifier # Nobody
    /\ Fold[r.verifier] \notin {Fold[i] : i \in Claimed(r)}
    /\ AuthorityOver(v.envelopes, r.verifier, r.scope, at) = {}

\* Mutant: a waived control asks nothing of the request.
EvidenceCompleteButWaived(v, r, at) ==
    LET b == BandOf[r.capability]
        owed == UNION {Owed[c] : c \in Requires[b] \ Unmet(v, b, at)}
    IN  /\ "independent_verification" \in owed => VerifierIndependent(v, r, at)
        /\ "tested_rollback" \in owed => r.rollback_tested

EvidenceComplete(v, r, at) ==
    LET owed == ObligationsOf(BandOf[r.capability]) IN
    /\ "independent_verification" \in owed => VerifierIndependent(v, r, at)
    /\ "tested_rollback" \in owed => r.rollback_tested

RatificationComplete(r) ==
    (r.capability \in NonDelegable \/ "human_ratification" \in ObligationsOf(BandOf[r.capability]))
      => r.ratified

-----------------------------------------------------------------------------
Plain(d) == [decision |-> d, obligations |-> {}, waivers |-> {}, says_conditional |-> FALSE]

\* The reasons of an ALLOW name the waivers it rests on; those of a verdict that
\* waits or escalates do not.
Resting(d, b, rests) ==
    [decision |-> d, obligations |-> ObligationsOf(b), waivers |-> rests,
     says_conditional |-> d = "ALLOW" /\ rests # {}]

Evaluate(v, r, at) ==
    LET b == BandOf[r.capability]
        rests == RestsOn(v, b, at, Claimed(r))
    IN  IF r.role \notin Granting(b)
        THEN Plain(IF Granting(b) # {} THEN "DELEGATE" ELSE "DENY")
        ELSE IF ~AuthorityHolds(v, b, at, Claimed(r)) \/ ~EnvelopeNamed(v, r, at)
        THEN Plain("DENY")
        ELSE IF ~EnvelopeKept(v, r, at)
        THEN [Plain("DENY") EXCEPT !.obligations = ObligationsOf(b)]
        ELSE IF ~EvidenceComplete(v, r, at) THEN Plain("DENY")
        ELSE IF ~RatificationComplete(r) THEN Resting("WAIT_FOR_AUTHORITY", b, rests)
        ELSE IF r.risk >= EscalateAt THEN Resting("ESCALATE", b, rests)
        ELSE Resting("ALLOW", b, rests)
=============================================================================
