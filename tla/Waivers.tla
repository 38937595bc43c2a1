------------------------------- MODULE Waivers -------------------------------
(***************************************************************************)
(* The waiver register of waiver.py as operators on a set of records: what *)
(* WaiverRegister accepts at construction, and what an accepted register   *)
(* licenses at an instant, for a caller.                                   *)
(*                                                                         *)
(* The compensating control and the ratification reference are checked for *)
(* being non-blank and read by no rule, so a record leaves them out.       *)
(* Control and band names are the registry's: a record that names another  *)
(* is refused before anything modelled here is reached.                    *)
(***************************************************************************)
EXTENDS Integers, FiniteSets

CONSTANTS
    Controls,
    Bands,
    Principals,
    Fold,           \* normalise_principal: principals that must not differ
    WaiverIds,
    IdRank,         \* the alphabetical order of the ids
    NoWaiver,       \* a waiver that renews nothing
    NonCompensable, \* policy.non_compensable
    MaxTtl, MaxActive, MaxRenewals

Waiver ==
    [id : WaiverIds, control : Controls, bands : SUBSET Bands,
     accountable : Principals, issued_by : Principals,
     issued_at : Nat, expires_at : Nat, renews : WaiverIds \cup {NoWaiver}]

ASSUME VocabularyAssumption ==
    /\ IsFiniteSet(Bands)
    /\ NonCompensable \subseteq Controls
    /\ NoWaiver \notin WaiverIds
    /\ IdRank \in [WaiverIds -> Nat]
\* WaiverPolicy lowers what a registry asks for to 90 days, two and one.
ASSUME PolicyAssumption ==
    MaxTtl \in Nat /\ MaxActive \in 0..2 /\ MaxRenewals \in 0..1

-----------------------------------------------------------------------------
WellFormed(w) ==
    /\ w.bands # {}
    /\ w.expires_at > w.issued_at
    /\ w.renews # w.id

IdsUnique(R) == \A v, w \in R : v.id = w.id => v = w

WithinPolicy(R) ==
    \A w \in R : w.control \notin NonCompensable /\ w.expires_at - w.issued_at <= MaxTtl

\* n renewals in a row, the last one first.
Chain(R, n) == {s \in [0..n -> R] : \A i \in 0..(n - 1) : s[i].renews = s[i + 1].id}

\* Mutant: several records may renew the same one.
RenewalsSoundInStars(R) ==
    /\ \A w \in R : w.renews # NoWaiver => \E v \in R : v.id = w.renews /\ v.control = w.control
    /\ Chain(R, MaxRenewals + 1) = {}

RenewalsSound(R) ==
    /\ \A w \in R : w.renews # NoWaiver => \E v \in R : v.id = w.renews /\ v.control = w.control
    /\ \A v, w \in R : v.renews # NoWaiver /\ v.renews = w.renews => v = w
    /\ Chain(R, MaxRenewals + 1) = {}

OneChainPerScope(R) ==
    \A v, w \in R :
      v # w /\ v.renews = NoWaiver /\ w.renews = NoWaiver /\ v.control = w.control
        => v.bands \cap w.bands = {}

ValidRegister(R) ==
    /\ \A w \in R : WellFormed(w)
    /\ IdsUnique(R)
    /\ WithinPolicy(R)
    /\ RenewalsSound(R)
    /\ OneChainPerScope(R)

-----------------------------------------------------------------------------
\* Active on [issued_at, expires_at).
Active(R, at) == {w \in R : w.issued_at <= at /\ at < w.expires_at}

OverCap(R, at) == Cardinality(Active(R, at)) > MaxActive

\* Mutant: the cap is reported and not enforced.
EffectiveUncapped(R, at) == Active(R, at)

Effective(R, at) == IF OverCap(R, at) THEN {} ELSE Active(R, at)

Covers(w, c, b) == w.control = c /\ b \in w.bands

\* A waiver never licenses its own issuer or the principal accountable for it.
Excludes(w, claimed) ==
    {Fold[p] : p \in claimed} \cap {Fold[w.issued_by], Fold[w.accountable]} # {}

\* The register is sorted by (issued_at, id), and the first match licenses.
Sooner(v, w) ==
    \/ v.issued_at < w.issued_at
    \/ v.issued_at = w.issued_at /\ IdRank[v.id] <= IdRank[w.id]

\* The waiver licensing control c for band b, as a set of at most one.
Covering(R, c, b, at, claimed) ==
    LET match == {w \in Effective(R, at) : Covers(w, c, b) /\ ~Excludes(w, claimed)}
    IN  {w \in match : \A v \in match : Sooner(w, v)}
=============================================================================
