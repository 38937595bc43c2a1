------------------------------ MODULE GateProofs ------------------------------
(***************************************************************************)
(* Theorems about the gate, for any registry, any files, any requests, any *)
(* number of processes and any bounds, in three parts: what one evaluation *)
(* rests on; the gate command, whose processes load the files one after    *)
(* the other; and `neuraxis assist`, which asks the gate for an unattended *)
(* agent.                                                                  *)
(***************************************************************************)
EXTENDS GateService, Assist, WellFoundedInduction, TLAPS

-----------------------------------------------------------------------------
(***************************************************************************)
(* One evaluation: what an answer of the gate rests on.                    *)
(***************************************************************************)

\* The conjuncts that an ALLOW needs besides a role that is granted the band.
Passes(v, r, at) ==
    /\ AuthorityHolds(v, BandOf[r.capability], at, Claimed(r))
    /\ EnvelopeNamed(v, r, at)
    /\ EnvelopeKept(v, r, at)
    /\ EvidenceComplete(v, r, at)

\* Each word of an answer says exactly which stage the request reached.
LEMMA DecisionIs ==
    \A v, r, at :
      LET d == Evaluate(v, r, at).decision
          in == r.role \in Granting(BandOf[r.capability])
      IN  /\ d \in Decisions
          /\ d = "DELEGATE" <=> ~in /\ Granting(BandOf[r.capability]) # {}
          /\ d = "WAIT_FOR_AUTHORITY" <=> in /\ Passes(v, r, at) /\ ~RatificationComplete(r)
          /\ d = "ESCALATE" <=>
               in /\ Passes(v, r, at) /\ RatificationComplete(r) /\ r.risk >= EscalateAt
          /\ d = "ALLOW" <=>
               in /\ Passes(v, r, at) /\ RatificationComplete(r) /\ ~(r.risk >= EscalateAt)
          /\ in /\ Passes(v, r, at) <=> d \in {"WAIT_FOR_AUTHORITY", "ESCALATE", "ALLOW"}
<1> SUFFICES ASSUME NEW v, NEW r, NEW at
             PROVE LET d == Evaluate(v, r, at).decision
                       in == r.role \in Granting(BandOf[r.capability])
                   IN  /\ d \in Decisions
                       /\ d = "DELEGATE" <=> ~in /\ Granting(BandOf[r.capability]) # {}
                       /\ d = "WAIT_FOR_AUTHORITY" <=>
                            in /\ Passes(v, r, at) /\ ~RatificationComplete(r)
                       /\ d = "ESCALATE" <=>
                            in /\ Passes(v, r, at) /\ RatificationComplete(r) /\ r.risk >= EscalateAt
                       /\ d = "ALLOW" <=>
                            in /\ Passes(v, r, at) /\ RatificationComplete(r) /\ ~(r.risk >= EscalateAt)
                       /\ in /\ Passes(v, r, at) <=> d \in {"WAIT_FOR_AUTHORITY", "ESCALATE", "ALLOW"}
    OBVIOUS
<1>1. \A s : Plain(s).decision = s
    BY DEF Plain
<1>2. \A s, b, w : Resting(s, b, w).decision = s
    BY DEF Resting
<1>3. [Plain("DENY") EXCEPT !.obligations = ObligationsOf(BandOf[r.capability])].decision = "DENY"
    BY DEF Plain
<1> DEFINE b == BandOf[r.capability]
           e == Evaluate(v, r, at)
           rests == RestsOn(v, b, at, Claimed(r))
           in == r.role \in Granting(b)
           denied == [Plain("DENY") EXCEPT !.obligations = ObligationsOf(b)]
<1>4. /\ ~in => e = Plain(IF Granting(b) # {} THEN "DELEGATE" ELSE "DENY")
      /\ in /\ ~Passes(v, r, at) => e = Plain("DENY") \/ e = denied
      /\ in /\ Passes(v, r, at) =>
           e = IF ~RatificationComplete(r) THEN Resting("WAIT_FOR_AUTHORITY", b, rests)
               ELSE IF r.risk >= EscalateAt THEN Resting("ESCALATE", b, rests)
               ELSE Resting("ALLOW", b, rests)
    BY DEF Evaluate, Passes
<1>5. /\ ~in => e.decision = IF Granting(b) # {} THEN "DELEGATE" ELSE "DENY"
      /\ in /\ ~Passes(v, r, at) => e.decision = "DENY"
      /\ in /\ Passes(v, r, at) =>
           e.decision = IF ~RatificationComplete(r) THEN "WAIT_FOR_AUTHORITY"
                        ELSE IF r.risk >= EscalateAt THEN "ESCALATE" ELSE "ALLOW"
    <2> HIDE DEF e, denied, in, rests, b
    <2>1. denied.decision = "DENY"
        BY <1>3 DEF denied, b
    <2>2. QED
        BY <1>1, <1>2, <1>4, <2>1
<1> HIDE DEF e, in
<1>6. LET d == e.decision IN
        /\ d \in Decisions
        /\ d = "DELEGATE" <=> ~in /\ Granting(b) # {}
        /\ d = "WAIT_FOR_AUTHORITY" <=> in /\ Passes(v, r, at) /\ ~RatificationComplete(r)
        /\ d = "ESCALATE" <=> in /\ Passes(v, r, at) /\ RatificationComplete(r) /\ r.risk >= EscalateAt
        /\ d = "ALLOW" <=>
             in /\ Passes(v, r, at) /\ RatificationComplete(r) /\ ~(r.risk >= EscalateAt)
        /\ in /\ Passes(v, r, at) <=> d \in {"WAIT_FOR_AUTHORITY", "ESCALATE", "ALLOW"}
    BY <1>5 DEF Decisions
<1>7. QED
    BY <1>6 DEF e, in

\* An answer that is not a denial carries the obligations of the band, and the
\* waivers that the closure rests on.
LEMMA CarriedBy ==
    ASSUME NEW v, NEW r, NEW at,
           Evaluate(v, r, at).decision \in {"WAIT_FOR_AUTHORITY", "ESCALATE", "ALLOW"}
    PROVE /\ Evaluate(v, r, at).waivers = RestsOn(v, BandOf[r.capability], at, Claimed(r))
          /\ Evaluate(v, r, at).obligations = ObligationsOf(BandOf[r.capability])
          /\ AuthorityHolds(v, BandOf[r.capability], at, Claimed(r))
<1> DEFINE b == BandOf[r.capability]
           rests == RestsOn(v, b, at, Claimed(r))
<1>1. r.role \in Granting(b) /\ Passes(v, r, at)
    BY DecisionIs, Zenon
<1>2. Evaluate(v, r, at) =
        IF ~RatificationComplete(r) THEN Resting("WAIT_FOR_AUTHORITY", b, rests)
        ELSE IF r.risk >= EscalateAt THEN Resting("ESCALATE", b, rests)
        ELSE Resting("ALLOW", b, rests)
    BY <1>1 DEF Evaluate, Passes
<1>3. \A s : Resting(s, b, rests).waivers = rests /\ Resting(s, b, rests).obligations = ObligationsOf(b)
    BY DEF Resting
<1>4. AuthorityHolds(v, b, at, Claimed(r))
    BY <1>1 DEF Passes
<1> HIDE DEF rests
<1>5. Evaluate(v, r, at).waivers = rests /\ Evaluate(v, r, at).obligations = ObligationsOf(b)
    BY <1>2, <1>3
<1>6. QED
    BY <1>4, <1>5 DEF rests

\* A verdict that is not a denial names a waiver exactly when some control in the
\* closure of the band is unproven at the instant of the evaluation.
THEOREM ConditionalExactly ==
    ASSUME NEW v, NEW r, NEW at,
           Evaluate(v, r, at).decision \in {"WAIT_FOR_AUTHORITY", "ESCALATE", "ALLOW"}
    PROVE Evaluate(v, r, at).waivers = {} <=>
            \A x \in Closure(BandOf[r.capability]) : \A c \in Requires[x] : Holds(v.atts, c, at)
<1> DEFINE b == BandOf[r.capability]
           C == Claimed(r)
<1>1. /\ Evaluate(v, r, at).waivers = RestsOn(v, b, at, C)
      /\ \A x \in Closure(b) : Missing(v, x, at, C) = {}
    BY CarriedBy DEF AuthorityHolds
<1>2. RestsOn(v, b, at, C) = {} <=> \A x \in Closure(b) : LicensedBy(v, x, at, C) = {}
    BY DEF RestsOn
<1>3. ASSUME NEW x \in Closure(b)
      PROVE LicensedBy(v, x, at, C) = {} <=> Unmet(v, x, at) = {}
    <2>1. \A c \in Unmet(v, x, at) : Covering(v.waivers, c, x, at, C) # {}
        BY <1>1, <1>3 DEF Missing
    <2>2. QED
        BY <2>1 DEF LicensedBy
<1>4. \A x : Unmet(v, x, at) = {} <=> \A c \in Requires[x] : Holds(v.atts, c, at)
    BY DEF Unmet, MissingControls
<1>5. QED
    BY <1>1, <1>2, <1>3, <1>4

\* Where no waiver is loaded, whatever is not a denial rests on proof alone.
THEOREM UnwaivedIsProven ==
    ASSUME NEW v, NEW r, NEW at, v.waivers = {},
           Evaluate(v, r, at).decision \in {"WAIT_FOR_AUTHORITY", "ESCALATE", "ALLOW"}
    PROVE \A x \in Closure(BandOf[r.capability]) : \A c \in Requires[x] : Holds(v.atts, c, at)
<1>1. \A x, c : Covering(v.waivers, c, x, at, Claimed(r)) = {}
    BY DEF Covering, Effective, Active
<1>2. \A x : LicensedBy(v, x, at, Claimed(r)) = {}
    BY <1>1 DEF LicensedBy
<1>3. Evaluate(v, r, at).waivers = {}
    BY <1>2, CarriedBy DEF RestsOn
<1>4. QED
    BY <1>3, ConditionalExactly

\* A guard permits what the gate refuses only to a verifier with a stake in what it
\* verifies, and refuses what the gate permits only where an envelope bounds it.
THEOREM GuardDiffers ==
    ASSUME NEW v \in View, NEW r, NEW at
    PROVE LET gate == Evaluate(v, r, at).decision = "ALLOW"
              guard == Permits(v, r, at)
          IN  /\ guard /\ ~gate => AuthorityOver(v.envelopes, r.verifier, r.scope, at) # {}
              /\ gate /\ ~guard => r.capability \in EnvelopeBounded
<1> DEFINE g == GuardedView(v)
           b == BandOf[r.capability]
<1>1. g.atts = v.atts /\ g.waivers = v.waivers /\ g.envelopes = {}
    BY DEF GuardedView, View
<1>2. Permits(v, r, at) <=> Evaluate(g, r, at).decision = "ALLOW"
    BY DEF Permits, Check
<1> HIDE DEF g
<1>3. \A x : Missing(g, x, at, Claimed(r)) = Missing(v, x, at, Claimed(r))
    BY <1>1 DEF Missing, Unmet
<1>4. AuthorityHolds(g, b, at, Claimed(r)) <=> AuthorityHolds(v, b, at, Claimed(r))
    BY <1>3 DEF AuthorityHolds
<1>5. /\ EnvelopeNamed(g, r, at) <=> r.capability \notin EnvelopeBounded
      /\ EnvelopeKept(g, r, at) <=> r.capability \notin EnvelopeBounded
      /\ r.capability \notin EnvelopeBounded => EnvelopeNamed(v, r, at) /\ EnvelopeKept(v, r, at)
    BY <1>1 DEF EnvelopeNamed, EnvelopeKept
<1>6. AuthorityOver(g.envelopes, r.verifier, r.scope, at) = {}
    BY <1>1 DEF AuthorityOver
<1>7. /\ EvidenceComplete(v, r, at) => EvidenceComplete(g, r, at)
      /\ EvidenceComplete(g, r, at) /\ ~EvidenceComplete(v, r, at) =>
           AuthorityOver(v.envelopes, r.verifier, r.scope, at) # {}
    BY <1>6 DEF EvidenceComplete, VerifierIndependent
<1>8. QED
    <2>1. \A u : Evaluate(u, r, at).decision = "ALLOW" <=>
            /\ r.role \in Granting(b) /\ Passes(u, r, at) /\ RatificationComplete(r)
            /\ ~(r.risk >= EscalateAt)
        BY DecisionIs, Zenon
    <2>2. QED
        BY <1>2, <1>4, <1>5, <1>7, <2>1 DEF Passes

-----------------------------------------------------------------------------
LEMMA NatHasMin == \A S \in SUBSET Nat : S # {} => \E m \in S : \A n \in S : m <= n
<1> SUFFICES ASSUME NEW S, S \subseteq Nat, S # {}
             PROVE \E m \in S : \A n \in S : m <= n
    OBVIOUS
<1>1. PICK m \in S : \A n \in S : ~ (<<n, m>> \in OpToRel(<, Nat))
    BY NatLessThanWellFounded, WFMin, Zenon
<1>2. \A n \in S : ~(n < m)
    BY <1>1 DEF OpToRel
<1>3. QED
    BY <1>2

\* Among waivers that cover a control there is a first, which licenses it.
LEMMA FirstCovers ==
    ASSUME NEW R \in SUBSET Waiver, NEW c, NEW b, NEW at, NEW claimed,
           NEW w \in Effective(R, at), Covers(w, c, b), ~Excludes(w, claimed)
    PROVE Covering(R, c, b, at, claimed) # {}
<1> DEFINE match == {x \in Effective(R, at) : Covers(x, c, b) /\ ~Excludes(x, claimed)}
           Times == {x.issued_at : x \in match}
<1>1. match \subseteq Waiver /\ w \in match
    BY DEF Effective, Active
<1>2. \A x \in match : x.issued_at \in Nat /\ IdRank[x.id] \in Nat
    BY <1>1, GateAssumption DEF Waiver
<1> HIDE DEF match
<1>3. PICK m \in Times : \A n \in Times : m <= n
    <2>1. Times \in SUBSET Nat /\ Times # {}
        BY <1>1, <1>2
    <2> HIDE DEF Times
    <2>2. QED
        BY <2>1, NatHasMin
<1> DEFINE first == {x \in match : x.issued_at = m}
           Ranks == {IdRank[x.id] : x \in first}
<1>4. PICK k \in Ranks : \A n \in Ranks : k <= n
    <2>1. Ranks \in SUBSET Nat /\ Ranks # {}
        BY <1>2
    <2> HIDE DEF Ranks
    <2>2. QED
        BY <2>1, NatHasMin
<1>5. PICK x \in first : IdRank[x.id] = k
    OBVIOUS
<1>6. \A y \in match : Sooner(x, y)
    <2> SUFFICES ASSUME NEW y \in match PROVE Sooner(x, y)
        OBVIOUS
    <2>1. x.issued_at = m /\ m <= y.issued_at /\ m \in Nat /\ y.issued_at \in Nat
        BY <1>2, <1>3
    <2>2. CASE y.issued_at = m
        BY <1>4, <1>5, <2>1, <2>2 DEF Sooner
    <2>3. CASE y.issued_at # m
        BY <2>1, <2>3 DEF Sooner
    <2>4. QED
        BY <2>2, <2>3
<1>7. QED
    BY <1>6 DEF Covering, match

-----------------------------------------------------------------------------
\* Claiming fewer identities never costs a grant: a waiver excludes fewer, the
\* verifier has fewer to differ from and an envelope has fewer to bound.
LEMMA FewerIdentities ==
    ASSUME NEW v \in View, NEW r, NEW s, NEW at,
           s = [r EXCEPT !.performer = Nobody], r \in Request,
           Evaluate(v, r, at).decision = "ALLOW"
    PROVE Evaluate(v, s, at).decision = "ALLOW"
<1> DEFINE b == BandOf[r.capability]
<1>1. /\ s.capability = r.capability /\ s.role = r.role /\ s.identity = r.identity
      /\ s.performer = Nobody /\ s.verifier = r.verifier /\ s.rollback_tested = r.rollback_tested
      /\ s.ratified = r.ratified /\ s.risk = r.risk /\ s.envelope_ref = r.envelope_ref
      /\ s.scope = r.scope /\ s.adjustments = r.adjustments
    BY DEF Request
<1>2. Claimed(s) \subseteq Claimed(r)
    BY <1>1 DEF Claimed
<1>3. /\ r.role \in Granting(b) /\ Passes(v, r, at) /\ RatificationComplete(r)
      /\ ~(r.risk >= EscalateAt)
    BY DecisionIs, Zenon
<1>4. \A x : Missing(v, x, at, Claimed(s)) \subseteq Missing(v, x, at, Claimed(r))
    <2> SUFFICES ASSUME NEW x, NEW c \in Unmet(v, x, at),
                        Covering(v.waivers, c, x, at, Claimed(r)) # {}
                 PROVE Covering(v.waivers, c, x, at, Claimed(s)) # {}
        BY DEF Missing
    <2>1. PICK w \in Effective(v.waivers, at) : Covers(w, c, x) /\ ~Excludes(w, Claimed(r))
        BY DEF Covering
    <2>2. ~Excludes(w, Claimed(s))
        BY <1>2, <2>1 DEF Excludes
    <2>3. v.waivers \in SUBSET Waiver
        BY DEF View
    <2>4. QED
        BY <2>1, <2>2, <2>3, FirstCovers
<1>5. AuthorityHolds(v, BandOf[s.capability], at, Claimed(s))
    BY <1>1, <1>3, <1>4 DEF Passes, AuthorityHolds
<1>6. \A e : EnvelopeApplies(e, v, r, at) => EnvelopeApplies(e, v, s, at)
    BY <1>1, <1>2 DEF EnvelopeApplies
<1>7. EnvelopeNamed(v, s, at) /\ EnvelopeKept(v, s, at)
    BY <1>1, <1>3, <1>6 DEF Passes, EnvelopeNamed, EnvelopeKept, WithinBounds
<1>8. VerifierIndependent(v, r, at) => VerifierIndependent(v, s, at)
    BY <1>1, <1>2 DEF VerifierIndependent
<1>9. EvidenceComplete(v, s, at) /\ RatificationComplete(s)
    BY <1>1, <1>3, <1>8 DEF Passes, EvidenceComplete, RatificationComplete
<1>10. /\ s.role \in Granting(BandOf[s.capability]) /\ Passes(v, s, at) /\ RatificationComplete(s)
       /\ ~(s.risk >= EscalateAt)
    BY <1>1, <1>3, <1>5, <1>7, <1>9 DEF Passes
<1>11. QED
    BY <1>10, DecisionIs, Zenon

\* Attesting a control turns no answer into a denial, and leaves what is owed.
LEMMA AttestingKeeps ==
    ASSUME NEW v \in View, NEW r \in Request, NEW at \in Nat, NEW c \in Controls,
           Evaluate(v, r, at).decision # "DENY"
    PROVE LET pass == [control |-> c, result |-> TRUE, issued_at |-> at]
              after == Evaluate([v EXCEPT !.atts = Recorded(@, pass)], r, at)
          IN  /\ after.decision = Evaluate(v, r, at).decision
              /\ after.obligations = Evaluate(v, r, at).obligations
<1> DEFINE pass == [control |-> c, result |-> TRUE, issued_at |-> at]
           u == [v EXCEPT !.atts = Recorded(@, pass)]
           b == BandOf[r.capability]
           d == Evaluate(v, r, at).decision
<1>1. u.atts = Recorded(v.atts, pass) /\ u.waivers = v.waivers /\ u.envelopes = v.envelopes
    BY DEF View
<1>2. \A x \in Controls : Holds(v.atts, x, at) => Holds(u.atts, x, at)
    <2> SUFFICES ASSUME NEW x \in Controls, Holds(v.atts, x, at)
                 PROVE Holds(u.atts, x, at)
        OBVIOUS
    <2>1. v.atts \in Store /\ MaxAge[x] \in Nat
        BY GateAssumption DEF View
    <2>2. CASE Recorded(v.atts, pass) = v.atts
        BY <1>1, <2>2
    <2>3. CASE Recorded(v.atts, pass) = [v.atts EXCEPT ![c] = pass] /\ x # c
        BY <1>1, <2>1, <2>3 DEF Holds, Store
    <2>4. CASE Recorded(v.atts, pass) = [v.atts EXCEPT ![c] = pass] /\ x = c
        <3>1. u.atts[x] = pass
            BY <1>1, <2>1, <2>4 DEF Store
        <3>2. IsCurrent(pass, MaxAge[x], at)
            BY <2>1 DEF IsCurrent
        <3>3. pass # NoRecord
            <4>1. pass \in Attestation
                BY DEF Attestation
            <4>2. NoRecord \notin Attestation
                BY GateAssumption
            <4> HIDE DEF pass
            <4>3. QED
                BY <4>1, <4>2
        <3>4. QED
            BY <3>1, <3>2, <3>3 DEF Holds
    <2>5. QED
        BY <2>2, <2>3, <2>4 DEF Recorded
<1> HIDE DEF u
<1>3. \A x \in Bands : Unmet(u, x, at) \subseteq Unmet(v, x, at)
    BY <1>2, GateAssumption DEF Unmet, MissingControls
<1>4. \A x \in Closure(b) : Missing(u, x, at, Claimed(r)) \subseteq Missing(v, x, at, Claimed(r))
    BY <1>1, <1>3 DEF Missing, Closure
<1>5. AuthorityHolds(v, b, at, Claimed(r)) => AuthorityHolds(u, b, at, Claimed(r))
    BY <1>4 DEF AuthorityHolds
<1>6. \A e : EnvelopeApplies(e, u, r, at) <=> EnvelopeApplies(e, v, r, at)
    BY DEF EnvelopeApplies
<1>7. Passes(v, r, at) => Passes(u, r, at)
    BY <1>1, <1>5, <1>6
    DEF Passes, EnvelopeNamed, EnvelopeKept, EvidenceComplete, VerifierIndependent
<1>8. \A s : LET e == Evaluate(s, r, at).decision
                 in == r.role \in Granting(b)
             IN  /\ e \in Decisions
                 /\ e = "DELEGATE" <=> ~in /\ Granting(b) # {}
                 /\ e = "WAIT_FOR_AUTHORITY" <=> in /\ Passes(s, r, at) /\ ~RatificationComplete(r)
                 /\ e = "ESCALATE" <=>
                      in /\ Passes(s, r, at) /\ RatificationComplete(r) /\ r.risk >= EscalateAt
                 /\ e = "ALLOW" <=>
                      in /\ Passes(s, r, at) /\ RatificationComplete(r) /\ ~(r.risk >= EscalateAt)
    BY DecisionIs, Zenon
<1>9. Evaluate(u, r, at).decision = d
    BY <1>7, <1>8 DEF Decisions
<1>10. Evaluate(u, r, at).obligations = Evaluate(v, r, at).obligations
    <2>1. CASE d \in {"WAIT_FOR_AUTHORITY", "ESCALATE", "ALLOW"}
        BY <1>9, <2>1, CarriedBy
    <2>2. CASE d = "DELEGATE"
        <3>1. r.role \notin Granting(b)
            BY <1>8, <2>2
        <3>2. QED
            BY <3>1 DEF Evaluate
    <2>3. QED
        BY <1>8, <2>1, <2>2 DEF Decisions
<1>11. QED
    BY <1>9, <1>10 DEF u

-----------------------------------------------------------------------------
\* Another spelling of the verifier, to the aggressive fold, is the same verifier.
LEMMA VerifierRespelled ==
    ASSUME NEW v, NEW r \in Request, NEW at, NEW q \in Principals,
           r.verifier # Nobody, Fold[q] = Fold[r.verifier]
    PROVE Evaluate(v, [r EXCEPT !.verifier = q], at) = Evaluate(v, r, at)
<1> DEFINE s == [r EXCEPT !.verifier = q]
<1>1. /\ s.capability = r.capability /\ s.role = r.role /\ s.identity = r.identity
      /\ s.performer = r.performer /\ s.verifier = q /\ s.rollback_tested = r.rollback_tested
      /\ s.ratified = r.ratified /\ s.risk = r.risk /\ s.envelope_ref = r.envelope_ref
      /\ s.scope = r.scope /\ s.adjustments = r.adjustments
    BY DEF Request
<1> HIDE DEF s
<1>2. Claimed(s) = Claimed(r) /\ q # Nobody
    BY <1>1, GateAssumption DEF Claimed
<1>3. AuthorityOver(v.envelopes, s.verifier, s.scope, at)
        = AuthorityOver(v.envelopes, r.verifier, r.scope, at)
    BY <1>1 DEF AuthorityOver
<1>4. VerifierIndependent(v, s, at) <=> VerifierIndependent(v, r, at)
    BY <1>1, <1>2, <1>3 DEF VerifierIndependent
<1>5. EvidenceComplete(v, s, at) <=> EvidenceComplete(v, r, at)
    BY <1>1, <1>4 DEF EvidenceComplete
<1>6. RatificationComplete(s) <=> RatificationComplete(r)
    BY <1>1 DEF RatificationComplete
<1>7. \A e : EnvelopeApplies(e, v, s, at) <=> EnvelopeApplies(e, v, r, at)
    BY <1>1, <1>2 DEF EnvelopeApplies
<1>8. /\ EnvelopeNamed(v, s, at) <=> EnvelopeNamed(v, r, at)
      /\ EnvelopeKept(v, s, at) <=> EnvelopeKept(v, r, at)
    BY <1>1, <1>7 DEF EnvelopeNamed, EnvelopeKept, WithinBounds
<1>9. Evaluate(v, s, at) = Evaluate(v, r, at)
    BY <1>1, <1>2, <1>5, <1>6, <1>8 DEF Evaluate
<1>10. QED
    BY <1>9 DEF s

\* Another spelling of the caller is the same caller to every check but the
\* envelope, to which it is another principal.
LEMMA CallerRespelled ==
    ASSUME NEW v, NEW r \in Request, NEW at, NEW q \in Principals,
           Fold[q] = Fold[r.identity], Strict[q] # Strict[r.identity],
           \A e, f \in v.envelopes : e.id = f.id => e = f
    PROVE IF r.capability \in EnvelopeBounded
          THEN ~(/\ Evaluate(v, r, at).decision = "ALLOW"
                 /\ Evaluate(v, [r EXCEPT !.identity = q], at).decision = "ALLOW")
          ELSE Evaluate(v, [r EXCEPT !.identity = q], at) = Evaluate(v, r, at)
<1> DEFINE s == [r EXCEPT !.identity = q]
           b == BandOf[r.capability]
<1>1. /\ s.capability = r.capability /\ s.role = r.role /\ s.identity = q
      /\ s.performer = r.performer /\ s.verifier = r.verifier /\ s.rollback_tested = r.rollback_tested
      /\ s.ratified = r.ratified /\ s.risk = r.risk /\ s.envelope_ref = r.envelope_ref
      /\ s.scope = r.scope /\ s.adjustments = r.adjustments
    BY DEF Request
<1> HIDE DEF s
<1>2. q \in Claimed(s) /\ r.identity \in Claimed(r)
    BY <1>1 DEF Claimed
<1>3. {Fold[i] : i \in Claimed(s)} = {Fold[i] : i \in Claimed(r)}
    BY <1>1 DEF Claimed
<1>4. CASE r.capability \in EnvelopeBounded
    <2> SUFFICES ASSUME Evaluate(v, r, at).decision = "ALLOW", Evaluate(v, s, at).decision = "ALLOW"
                 PROVE FALSE
        BY <1>4 DEF s
    <2>1. Passes(v, r, at) /\ Passes(v, s, at)
        BY DecisionIs, Zenon
    <2>2. PICK e \in v.envelopes : EnvelopeApplies(e, v, r, at)
        BY <1>4, <2>1 DEF Passes, EnvelopeNamed
    <2>3. PICK f \in v.envelopes : EnvelopeApplies(f, v, s, at)
        BY <1>1, <1>4, <2>1 DEF Passes, EnvelopeNamed
    <2>4. e = f
        BY <1>1, <2>2, <2>3 DEF EnvelopeApplies
    <2>5. Strict[r.identity] = Strict[e.principal] /\ Strict[q] = Strict[e.principal]
        BY <1>2, <2>2, <2>3, <2>4 DEF EnvelopeApplies, Bounds
    <2>6. QED
        BY <2>5
<1>5. CASE r.capability \notin EnvelopeBounded
    <2>1. /\ EnvelopeNamed(v, s, at) /\ EnvelopeNamed(v, r, at)
          /\ EnvelopeKept(v, s, at) /\ EnvelopeKept(v, r, at)
        BY <1>1, <1>5 DEF EnvelopeNamed, EnvelopeKept
    <2>2. \A w : Excludes(w, Claimed(s)) <=> Excludes(w, Claimed(r))
        BY <1>3 DEF Excludes
    <2>3. \A c, x : Covering(v.waivers, c, x, at, Claimed(s)) = Covering(v.waivers, c, x, at, Claimed(r))
        BY <2>2 DEF Covering
    <2>4. \A x : /\ LicensedBy(v, x, at, Claimed(s)) = LicensedBy(v, x, at, Claimed(r))
                 /\ Missing(v, x, at, Claimed(s)) = Missing(v, x, at, Claimed(r))
        BY <2>3 DEF LicensedBy, Missing
    <2>5. /\ RestsOn(v, b, at, Claimed(s)) = RestsOn(v, b, at, Claimed(r))
          /\ AuthorityHolds(v, b, at, Claimed(s)) <=> AuthorityHolds(v, b, at, Claimed(r))
        BY <2>4 DEF RestsOn, AuthorityHolds
    <2>6. VerifierIndependent(v, s, at) <=> VerifierIndependent(v, r, at)
        BY <1>1, <1>3 DEF VerifierIndependent
    <2>7. /\ EvidenceComplete(v, s, at) <=> EvidenceComplete(v, r, at)
          /\ RatificationComplete(s) <=> RatificationComplete(r)
        BY <1>1, <2>6 DEF EvidenceComplete, RatificationComplete
    <2>8. Evaluate(v, s, at) = Evaluate(v, r, at)
        BY <1>1, <2>1, <2>5, <2>7 DEF Evaluate
    <2>9. QED
        BY <1>5, <2>8 DEF s
<1>6. QED
    BY <1>4, <1>5

-----------------------------------------------------------------------------
(***************************************************************************)
(* The gate command.  The views that processes load are shown to be ones   *)
(* the first part speaks of (IInv), and a verdict id is followed from the  *)
(* evaluation to the sink and to the caller (TraceInv).                    *)
(***************************************************************************)

Line == EvidenceRecord \cup {Torn, Glued}

IdsTellApart(E) == \A e, f \in E : e.id = f.id => e = f

IInv ==
    /\ TypeOK
    /\ IdsTellApart(envelopes)
    /\ \A p \in Processes : IdsTellApart(view[p].envelopes)

-----------------------------------------------------------------------------
LEMMA PlainVerdict == \A d \in Decisions : Plain(d) \in Verdict
BY DEF Plain, Verdict

LEMMA EmptyViewIsAView == EmptyView \in View
BY DEF EmptyView, View, EmptyStore, Store

\* What the evaluation answers to a request is a verdict.
LEMMA Answered ==
    ASSUME NEW v \in View, NEW r \in Request, NEW at
    PROVE Evaluate(v, r, at) \in Verdict
<1> DEFINE b == BandOf[r.capability]
           rests == RestsOn(v, b, at, Claimed(r))
<1>1. b \in Bands
    BY GateAssumption DEF Request
<1>2. ObligationsOf(b) \subseteq Obligations
    BY <1>1, GateAssumption DEF ObligationsOf
<1>3. rests \subseteq WaiverIds
    <2>1. \A c, x : Covering(v.waivers, c, x, at, Claimed(r)) \subseteq Waiver
        BY DEF Covering, Effective, Active, View
    <2>2. \A x : LicensedBy(v, x, at, Claimed(r)) \subseteq Waiver
        BY <2>1 DEF LicensedBy
    <2>3. \A w \in Waiver : w.id \in WaiverIds
        BY DEF Waiver
    <2>4. QED
        BY <2>2, <2>3 DEF RestsOn
<1> HIDE DEF rests, b
<1>4. \A d \in Decisions : Resting(d, b, rests) \in Verdict
    BY <1>2, <1>3 DEF Resting, Verdict
<1>5. [Plain("DENY") EXCEPT !.obligations = ObligationsOf(b)] \in Verdict
    BY <1>2 DEF Plain, Verdict, Decisions
<1>6. \A d \in Decisions : Plain(d) \in Verdict
    BY PlainVerdict
<1>7. /\ "DELEGATE" \in Decisions /\ "DENY" \in Decisions /\ "ALLOW" \in Decisions
      /\ "ESCALATE" \in Decisions /\ "WAIT_FOR_AUTHORITY" \in Decisions
    BY DEF Decisions
<1>8. QED
    BY <1>4, <1>5, <1>6, <1>7, Zenon DEF Evaluate, b, rests

\* Whatever an append to the sink does, well or badly.
SinkSteps(p) == {sink, IF TornEnd THEN sink ELSE Append(sink, Torn), Written(p)}

LEMMA SinkStepTypes ==
    ASSUME TypeOK, NEW p \in Processes, verdict[p] \in Verdict, NEW s \in SinkSteps(p)
    PROVE s \in Seq(Line)
<1>1. sink \in Seq(Line)
    BY DEF TypeOK, Line
<1>2. RecordOf(verdict[p], ticket[p]) \in Line
    BY DEF TypeOK, RecordOf, EvidenceRecord, Verdict, Line
<1>3. TornEnd => [sink EXCEPT ![Len(sink)] = Glued] \in Seq(Line)
    BY <1>1 DEF TornEnd, Line
<1>4. Append(sink, Torn) \in Seq(Line) /\ Append(sink, RecordOf(verdict[p], ticket[p])) \in Seq(Line)
    BY <1>1, <1>2 DEF Line
<1>5. QED
    BY <1>1, <1>3, <1>4 DEF SinkSteps, Written

LEMMA RecordedIsAStore ==
    ASSUME NEW s \in Store, NEW a \in Attestation PROVE Recorded(s, a) \in Store
BY DEF Recorded, Store, Attestation

LEMMA Init_IInv == Init => IInv
<1> SUFFICES ASSUME Init PROVE IInv
    OBVIOUS
<1>1. atts \in Store /\ waivers \in SUBSET Waiver /\ envelopes \in SUBSET Envelope
    BY DEF Init, EmptyStore, Store
<1>2. sink \in Seq(Line)
    <2>1. Torn \in Line
        BY DEF Line
    <2>2. <<>> \in Seq(Line) /\ <<Torn>> \in Seq(Line)
        BY <2>1
    <2>3. sink = <<>> \/ sink = <<Torn>>
        BY DEF Init
    <2>4. QED
        BY <2>2, <2>3
<1>3. view \in [Processes -> View] /\ \A p \in Processes : view[p].envelopes = {}
    BY EmptyViewIsAView DEF Init, EmptyView
<1>4. TypeOK
    BY <1>1, <1>2, <1>3 DEF Init, TypeOK, Line
<1>5. QED
    BY <1>3, <1>4 DEF Init, IInv, IdsTellApart

\* A process that leaves takes nothing along.
LEMMA ForgetKeeps ==
    ASSUME IInv, NEW p \in Processes, Forget(p), UNCHANGED <<now, files, issued>>,
           sink' \in Seq(Line), told' \in SUBSET [verdict : Verdict, verdict_id : Nat, sinking : BOOLEAN]
    PROVE IInv'
<1>1. /\ pc' \in [Processes -> {"idle", "atts", "waivers", "loaded", "recording", "reporting"}]
      /\ view' \in [Processes -> View]
      /\ verdict' \in [Processes -> Verdict \cup {NoVerdict}]
      /\ ticket' \in [Processes -> Nat] /\ sinking' \in [Processes -> BOOLEAN]
    BY EmptyViewIsAView DEF IInv, TypeOK, Forget
<1>2. \A q \in Processes : pc'[q] \in {"recording", "reporting"} => verdict'[q] # NoVerdict
    BY DEF IInv, TypeOK, Forget
<1>3. TypeOK'
    BY <1>1, <1>2 DEF IInv, TypeOK, files, Line
<1>4. \A q \in Processes : view'[q].envelopes \in {view[q].envelopes, {}}
    BY DEF IInv, TypeOK, Forget, EmptyView
<1>5. QED
    BY <1>3, <1>4 DEF IInv, IdsTellApart, files

\* A process that holds a verdict has it recorded or not; either way the types stand.
LEMMA AppendKeeps ==
    ASSUME IInv, NEW p \in Processes, pc[p] = "recording",
           UNCHANGED <<now, files, issued, view, sinking, told>>,
           pc' = [pc EXCEPT ![p] = "reporting"],
           verdict' \in [Processes -> Verdict \cup {NoVerdict}], ticket' \in [Processes -> Nat],
           verdict'[p] # NoVerdict, \A q \in Processes \ {p} : verdict'[q] = verdict[q],
           sink' \in SinkSteps(p)
    PROVE IInv'
<1>1. verdict[p] \in Verdict
    BY DEF IInv, TypeOK
<1>2. sink' \in Seq(Line)
    BY <1>1, SinkStepTypes DEF IInv
<1>3. \A q \in Processes : pc'[q] \in {"recording", "reporting"} => verdict'[q] # NoVerdict
    BY DEF IInv, TypeOK
<1>4. TypeOK'
    BY <1>2, <1>3 DEF IInv, TypeOK, files, Line
<1>5. QED
    BY <1>4 DEF IInv, files

LEMMA Next_IInv == IInv /\ [Next]_vars => IInv'
<1> SUFFICES ASSUME IInv, [Next]_vars
             PROVE IInv'
    OBVIOUS
<1>1. CASE Tick
    BY <1>1, ServiceAssumption DEF Tick, IInv, TypeOK, files
<1>2. CASE Attest
    <2>1. PICK c \in Controls, r \in BOOLEAN :
            atts' = Recorded(atts, [control |-> c, result |-> r, issued_at |-> now])
        BY <1>2 DEF Attest
    <2>2. [control |-> c, result |-> r, issued_at |-> now] \in Attestation
        BY DEF IInv, TypeOK, Attestation
    <2>3. atts' \in Store
        BY <2>1, <2>2, RecordedIsAStore DEF IInv, TypeOK
    <2>4. QED
        BY <1>2, <2>3 DEF Attest, Change, IInv, TypeOK
<1>3. CASE Waive
    BY <1>3, ServiceAssumption DEF Waive, Change, IInv, TypeOK
<1>4. CASE Declare
    <2>1. envelopes' \in SUBSET Envelope /\ IdsTellApart(envelopes')
        BY <1>4, ServiceAssumption DEF Declare, ValidEnvelopes, IdsTellApart, IInv, TypeOK
    <2>2. QED
        BY <1>4, <2>1 DEF Declare, Change, IInv, TypeOK
<1>5. ASSUME NEW p \in Processes, LoadAttestations(p)
      PROVE IInv'
    <2>1. view' \in [Processes -> View]
          /\ \A q \in Processes : view'[q].envelopes = view[q].envelopes
        BY <1>5 DEF LoadAttestations, IInv, TypeOK, View
    <2>2. QED
        BY <1>5, <2>1 DEF LoadAttestations, IInv, TypeOK, files
<1>6. ASSUME NEW p \in Processes, LoadWaivers(p)
      PROVE IInv'
    <2>1. view' \in [Processes -> View]
          /\ \A q \in Processes : view'[q].envelopes = view[q].envelopes
        BY <1>6 DEF LoadWaivers, IInv, TypeOK, View
    <2>2. QED
        BY <1>6, <2>1 DEF LoadWaivers, IInv, TypeOK, files
<1>7. ASSUME NEW p \in Processes, LoadEnvelopes(p)
      PROVE IInv'
    <2>1. view' \in [Processes -> View]
          /\ \A q \in Processes : view'[q].envelopes \in {view[q].envelopes, envelopes}
        BY <1>7 DEF LoadEnvelopes, IInv, TypeOK, View
    <2>2. QED
        BY <1>7, <2>1 DEF LoadEnvelopes, IInv, TypeOK, files
<1>8. ASSUME NEW p \in Processes, EvaluateRequest(p)
      PROVE IInv'
    <2>1. PICK r \in Asked : verdict' = [verdict EXCEPT ![p] = Evaluate(view[p], r, now)]
        BY <1>8 DEF EvaluateRequest
    <2>2. view[p] \in View /\ r \in Request
        BY ServiceAssumption DEF IInv, TypeOK
    <2>3. Evaluate(view[p], r, now) \in Verdict
        BY <2>2, Answered
    <2>4. verdict' \in [Processes -> Verdict \cup {NoVerdict}] /\ verdict'[p] # NoVerdict
          /\ \A q \in Processes \ {p} : verdict'[q] = verdict[q]
        BY <2>1, <2>3, ServiceAssumption DEF IInv, TypeOK
    <2>5. view' \in [Processes -> View]
          /\ \A q \in Processes : view'[q].envelopes \in {view[q].envelopes, {}}
        BY <1>8, EmptyViewIsAView DEF EvaluateRequest, EmptyView, IInv, TypeOK
    <2>6. /\ pc' \in [Processes -> {"idle", "atts", "waivers", "loaded", "recording", "reporting"}]
          /\ ticket' \in [Processes -> Nat] /\ sinking' \in [Processes -> BOOLEAN]
          /\ issued' \in Nat
          /\ \A q \in Processes \ {p} : pc'[q] = pc[q]
        BY <1>8 DEF EvaluateRequest, IInv, TypeOK
    <2>7. TypeOK'
        BY <1>8, <2>4, <2>5, <2>6 DEF EvaluateRequest, IInv, TypeOK, files
    <2>8. QED
        BY <1>8, <2>5, <2>7 DEF EvaluateRequest, IInv, IdsTellApart, files
<1>9. ASSUME NEW p \in Processes, RecordDecision(p)
      PROVE IInv'
    <2>1. sink' \in SinkSteps(p)
        BY <1>9 DEF RecordDecision, SinkSteps
    <2>2. QED
        BY <1>9, <2>1, AppendKeeps DEF RecordDecision, IInv, TypeOK
<1>10. ASSUME NEW p \in Processes, NoSink(p)
       PROVE IInv'
    <2>1. sink' \in SinkSteps(p)
        BY <1>10 DEF NoSink, SinkSteps
    <2>2. ticket' \in [Processes -> Nat]
        BY <1>10 DEF NoSink, IInv, TypeOK
    <2>3. QED
        BY <1>10, <2>1, <2>2, AppendKeeps DEF NoSink, IInv, TypeOK
<1>11. ASSUME NEW p \in Processes, RecordFails(p)
       PROVE IInv'
    <2>1. sink' \in SinkSteps(p)
        BY <1>11 DEF RecordFails, Unwritten, SinkSteps
    <2>2. ticket' \in [Processes -> Nat]
        BY <1>11 DEF RecordFails, IInv, TypeOK
    <2>3. Plain("DENY") \in Verdict
        BY PlainVerdict DEF Decisions
    <2>4. verdict' \in [Processes -> Verdict \cup {NoVerdict}] /\ verdict'[p] # NoVerdict
          /\ \A q \in Processes \ {p} : verdict'[q] = verdict[q]
        BY <1>11, <2>3, ServiceAssumption DEF RecordFails, IInv, TypeOK
    <2>5. QED
        BY <1>11, <2>1, <2>2, <2>4, AppendKeeps DEF RecordFails
<1>12. ASSUME NEW p \in Processes, Report(p)
       PROVE IInv'
    <2>1. [verdict |-> verdict[p], verdict_id |-> ticket[p], sinking |-> sinking[p]]
            \in [verdict : Verdict, verdict_id : Nat, sinking : BOOLEAN]
        BY <1>12 DEF Report, IInv, TypeOK
    <2>2. QED
        BY <1>12, <2>1, ForgetKeeps DEF Report, IInv, TypeOK, Line
<1>13. ASSUME NEW p \in Processes, Exit(p)
       PROVE IInv'
    <2>1. sink' \in Seq(Line)
        <3>1. CASE pc[p] = "recording" /\ sinking[p]
            <4>1. sink' \in SinkSteps(p) /\ verdict[p] \in Verdict
                BY <1>13, <3>1 DEF Exit, Unwritten, SinkSteps, IInv, TypeOK
            <4>2. QED
                BY <4>1, SinkStepTypes DEF IInv
        <3>2. CASE ~(pc[p] = "recording" /\ sinking[p])
            BY <1>13, <3>2 DEF Exit, IInv, TypeOK, Line
        <3>3. QED
            BY <3>1, <3>2
    <2>2. QED
        BY <1>13, <2>1, ForgetKeeps DEF Exit, IInv, TypeOK
<1>14. CASE UNCHANGED vars
    BY <1>14 DEF vars, files, IInv, TypeOK
<1>15. QED
    BY <1>1, <1>2, <1>3, <1>4, <1>5, <1>6, <1>7, <1>8, <1>9, <1>10, <1>11, <1>12, <1>13, <1>14
    DEF Next

THEOREM TypeCorrect == Spec => []TypeOK
<1>1. IInv => TypeOK
    BY DEF IInv
<1>2. QED
    BY <1>1, Init_IInv, Next_IInv, PTL DEF Spec

-----------------------------------------------------------------------------
\* Naming a performer never gets a request through that would not get through
\* without one, in any view that a process has loaded.
THEOREM PerformerHolds == Spec => []PerformerNeverHelps
<1>1. ASSUME IInv
      PROVE PerformerNeverHelps
    <2>1. \A p \in Processes : view[p] \in View
        BY <1>1 DEF IInv, TypeOK
    <2>2. QED
        BY <2>1, FewerIdentities, ServiceAssumption DEF PerformerNeverHelps, Ready, Answer
<1>2. QED
    BY <1>1, Init_IInv, Next_IInv, PTL DEF Spec

\* No spelling of a name, the caller's or the verifier's, gets a request through.
THEOREM RespellingHolds == Spec => []RespellingNeverHelps
<1>1. ASSUME IInv
      PROVE RespellingNeverHelps
    <2>1. SUFFICES ASSUME NEW p \in Ready, NEW r \in Requests, NEW q \in Principals
          PROVE /\ r.verifier # Nobody /\ Fold[q] = Fold[r.verifier]
                     => Answer(p, [r EXCEPT !.verifier = q]) = Answer(p, r)
                /\ Fold[q] = Fold[r.identity] /\ Strict[q] # Strict[r.identity]
                     => IF r.capability \in EnvelopeBounded
                        THEN ~(/\ Answer(p, r).decision = "ALLOW"
                               /\ Answer(p, [r EXCEPT !.identity = q]).decision = "ALLOW")
                        ELSE Answer(p, [r EXCEPT !.identity = q]) = Answer(p, r)
        BY DEF RespellingNeverHelps
    <2>2. r \in Request /\ \A e, f \in view[p].envelopes : e.id = f.id => e = f
        BY <1>1, ServiceAssumption DEF IInv, IdsTellApart, Ready
    <2>3. QED
        BY <2>2, VerifierRespelled, CallerRespelled DEF Answer
<1>2. QED
    BY <1>1, Init_IInv, Next_IInv, PTL DEF Spec

\* Attesting a control never turns an answer into a denial, nor does it change
\* what the answer owes.
THEOREM EvidenceHolds == Spec => []EvidenceNeverHurts
<1>1. ASSUME IInv
      PROVE EvidenceNeverHurts
    <2>1. /\ \A p \in Processes : view[p] \in View
          /\ now \in Nat
        BY <1>1 DEF IInv, TypeOK
    <2>2. QED
        BY <2>1, AttestingKeeps, ServiceAssumption DEF EvidenceNeverHurts, Ready, Answer
<1>2. QED
    BY <1>1, Init_IInv, Next_IInv, PTL DEF Spec

\* A verdict names waivers exactly when a control in the closure is unproven.
THEOREM UnconditionalHolds == Spec => []UnconditionalMeansProven
<1>1. UnconditionalMeansProven
    <2>1. SUFFICES ASSUME NEW p \in Ready, NEW r \in Requests,
                          Answer(p, r).decision \in {"ALLOW", "ESCALATE", "WAIT_FOR_AUTHORITY"}
          PROVE Answer(p, r).waivers = {} <=>
                  \A b \in Closure(BandOf[r.capability]), c \in Controls :
                    c \in Requires[b] => Holds(view[p].atts, c, now)
        BY DEF UnconditionalMeansProven
    <2>2. Answer(p, r).waivers = {} <=>
            \A b \in Closure(BandOf[r.capability]) : \A c \in Requires[b] : Holds(view[p].atts, c, now)
        BY <2>1, ConditionalExactly DEF Answer
    <2>3. \A b \in Closure(BandOf[r.capability]) : Requires[b] \subseteq Controls
        BY GateAssumption DEF Closure
    <2>4. QED
        BY <2>2, <2>3
<1>2. QED
    BY <1>1, PTL

\* The guard and the gate differ where envelopes matter and nowhere else.
THEOREM GuardHolds == Spec => []GuardDiffersByEnvelopes
<1>1. ASSUME IInv
      PROVE GuardDiffersByEnvelopes
    <2>1. \A p \in Processes : view[p] \in View
        BY <1>1 DEF IInv, TypeOK
    <2>2. QED
        BY <2>1, GuardDiffers DEF GuardDiffersByEnvelopes, Ready, Answer
<1>2. QED
    BY <1>1, Init_IInv, Next_IInv, PTL DEF Spec

-----------------------------------------------------------------------------
(***************************************************************************)
(* An id is drawn by one evaluation, so at most one process holds it, at   *)
(* most one record bears it, and nobody is told it before its process      *)
(* reports.                                                                *)
(***************************************************************************)

\* What p is about to tell its caller.
Telling(p) == [verdict |-> verdict[p], verdict_id |-> ticket[p], sinking |-> sinking[p]]

\* t is traced in a sink that reads as records R, or does not read at all.
TracedIn(t, R, reads) ==
    /\ t.sinking /\ t.verdict.decision = "ALLOW" /\ "emit_evidence" \in t.verdict.obligations
         => (\E e \in R : e.verdict_id = t.verdict_id) \/ ~reads
    /\ \A e \in R : e.verdict_id = t.verdict_id =>
         e.decision = t.verdict.decision /\ e.obligations = t.verdict.obligations

Unused(n) == (\A e \in Records : e.verdict_id # n) /\ (\A t \in told : t.verdict_id # n)

TraceInv ==
    /\ IInv
    /\ \A e \in Records : e.verdict_id \in 1..issued
    /\ \A t \in told : t.verdict_id \in 0..issued
    /\ \A p \in Processes : ticket[p] \in 0..issued
    /\ \A p, q \in Processes : p # q /\ ticket[p] = ticket[q] => ticket[p] = 0
    /\ \A p \in Processes : ticket[p] # 0 => \A t \in told : t.verdict_id # ticket[p]
    /\ \A p \in Processes : pc[p] = "recording" => ticket[p] # 0 /\ Unused(ticket[p])
    /\ \A p \in Processes : pc[p] = "reporting" => TracedIn(Telling(p), Records, Readable)
    /\ \A t \in told : TracedIn(t, Records, Readable)

\* A sink that gained at most a record of another id still traces t.
LEMMA StillTraced ==
    ASSUME NEW t, NEW R, NEW S, NEW rec, NEW reads \in BOOLEAN, NEW later \in BOOLEAN,
           TracedIn(t, R, reads), R \subseteq S, S \subseteq R \cup {rec},
           ~reads => ~later, rec.verdict_id # t.verdict_id
    PROVE TracedIn(t, S, later)
BY DEF TracedIn

\* An append loses no record, adds that of the process at most, and never makes
\* a sink readable that was not.
LEMMA SinkGrows ==
    ASSUME TypeOK, NEW p \in Processes, verdict[p] \in Verdict, sink' \in SinkSteps(p)
    PROVE /\ Records \subseteq Records'
          /\ Records' \subseteq Records \cup {RecordOf(verdict[p], ticket[p])}
          /\ ~Readable => ~Readable'
          /\ sink' = Written(p) => RecordOf(verdict[p], ticket[p]) \in Records' \/ ~Readable'
<1> DEFINE rec == RecordOf(verdict[p], ticket[p])
<1>1. rec \in EvidenceRecord
    BY DEF TypeOK, RecordOf, EvidenceRecord, Verdict
<1>2. rec \notin {Torn, Glued}
    BY <1>1, LineAssumption
<1>3. sink \in Seq(Line) /\ sink' \in Seq(Line)
    BY SinkStepTypes DEF TypeOK, Line
<1> HIDE DEF rec
<1>4. CASE sink' = sink
    BY <1>3, <1>4 DEF Records, Readable, Written, TornEnd, rec, SinkSteps
<1>5. CASE ~TornEnd /\ sink' = Append(sink, Torn)
    BY <1>3, <1>5 DEF Records, Readable
<1>6. CASE ~TornEnd /\ sink' = Append(sink, rec)
    BY <1>2, <1>3, <1>6 DEF Records, Readable, rec
<1>7. CASE TornEnd /\ sink' = [sink EXCEPT ![Len(sink)] = Glued]
    BY <1>3, <1>7 DEF Records, Readable, TornEnd
<1>8. QED
    BY <1>4, <1>5, <1>6, <1>7 DEF SinkSteps, Written, rec

LEMMA Init_TraceInv == Init => TraceInv
<1> SUFFICES ASSUME Init PROVE TraceInv
    OBVIOUS
<1>1. Records = {}
    BY DEF Init, Records
<1>2. IInv
    BY Init_IInv
<1>3. QED
    BY <1>1, <1>2 DEF Init, TraceInv

\* Where the sink, the callers and the ids stay as they are.
LEMMA NothingToldKeeps ==
    ASSUME TraceInv, IInv', UNCHANGED <<sink, issued, verdict, ticket, sinking, told>>,
           \A p \in Processes : pc'[p] = pc[p] \/ pc'[p] \notin {"recording", "reporting"}
    PROVE TraceInv'
<1>1. Records' = Records /\ Readable' = Readable
    BY DEF Records, Readable
<1>2. \A p \in Processes : Telling(p)' = Telling(p)
    BY DEF Telling
<1>3. \A n : Unused(n)' <=> Unused(n)
    BY <1>1 DEF Unused
<1>4. QED
    BY <1>1, <1>2, <1>3 DEF TraceInv

\* p leaves, telling what is traced or nothing; an append it had begun may be there.
LEMMA LeavingKeeps ==
    ASSUME TraceInv, IInv', NEW p \in Processes, Forget(p), issued' = issued,
           \/ sink' = sink
           \/ pc[p] = "recording" /\ sink' \in SinkSteps(p),
           told' = told \/ (pc[p] = "reporting" /\ sink' = sink /\ told' = told \cup {Telling(p)})
    PROVE TraceInv'
<1> DEFINE rec == RecordOf(verdict[p], ticket[p])
<1>1. rec.verdict_id = ticket[p]
    BY DEF RecordOf
<1>2. /\ Records \subseteq Records'
      /\ Records' = Records \/ (pc[p] = "recording" /\ Records' \subseteq Records \cup {rec})
      /\ ~Readable => ~Readable'
    <2>1. CASE sink' = sink
        BY <2>1 DEF Records, Readable
    <2>2. CASE pc[p] = "recording" /\ sink' \in SinkSteps(p)
        BY <2>2, SinkGrows DEF TraceInv, IInv, TypeOK
    <2>3. QED
        BY <2>1, <2>2
<1> HIDE DEF rec
<1>3. /\ \A q \in Processes \ {p} : /\ pc'[q] = pc[q] /\ ticket'[q] = ticket[q]
                                    /\ Telling(q)' = Telling(q)
      /\ pc'[p] = "idle" /\ ticket'[p] = 0
    BY DEF Forget, Telling, TraceInv, IInv, TypeOK
<1>4. issued \in Nat /\ ticket[p] \in 0..issued /\ (pc[p] = "recording" => ticket[p] # 0)
    BY DEF TraceInv, IInv, TypeOK
<1>5. \A t \in told' : \/ t \in told
                       \/ pc[p] = "reporting" /\ sink' = sink /\ t = Telling(p) /\ t.verdict_id = ticket[p]
    BY DEF Telling
<1>6. \A e \in Records' : e.verdict_id \in 1..issued
    BY <1>1, <1>2, <1>4 DEF TraceInv
<1>7. \A t \in told' : t.verdict_id \in 0..issued
    BY <1>4, <1>5 DEF TraceInv
<1>8. \A q, o \in Processes : q # o /\ ticket'[q] = ticket'[o] => ticket'[q] = 0
    BY <1>3 DEF TraceInv
<1>9. \A q \in Processes : /\ ticket'[q] \in 0..issued
                           /\ ticket'[q] # 0 => \A t \in told' : t.verdict_id # ticket'[q]
    BY <1>3, <1>4, <1>5 DEF TraceInv
<1>10. \A q \in Processes : pc'[q] = "recording" =>
          ticket'[q] # 0 /\ \A e \in Records' : e.verdict_id # ticket'[q]
    BY <1>1, <1>2, <1>3, <1>4 DEF TraceInv, Unused
<1>11. \A t : (TracedIn(t, Records, Readable) /\ (pc[p] = "recording" => t.verdict_id # ticket[p])) =>
          TracedIn(t, Records', Readable')
    <2>1. Readable \in BOOLEAN /\ Readable' \in BOOLEAN
        BY DEF Readable
    <2>2. CASE pc[p] = "recording"
        BY <1>1, <1>2, <2>1, <2>2, StillTraced
    <2>3. CASE pc[p] # "recording"
        BY <1>2, <2>3 DEF TracedIn
    <2>4. QED
        BY <2>2, <2>3
<1>12. \A q \in Processes : pc'[q] = "reporting" => TracedIn(Telling(q)', Records', Readable')
    <2> SUFFICES ASSUME NEW q \in Processes, pc'[q] = "reporting"
                 PROVE TracedIn(Telling(q)', Records', Readable')
        OBVIOUS
    <2>1. q # p /\ pc[q] = "reporting" /\ Telling(q)' = Telling(q)
        BY <1>3
    <2>2. TracedIn(Telling(q), Records, Readable) /\ Telling(q).verdict_id = ticket[q]
        BY <2>1 DEF TraceInv, Telling
    <2>3. pc[p] = "recording" => ticket[q] # ticket[p]
        BY <1>4, <2>1 DEF TraceInv
    <2>4. QED
        BY <1>11, <2>1, <2>2, <2>3
<1>13. \A t \in told' : TracedIn(t, Records', Readable')
    <2> SUFFICES ASSUME NEW t \in told'
                 PROVE TracedIn(t, Records', Readable')
        OBVIOUS
    <2>1. CASE t \in told
        BY <1>4, <1>11, <2>1 DEF TraceInv
    <2>2. CASE pc[p] = "reporting" /\ t = Telling(p)
        BY <1>11, <2>2 DEF TraceInv
    <2>3. QED
        BY <1>5, <2>1, <2>2
<1>14. QED
    BY <1>6, <1>7, <1>8, <1>9, <1>10, <1>12, <1>13 DEF TraceInv, Unused

\* The evaluation draws an id that nothing has used.
LEMMA DrawnKeeps ==
    ASSUME TraceInv, IInv', NEW p \in Processes, EvaluateRequest(p)
    PROVE TraceInv'
<1>1. Records' = Records /\ Readable' = Readable /\ told' = told /\ issued' = issued + 1
    BY DEF Records, Readable, EvaluateRequest
<1>2. /\ pc[p] = "loaded" /\ pc'[p] = "recording" /\ ticket'[p] = issued'
      /\ \A q \in Processes \ {p} : /\ pc'[q] = pc[q] /\ ticket'[q] = ticket[q]
                                    /\ Telling(q)' = Telling(q)
    BY DEF EvaluateRequest, TraceInv, IInv, TypeOK, Telling
<1>3. issued \in Nat /\ ticket \in [Processes -> Nat]
    BY DEF TraceInv, IInv, TypeOK
<1>4. \A e \in Records : e.verdict_id # issued' /\ e.verdict_id \in 1..issued'
    BY <1>1, <1>3 DEF TraceInv
<1>5. \A t \in told : t.verdict_id # issued' /\ t.verdict_id \in 0..issued'
    BY <1>1, <1>3 DEF TraceInv
<1>6. \A q \in Processes : ticket[q] # issued' /\ ticket[q] \in 0..issued'
    BY <1>1, <1>3 DEF TraceInv
<1>7. issued' # 0 /\ issued' \in 0..issued'
    BY <1>1, <1>3
<1>8. \A q, o \in Processes : q # o /\ ticket'[q] = ticket'[o] => ticket'[q] = 0
    BY <1>2, <1>6 DEF TraceInv
<1>9. \A q \in Processes : /\ ticket'[q] \in 0..issued'
                           /\ ticket'[q] # 0 => \A t \in told' : t.verdict_id # ticket'[q]
    BY <1>1, <1>2, <1>5, <1>6, <1>7 DEF TraceInv
<1>10. \A q \in Processes : pc'[q] = "recording" =>
          /\ ticket'[q] # 0
          /\ (\A e \in Records' : e.verdict_id # ticket'[q]) /\ (\A t \in told' : t.verdict_id # ticket'[q])
    BY <1>1, <1>2, <1>4, <1>5, <1>7 DEF TraceInv, Unused
<1>11. \A q \in Processes : pc'[q] = "reporting" => TracedIn(Telling(q)', Records', Readable')
    BY <1>1, <1>2 DEF TraceInv
<1>12. \A t \in told' : TracedIn(t, Records', Readable')
    BY <1>1 DEF TraceInv
<1>13. (\A e \in Records' : e.verdict_id \in 1..issued') /\ (\A t \in told' : t.verdict_id \in 0..issued')
    BY <1>1, <1>4, <1>5
<1>14. QED
    BY <1>8, <1>9, <1>10, <1>11, <1>12, <1>13 DEF TraceInv, Unused

\* p turns from recording to reporting, with its id or without one, and what it
\* will tell is traced.
LEMMA TurningKeeps ==
    ASSUME TraceInv, IInv', NEW p \in Processes, pc[p] = "recording",
           pc' = [pc EXCEPT ![p] = "reporting"], UNCHANGED <<issued, told, sinking>>,
           ticket' \in {ticket, [ticket EXCEPT ![p] = 0]},
           \A q \in Processes \ {p} : verdict'[q] = verdict[q],
           sink' = sink \/ sink' \in SinkSteps(p),
           TracedIn(Telling(p)', Records', Readable')
    PROVE TraceInv'
<1> DEFINE rec == RecordOf(verdict[p], ticket[p])
<1>1. rec.verdict_id = ticket[p]
    BY DEF RecordOf
<1>2. /\ Records \subseteq Records' /\ Records' \subseteq Records \cup {rec}
      /\ ~Readable => ~Readable'
    <2>1. CASE sink' = sink
        BY <2>1 DEF Records, Readable
    <2>2. CASE sink' \in SinkSteps(p)
        BY <2>2, SinkGrows DEF TraceInv, IInv, TypeOK
    <2>3. QED
        BY <2>1, <2>2
<1> HIDE DEF rec
<1>3. /\ \A q \in Processes \ {p} : /\ pc'[q] = pc[q] /\ ticket'[q] = ticket[q]
                                    /\ Telling(q)' = Telling(q)
      /\ pc'[p] = "reporting" /\ ticket'[p] \in {ticket[p], 0}
    BY DEF Telling, TraceInv, IInv, TypeOK
<1>4. issued \in Nat /\ ticket[p] \in 1..issued /\ Unused(ticket[p])
    BY DEF TraceInv, IInv, TypeOK
<1>5. \A e \in Records' : e.verdict_id \in 1..issued
    BY <1>1, <1>2, <1>4 DEF TraceInv
<1>6. \A q, o \in Processes : q # o /\ ticket'[q] = ticket'[o] => ticket'[q] = 0
    BY <1>3 DEF TraceInv
<1>7. \A q \in Processes : /\ ticket'[q] \in 0..issued
                           /\ ticket'[q] # 0 => \A t \in told : t.verdict_id # ticket'[q]
    BY <1>3, <1>4 DEF TraceInv, Unused
<1>8. \A q \in Processes : pc'[q] = "recording" =>
          ticket'[q] # 0 /\ \A e \in Records' : e.verdict_id # ticket'[q]
    BY <1>1, <1>2, <1>3, <1>4 DEF TraceInv, Unused
<1>9. \A t : TracedIn(t, Records, Readable) /\ t.verdict_id # ticket[p] =>
         TracedIn(t, Records', Readable')
    <2>1. Readable \in BOOLEAN /\ Readable' \in BOOLEAN
        BY DEF Readable
    <2>2. QED
        BY <1>1, <1>2, <2>1, StillTraced
<1>10. \A q \in Processes : pc'[q] = "reporting" => TracedIn(Telling(q)', Records', Readable')
    <2> SUFFICES ASSUME NEW q \in Processes, q # p, pc'[q] = "reporting"
                 PROVE TracedIn(Telling(q)', Records', Readable')
        OBVIOUS
    <2>1. pc[q] = "reporting" /\ Telling(q)' = Telling(q)
        BY <1>3
    <2>2. TracedIn(Telling(q), Records, Readable) /\ Telling(q).verdict_id = ticket[q]
        BY <2>1 DEF TraceInv, Telling
    <2>3. ticket[q] # ticket[p]
        BY <1>4 DEF TraceInv
    <2>4. QED
        BY <1>9, <2>1, <2>2, <2>3
<1>11. \A t \in told' : TracedIn(t, Records', Readable')
    BY <1>4, <1>9 DEF TraceInv, Unused
<1>12. QED
    BY <1>5, <1>6, <1>7, <1>8, <1>10, <1>11 DEF TraceInv, Unused

LEMMA Next_TraceInv == TraceInv /\ [Next]_vars => TraceInv'
<1> SUFFICES ASSUME TraceInv, [Next]_vars
             PROVE TraceInv'
    OBVIOUS
<1>0. IInv /\ IInv'
    BY Next_IInv DEF TraceInv
<1>1. CASE Tick \/ Attest \/ Waive \/ Declare
    BY <1>0, <1>1, NothingToldKeeps DEF Tick, Attest, Waive, Declare
<1>2. ASSUME NEW p \in Processes, LoadAttestations(p) \/ LoadWaivers(p) \/ LoadEnvelopes(p)
      PROVE TraceInv'
    <2>1. \A q \in Processes : pc'[q] = pc[q] \/ pc'[q] \notin {"recording", "reporting"}
        BY <1>0, <1>2 DEF LoadAttestations, LoadWaivers, LoadEnvelopes, IInv, TypeOK
    <2>2. QED
        BY <1>0, <1>2, <2>1, NothingToldKeeps DEF LoadAttestations, LoadWaivers, LoadEnvelopes
<1>3. ASSUME NEW p \in Processes, EvaluateRequest(p)
      PROVE TraceInv'
    BY <1>0, <1>3, DrawnKeeps
<1>4. ASSUME NEW p \in Processes, RecordDecision(p)
      PROVE TraceInv'
    <2> DEFINE rec == RecordOf(verdict[p], ticket[p])
    <2>1. sink' \in SinkSteps(p) /\ sink' = Written(p) /\ verdict[p] \in Verdict
        BY <1>0, <1>4 DEF RecordDecision, SinkSteps, IInv, TypeOK
    <2>2. Records' \subseteq Records \cup {rec} /\ (rec \in Records' \/ ~Readable')
        BY <1>0, <2>1, SinkGrows DEF IInv
    <2>3. Telling(p)' = Telling(p)
        BY <1>4 DEF RecordDecision, Telling
    <2>4. Unused(ticket[p])
        BY <1>4 DEF RecordDecision, TraceInv
    <2>5. /\ rec.verdict_id = ticket[p] /\ rec.decision = verdict[p].decision
          /\ rec.obligations = verdict[p].obligations
        BY DEF RecordOf
    <2>6. Telling(p).verdict = verdict[p] /\ Telling(p).verdict_id = ticket[p]
        BY DEF Telling
    <2> HIDE DEF rec
    <2>7. TracedIn(Telling(p), Records', Readable')
        BY <2>2, <2>4, <2>5, <2>6 DEF TracedIn, Unused
    <2>8. QED
        BY <1>0, <1>4, <2>1, <2>3, <2>7, TurningKeeps DEF RecordDecision
<1>5. ASSUME NEW p \in Processes, NoSink(p)
      PROVE TraceInv'
    <2>1. Records' = Records /\ Readable' = Readable
        BY <1>5 DEF NoSink, Records, Readable
    <2>2. Telling(p)'.sinking = FALSE /\ Telling(p)'.verdict_id = 0
        BY <1>0, <1>5 DEF NoSink, Telling, IInv, TypeOK
    <2>3. \A e \in Records : e.verdict_id # 0
        BY <1>0 DEF TraceInv, IInv, TypeOK
    <2>4. TracedIn(Telling(p)', Records', Readable')
        BY <2>1, <2>2, <2>3 DEF TracedIn
    <2>5. QED
        BY <1>0, <1>5, <2>4, TurningKeeps DEF NoSink
<1>6. ASSUME NEW p \in Processes, RecordFails(p)
      PROVE TraceInv'
    <2>1. sink' \in SinkSteps(p) /\ verdict[p] \in Verdict
        BY <1>0, <1>6 DEF RecordFails, Unwritten, SinkSteps, IInv, TypeOK
    <2>2. Records' \subseteq Records \cup {RecordOf(verdict[p], ticket[p])}
        BY <1>0, <2>1, SinkGrows DEF IInv
    <2>3. \A e \in Records' : e.verdict_id # 0
        BY <1>0, <1>6, <2>2 DEF RecordFails, RecordOf, TraceInv, IInv, TypeOK
    <2>4. Telling(p)'.verdict_id = 0 /\ Telling(p)'.verdict = verdict'[p]
        BY <1>0, <1>6 DEF RecordFails, Telling, IInv, TypeOK
    <2>5. ~(verdict'[p].decision = "ALLOW" /\ "emit_evidence" \in verdict'[p].obligations)
        <3>1. Plain("DENY").decision # "ALLOW"
            BY DEF Plain
        <3>2. QED
            BY <1>0, <1>6, <3>1 DEF RecordFails, IInv, TypeOK
    <2>6. TracedIn(Telling(p)', Records', Readable')
        BY <2>3, <2>4, <2>5 DEF TracedIn
    <2>7. \A q \in Processes \ {p} : verdict'[q] = verdict[q]
        BY <1>0, <1>6 DEF RecordFails, IInv, TypeOK
    <2>8. QED
        BY <1>0, <1>6, <2>1, <2>6, <2>7, TurningKeeps DEF RecordFails
<1>7. ASSUME NEW p \in Processes, Report(p)
      PROVE TraceInv'
    BY <1>0, <1>7, LeavingKeeps DEF Report, Telling
<1>8. ASSUME NEW p \in Processes, Exit(p)
      PROVE TraceInv'
    <2>1. sink' = sink \/ (pc[p] = "recording" /\ sink' \in SinkSteps(p))
        <3>1. CASE pc[p] = "recording" /\ sinking[p]
            BY <1>8, <3>1 DEF Exit, Unwritten, SinkSteps
        <3>2. CASE ~(pc[p] = "recording" /\ sinking[p])
            BY <1>0, <1>8, <3>2 DEF Exit, IInv, TypeOK
        <3>3. QED
            BY <3>1, <3>2
    <2>2. Forget(p) /\ issued' = issued /\ told' = told
        BY <1>8 DEF Exit
    <2>3. QED
        BY <1>0, <2>1, <2>2, LeavingKeeps
<1>9. CASE UNCHANGED vars
    BY <1>0, <1>9, NothingToldKeeps DEF vars
<1>10. QED
    BY <1>1, <1>2, <1>3, <1>4, <1>5, <1>6, <1>7, <1>8, <1>9 DEF Next

\* Nobody is told ALLOW, where a trace is owed and a sink was given, without the
\* record of that ALLOW, and no record contradicts what was told under its id: for
\* any number of processes, failing and dying anywhere in their writes.
THEOREM TracedHolds == Spec => []ToldIsTraced
<1>1. TraceInv => ToldIsTraced
    BY DEF TraceInv, ToldIsTraced, TracedIn
<1>2. QED
    BY <1>1, Init_TraceInv, Next_TraceInv, PTL DEF Spec

-----------------------------------------------------------------------------
(***************************************************************************)
(* The assistant: what `neuraxis assist` lets an unattended agent do, for  *)
(* any hub record and any attestations.                                    *)
(***************************************************************************)

\* The request that the run makes for action a.
Asking(a, w) ==
    Decorated(Actionable, Drafter, w.identity, w.verifier, w.rollback_tested, LowRisk, ScopeOf[a.id])

LEMMA AskingIs ==
    \A a, w :
      LET r == Asking(a, w) IN
      /\ r.capability = Actionable /\ r.role = Drafter /\ r.identity = w.identity
      /\ r.verifier = w.verifier /\ r.rollback_tested = w.rollback_tested
      /\ r.ratified = FALSE /\ r.risk = LowRisk /\ r.scope = ScopeOf[a.id]
      /\ Claimed(r) = {w.identity}
BY DEF Asking, Decorated, Claimed

LEMMA NobodyBounded == \A who, s, at : AuthorityOver({}, who, s, at) = {}
BY DEF AuthorityOver

LEMMA BareViewIs ==
    \A store : BareView(store).atts = store /\ BareView(store).waivers = {} /\ BareView(store).envelopes = {}
BY DEF BareView

\* What an ALLOW to the run means, in terms of the registry and the attestations.
LEMMA AllowedMeans ==
    ASSUME NEW store, NEW a, NEW w, NEW at, AskGate(store, a, w, at).decision = "ALLOW"
    PROVE /\ \A x \in Closure(BandOf[Actionable]) : \A c \in Requires[x] : Holds(store, c, at)
          /\ Actionable \notin EnvelopeBounded /\ Actionable \notin NonDelegable
          /\ "human_ratification" \notin ObligationsOf(BandOf[Actionable])
          /\ "independent_verification" \in ObligationsOf(BandOf[Actionable]) =>
               w.verifier # Nobody /\ Fold[w.verifier] # Fold[w.identity]
          /\ "tested_rollback" \in ObligationsOf(BandOf[Actionable]) => w.rollback_tested
          /\ Drafter \in Granting(BandOf[Actionable]) /\ ~(LowRisk >= EscalateAt)
<1> DEFINE v == BareView(store)
           r == Asking(a, w)
           b == BandOf[Actionable]
<1>1. Evaluate(v, r, at).decision = "ALLOW"
    BY DEF AskGate, Asking
<1>2. /\ r.capability = Actionable /\ r.role = Drafter /\ r.identity = w.identity
      /\ r.verifier = w.verifier /\ r.rollback_tested = w.rollback_tested
      /\ ~r.ratified /\ r.risk = LowRisk /\ Claimed(r) = {w.identity}
    BY AskingIs
<1>3. v.atts = store /\ v.waivers = {} /\ v.envelopes = {}
    BY BareViewIs
<1> HIDE DEF v, r
<1>4. /\ r.role \in Granting(BandOf[r.capability]) /\ Passes(v, r, at) /\ RatificationComplete(r)
      /\ ~(r.risk >= EscalateAt)
    BY <1>1, DecisionIs, Zenon
<1>5. \A x \in Closure(b) : \A c \in Requires[x] : Holds(store, c, at)
    BY <1>1, <1>2, <1>3, UnwaivedIsProven
<1>6. Actionable \notin EnvelopeBounded
    BY <1>2, <1>3, <1>4 DEF Passes, EnvelopeNamed
<1>7. Actionable \notin NonDelegable /\ "human_ratification" \notin ObligationsOf(b)
    BY <1>2, <1>4 DEF RatificationComplete
<1>8. /\ "independent_verification" \in ObligationsOf(b) =>
           w.verifier # Nobody /\ Fold[w.verifier] # Fold[w.identity]
      /\ "tested_rollback" \in ObligationsOf(b) => w.rollback_tested
    BY <1>2, <1>4 DEF Passes, EvidenceComplete, VerifierIndependent
<1>9. QED
    BY <1>2, <1>4, <1>5, <1>6, <1>7, <1>8

\* The report allows exactly where it lists something executable, and it lists
\* nothing that the record or the gate has not left to an agent.
LEMMA AllowsWhatIsExecutable ==
    ASSUME NEW k, NEW mapped, NEW store, NEW w, NEW at
    PROVE Decision(k, mapped, store, w, at) = "ALLOW" <=> Executable(k, mapped, store, w, at) # {}
<1> DEFINE d == Decision(k, mapped, store, w, at)
           x == Executable(k, mapped, store, w, at)
<1>1. x # {} => Resumed(k)
    BY DEF Executable
<1>2. CASE Resumed(k)
    BY <1>2 DEF Decision, Resumed
<1>3. CASE ~Resumed(k)
    <2>1. \A r \in Resumes : r # "CONTINUE" => DecisionForResume[r] # "ALLOW"
        BY DEF Resumes, DecisionForResume
    <2>2. Sound(k) => k.state.resume_decision \in Resumes
        BY DEF Sound
    <2>3. d # "ALLOW"
        BY <1>3, <2>1, <2>2 DEF Decision, Resumed
    <2>4. QED
        BY <1>1, <1>3, <2>3
<1>4. QED
    BY <1>2, <1>3

\* The run grants what an agent may do unattended only where every control in the
\* closure of the band is proven, waived never (assist hands the gate no waivers),
\* and only to a run whose verifier is named and somebody else and whose rollback
\* was tested, where a control of the band asks for them.
THEOREM UnattendedIsUnwaived ==
    ASSUME NEW k, NEW mapped, NEW store, NEW w, NEW at,
           Decision(k, mapped, store, w, at) = "ALLOW"
    PROVE /\ \A x \in Closure(BandOf[Actionable]) : \A c \in Requires[x] : Holds(store, c, at)
          /\ "independent_verification" \in ObligationsOf(BandOf[Actionable]) =>
               w.verifier # Nobody /\ Fold[w.verifier] # Fold[w.identity]
          /\ "tested_rollback" \in ObligationsOf(BandOf[Actionable]) => w.rollback_tested
          /\ Actionable \notin NonDelegable
<1>1. PICK i \in Executable(k, mapped, store, w, at) : TRUE
    BY AllowsWhatIsExecutable
<1>2. AskGate(store, k.actions[i], w, at).decision = "ALLOW"
    BY <1>1 DEF Executable
<1>3. QED
    BY <1>2, AllowedMeans

\* The gate's answer to the run is the same for every action of a record: the one
\* thing that differs between the requests is the scope, which only envelopes are
\* held against, and the run loads none.  So the report lists all that the clauses
\* leave to an agent, or nothing.
THEOREM OneAnswerForAll ==
    ASSUME NEW k, NEW mapped, NEW store, NEW w, NEW at
    PROVE Executable(k, mapped, store, w, at) \in {{}, Granted(k, mapped)}
<1>1. ASSUME NEW a, NEW c, AskGate(store, a, w, at).decision = "ALLOW"
      PROVE AskGate(store, c, w, at).decision = "ALLOW"
    <2> DEFINE v == BareView(store)
               r == Asking(a, w)
               s == Asking(c, w)
    <2>1. /\ r.capability = Actionable /\ s.capability = Actionable
          /\ r.role = s.role /\ r.verifier = s.verifier /\ r.rollback_tested = s.rollback_tested
          /\ r.ratified = s.ratified /\ r.risk = s.risk /\ Claimed(r) = Claimed(s)
        BY AskingIs
    <2>2. v.envelopes = {}
        BY BareViewIs
    <2>3. Evaluate(v, r, at).decision = "ALLOW"
        BY <1>1 DEF AskGate, Asking
    <2>4. Actionable \notin EnvelopeBounded
        BY <1>1, AllowedMeans
    <2> HIDE DEF v, r, s
    <2>5. /\ r.role \in Granting(BandOf[Actionable]) /\ Passes(v, r, at) /\ RatificationComplete(r)
          /\ ~(r.risk >= EscalateAt)
        BY <2>1, <2>3, DecisionIs, Zenon
    <2>6. EnvelopeNamed(v, s, at) /\ EnvelopeKept(v, s, at)
        BY <2>1, <2>4 DEF EnvelopeNamed, EnvelopeKept
    <2>7. EvidenceComplete(v, s, at)
        BY <2>1, <2>2, <2>5, NobodyBounded DEF Passes, EvidenceComplete, VerifierIndependent
    <2>8. Passes(v, s, at)
        BY <2>1, <2>5, <2>6, <2>7 DEF Passes
    <2>9. RatificationComplete(s)
        BY <2>1, <2>5 DEF RatificationComplete
    <2>10. Evaluate(v, s, at).decision = "ALLOW"
        BY <2>1, <2>5, <2>8, <2>9, DecisionIs, Zenon
    <2>11. QED
        BY <2>10 DEF v, s, AskGate, Asking
<1>2. CASE Executable(k, mapped, store, w, at) = {}
    BY <1>2
<1>3. CASE Executable(k, mapped, store, w, at) # {}
    BY <1>1, <1>3 DEF Executable
<1>4. QED
    BY <1>2, <1>3

\* What the run grants, the gate command asked the same on the same attestations
\* grants as well, whatever its waivers; it differs only where the verifier has a
\* stake under an envelope, of which the run knows nothing.
THEOREM AssistFollowsTheGate ==
    ASSUME NEW k, NEW mapped, NEW v \in View, NEW w, NEW at,
           NEW i \in Executable(k, mapped, v.atts, w, at),
           AuthorityOver(v.envelopes, w.verifier, ScopeOf[k.actions[i].id], at) = {}
    PROVE Evaluate(v, Asking(k.actions[i], w), at).decision = "ALLOW"
<1> DEFINE u == BareView(v.atts)
           r == Asking(k.actions[i], w)
           b == BandOf[Actionable]
<1>1. AskGate(v.atts, k.actions[i], w, at).decision = "ALLOW"
    BY DEF Executable
<1>2. Evaluate(u, r, at).decision = "ALLOW"
    BY <1>1 DEF AskGate, Asking
<1>3. /\ r.capability = Actionable /\ r.verifier = w.verifier /\ r.identity = w.identity
      /\ r.scope = ScopeOf[k.actions[i].id]
    BY AskingIs
<1>4. /\ \A x \in Closure(b) : \A c \in Requires[x] : Holds(v.atts, c, at)
      /\ Actionable \notin EnvelopeBounded
    BY <1>1, AllowedMeans
<1> HIDE DEF u, r
<1>5. /\ r.role \in Granting(b) /\ Passes(u, r, at) /\ RatificationComplete(r)
      /\ ~(r.risk >= EscalateAt)
    BY <1>2, <1>3, DecisionIs, Zenon
<1>6. AuthorityHolds(v, b, at, Claimed(r))
    BY <1>4 DEF AuthorityHolds, Missing, Unmet, MissingControls
<1>7. EnvelopeNamed(v, r, at) /\ EnvelopeKept(v, r, at)
    BY <1>3, <1>4 DEF EnvelopeNamed, EnvelopeKept
<1>8. EvidenceComplete(v, r, at)
    BY <1>3, <1>5 DEF Passes, EvidenceComplete, VerifierIndependent
<1>9. Passes(v, r, at)
    BY <1>3, <1>6, <1>7, <1>8 DEF Passes
<1>10. Evaluate(v, r, at).decision = "ALLOW"
    BY <1>3, <1>5, <1>9, DecisionIs, Zenon
<1>11. QED
    BY <1>10 DEF r

\* A caller that passes a mapping of its own, with whatever roles in it, never
\* gets more than the mapping of the package gives.
THEOREM NarrowingNeverGrants ==
    ASSUME NEW k, NEW roles, NEW store, NEW w, NEW at
    PROVE Executable(k, Narrowed(roles), store, w, at) \subseteq Executable(k, HubRoles, store, w, at)
BY DEF Executable, Granted, LeftToAgents, Narrowed

-----------------------------------------------------------------------------
\* What a run reads of a hub that changes after the first of its files was read.
ReadAcross(k, l) ==
    [legible |-> k.legible /\ l.legible, state |-> k.state, work_package_id |-> l.work_package_id,
     actions |-> l.actions, checkpoint_found |-> l.checkpoint_found, reachable |-> l.reachable]

\* A hub with one action, left to agents or to people, and a resume decision.
Hub(wp, a, resume, left) ==
    [legible |-> TRUE,
     state |-> [work_package_id |-> wp, resume_decision |-> resume, primary_next_action_id |-> a,
                latest_checkpoint |-> "named", baseline_commit |-> "none"],
     work_package_id |-> wp,
     actions |-> <<[id |-> a, owner_role |-> "documentation-engineer", granted |-> left = "agents",
                    reserved |-> FALSE, primary |-> TRUE, priority |-> 1,
                    stops_agents |-> FALSE, evidence |-> "agent"]>>,
     checkpoint_found |-> TRUE, reachable |-> TRUE]

LEMMA HubIs ==
    ASSUME NEW wp \in WorkPackages, NEW a \in ActionIds, NEW resume \in Resumes,
           NEW left \in {"agents", "people"}
    PROVE /\ Hub(wp, a, resume, left) \in Record
          /\ Loads(Hub(wp, a, resume, left)) /\ Sound(Hub(wp, a, resume, left))
          /\ left = "agents" => Granted(Hub(wp, a, resume, left), HubRoles) = {1}
          /\ left = "people" => Granted(Hub(wp, a, resume, left), HubRoles) = {}
          /\ Hub(wp, a, resume, left).actions[1].id = a
          /\ Hub(wp, a, resume, left).state.resume_decision = resume
<1> DEFINE k == Hub(wp, a, resume, left)
           x == [id |-> a, owner_role |-> "documentation-engineer", granted |-> left = "agents",
                 reserved |-> FALSE, primary |-> TRUE, priority |-> 1,
                 stops_agents |-> FALSE, evidence |-> "agent"]
<1>1. /\ k.legible /\ k.checkpoint_found /\ k.reachable /\ k.work_package_id = wp
      /\ k.state.work_package_id = wp /\ k.state.resume_decision = resume
      /\ k.state.primary_next_action_id = a /\ k.state.latest_checkpoint = "named"
      /\ k.state.baseline_commit = "none" /\ k.actions = <<x>>
    BY DEF Hub
<1>2. x \in NextAction /\ x.id = a /\ x.primary = TRUE /\ x.priority = 1
      /\ (LeftToAgents(x, HubRoles) <=> left = "agents")
    <2>1. x \in NextAction
        BY DEF NextAction, HubRoles
    <2>2. x.id = a /\ x.primary = TRUE /\ x.priority = 1
        OBVIOUS
    <2>3. LeftToAgents(x, HubRoles) <=> left = "agents"
        BY DEF LeftToAgents, HubRoles
    <2>4. QED
        BY <2>1, <2>2, <2>3
<1>3. <<x>> \in Seq(NextAction)
    BY <1>2
<1>4. k.state \in HubState
    BY DEF Hub, HubState
<1>5. k \in Record
    BY <1>3, <1>4 DEF Hub, Record
<1> HIDE DEF x, k
<1>6. Len(k.actions) = 1 /\ k.actions[1] = x
    BY <1>1, <1>3
<1>7. (left = "agents" => Granted(k, HubRoles) = {1}) /\ (left = "people" => Granted(k, HubRoles) = {})
    BY <1>2, <1>6 DEF Granted
<1>8. Loads(k)
    BY <1>1, <1>6 DEF Loads
<1>9. {k.actions[i].priority : i \in 1..Len(k.actions)} = 1..Len(k.actions)
    BY <1>2, <1>6
<1>10. Sound(k)
    BY <1>1, <1>2, <1>6, <1>9 DEF Sound
<1>11. QED
    BY <1>1, <1>2, <1>5, <1>6, <1>7, <1>8, <1>10 DEF k

LEMMA ClassifierIsLive == Live
BY DEF Live, LeftToAgents, ProbeAgent, ProbeHuman, HubRoles

\* The two files of the hub are read one after the other, and nothing ties what was
\* read to one commit of it: where the gate allows, the state of a hub that has only
\* a person's work left and the actions of the one it becomes, which is blocked,
\* make a record that permits what neither of them does.
THEOREM MixedReadPermits ==
    ASSUME NEW wp \in WorkPackages, NEW a \in ActionIds, NEW store, NEW w, NEW at,
           AskGate(store, [id |-> a], w, at).decision = "ALLOW"
    PROVE \E before, after \in Record :
            /\ Executable(before, HubRoles, store, w, at) = {}
            /\ Executable(after, HubRoles, store, w, at) = {}
            /\ Decision(ReadAcross(before, after), HubRoles, store, w, at) = "ALLOW"
<1> DEFINE before == Hub(wp, a, "CONTINUE", "people")
           after == Hub(wp, a, "BLOCKED", "agents")
           read == Hub(wp, a, "CONTINUE", "agents")
<1>1. "CONTINUE" \in Resumes /\ "BLOCKED" \in Resumes
    BY DEF Resumes
<1>2. before \in Record /\ Granted(before, HubRoles) = {}
    BY <1>1, HubIs
<1>3. after \in Record /\ after.state.resume_decision = "BLOCKED"
    BY <1>1, HubIs
<1>4. /\ Loads(read) /\ Sound(read) /\ Granted(read, HubRoles) = {1} /\ read.actions[1].id = a
      /\ read.state.resume_decision = "CONTINUE"
    BY <1>1, HubIs
<1>5. ReadAcross(before, after) = read
    BY DEF ReadAcross, Hub
<1> HIDE DEF before, after, read
<1>6. Executable(before, HubRoles, store, w, at) = {}
    BY <1>2 DEF Executable
<1>7. Executable(after, HubRoles, store, w, at) = {}
    BY <1>3 DEF Executable, Resumed
<1>8. AskGate(store, read.actions[1], w, at).decision = "ALLOW"
    BY <1>4 DEF AskGate
<1>9. 1 \in Executable(read, HubRoles, store, w, at)
    BY <1>4, <1>8, ClassifierIsLive DEF Executable, Resumed
<1>10. Decision(read, HubRoles, store, w, at) = "ALLOW"
    BY <1>9, AllowsWhatIsExecutable
<1>11. QED
    BY <1>2, <1>3, <1>5, <1>6, <1>7, <1>10
===============================================================================
