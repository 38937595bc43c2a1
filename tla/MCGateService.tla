---------------------------- MODULE MCGateService ----------------------------
(***************************************************************************)
(* GateService on a registry of two bands, one behind the other, and three *)
(* capabilities: a plain one, one on the non-delegable floor and one that  *)
(* is bounded by envelopes.  ann and Ann differ in spelling only.          *)
(***************************************************************************)
EXTENDS GateService

CONSTANTS A, B, GV03, GV04, read, merge, tune, agent, guest, ann, Ann, bob,
          w1, w2, e1, e2, lessons, inside, elsewhere, garbled, small, large, MaxEnvelopeTtl

MCFold == [i \in Principals |-> IF i = Ann THEN ann ELSE i]
MCStrict == [i \in Principals |-> i]
MCUnder == [s \in Scopes |-> IF s = inside THEN {lessons} ELSE {}]
MCMaxAge == [c \in Controls |-> 1]
MCRank == [w \in WaiverIds |-> IF w = w1 THEN 1 ELSE 2]
MCDependsOn == [b \in Bands |-> IF b = B THEN {A} ELSE {}]
MCRequires == [b \in Bands |-> IF b = B THEN {GV03, GV04} ELSE {GV04}]
MCOwed == [c \in Controls |-> IF c = GV03 THEN {"emit_evidence"} ELSE {"independent_verification"}]
MCBandOf == [c \in Capabilities |-> IF c = read THEN A ELSE B]
MCGrants == [r \in Roles |-> IF r = agent THEN {A, B} ELSE {}]
MCRegistryPolicy == [signers |-> {bob}, max_ttl |-> 1]
MCRegisterPolicy == [signers |-> {}, max_ttl |-> MaxEnvelopeTtl]

Window(id, by, bands, from, renews) ==
    [id |-> id, control |-> GV04, bands |-> bands, accountable |-> bob, issued_by |-> by,
     issued_at |-> from, expires_at |-> from + 1, renews |-> renews]
MCWaiverPool == {Window(w1, bob, {A, B}, 0, NoWaiver), Window(w2, ann, {B}, 1, w1), Window(w2, bob, {B}, 0, NoWaiver)}

Bound(id, of, by, ttl) ==
    [id |-> id, principal |-> of, capability |-> tune, signed_by |-> by, targets |-> {lessons},
     limits |-> {small}, issued_at |-> 0, expires_at |-> ttl]
MCEnvelopePool == {Bound(e1, ann, bob, 1), Bound(e1, ann, bob, 2), Bound(e2, bob, ann, 1)}

Base ==
    [capability |-> read, role |-> agent, identity |-> ann, performer |-> Nobody, verifier |-> bob,
     rollback_tested |-> TRUE, ratified |-> TRUE, risk |-> 0, envelope_ref |-> NoEnvelope,
     scope |-> inside, adjustments |-> {}]

MCRequests ==
    {[Base EXCEPT !.role = g, !.capability = c, !.identity = i, !.verifier = v, !.risk = k] :
       g \in Roles, c \in {read, merge}, i \in {ann, bob}, v \in {Ann, bob}, k \in 0..1}
    \cup {[Base EXCEPT !.capability = merge, !.ratified = FALSE]}
    \cup {[Base EXCEPT !.performer = q, !.verifier = v] : q, v \in {bob, Ann}}
    \cup {[Base EXCEPT !.capability = tune, !.performer = q, !.envelope_ref = e,
                       !.adjustments = a, !.scope = s] :
            q \in {Nobody, Ann}, e \in EnvelopeIds, a \in {{small}, {small, large}}, s \in {inside, garbled}}

\* One request of each outcome: allowed, refused for its verifier, escalated,
\* waiting for a ratification.
MCAsked ==
    {[Base EXCEPT !.capability = merge], [Base EXCEPT !.verifier = ann],
     [Base EXCEPT !.risk = 1], [Base EXCEPT !.capability = merge, !.ratified = FALSE]}
=============================================================================
