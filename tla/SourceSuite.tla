----------------------------- MODULE SourceSuite -----------------------------
(***************************************************************************)
(* `neuraxis conform`: a source of attestations, an executable that        *)
(* answers on stdout, is run once in each scenario of its control's kind   *)
(* and conforms when every answer is the one its scenario demands.         *)
(*                                                                         *)
(* The source plays every scenario itself, so a trial is any function from *)
(* scenarios to outputs.  Its exit code is recorded and read by no rule.   *)
(***************************************************************************)
EXTENDS GateContract

CONSTANTS
    References,     \* what an evidence_ref may be once stripped, "" included
    Blank,          \* ""
    Unlocating,     \* the ones in _EMPTY_EVIDENCE or under _MIN_EVIDENCE_REF
    NoString        \* no string where one is due

SourceScenarios == {"live", "positive", "negative", "broken", "powerless"}

\* A kind that is not known is treated as a probe.
Required(kind) ==
    IF kind = "audit" THEN SourceScenarios \ {"powerless"} ELSE SourceScenarios

\* One run of the source: a JSON object on stdout, anything else, or nothing
\* before the time limit.
Output ==
    [end : {"object", "illegible", "hung"}, result : {"pass", "fail", "other"},
     control : Controls \cup {NoString}, issued_at : {"zoned", "naive", "other"},
     evidence_ref : References \cup {NoString}]

Trial == [SourceScenarios -> Output]

-----------------------------------------------------------------------------
ResultOf(o) == IF o.end = "object" THEN o.result ELSE "other"

\* _timestamp_fault and _evidence_fault find nothing in an attestation.
Carries(o) ==
    /\ o.issued_at = "zoned"
    /\ o.evidence_ref \notin Unlocating \cup {NoString}

\* constant_ref.  A reference that is left out or empty is not compared.
OneReference(kind, t) ==
    LET Citing == {s \in Required(kind) :
                     t[s].end = "object" /\ t[s].evidence_ref \notin {Blank, NoString}}
    IN  /\ \E s, u \in Citing : s # u
        /\ \A s, u \in Citing : t[s].evidence_ref = t[u].evidence_ref

\* The live run may say either word, and is the only one whose control is looked at.
LiveSound(c, kind, t) ==
    /\ ResultOf(t["live"]) # "other" /\ Carries(t["live"])
    /\ t["live"].control = c
    /\ ~OneReference(kind, t)

Demanded == [positive |-> "pass", negative |-> "fail", broken |-> "fail", powerless |-> "fail"]

\* ConformanceReport.conforms
SourceConforms(c, kind, t) ==
    /\ LiveSound(c, kind, t)
    /\ \A s \in Required(kind) \ {"live"} : ResultOf(t[s]) = Demanded[s] /\ Carries(t[s])

\* cmd_conform.  A control the registry does not know, or a source that cannot be
\* started, is an error and no verdict.
ConformExit(c, kind, startable, t) ==
    IF c \notin Controls \/ ~startable THEN ExitError
    ELSE IF SourceConforms(c, kind, t) THEN ExitOf["ALLOW"]
    ELSE ExitOf["DENY"]
=============================================================================
