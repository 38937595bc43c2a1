-------------------------------- MODULE Assist --------------------------------
(***************************************************************************)
(* `neuraxis assist`: which of the actions recorded in another             *)
(* repository, the hub, an unattended agent may perform now.  The record   *)
(* has to be sound as a whole, its clauses have to leave the action to an  *)
(* agent, and the gate, built without waivers and envelopes, has to allow  *)
(* it: each stage only removes permission.                                 *)
(*                                                                         *)
(* An action is what its fields say to the clauses: whether its authority  *)
(* holds a grant phrase and a reserving token, whether a stop condition    *)
(* names an agent, who can produce its evidence.  Its prerequisites and    *)
(* fallback are read by no rule, and neither are the branch, the           *)
(* uncommitted changes and the commit that git reports.                    *)
(* A caller that brings a gate of its own is left out.                     *)
(***************************************************************************)
EXTENDS Guard, Sequences

CONSTANTS
    Drafter,        \* the one role that HUB_ROLE_TO_NEURAXIS maps to
    ActionIds, WorkPackages,
    NoAction,       \* the empty primary_next_action_id
    Actionable,     \* the capability IL-06
    LowRisk,        \* the rank of the risk of a request that names none
    ScopeOf         \* ScopeOf[a], the scope of a request about action a

HubRoles == {"documentation-engineer", "continuity-engineer", "validation-engineer"}

Resumes == {"CONTINUE", "BLOCKED", "WAIT_FOR_AUTHORITY", "RECOVERY_REQUIRED", "COMPLETE"}

\* A priority of 0 stands for none and for any that no record may have.
NextAction ==
    [id : ActionIds, owner_role : HubRoles \cup {"human-reviewer", "other"},
     granted : BOOLEAN, reserved : BOOLEAN, primary : BOOLEAN, priority : Nat, stops_agents : BOOLEAN,
     evidence : {"none", "agent", "human"}]

HubState ==
    [work_package_id : WorkPackages, resume_decision : Resumes \cup {"unknown"},
     primary_next_action_id : ActionIds \cup {NoAction},
     latest_checkpoint : {"none", "named"}, baseline_commit : {"none", "sha", "other"}]

\* What one run has read, each part at a moment of its own: current-state.json,
\* next-actions.json, whether the checkpoint is a file, whether git told a commit.
Record ==
    [legible : BOOLEAN, state : HubState, work_package_id : WorkPackages,
     actions : Seq(NextAction), checkpoint_found : BOOLEAN, reachable : BOOLEAN]

-----------------------------------------------------------------------------
\* A caller of assist may pass the mapping, whose other entries are dropped.
Narrowed(roles) == {h \in HubRoles \cap DOMAIN roles : roles[h] = Drafter}

\* classify: every clause is a veto.
LeftToAgents(a, mapped) ==
    /\ a.granted /\ ~a.reserved
    /\ a.owner_role \in mapped
    /\ ~a.stops_agents
    /\ a.evidence = "agent"

\* The two probes of the self-test, which uses the full mapping.
ProbeAgent(role) ==
    [id |-> NoAction, owner_role |-> role, granted |-> TRUE, reserved |-> FALSE, primary |-> FALSE,
     priority |-> 0, stops_agents |-> FALSE, evidence |-> "agent"]
ProbeHuman ==
    [id |-> NoAction, owner_role |-> "human-reviewer", granted |-> FALSE, reserved |-> TRUE,
     primary |-> FALSE, priority |-> 0, stops_agents |-> TRUE, evidence |-> "human"]
Live ==
    /\ LeftToAgents(ProbeAgent("documentation-engineer"), HubRoles)
    /\ ~LeftToAgents(ProbeHuman, HubRoles)

\* load_hub raises nothing.
Loads(k) == k.legible /\ Len(k.actions) > 0 /\ k.work_package_id = k.state.work_package_id

\* record_faults and the observation find nothing.
Sound(k) ==
    LET A == k.actions IN
    /\ \A i, j \in 1..Len(A) : A[i].id = A[j].id => i = j
    /\ \E i \in 1..Len(A) :
         /\ A[i].id = k.state.primary_next_action_id
         /\ \A j \in 1..Len(A) : A[j].primary <=> j = i
    /\ {A[i].priority : i \in 1..Len(A)} = 1..Len(A)
    /\ k.state.latest_checkpoint = "named" /\ k.checkpoint_found
    /\ k.state.resume_decision \in Resumes
    /\ k.state.baseline_commit # "other"
    /\ k.reachable

-----------------------------------------------------------------------------
\* The caller's own word on the run: who it is, who verifies, whether a rollback
\* was tested.
Word == [identity : Principals, verifier : Principals \cup {Nobody}, rollback_tested : BOOLEAN]

\* GovernanceGate(registry, store)
BareView(atts) == [atts |-> atts, waivers |-> {}, envelopes |-> {}]

AskGate(atts, a, w, at) ==
    Evaluate(BareView(atts),
             Decorated(Actionable, Drafter, w.identity, w.verifier, w.rollback_tested, LowRisk,
                       ScopeOf[a.id]), at)

Granted(k, mapped) == {i \in 1..Len(k.actions) : LeftToAgents(k.actions[i], mapped)}

\* The run gets as far as the gate.
Resumed(k) == Live /\ Loads(k) /\ Sound(k) /\ k.state.resume_decision = "CONTINUE"

\* AssistReport.executable, as positions in the list of actions.
Executable(k, mapped, atts, w, at) ==
    {i \in Granted(k, mapped) :
       Resumed(k) /\ AskGate(atts, k.actions[i], w, at).decision = "ALLOW"}

DecisionForResume ==
    [BLOCKED |-> "ESCALATE", WAIT_FOR_AUTHORITY |-> "WAIT_FOR_AUTHORITY",
     RECOVERY_REQUIRED |-> "ESCALATE", COMPLETE |-> "WAIT_FOR_AUTHORITY"]

\* AssistReport.decision
Decision(k, mapped, atts, w, at) ==
    IF ~Live THEN "DENY"
    ELSE IF ~Loads(k) \/ ~Sound(k) THEN "ESCALATE"
    ELSE IF k.state.resume_decision # "CONTINUE" THEN DecisionForResume[k.state.resume_decision]
    ELSE IF Executable(k, mapped, atts, w, at) # {} THEN "ALLOW"
    ELSE IF Granted(k, mapped) # {} THEN "DENY"
    ELSE "WAIT_FOR_AUTHORITY"
=============================================================================
