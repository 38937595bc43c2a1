----------------------------- MODULE MCAssurance -----------------------------
(***************************************************************************)
(* Assurance with every provider, and for each log a sound record, the     *)
(* breaches its audit is about and a line that does not parse.             *)
(***************************************************************************)
EXTENDS Assurance, TLC

CONSTANTS c, Alias, Agent, Ci, id, scope, tokens, disk

MCMaxAge == [x \in Controls |-> 1]
MCPerson == [n \in Names |-> IF n = Alias THEN Agent ELSE n]

TaskRows == {[performer |-> Agent, verifier |-> v] : v \in {Ci, Agent}}

ChangeRows ==
    {[proposer |-> Agent, ratifier |-> Ci, human |-> TRUE, ratified |-> r, merged |-> 2,
      proposed |-> o] : r \in {1, 2}, o \in {None, 0}}

Granted(issuer, issued, spent) ==
    [record |-> "lease", lease |-> id, principal |-> Agent, issuer |-> issuer,
     issued |-> issued, expires |-> 2, scope |-> {scope},
     ceilings |-> [m \in {tokens} |-> 1], consumed |-> spent, amendedBy |-> None]
Acted(at) == [record |-> "action", lease |-> id, at |-> at, scope |-> scope]

LeaseLogRows ==
    {Granted(Ci, 0, [m \in {tokens} |-> 1]), Granted(Ci, 1, [m \in {tokens} |-> 1]), Acted(0)}
BudgetRows ==
    {Granted(Ci, 0, [m \in {tokens} |-> 1]), Granted(Ci, 0, [m \in {tokens} |-> 2]),
     Acted(0), [record |-> "other"]}

Drilled(verifier, at) ==
    [performer |-> Agent, verifier |-> verifier, restored_outcome |-> TRUE,
     mutated |-> {disk}, restored |-> {disk}, digests |-> "match",
     mutatedAt |-> 0, rolledBackAt |-> at, verifiedAt |-> at + 1]
DrillRows == {Drilled(Ci, 0), Drilled(Ci, 2), Drilled(Alias, 0)}

MCWrites ==
    [k \in Kinds |->
       {Malformed} \cup
       CASE k = "tasks" -> TaskRows
         [] k = "changes" -> ChangeRows
         [] k = "authority" -> LeaseLogRows
         [] k = "containment" -> BudgetRows
         [] k = "drills" -> DrillRows]

Symmetry == Permutations(Processes)
=============================================================================
