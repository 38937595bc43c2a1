------------------------------ MODULE MCRoadmap ------------------------------
(***************************************************************************)
(* Roadmap on every acyclic graph over three items with every mix of eight *)
(* kinds of item, and on documents that must be refused.                   *)
(***************************************************************************)
EXTENDS Roadmap, TLC

CONSTANTS A, B, C

G(k, x) == [kind |-> k, id |-> x]
MCBandStatus == [b \in Bands |-> b]
MCControlStatus == [c \in Controls |-> c]

Plan(s, shipped, gates, because, acceptance) ==
    [state |-> s, shippedIn |-> shipped, gates |-> gates,
     ungatedBecause |-> because, acceptance |-> acceptance]

\* One item of each kind the verdict distinguishes.
Kinds == {
    Plan("planned", FALSE, {}, FALSE, {}),
    Plan("shipped", FALSE, {}, TRUE, {}),
    Plan("shipped", TRUE, {}, TRUE, {"test"}),
    Plan("partial", FALSE, {}, TRUE, {"test"}),
    Plan("shipped", TRUE, {G("external", "verified")}, FALSE, {}),
    Plan("shipped", TRUE, {G("external", "open"), G("newer", "test")}, FALSE, {}),
    Plan("shipped", TRUE, {G("band_attained", "attained"), G("control_attested", "holds")},
         FALSE, {}),
    Plan("in-progress", FALSE, {G("external", "declared"), G("command", "test")}, FALSE, {})}

\* Gates that are read without recursion, for a document of one item each.
Leaves ==
    {G("external", e) : e \in Externals} \cup {G("band_attained", b) : b \in Bands} \cup
    {G("control_attested", c) : c \in Controls} \cup
    {G("command", "test"), G("newer", "test"), G("newer", NoId), G("external", NoId),
     G("item", B), G("external", A)}

On(plan, deps) == [plan EXCEPT !.gates = @ \cup {G("item", d) : d \in deps}]

MCExternals == [e \in Externals |-> [attained |-> e # "open", verify |-> e = "verified"]]

Written(items, freeze) == [items |-> items, externals |-> MCExternals, freeze |-> freeze]

NoFreeze == <<>>
Frozen(gates) == <<[inForce |-> TRUE, liftsWhen |-> gates]>>

\* Acyclic graphs, up to the names of the items: each is drawn downwards.
Graphs == {d \in [{A, B, C} -> SUBSET {A, B, C}] :
             d[A] = {} /\ d[B] \subseteq {A} /\ d[C] \subseteq {A, B}}

Planned ==
    {Written([i \in {A, B, C} |-> On(k[i], d[i])], NoFreeze) :
       k \in [{A, B, C} -> Kinds], d \in Graphs}

Freezes ==
    {Written([i \in {A, B} |-> On(k[i], IF i = B THEN {A} ELSE {})], f) :
       k \in [{A, B} -> Kinds],
       f \in {Frozen({G("item", B)}), Frozen({G("item", A), G("command", "test")}),
              Frozen({G("item", C)}), Frozen({}),
              <<[inForce |-> FALSE, liftsWhen |-> {}]>>}}

Cycles ==
    {Written([i \in {A, B, C} |-> On(Plan("planned", FALSE, {}, TRUE, {}), d[i])], NoFreeze) :
       d \in [{A, B, C} -> SUBSET {A, B, C}]}

Singles ==
    {Written([i \in {A} |-> Plan(s, FALSE, {l}, FALSE, {})], NoFreeze) :
       s \in {"shipped", "planned"}, l \in Leaves}

MCDocuments == Planned \cup Freezes \cup Cycles \cup Singles
=============================================================================
