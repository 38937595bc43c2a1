------------------------------- MODULE Roadmap -------------------------------
(***************************************************************************)
(* One `neuraxis roadmap` command: load a document, refuse it or resolve   *)
(* the readiness of every item, and report.                                *)
(*                                                                         *)
(* Resolving recurses over item gates with a cache of settled items and a  *)
(* stack of the ones in progress.  Commands - command gates, verifiers of  *)
(* externals, acceptance - are run at the moment the recursion reaches     *)
(* them and may answer differently each time.  The registry, the store and *)
(* the instant are read once, before; what they say of a band or a control *)
(* is a constant.  The order of items and of gates in the file is any.     *)
(***************************************************************************)
EXTENDS Integers, Sequences, FiniteSets, Functions

CONSTANTS
    Items, Externals, Bands, Controls, Commands,
    Documents,      \* the files a command may find
    BandStatus,     \* what the resolver says of a band
    ControlStatus,  \* what the store says of a control
    NoId            \* a gate that names nothing

READY == "READY"
BLOCKED == "BLOCKED"
UNKNOWN == "UNKNOWN"
Verdicts == {READY, BLOCKED, UNKNOWN}

ItemStates == {"planned", "in-progress", "partial", "shipped", "blocked", "deferred"}
GateKinds == {"band_attained", "control_attested", "item", "external", "command"}

\* A kind of a newer file is a string this version does not know.
Gate ==
    [kind : GateKinds \cup {"newer"},
     id : Items \cup Externals \cup Bands \cup Controls \cup Commands \cup {NoId}]

Item ==
    [state : ItemStates, shippedIn : BOOLEAN, gates : SUBSET Gate,
     ungatedBecause : BOOLEAN, acceptance : SUBSET Commands]

External == [attained : BOOLEAN, verify : BOOLEAN]

Freeze == [inForce : BOOLEAN, liftsWhen : SUBSET Gate]

\* An item or an external that the document does not have is outside its domain,
\* and a file has room for finitely many gates.
IsDocument(d) ==
    /\ d = [items |-> d.items, externals |-> d.externals, freeze |-> d.freeze]
    /\ DOMAIN d.items \subseteq Items
    /\ d.items \in [DOMAIN d.items -> Item]
    /\ DOMAIN d.externals \subseteq Externals
    /\ d.externals \in [DOMAIN d.externals -> External]
    /\ IsFiniteSet(UNION {d.items[i].gates : i \in DOMAIN d.items})
    /\ d.freeze # <<>> => d.freeze = <<d.freeze[1]>> /\ d.freeze[1] \in Freeze

ASSUME DocumentsAssumption == IsFiniteSet(Items) /\ \A d \in Documents : IsDocument(d)
ASSUME StatusAssumption ==
    /\ BandStatus \in [Bands -> {"attained", "waived", "missing", "foreign"}]
    /\ ControlStatus \in [Controls -> {"holds", "missing", "foreign"}]

VARIABLES
    doc,        \* the document in the file
    resolver,   \* the registry and the store could be loaded
    check,      \* --check: commands are run
    pc,
    stack,      \* the items in progress, each with the gates it has still to read
    cache       \* the settled items

vars == <<doc, resolver, check, pc, stack, cache>>

Frame == [item : Items, todo : SUBSET Gate, read : SUBSET Verdicts]
Readiness == [verdict : Verdicts, contradiction : BOOLEAN]

TypeOK ==
    /\ IsDocument(doc)
    /\ resolver \in BOOLEAN
    /\ check \in BOOLEAN
    /\ pc \in {"loading", "refused", "resolving", "raised", "reported"}
    /\ stack \in Seq(Frame)
    /\ DOMAIN cache \subseteq DOMAIN doc.items
    /\ \A i \in DOMAIN cache : cache[i] \in Readiness

Init ==
    /\ doc \in Documents
    /\ resolver \in BOOLEAN
    /\ check \in BOOLEAN
    /\ pc = "loading"
    /\ stack = <<>>
    /\ cache = <<>>

-----------------------------------------------------------------------------
(* Loading.                                                                *)

ClaimsDone(i) == doc.items[i].state = "shipped"
HasShipped(i) == doc.items[i].shippedIn \/ doc.items[i].state \in {"shipped", "partial"}

ItemGates(i) == {g \in doc.items[i].gates : g.kind = "item"}
Dependencies(i) == {g.id : g \in ItemGates(i)}

\* _gate: whatever its kind, a gate names what it waits on.
Conditions == IF doc.freeze = <<>> THEN {} ELSE doc.freeze[1].liftsWhen
GatesNamed ==
    \A g \in Conditions \cup UNION {doc.items[i].gates : i \in DOMAIN doc.items} : g.id # NoId

ReferencesResolve ==
    \A i \in DOMAIN doc.items : \A g \in doc.items[i].gates :
      /\ g.kind = "item" => g.id \in DOMAIN doc.items
      /\ g.kind = "external" => g.id \in DOMAIN doc.externals


Acyclic ==
    \A C \in SUBSET DOMAIN doc.items :
      C # {} => \E i \in C : Dependencies(i) \cap C = {}

FreezeIsReadable ==
    doc.freeze # <<>> =>
      /\ doc.freeze[1].inForce => Conditions # {}
      /\ \A g \in Conditions : g.kind = "item" => g.id \in DOMAIN doc.items

Load ==
    /\ pc = "loading"
    /\ pc' = IF GatesNamed /\ ReferencesResolve /\ Acyclic /\ FreezeIsReadable
             THEN "resolving" ELSE "refused"
    /\ UNCHANGED <<doc, resolver, check, stack, cache>>

-----------------------------------------------------------------------------
(* Gates.                                                                  *)

\* The verdicts one reading of an external may give.
ExternalVerdicts(e, checked) ==
    CASE ~doc.externals[e].attained -> {BLOCKED}
      [] doc.externals[e].attained /\ ~doc.externals[e].verify -> {READY}
      [] OTHER -> IF checked THEN {READY, BLOCKED} ELSE {UNKNOWN}

BandVerdict(b) ==
    CASE ~resolver \/ BandStatus[b] = "foreign" -> UNKNOWN
      [] resolver /\ BandStatus[b] = "attained" -> READY
      [] OTHER -> BLOCKED

\* Mutant: the word of the store is passed on.
ControlVerdictOfStore(c) == IF resolver THEN ControlStatus[c] ELSE UNKNOWN

ControlVerdict(c) ==
    CASE ~resolver \/ ControlStatus[c] = "foreign" -> UNKNOWN
      [] resolver /\ ControlStatus[c] = "holds" -> READY
      [] OTHER -> BLOCKED

\* A command that is missing, hangs or exits with anything but 0 blocks.
CommandVerdicts(checked) == IF checked THEN {READY, BLOCKED} ELSE {UNKNOWN}

LeafVerdicts(g, checked) ==
    CASE g.kind = "external" -> ExternalVerdicts(g.id, checked)
      [] g.kind = "band_attained" -> {BandVerdict(g.id)}
      [] g.kind = "control_attested" -> {ControlVerdict(g.id)}
      [] g.kind = "command" -> CommandVerdicts(checked)
      [] OTHER -> {UNKNOWN}

\* Mutant: an item gate is read off the state somebody typed.
DependencyVerdictAsDeclared(i, verdict) == IF ClaimsDone(i) THEN READY ELSE BLOCKED

\* What an item gate says of an item with this verdict.
DependencyVerdict(i, verdict) == IF ClaimsDone(i) THEN verdict ELSE BLOCKED

\* The verdict of an item whose gates gave these.
Folded(i, read) ==
    IF doc.items[i].gates = {} THEN IF doc.items[i].ungatedBecause THEN READY ELSE UNKNOWN
    ELSE IF UNKNOWN \in read THEN UNKNOWN
    ELSE IF read = {READY} THEN READY
    ELSE BLOCKED

-----------------------------------------------------------------------------
(* Resolving.                                                              *)

Top == stack[Len(stack)]
FrameOf(i) == [item |-> i, todo |-> doc.items[i].gates, read |-> {}]
InProgress == {stack[k].item : k \in 1..Len(stack)}
Resolving == pc = "resolving" /\ stack # <<>>

Read(g, v) ==
    stack' = [stack EXCEPT ![Len(stack)] =
                [item |-> @.item, todo |-> @.todo \ {g}, read |-> @.read \cup {v}]]

StartItem ==
    /\ pc = "resolving"
    /\ stack = <<>>
    /\ \E i \in DOMAIN doc.items \ DOMAIN cache : stack' = <<FrameOf(i)>>
    /\ UNCHANGED <<doc, resolver, check, pc, cache>>

ReadLeaf ==
    /\ Resolving
    /\ \E g \in Top.todo :
         /\ g.kind # "item"
         /\ \E v \in LeafVerdicts(g, check) : Read(g, v)
    /\ UNCHANGED <<doc, resolver, check, pc, cache>>

ReadCached ==
    /\ Resolving
    /\ \E g \in Top.todo :
         /\ g.kind = "item"
         /\ g.id \in DOMAIN cache
         /\ Read(g, DependencyVerdict(g.id, cache[g.id].verdict))
    /\ UNCHANGED <<doc, resolver, check, pc, cache>>

\* An item in progress, or one there is not, ends the command with an error.
Descend ==
    /\ Resolving
    /\ \E g \in Top.todo :
         /\ g.kind = "item"
         /\ g.id \notin DOMAIN cache
         /\ IF g.id \in DOMAIN doc.items \ InProgress
              THEN stack' = Append(stack, FrameOf(g.id)) /\ UNCHANGED pc
              ELSE pc' = "raised" /\ UNCHANGED stack
    /\ UNCHANGED <<doc, resolver, check, cache>>

\* Mutant: acceptance that passes settles the item.
SettledByAcceptance(i, read, failed) ==
    [verdict |-> CASE failed -> BLOCKED
                   [] ~failed /\ check /\ HasShipped(i) /\ doc.items[i].acceptance # {} -> READY
                   [] OTHER -> Folded(i, read),
     contradiction |-> failed \/ (ClaimsDone(i) /\ Folded(i, read) # READY)]

Settled(i, read, failed) ==
    [verdict |-> IF failed THEN BLOCKED ELSE Folded(i, read),
     contradiction |-> failed \/ (ClaimsDone(i) /\ Folded(i, read) # READY)]

\* Acceptance is run for what claims to be in the product, and may fail.
Settle ==
    /\ Resolving
    /\ Top.todo = {}
    /\ \E failed \in BOOLEAN :
         /\ failed => check /\ HasShipped(Top.item) /\ doc.items[Top.item].acceptance # {}
         /\ cache' = [i \in DOMAIN cache \cup {Top.item} |->
                        IF i = Top.item THEN Settled(i, Top.read, failed) ELSE cache[i]]
    /\ stack' = SubSeq(stack, 1, Len(stack) - 1)
    /\ UNCHANGED <<doc, resolver, check, pc>>

Report ==
    /\ pc = "resolving"
    /\ stack = <<>>
    /\ DOMAIN cache = DOMAIN doc.items
    /\ pc' = "reported"
    /\ UNCHANGED <<doc, resolver, check, stack, cache>>

Next ==
    \/ Load \/ StartItem \/ ReadLeaf \/ ReadCached \/ Descend \/ Settle \/ Report

Spec == Init /\ [][Next]_vars
FairSpec == Spec /\ WF_vars(Next)

-----------------------------------------------------------------------------
(* The report.                                                             *)

Met(g) ==
    /\ g.kind = "item"
    /\ g.id \in DOMAIN cache
    /\ ClaimsDone(g.id)
    /\ cache[g.id].verdict = READY

\* Mutant: a condition that cannot be read here is passed over.
FreezeInForceReadable ==
    /\ doc.freeze # <<>>
    /\ doc.freeze[1].inForce
    /\ \E g \in Conditions : g.kind = "item" /\ ~ClaimsDone(g.id)

\* A condition that is not an item gate is never met.
FreezeInForce ==
    /\ doc.freeze # <<>>
    /\ doc.freeze[1].inForce
    /\ \E g \in Conditions : ~Met(g)

\* Exit 0 of the whole report.
ExitsClean ==
    /\ pc = "reported"
    /\ ~FreezeInForce
    /\ \A i \in DOMAIN cache : ~cache[i].contradiction

-----------------------------------------------------------------------------
\* All an item waits on, itself included: the smallest set that is closed under
\* item gates and has the item in it.
Behind(i) ==
    {j \in DOMAIN doc.items :
       \A C \in SUBSET DOMAIN doc.items :
         i \in C /\ (\A k \in C : Dependencies(k) \subseteq C) => j \in C}

\* The readiness of an item without --check, by recursion over the gates.
Plain ==
    LET verdict[i \in DOMAIN doc.items] ==
          Folded(i, {IF g.kind = "item" THEN DependencyVerdict(g.id, verdict[g.id])
                     ELSE CHOOSE v \in LeafVerdicts(g, FALSE) : TRUE : g \in doc.items[i].gates})
    IN verdict

\* Readiness is computed, not declared: under a READY item, every item it waits
\* on, however far, says it is done and is itself READY, and no gate on the way
\* is one that could not have opened (roadmap.py, _readiness).
ReadyIsGrounded ==
    \A i \in DOMAIN cache : cache[i].verdict = READY =>
      \A j \in Behind(i) :
        /\ j \in DOMAIN cache
        /\ j # i => ClaimsDone(j)
        /\ cache[j].verdict = READY
        /\ doc.items[j].gates = {} => doc.items[j].ungatedBecause
        /\ \A g \in doc.items[j].gates \ ItemGates(j) : READY \in LeafVerdicts(g, check)

\* Running the commands settles what was unknown and can only take readiness
\* away from what was known: an item blocked without --check is blocked with it,
\* and one that was ready is not made unknown (roadmap.py, resolve).
ChecksOnlySettle ==
    \A i \in DOMAIN cache :
      /\ ~check => cache[i].verdict = Plain[i]
      /\ Plain[i] = BLOCKED => cache[i].verdict = BLOCKED
      /\ Plain[i] = READY => cache[i].verdict # UNKNOWN

\* Exit 0 means that whatever claims to be done rests on done work only, and so
\* does whatever a declared freeze waits for (cli.py, cmd_roadmap).
CleanExitMeansDone ==
    ExitsClean =>
      /\ \A i \in DOMAIN doc.items : ClaimsDone(i) =>
           \A j \in Behind(i) : ClaimsDone(j) /\ cache[j].verdict = READY
      /\ doc.freeze # <<>> /\ doc.freeze[1].inForce =>
           \A g \in Conditions : g.kind = "item" /\
             \A j \in Behind(g.id) : ClaimsDone(j) /\ cache[j].verdict = READY

=============================================================================
