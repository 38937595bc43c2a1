------------------------------ MODULE WaiverFile ------------------------------
(***************************************************************************)
(* waivers.jsonl and the `neuraxis waive` commands that extend it.         *)
(*                                                                         *)
(* cmd_waive loads and validates the file, looks its id up, builds the     *)
(* candidate with the time of day as its issue instant, validates the      *)
(* loaded records and the candidate together, and appends one line.  The   *)
(* file is not locked between the load and the append, another command may *)
(* run in between, and a command may die anywhere, also inside the line.   *)
(***************************************************************************)
EXTENDS Waivers, Sequences

CONSTANTS
    Processes,
    Operators,  \* the principals that issue waivers and answer for them
    Torn,       \* an unterminated last line
    Glued,      \* a torn line with a whole record behind it
    MaxLog,     \* bound: lines in the file
    MaxTime     \* bound: instants of the clock

ASSUME LineAssumption ==
    {Torn, Glued, NoWaiver} \cap Waiver = {} /\ Torn # Glued
ASSUME OperatorAssumption == Operators \subseteq Principals
ASSUME BoundAssumption == MaxLog \in Nat /\ MaxTime \in Nat

VARIABLES
    file,       \* the lines of waivers.jsonl
    now,
    pc,         \* "idle", "loaded" or "writing", per process
    known,      \* the register the process loaded
    cand,       \* the candidate it is about to append
    stale       \* history: some append rested on a register the file had left

vars == <<file, now, pc, known, cand, stale>>

Lines == {file[i] : i \in DOMAIN file}
Malformed == {Torn, Glued} \cap Lines # {}

\* Mutant: a line that does not parse is skipped unless it is the last.
LoadsSkippingGlued == Torn \notin Lines /\ ValidRegister(Lines \ {Glued})

\* WaiverRegister.from_file accepts the text; an id on two lines is refused
\* also when the lines are equal.
Loads == ~Malformed /\ Cardinality(Lines) = Len(file) /\ ValidRegister(Lines)

TypeOK ==
    /\ file \in Seq(Waiver \cup {Torn, Glued})
    /\ now \in Nat
    /\ pc \in [Processes -> {"idle", "loaded", "writing"}]
    /\ known \in [Processes -> SUBSET Waiver]
    /\ cand \in [Processes -> Waiver \cup {NoWaiver}]
    /\ \A p \in Processes : pc[p] = "writing" <=> cand[p] # NoWaiver
    /\ stale \in BOOLEAN

Init ==
    /\ file = <<>>
    /\ now = 0
    /\ pc = [p \in Processes |-> "idle"]
    /\ known = [p \in Processes |-> {}]
    /\ cand = [p \in Processes |-> NoWaiver]
    /\ stale = FALSE

-----------------------------------------------------------------------------
\* Mutant: the candidate outlives its command.
ForgetKeepingCandidate(p) ==
    /\ pc' = [pc EXCEPT ![p] = "idle"]
    /\ known' = [known EXCEPT ![p] = {}]
    /\ UNCHANGED cand

Forget(p) ==
    /\ pc' = [pc EXCEPT ![p] = "idle"]
    /\ known' = [known EXCEPT ![p] = {}]
    /\ cand' = [cand EXCEPT ![p] = NoWaiver]

TornEnd == file # <<>> /\ file[Len(file)] = Torn

Tick ==
    /\ now < MaxTime
    /\ now' = now + 1
    /\ UNCHANGED <<file, pc, known, cand, stale>>

\* A file that does not load ends the command before anything else.
Load(p) ==
    /\ pc[p] = "idle"
    /\ Loads
    /\ pc' = [pc EXCEPT ![p] = "loaded"]
    /\ known' = [known EXCEPT ![p] = Lines]
    /\ UNCHANGED <<file, now, cand, stale>>

\* Mutant: the candidate is validated without the records on file.
ValidateAlone(p) ==
    /\ pc[p] = "loaded"
    /\ \E i \in WaiverIds, c \in Controls, B \in SUBSET Bands, a \in Operators :
         LET w == [id |-> i, control |-> c, bands |-> B, accountable |-> a, issued_by |-> a,
                   issued_at |-> now, expires_at |-> now + 1, renews |-> NoWaiver]
         IN  /\ \A v \in known[p] : v.id # i
             /\ ValidRegister({w})
             /\ cand' = [cand EXCEPT ![p] = w]
    /\ pc' = [pc EXCEPT ![p] = "writing"]
    /\ UNCHANGED <<file, now, known, stale>>

Validate(p) ==
    /\ pc[p] = "loaded"
    /\ \E i \in WaiverIds, c \in Controls, B \in SUBSET Bands, a, s \in Operators,
          ttl \in 1..(MaxTtl + 1), r \in WaiverIds \cup {NoWaiver} :
         LET w == [id |-> i, control |-> c, bands |-> B, accountable |-> a, issued_by |-> s,
                   issued_at |-> now, expires_at |-> now + ttl, renews |-> r]
         IN  /\ \A v \in known[p] : v.id # i
             /\ ValidRegister(known[p] \cup {w})
             /\ cand' = [cand EXCEPT ![p] = w]
    /\ pc' = [pc EXCEPT ![p] = "writing"]
    /\ UNCHANGED <<file, now, known, stale>>

AppendLine(p) ==
    /\ pc[p] = "writing"
    /\ Len(file) < MaxLog
    /\ file' = IF TornEnd THEN [file EXCEPT ![Len(file)] = Glued] ELSE Append(file, cand[p])
    /\ stale' = (stale \/ known[p] # Lines)
    /\ Forget(p)
    /\ UNCHANGED now

TearLine(p) ==
    /\ pc[p] = "writing"
    /\ Len(file) < MaxLog
    /\ file' = IF TornEnd THEN file ELSE Append(file, Torn)
    /\ Forget(p)
    /\ UNCHANGED <<now, stale>>

\* Refused, or killed outside the write.
Exit(p) ==
    /\ pc[p] # "idle"
    /\ Forget(p)
    /\ UNCHANGED <<file, now, stale>>

Next ==
    \/ Tick
    \/ \E p \in Processes : Load(p) \/ Validate(p) \/ AppendLine(p) \/ TearLine(p) \/ Exit(p)

Spec == Init /\ [][Next]_vars

-----------------------------------------------------------------------------
\* What cmd_waive writes loads again: the file stops loading only through a
\* line torn by a crash or through an append that rested on a register the file
\* had moved on from.
OnlyRacesBreakTheFile == ~stale /\ ~Malformed => Loads

\* A file the loader refuses is never repaired by further commands: appending
\* one more waiver cannot make the gate read it again.
RefusedStaysRefused == [][~Loads => ~Loads']_vars

\* The number of waivers on one control is bounded, however renewals move
\* between its bands: no more chains than bands, no chain longer than the cap.
ControlWindowsBounded ==
    Loads => \A c \in Controls :
      LET on == {w \in Lines : w.control = c}
          roots == {w \in on : w.renews = NoWaiver}
      IN  /\ Cardinality(roots) <= Cardinality(Bands)
          /\ Cardinality(on) <= Cardinality(roots) * (MaxRenewals + 1)

\* Issuing one more waiver costs nobody a licence, except when it puts the
\* register over its cap, and then it costs everybody all of theirs.
Licensed == {s \in Controls \X Bands \X Principals :
               Covering(Lines, s[1], s[2], now, {s[3]}) # {}}
IssuingRevokesOnlyByCap ==
    [][Loads /\ Loads' /\ file' # file =>
         IF OverCap(Lines', now) THEN Licensed' = {} ELSE Licensed \subseteq Licensed']_vars
-----------------------------------------------------------------------------
\* The claim of cmd_waive's docstring: a waiver that breaches a rule is refused
\* at issue rather than discovered at the next load.
RefusedAtIssue == ~Malformed => Loads

\* The claim of _assert_one_chain_per_scope: on one scope, two windows is the
\* end of it.
TwoWindowsIsTheEnd ==
    Loads => \A c \in Controls, b \in Bands :
      Cardinality({w \in Lines : Covers(w, c, b)}) <= MaxRenewals + 1
=============================================================================
