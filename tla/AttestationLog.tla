---------------------------- MODULE AttestationLog ----------------------------
(***************************************************************************)
(* The attestation file and the commands that read and extend it.          *)
(*                                                                         *)
(* attestations.jsonl is a plain file shared by every `neuraxis attest`    *)
(* and `neuraxis assure` process, with no lock.  A process reads the whole *)
(* text once (AttestationStore.from_file), folds it line by line into its  *)
(* own store, decides from that store which controls are due, runs their   *)
(* providers and appends one line per run.  Other processes append in      *)
(* between, a process may be killed anywhere, also in the middle of the    *)
(* line it writes, and the clocks of the hosts that append are unrelated.  *)
(***************************************************************************)
EXTENDS AttestationStore, Sequences

CONSTANTS
    Processes,  \* concurrent command invocations
    Torn,       \* an unterminated, unparsable last line
    Glued,      \* a torn line with a whole record written behind it
    MaxLog,     \* bound: lines in the file
    MaxTime     \* bound: instants of the clock

Malformed == {Torn, Glued}
Line == Attestation \cup Malformed

ASSUME LineAssumption ==
    Torn # Glued /\ Malformed \cap Attestation = {} /\ Torn \notin Store
ASSUME BoundAssumption == MaxLog \in Nat /\ MaxTime \in Nat

VARIABLES
    log,    \* the lines of the file
    now,    \* the clock of now_utc
    pc,     \* "idle", "folding", "running" or "probing", per process
    read,   \* how many lines the text held when the process read it
    cursor, \* how many of those lines it has folded
    store,  \* its AttestationStore
    todo,   \* controls whose provider it has still to consider
    forced, \* --force, and `attest`, which never looks at `holds`
    run,    \* the control and ran_at of the provider run under way
    known,  \* history: attestations given to store.record
    acked,  \* history: attestations some command reported as recorded
    heard   \* history: `acked` when the process read the text

vars == <<log, now, pc, read, cursor, store, todo, forced, run, known, acked, heard>>

RunStart == [control : Controls, ran_at : Nat]

TypeOK ==
    /\ log \in Seq(Line)
    /\ now \in Nat
    /\ pc \in [Processes -> {"idle", "folding", "running", "probing"}]
    /\ read \in [Processes -> Nat]
    /\ cursor \in [Processes -> Nat]
    /\ store \in [Processes -> Store]
    /\ todo \in [Processes -> SUBSET Controls]
    /\ forced \in [Processes -> BOOLEAN]
    /\ run \in [Processes -> RunStart \cup {NoRecord}]
    /\ \A p \in Processes : pc[p] = "probing" => run[p] \in RunStart
    /\ known \in [Processes -> SUBSET Attestation]
    /\ acked \in SUBSET Attestation
    /\ heard \in [Processes -> SUBSET Attestation]

Init ==
    /\ log = <<>>
    /\ now = 0
    /\ pc = [p \in Processes |-> "idle"]
    /\ read = [p \in Processes |-> 0]
    /\ cursor = [p \in Processes |-> 0]
    /\ store = [p \in Processes |-> EmptyStore]
    /\ todo = [p \in Processes |-> {}]
    /\ forced = [p \in Processes |-> FALSE]
    /\ run = [p \in Processes |-> NoRecord]
    /\ known = [p \in Processes |-> {}]
    /\ acked = {}
    /\ heard = [p \in Processes |-> {}]

-----------------------------------------------------------------------------
\* handle.write at the end of the file: behind a torn line the new record
\* continues that line, and both are lost to a parser.
Written(a) ==
    IF log # <<>> /\ log[Len(log)] = Torn
    THEN [log EXCEPT ![Len(log)] = Glued]
    ELSE Append(log, a)

\* The process's memory when it ends, for whatever reason.
Forget(p) ==
    /\ pc' = [pc EXCEPT ![p] = "idle"]
    /\ read' = [read EXCEPT ![p] = 0]
    /\ cursor' = [cursor EXCEPT ![p] = 0]
    /\ store' = [store EXCEPT ![p] = EmptyStore]
    /\ todo' = [todo EXCEPT ![p] = {}]
    /\ forced' = [forced EXCEPT ![p] = FALSE]
    /\ run' = [run EXCEPT ![p] = NoRecord]
    /\ known' = [known EXCEPT ![p] = {}]
    /\ heard' = [heard EXCEPT ![p] = {}]

Tick ==
    /\ now < MaxTime
    /\ now' = now + 1
    /\ UNCHANGED <<log, pc, read, cursor, store, todo, forced, run, known, acked, heard>>

\* path.read_text: the whole text, at one moment.
ReadText(p) ==
    /\ pc[p] = "idle"
    /\ pc' = [pc EXCEPT ![p] = "folding"]
    /\ read' = [read EXCEPT ![p] = Len(log)]
    /\ heard' = [heard EXCEPT ![p] = acked]
    /\ UNCHANGED <<log, now, cursor, store, todo, forced, run, known, acked>>

\* Mutant: a line that does not parse is skipped.
FoldLineLeniently(p) ==
    /\ pc[p] = "folding"
    /\ cursor[p] < read[p]
    /\ LET line == log[cursor[p] + 1] IN
         /\ store' = [store EXCEPT ![p] = IF line \in Malformed THEN @ ELSE Recorded(@, line)]
         /\ known' = [known EXCEPT ![p] = IF line \in Malformed THEN @ ELSE @ \cup {line}]
    /\ cursor' = [cursor EXCEPT ![p] = @ + 1]
    /\ UNCHANGED <<log, now, pc, read, todo, forced, run, acked, heard>>

FoldLine(p) ==
    /\ pc[p] = "folding"
    /\ cursor[p] < read[p]
    /\ LET line == log[cursor[p] + 1] IN
         /\ line \notin Malformed
         /\ cursor' = [cursor EXCEPT ![p] = @ + 1]
         /\ store' = [store EXCEPT ![p] = Recorded(@, line)]
         /\ known' = [known EXCEPT ![p] = @ \cup {line}]
    /\ UNCHANGED <<log, now, pc, read, todo, forced, run, acked, heard>>

\* A malformed line raises AttestationError: the command ends with EXIT_ERROR.
FoldMalformed(p) ==
    /\ pc[p] = "folding"
    /\ cursor[p] < read[p]
    /\ log[cursor[p] + 1] \in Malformed
    /\ Forget(p)
    /\ UNCHANGED <<log, now, acked>>

\* The file is loaded; the arguments say which providers are selected and
\* whether currency is consulted at all.
Loaded(p) ==
    /\ pc[p] = "folding"
    /\ cursor[p] = read[p]
    /\ pc' = [pc EXCEPT ![p] = "running"]
    /\ \E S \in SUBSET Controls, f \in BOOLEAN :
         /\ S # {}
         /\ todo' = [todo EXCEPT ![p] = S]
         /\ forced' = [forced EXCEPT ![p] = f]
    /\ UNCHANGED <<log, now, read, cursor, store, run, known, acked, heard>>

SkipCurrent(p) ==
    /\ pc[p] = "running"
    /\ \E c \in todo[p] :
         /\ ~forced[p]
         /\ Holds(store[p], c, now)
         /\ todo' = [todo EXCEPT ![p] = @ \ {c}]
    /\ UNCHANGED <<log, now, pc, read, cursor, store, forced, run, known, acked, heard>>

\* Mutant: the run is not stamped.
StartProviderUnstamped(p) ==
    /\ pc[p] = "running"
    /\ \E c \in todo[p] :
         /\ forced[p] \/ ~Holds(store[p], c, now)
         /\ todo' = [todo EXCEPT ![p] = @ \ {c}]
    /\ pc' = [pc EXCEPT ![p] = "probing"]
    /\ UNCHANGED <<log, now, read, cursor, store, forced, run, known, acked, heard>>

\* run_provider stamps ran_at before it looks at anything.
StartProvider(p) ==
    /\ pc[p] = "running"
    /\ \E c \in todo[p] :
         /\ forced[p] \/ ~Holds(store[p], c, now)
         /\ todo' = [todo EXCEPT ![p] = @ \ {c}]
         /\ run' = [run EXCEPT ![p] = [control |-> c, ran_at |-> now]]
    /\ pc' = [pc EXCEPT ![p] = "probing"]
    /\ UNCHANGED <<log, now, read, cursor, store, forced, known, acked, heard>>

\* append_to_file: the line, then the process's own store, then the report.
RecordRun(p) ==
    /\ pc[p] = "probing"
    /\ Len(log) < MaxLog
    /\ \E r \in BOOLEAN :
         LET a == [control |-> run[p].control, result |-> r, issued_at |-> run[p].ran_at] IN
         /\ log' = Written(a)
         /\ store' = [store EXCEPT ![p] = Recorded(@, a)]
         /\ known' = [known EXCEPT ![p] = @ \cup {a}]
         /\ acked' = acked \cup {a}
    /\ pc' = [pc EXCEPT ![p] = "running"]
    /\ run' = [run EXCEPT ![p] = NoRecord]
    /\ UNCHANGED <<now, read, cursor, todo, forced, heard>>

\* The process dies, or the disk fills, inside handle.write.
TearLine(p) ==
    /\ pc[p] = "probing"
    /\ Len(log) < MaxLog
    /\ log' = IF log # <<>> /\ log[Len(log)] = Torn THEN log ELSE Append(log, Torn)
    /\ Forget(p)
    /\ UNCHANGED <<now, acked>>

\* The command ends, or is killed outside a write.
Exit(p) ==
    /\ pc[p] # "idle"
    /\ Forget(p)
    /\ UNCHANGED <<log, now, acked>>

\* `attest` on another host: its clock may be ahead of ours or behind it.
ForeignAppend ==
    /\ Len(log) < MaxLog
    /\ \E c \in Controls, r \in BOOLEAN, t \in 0..MaxTime :
         LET a == [control |-> c, result |-> r, issued_at |-> t] IN
         /\ log' = Written(a)
         /\ acked' = acked \cup {a}
    /\ UNCHANGED <<now, pc, read, cursor, store, todo, forced, run, known, heard>>

Next ==
    \/ Tick
    \/ ForeignAppend
    \/ \E p \in Processes :
         \/ ReadText(p) \/ FoldLine(p) \/ FoldMalformed(p) \/ Loaded(p)
         \/ SkipCurrent(p) \/ StartProvider(p) \/ RecordRun(p)
         \/ TearLine(p) \/ Exit(p)

Spec == Init /\ [][Next]_vars

-----------------------------------------------------------------------------
\* For every process and control, the store holds the newest attestation the
\* process was given, whatever the order it was given them in, and of those of
\* one instant a FAIL (AttestationStore.record).
NewestWins == \A p \in Processes : Resolves(store[p], known[p])

\* An attestation that some command reported as recorded is known to every
\* process that gets through loading the file afterwards: a line torn by a
\* crash, or a record glued to it, stops the load and is never skipped
\* (AttestationStore.from_file).
AckedIsHeard ==
    \A p \in Processes : pc[p] \in {"running", "probing"} => heard[p] \subseteq known[p]

\* While a process takes a control for held, every FAIL on it that was reported
\* before the process loaded is overtaken by a PASS with a strictly later
\* instant: no append of the same instant, no reordering and no crash lets an
\* older PASS win over a reported denial.
AckedFailStands ==
    \A p \in Processes : pc[p] \in {"running", "probing"} =>
      \A f \in heard[p] :
        ~f.result /\ Holds(store[p], f.control, now) =>
          \E a \in known[p] : a.control = f.control /\ a.result /\ a.issued_at > f.issued_at
-----------------------------------------------------------------------------
\* AttestationStore.from_file over the lines l.
FromFile(l) ==
    LET folded[n \in 0..Len(l)] ==
          IF n = 0 THEN EmptyStore ELSE Recorded(folded[n - 1], l[n])
    IN  IF \E i \in DOMAIN l : l[i] \in Malformed THEN Torn ELSE folded[Len(l)]

\* What it answers to a process that loads now.
FreshLoad == FromFile(log)

Board == INSTANCE AttestationBoard WITH answer <- FreshLoad, Unreadable <- Torn

\* Whatever the processes and the other hosts append, in whatever order and
\* with whatever timestamps, the answer a fresh load gives on a control only
\* moves up in the order of AttestationBoard, or the file stops loading.
AnswersOnlyRise == Board!Spec
=============================================================================
