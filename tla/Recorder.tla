------------------------------ MODULE Recorder ------------------------------
(***************************************************************************)
(* The black-box recorder's captures and their retention: the capture      *)
(* files (internal/recorder/capture.go), the loop that flushes them to the *)
(* journal and prunes the old ones (recorder.go, retention.go), the        *)
(* journal's side of it (internal/journal/journal.go, prune.go), and what  *)
(* the check of a journal says of a capture that is gone (check.go).       *)
(*                                                                         *)
(* Two captures: "tail" is written by the recorder's own loop, "es" by the *)
(* eslogger goroutine, which also flushes it.  A file is the sequence of   *)
(* its lines, a hash is the lines hashed, and paths are numbered as they   *)
(* are created, which is how their names sort.  The lines of a file whose  *)
(* name is gone live on as long as a capture has it open.  The journal's   *)
(* chain, and the transcripts it covers too, are left out; a write of the  *)
(* whole of one line is the only write.                                    *)
(***************************************************************************)
EXTENDS Naturals, Sequences, FiniteSets, SequencesExt

CONSTANTS
    RollLines,   \* Capture.RollBytes
    MaxBytes,    \* Retention.MaxBytes; 0 is no bound on the size
    MaxFiles,    \* bound: capture files
    MaxWritten,  \* bound: lines written in all
    MaxMishaps,  \* bound: edits and removals by another hand, accesses that fail:
                 \* so many in the first session, and one less after each restart
    MaxSessions  \* bound: starts of the monitor

ASSUME RecorderAssumption ==
    /\ RollLines \in Nat \ {0} /\ MaxBytes \in Nat
    /\ MaxFiles \in Nat /\ MaxMishaps \in Nat /\ MaxSessions \in Nat \ {0}

Captures == {"tail", "es"}
Paths    == 1 .. MaxFiles
NoPath   == 0

VARIABLES
    disk,      \* the capture files created so far: what each holds
    present,   \* those whose name is still in the directory
    cap,       \* the Captures
    own,       \* the files this session created
    jfiles,    \* Journal.files: what it hashed of each file, this session
    log,       \* journal.jsonl: what it says of each file
    jclosed,   \* the journal is closed
    known,     \* Recorder.known: the size the journal had for each file
    knows,     \*   once it was read
    loop,      \* the recorder's loop: its next step,
    active,    \*   the captures in use, as Prune saw them,
    todo,      \*   the candidates not looked at yet, and the bytes they add up to,
    total,
    cur,       \*   the candidate it deletes, as it saw and hashed it
    es,        \* the eslogger goroutine: "runs" or "ended"
    stop,      \* what the signal handler does next
    up,        \* the monitor runs
    session,
    touched,   \* history: captures another hand changed or removed,
    altered,   \*   those of them that no prune record accounted for then,
    kept,      \*   and those retention failed to remove
    seen,      \* history: the newest file there was when Prune took the active ones
    unseen,    \* history: newer files it deleted nevertheless
    unrecorded, \* history: captures of which the journal failed to write the last record
    mishaps    \* bound: mishaps so far

files   == <<disk, present>>
journal == <<jfiles, log, jclosed>>
scope   == <<known, knows>>
pruning == <<active, todo, total, cur>>
ended   == <<es, stop, up, session>>
history == <<touched, altered, kept, seen, unseen, unrecorded, mishaps>>
noted   == <<jfiles, log, unrecorded, mishaps>>  \* what a flush changes
recorderVars == <<files, cap, own, journal, scope, loop, pruning, ended, history>>

Mishap == mishaps + session <= MaxMishaps /\ mishaps' = mishaps + 1
Closed     ==
    [open |-> FALSE, path |-> NoPath, written |-> 0, journaled |-> 0, closed |-> FALSE]
NoPrune    == [size |-> 0, known |-> FALSE, prefix |-> <<>>, pre |-> <<>>, sha |-> <<>>]
NoLog      == [last |-> "none", prefix |-> <<>>, prune |-> NoPrune]
NoFile     == [path |-> NoPath, size |-> 0, journaled |-> 0, sha |-> <<>>]
Take(s, n) == SubSeq(s, 1, IF n < Len(s) THEN n ELSE Len(s))
Set(f, x, v) == [y \in DOMAIN f \cup {x} |-> IF y = x THEN v ELSE f[y]]
Without(f, x) == [y \in DOMAIN f \ {x} |-> f[y]]

LinesWritten == FoldLeft(LAMBDA n, d : n + Len(d), 0, disk)
Bytes(S)     == FoldSet(LAMBDA c, n : n + c.size, 0, S)
-----------------------------------------------------------------------------
RecorderInit ==
    /\ disk = <<>> /\ present = {} /\ own = {}
    /\ cap = [c \in Captures |-> Closed]
    /\ jfiles = <<>> /\ log = [p \in Paths |-> NoLog] /\ jclosed = FALSE
    /\ known = <<>> /\ knows = FALSE
    /\ loop = "wait" /\ active = {} /\ todo = {} /\ total = 0 /\ cur = NoFile
    /\ es = "runs" /\ stop = "run"
    /\ up = TRUE /\ session = 1
    /\ touched = {} /\ altered = {} /\ kept = {} /\ seen = 0 /\ unseen = {}
    /\ unrecorded = {} /\ mishaps = 0
-----------------------------------------------------------------------------
(***************************************************************************)
(* A capture writes, and flushes what it wrote to the journal.             *)
(***************************************************************************)
\* What the journal hashed of p once it has the first n lines of it.
Grown(p, n, d) ==
    LET was == IF p \in DOMAIN jfiles THEN jfiles[p] ELSE <<>>
    IN  was \o SubSeq(Take(d, n), Len(was) + 1, Len(Take(d, n)))

\* Grow keeps what it hashed of p, and records that there is more of it: if it read
\* anything, and the record can be written.
Keeps(p, now, writes) ==
    /\ jfiles' = Set(jfiles, p, now)
    /\ IF p \in DOMAIN jfiles /\ now = jfiles[p] THEN UNCHANGED <<log, unrecorded>>
       ELSE IF writes /\ now # <<>>
            THEN /\ log' = [log EXCEPT ![p].last = "append", ![p].prefix = now]
                 /\ unrecorded' = unrecorded \ {p}
            ELSE /\ UNCHANGED log
                 /\ unrecorded' = unrecorded \cup {p}

Grows(p, n, d, names) ==
    IF jclosed \/ p \notin names THEN UNCHANGED <<jfiles, log, unrecorded>>
    ELSE Keeps(p, Grown(p, n, d), TRUE)

\* It may fail at the stat, or later: then it has the state of the file already, and
\* whatever it read of it; and nobody hears of a record that cannot be written.
FlushFails(p, n, d, names) ==
    /\ Mishap
    /\ \/ UNCHANGED <<jfiles, log, unrecorded>>
       \/ /\ ~jclosed /\ p \in names
          /\ \E m \in 0 .. n, writes \in BOOLEAN :
                (m < n \/ ~writes) /\ Keeps(p, Grown(p, m, d), writes)

\* flushLocked: what was written counts as journaled, whether or not it was.
Pending(k) == k.path # NoPath /\ k.written > k.journaled
Flushed(k) == [k EXCEPT !.journaled = k.written]
FlushesTo(p, n, d, names) ==
    \/ Grows(p, n, d, names) /\ UNCHANGED mishaps
    \/ FlushFails(p, n, d, names)
FlushOf(c) ==
    /\ cap' = [cap EXCEPT ![c] = Flushed(@)]
    /\ IF ~Pending(cap[c]) THEN UNCHANGED noted
       ELSE FlushesTo(cap[c].path, cap[c].written, disk[cap[c].path], present)

\* writeLocked: a new file if none is open, and the last line of one that is due.
Writes(c) ==
    /\ ~cap[c].closed /\ LinesWritten < MaxWritten
    /\ cap[c].open \/ Len(disk) < MaxFiles
    /\ LET fresh == ~cap[c].open
           p     == IF fresh THEN Len(disk) + 1 ELSE cap[c].path
           k     == IF fresh THEN [Closed EXCEPT !.path = p, !.open = TRUE] ELSE cap[c]
           n     == k.written + 1
           m     == [k EXCEPT !.written = n]
       IN /\ disk' = IF fresh THEN Append(disk, <<"raw">>) ELSE [disk EXCEPT ![p] = Append(@, "raw")]
          /\ present' = IF fresh THEN present \cup {p} ELSE present
          /\ own' = IF fresh THEN own \cup {p} ELSE own
          /\ \E due \in BOOLEAN :
                /\ n >= RollLines => due
                /\ IF due
                   THEN /\ cap' = [cap EXCEPT ![c] = [Flushed(m) EXCEPT !.open = FALSE]]
                        /\ FlushesTo(p, n, disk'[p], present')
                   ELSE /\ cap' = [cap EXCEPT ![c] = m]
                        /\ UNCHANGED noted

\* Mutant of Closing: what was not flushed yet is not.
ClosingUnflushed(c) ==
    /\ cap' = [cap EXCEPT ![c].closed = TRUE, ![c].open = FALSE]
    /\ UNCHANGED noted

\* Close: flush, and take no more.
Closing(c) ==
    IF cap[c].closed THEN UNCHANGED <<cap, noted>>
    ELSE /\ cap' = [cap EXCEPT ![c] = [Flushed(@) EXCEPT !.closed = TRUE, !.open = FALSE]]
         /\ IF ~Pending(cap[c]) THEN UNCHANGED noted
            ELSE FlushesTo(cap[c].path, cap[c].written, disk[cap[c].path], present)
-----------------------------------------------------------------------------
(***************************************************************************)
(* The eslogger goroutine, and its flush every two seconds.                *)
(***************************************************************************)
ESWrites ==
    /\ up /\ es # "ended" /\ Writes("es")
    /\ UNCHANGED <<jclosed, scope, loop, pruning, ended,
                   touched, altered, kept, seen, unseen>>

ESFlushes ==
    /\ up /\ es # "ended" /\ Pending(cap["es"]) /\ FlushOf("es")
    /\ UNCHANGED <<files, own, jclosed, scope, loop, pruning, ended,
                   touched, altered, kept, seen, unseen>>

\* It ends on its own, or because it was cancelled.
ESEnds ==
    /\ up /\ es # "ended" /\ es' = "ended" /\ Closing("es")
    /\ UNCHANGED <<files, own, jclosed, scope, loop, pruning, stop, up, session,
                   touched, altered, kept, seen, unseen>>
-----------------------------------------------------------------------------
(***************************************************************************)
(* The loop: Tick polls, flushes, and prunes when it is time to.           *)
(***************************************************************************)
Goto(s) == loop' = s

TickWrites ==
    /\ up /\ loop = "wait" /\ stop = "run" /\ Writes("tail") /\ Goto("flush")
    /\ UNCHANGED <<jclosed, scope, pruning, ended,
                   touched, altered, kept, seen, unseen>>

TickIdle ==
    /\ up /\ loop = "wait" /\ stop = "run" /\ disk # <<>> /\ Goto("flush")
    /\ UNCHANGED <<files, cap, own, journal, scope, pruning, ended, history>>

\* flush, of "tail" and then of "es".
TickFlushes ==
    /\ up /\ loop = "flush" /\ FlushOf("tail") /\ Goto("flush es")
    /\ UNCHANGED <<files, own, jclosed, scope, pruning, ended,
                   touched, altered, kept, seen, unseen>>

TickFlushesES ==
    /\ up /\ loop = "flush es" /\ FlushOf("es")
    /\ Goto("wait") \/ Goto("prune")
    /\ UNCHANGED <<files, own, jclosed, scope, pruning, ended,
                   touched, altered, kept, seen, unseen>>

\* Prune takes the captures in use.
PruneBegins ==
    /\ up /\ loop = "prune" /\ Goto("flush again")
    /\ active' = {cap[c].path : c \in {k \in Captures : cap[k].open}}
    /\ seen' = Len(disk)
    /\ UNCHANGED <<files, cap, own, journal, scope, todo, total, cur, ended,
                   touched, altered, kept, unseen, unrecorded, mishaps>>

\* Its own flush; what "tail" wrote is journaled already.
PruneFlushes ==
    /\ up /\ loop = "flush again" /\ FlushOf("es") /\ Goto("list")
    /\ UNCHANGED <<files, own, jclosed, scope, pruning, ended,
                   touched, altered, kept, seen, unseen>>

\* knownCaptures: what the journal file names, read once, and this session's own.
\* Retention.Prune: those of them there are, oldest first, and their sizes.
InJournal == {p \in Paths : log[p].prefix # <<>>}
KnownCaptures ==
    LET read == IF knows THEN known ELSE [p \in InJournal |-> Len(log[p].prefix)]
    IN  [p \in DOMAIN read \cup own |-> IF p \in DOMAIN read THEN read[p] ELSE 0]

\* Mutant of Candidate: the size the journal file had, though the live journal knows better.
StaleCandidate(p) ==
    [path |-> p, size |-> Len(disk[p]), sha |-> <<>>, journaled |-> known'[p]]

Candidate(p) ==
    [path |-> p, size |-> Len(disk[p]), sha |-> <<>>,
     journaled |-> IF p \in DOMAIN jfiles THEN Len(jfiles[p]) ELSE known'[p]]

ListCaptures ==
    /\ up /\ loop = "list" /\ Goto("next")
    /\ knows' = TRUE /\ known' = KnownCaptures
    /\ todo' = {Candidate(p) : p \in present \cap DOMAIN known'}
    /\ total' = Bytes(todo')
    /\ UNCHANGED <<files, cap, own, journal, active, cur, ended, history>>

\* The oldest that is not in use is deleted if it is over the age bound, which may be
\* so of any file older than this pruning, or if they all are over the size bound.
TooMany == MaxBytes > 0 /\ total > MaxBytes
Unused  == {c \in todo : c.path \notin active}
NextCandidate ==
    /\ up /\ loop = "next" /\ Goto("hash")
    /\ \E c \in Unused :
          /\ \A d \in Unused : c.path <= d.path
          /\ c.path <= seen \/ TooMany
          /\ unseen' = IF c.path > seen THEN unseen \cup {c.path} ELSE unseen
          /\ cur' = c /\ todo' = todo \ {c}
    /\ UNCHANGED <<files, cap, own, journal, scope, active, total, ended,
                   touched, altered, kept, seen, unrecorded, mishaps>>

PruneEnds ==
    /\ up /\ loop = "next" /\ Goto("wait")
    /\ Unused = {} \/ ~TooMany
    /\ active' = {} /\ todo' = {} /\ total' = 0 /\ seen' = 0
    /\ UNCHANGED <<files, cap, own, journal, scope, cur, ended,
                   touched, altered, kept, unseen, unrecorded, mishaps>>

\* hashWithPrefix: the whole of it, and the part the journal had.  It is left alone if
\* it cannot be hashed, or is gone.
Hash ==
    /\ up /\ loop = "hash"
    /\ \/ /\ cur.path \in present
          /\ cur' = [cur EXCEPT !.sha = disk[cur.path]]
          /\ Goto("record") /\ UNCHANGED mishaps
       \/ /\ IF cur.path \in present THEN Mishap ELSE UNCHANGED mishaps
          /\ cur' = NoFile /\ Goto("next")
    /\ UNCHANGED <<files, cap, own, journal, scope, active, todo, total, ended,
                   touched, altered, kept, seen, unseen, unrecorded>>

\* Journal.Prune: the deletion is recorded, if it can be, and the file forgotten.
RecordPrune ==
    /\ up /\ loop = "record" /\ Goto("remove")
    /\ IF jclosed THEN UNCHANGED noted
       ELSE LET p == cur.path
                in == p \in DOMAIN jfiles
                r == [size |-> cur.size, known |-> in, sha |-> cur.sha,
                      prefix |-> IF in THEN jfiles[p] ELSE <<>>,
                      pre |-> IF Len(cur.sha) < cur.journaled THEN <<>>
                              ELSE Take(cur.sha, cur.journaled)]
            IN  /\ jfiles' = Without(jfiles, p)
                /\ \/ /\ log' = [log EXCEPT ![p].last = "prune", ![p].prune = r]
                      /\ UNCHANGED <<unrecorded, mishaps>>
                   \/ Mishap /\ unrecorded' = unrecorded \cup {p} /\ UNCHANGED log
    /\ UNCHANGED <<files, cap, own, jclosed, scope, pruning, ended,
                   touched, altered, kept, seen, unseen>>

\* The name is removed; if it cannot be, or is gone, that is recorded too, if it can.
RemoveFile ==
    /\ up /\ loop = "remove" /\ Goto("next") /\ cur' = NoFile
    /\ \/ /\ cur.path \in present
          /\ present' = present \ {cur.path} /\ total' = total - cur.size
          /\ UNCHANGED <<log, kept, mishaps>>
       \/ /\ IF cur.path \in present THEN Mishap ELSE UNCHANGED mishaps
          /\ kept' = kept \cup {cur.path}
          /\ \/ ~jclosed /\ log' = [log EXCEPT ![cur.path].last = "prune_failed"]
             \/ UNCHANGED log
          /\ UNCHANGED <<present, total>>
    /\ UNCHANGED <<disk, cap, own, jfiles, jclosed, scope, active, todo, ended,
                   touched, altered, seen, unseen, unrecorded>>
-----------------------------------------------------------------------------
(***************************************************************************)
(* Stopping: eslogger, the recorder, the journal, and out.                 *)
(***************************************************************************)
StepTo(q) == stop' = q

\* es.Stop waits until eslogger ended, but no longer than five seconds; then Stop
\* closes the loop's channel.
StopBegins ==
    /\ up /\ stop = "run" /\ StepTo("join")
    /\ UNCHANGED <<files, cap, own, journal, scope, loop, pruning, es, up, session,
                   history>>

\* It waits for the loop, and polls the tailed files for the last time.
LastPoll ==
    /\ up /\ stop = "join" /\ loop = "wait" /\ StepTo("close tail")
    /\ \/ Writes("tail")
       \/ UNCHANGED <<files, cap, own, noted>>
    /\ UNCHANGED <<jclosed, scope, loop, pruning, es, up, session,
                   touched, altered, kept, seen, unseen>>

\* Every capture is closed.
CloseTail ==
    /\ up /\ stop = "close tail" /\ Closing("tail") /\ StepTo("close es")
    /\ UNCHANGED <<files, own, jclosed, scope, loop, pruning, es, up, session,
                   touched, altered, kept, seen, unseen>>

CloseES ==
    /\ up /\ stop = "close es" /\ Closing("es") /\ StepTo("journal")
    /\ UNCHANGED <<files, own, jclosed, scope, loop, pruning, es, up, session,
                   touched, altered, kept, seen, unseen>>

CloseJournal ==
    /\ up /\ stop = "journal" /\ jclosed' = TRUE /\ StepTo("exit")
    /\ UNCHANGED <<files, cap, own, jfiles, log, scope, loop, pruning, es, up, session,
                   history>>

\* The journal, opened again, knows none of the files; nor does the recorder.
Reopened == jclosed' = FALSE /\ known' = <<>> /\ knows' = FALSE /\ jfiles' = <<>>

\* The handler ends the program, or it dies: what it had in memory is gone.
\* It may be started again.
Ends ==
    /\ up' = (session < MaxSessions) /\ session' = IF up' THEN session + 1 ELSE session
    /\ loop' = "wait" /\ active' = {} /\ todo' = {} /\ total' = 0 /\ cur' = NoFile
    /\ cap' = [c \in Captures |-> Closed]
    /\ own' = {} /\ Reopened
    /\ es' = "runs" /\ stop' = "run" /\ seen' = 0
    /\ unrecorded' = unrecorded \ present
    /\ UNCHANGED <<files, log, touched, altered, kept, unseen, mishaps>>
Exit  == up /\ stop = "exit" /\ Ends
Crash == up /\ Ends
-----------------------------------------------------------------------------
\* Another hand alters a journaled line of a capture, or removes a capture: before
\* retention has hashed it and recorded that it goes, or after.
Accounted(p) == (cur.path = p /\ loop \in {"record", "remove"}) \/ log[p].last = "prune"
Alter(p) ==
    /\ Mishap
    /\ \E i \in 1 .. Len(log[p].prefix) : disk' = [disk EXCEPT ![p][i] = "altered"]
    /\ touched' = touched \cup {p}
    /\ altered' = IF Accounted(p) THEN altered ELSE altered \cup {p}
    /\ UNCHANGED <<present, cap, own, journal, scope, loop, pruning, ended,
                   kept, seen, unseen, unrecorded>>

Vanish(p) ==
    /\ Mishap
    /\ present' = present \ {p}
    /\ touched' = touched \cup {p}
    /\ altered' = IF Accounted(p) \/ log[p].last = "none" THEN altered ELSE altered \cup {p}
    /\ UNCHANGED <<disk, cap, own, journal, scope, loop, pruning, ended,
                   kept, seen, unseen, unrecorded>>
-----------------------------------------------------------------------------
Loop == \/ TickWrites \/ TickIdle \/ TickFlushes \/ TickFlushesES
        \/ PruneBegins \/ PruneFlushes \/ ListCaptures
        \/ NextCandidate \/ PruneEnds \/ Hash \/ RecordPrune \/ RemoveFile
Stop == StopBegins \/ LastPoll \/ CloseTail \/ CloseES \/ CloseJournal \/ Exit
RecorderNext ==
    \/ ESWrites \/ ESFlushes \/ ESEnds
    \/ Loop \/ Stop \/ Crash
    \/ \E p \in present : Alter(p) \/ Vanish(p)

RecorderSpec == RecorderInit /\ [][RecorderNext]_recorderVars
-----------------------------------------------------------------------------
(***************************************************************************)
(* What a check of the journal says of a capture that is gone.             *)
(***************************************************************************)
\* Mutant of Mismatch: only the sizes are compared.
MismatchBySize(j, r) ==
    r.size < Len(j) \/ (r.known /\ (j = <<>> \/ Len(r.prefix) # Len(j)))

\* pruneVerdict, of the journaled lines j and the prune record r.  Where nothing was
\* journaled there is no hash, and the hash of nothing differs from that.
Mismatch(j, r) ==
    \/ r.known /\ (j = <<>> \/ r.prefix # j)
    \/ /\ j # <<>>
       /\ \/ r.size < Len(j)
          \/ /\ r.size >= Len(j)
             /\ IF Len(r.pre) = Len(j) THEN r.pre # j ELSE r.sha # j

\* checkPath of a capture that is not among the collected files.
Reported(p) ==
    /\ log[p].last # "none"
    /\ log[p].last = "prune" => Mismatch(log[p].prefix, log[p].prune)
Gone == DOMAIN disk \ present
-----------------------------------------------------------------------------
\* A capture retention deleted is accounted for: the check of the journal does not
\* report it, whatever was flushed when, across restarts, and if a flush failed or
\* the program died in the midst of it; but for one of which the journal, in that
\* session, could not write the last record (journal.go:155-183 leaves a state then
\* that no record tells of, and the prune record is made from it), and one that
\* retention could not remove before, and whose last flush failed.  (Retention may
\* also delete a file opened after it took the captures in use, retention.go:132
\* notwithstanding.)  retention.go:125-205, check.go:235-290.
PrunedAccounted ==
    \A p \in Gone \ (touched \cup unseen \cup unrecorded) :
        Reported(p) => p \in kept /\ log[p].prefix # disk[p]

\* A capture another hand altered or removed before retention had hashed it and
\* recorded that it goes is reported once it is gone: retention does not launder it.
\* prune.go:9-22, check.go.
TamperReported == \A p \in (Gone \cap altered) \ unseen : Reported(p)

\* When the journal is closed in an orderly stop, all that was captured in this
\* session and is still there is journaled, even if eslogger outlived the five
\* seconds it was given.  recorder.go:574-618, capture.go:169-180.
StopJournals ==
    jclosed /\ mishaps = 0 =>
        \A p \in own \cap present : log[p].last = "append" /\ log[p].prefix = disk[p]
=============================================================================
