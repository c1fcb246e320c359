------------------------------- MODULE LogTail -------------------------------
(***************************************************************************)
(* The black-box recorder following one endpoint log                       *)
(* (internal/recorder/tail.go), and the sequence numbers it accounts for   *)
(* (source.go, in SequenceGaps).                                           *)
(*                                                                         *)
(* A log daemon writes lines, each in two writes, while something rotates  *)
(* the log: it renames the file and creates another, or truncates it in    *)
(* place.  The tailer polls.  Every read, every write to the capture and   *)
(* every stat is a step of its own, so that the log may change in between. *)
(*                                                                         *)
(* A file is a sequence of units: the identity of a line, standing for the *)
(* bytes of the line, or NL.  The capture file itself, its roll-over and   *)
(* its journal are in Recorder.                                            *)
(***************************************************************************)
EXTENDS SequenceGaps, Sequences, SequencesExt

CONSTANTS
    FromStart,  \* Tailer.FromStart: copy what the file holds at the first open?
    BufSize,    \* units read at once
    MaxPoll,    \* units copied by one drain
    Numbers,      \* what the sequence number of a line may be
    FirstNumber,  \* that of the first line read
    Long,         \* the lines more than maxCarry of which is once held without its end
    MaxLines,     \* bound: lines written to the log
    MaxRenames,   \* bound: rotations by rename
    MaxCuts,      \* bound: rotations by truncation
    MaxFaults     \* bound: writes to the capture that fail

ASSUME TailAssumption ==
    /\ FromStart \in BOOLEAN
    /\ BufSize \in Nat \ {0} /\ MaxPoll \in Nat \ {0}
    /\ Numbers \subseteq Nat \ {0} /\ FirstNumber \in Numbers /\ MaxLines \in Nat
    /\ Long \subseteq Nat \ {0}

VARIABLES
    content,  \* the files there have been, oldest first, each its units
    path,     \* the file the log's path names, or None
    wfd,      \* the file the daemon has open
    half,     \* has the daemon written a line but not yet its end?
    written,  \* the lines written so far, numbered from 1
    num,      \* the sequence number of each; it is chosen when it is first read
    f,        \* Tailer.f: the file followed, or None
    off,      \* Tailer.off
    opened,   \* Tailer.opened
    partial,  \* Tailer.last: was the last byte copied not the end of a line?
    pc, buf, read, done, eof,  \* the poll: its next step, drain's locals
    out,      \* what the capture got
    carry,    \* Source.carry: the last, incomplete line
    src,      \* the rest of Source
    lost,     \* history: the lines the tailer is not held to, see below
    raced,    \* history: those written between its last read and a rename
    blind,    \* history: truncated in place, and not noticed yet
    skipped,  \* history: it read on past a truncation it did not notice
    bounds    \* bound: the rotations and faults so far

logVars   == <<content, path, wfd, half, written>>
tailVars  == <<f, off, opened, partial, pc, buf, read, done, eof>>
sinkVars  == <<out, carry, src, num>>
ghostVars == <<lost, raced, blind, skipped, bounds>>
vars == <<logVars, tailVars, sinkVars, ghostVars>>

None   == 0
NL     == 0
Unread == 0
Lines(units)  == {units[i] : i \in DOMAIN units} \ {NL}
Beyond(n)     == SubSeq(content[f], n + 1, Len(content[f]))
Followed      == content[f]
Captured      == Lines(out)
Written       == 1 .. written
Lesser(a, b)  == IF a < b THEN a ELSE b
\* The poll's last read before its stat reached the end of the file.
AtEnd == \/ pc = "stat" /\ eof
         \/ pc = "drain" /\ buf # <<>> /\ read < BufSize
Modes         == {"drain", "rest", "fresh"}
Count(what)   == bounds' = [bounds EXCEPT ![what] = @ + 1]
-----------------------------------------------------------------------------
Init ==
    /\ content = << <<>> >> /\ path = 1 /\ wfd = 1 /\ half = FALSE /\ written = 0
    /\ f = None /\ off = 0 /\ opened = FALSE /\ partial = FALSE
    /\ pc = "idle" /\ buf = <<>> /\ read = 0 /\ done = 0 /\ eof = FALSE
    /\ out = <<>> /\ carry = <<>> /\ src = NewSource
    /\ num = [id \in 1 .. MaxLines |-> Unread]
    /\ lost = {} /\ raced = {} /\ blind = FALSE /\ skipped = FALSE
    /\ bounds = [renames |-> 0, cuts |-> 0, faults |-> 0]

\* The daemon writes a line, then its end.  A line it writes to a file that
\* the path no longer names, or before the tailer can tell that the file was
\* truncated, may never be read.
WriteLine ==
    LET id == written + 1 IN
    /\ ~half /\ id <= MaxLines
    /\ written' = id
    /\ content' = [content EXCEPT ![wfd] = Append(@, id)]
    /\ half' = TRUE
    /\ lost' = IF wfd # path \/ blind THEN lost \cup {id} ELSE lost
    /\ UNCHANGED <<path, wfd, tailVars, sinkVars, raced, blind, skipped, bounds>>

WriteEnd ==
    /\ half /\ half' = FALSE
    /\ content' = [content EXCEPT ![wfd] = Append(@, NL)]
    /\ UNCHANGED <<path, wfd, written, tailVars, sinkVars, ghostVars>>

\* The log is renamed away.  What it holds is to be read by the tailer if it
\* follows that file, whatever it has read of it so far.
Rename ==
    /\ path # None /\ bounds.renames < MaxRenames
    /\ path' = None /\ Count("renames")
    /\ lost' = IF path = f THEN lost ELSE lost \cup Lines(content[path])
    /\ raced' = IF path = f /\ AtEnd THEN raced \cup Lines(Beyond(off + read)) ELSE raced
    /\ UNCHANGED <<content, wfd, half, written, tailVars, sinkVars, blind, skipped>>

\* The log is created anew, and then the daemon told to open it.
Create ==
    /\ path = None
    /\ content' = Append(content, <<>>) /\ path' = Len(content')
    /\ UNCHANGED <<wfd, half, written, tailVars, sinkVars, ghostVars>>

Reopen ==
    /\ path # None /\ wfd # path /\ ~half
    /\ wfd' = path
    /\ UNCHANGED <<content, path, half, written, tailVars, sinkVars, ghostVars>>

\* copytruncate: what was not read is gone, and what is written next cannot be
\* told from it until the file is seen to be shorter.
Truncate ==
    /\ path # None /\ bounds.cuts < MaxCuts /\ content[path] # <<>>
    /\ content' = [content EXCEPT ![path] = <<>>] /\ Count("cuts")
    /\ lost' = lost \cup (Lines(content[path]) \ Captured)
    /\ blind' = (blind \/ (path = f /\ (off > 0 \/ buf # <<>>)))
    /\ UNCHANGED <<path, wfd, half, written, tailVars, sinkVars, raced, skipped>>
-----------------------------------------------------------------------------
NumberOf(id) ==
    IF num[id] # Unread THEN {num[id]}
    ELSE IF src.known THEN Numbers ELSE {FirstNumber}

\* Mutant: what is too long to be kept is.
ObserveAll(u) ==
    IF u # NL THEN carry' = Append(carry, u) /\ UNCHANGED <<src, num>>
    ELSE /\ carry' = <<>>
         /\ IF carry = <<>> THEN UNCHANGED <<src, num>>
            ELSE \E v \in NumberOf(Head(carry)) :
                     /\ num' = [num EXCEPT ![Head(carry)] = v]
                     /\ src' = SeqStep(src, v)

\* An incomplete line that has become too long is dropped, its number with it.
CarriedOn(line, u) == IF u \in Long THEN <<>> ELSE Append(line, u)

\* Source.Observe of one unit: at the end of a line, of its first number.
Observe(u) ==
    IF u # NL THEN carry' = CarriedOn(carry, u) /\ UNCHANGED <<src, num>>
    ELSE /\ carry' = <<>>
         /\ IF carry = <<>> THEN UNCHANGED <<src, num>>
            ELSE \E v \in NumberOf(Head(carry)) :
                     /\ num' = [num EXCEPT ![Head(carry)] = v]
                     /\ src' = SeqStep(src, v)

Emit(u) == out' = Append(out, u) /\ Observe(u)

Drain(mode) ==
    /\ pc' = mode /\ done' = 0 /\ buf' = <<>> /\ read' = 0

\* drain returns: e tells whether it stopped at the end, or on an error.
Drained(e) ==
    /\ done' = 0 /\ buf' = <<>> /\ read' = 0
    /\ eof' = (pc = "drain" /\ e)
    /\ pc' = CASE pc = "drain" -> "stat"
               [] pc = "rest"  -> IF e THEN "close" ELSE "rest"
               [] pc = "fresh" -> "idle"

\* Mutant: whatever a file holds when it is opened is history.
PollOpensAtEnd ==
    /\ pc = "idle" /\ f = None /\ path # None
    /\ f' = path /\ opened' = TRUE
    /\ off' = IF FromStart THEN 0 ELSE Len(content[path])
    /\ lost' = IF opened \/ FromStart THEN lost ELSE lost \cup Lines(content[path])
    /\ Drain("drain")
    /\ UNCHANGED <<partial, eof, logVars, sinkVars, raced, blind, skipped, bounds>>

\* Poll, with no file open: open it.  What it holds at the first open is history.
PollOpens ==
    /\ pc = "idle" /\ f = None /\ path # None
    /\ f' = path /\ opened' = TRUE
    /\ off' = IF opened \/ FromStart THEN 0 ELSE Len(content[path])
    /\ lost' = IF opened \/ FromStart THEN lost ELSE lost \cup Lines(content[path])
    /\ Drain("drain")
    /\ UNCHANGED <<partial, eof, logVars, sinkVars, raced, blind, skipped, bounds>>

Poll ==
    /\ pc = "idle" /\ f # None
    /\ Drain("drain")
    /\ UNCHANGED <<f, off, opened, partial, eof, logVars, sinkVars, ghostVars>>

Read ==
    /\ pc \in Modes /\ buf = <<>> /\ off < Len(Followed)
    /\ read' = Lesser(BufSize, Len(Followed) - off)
    /\ buf' = SubSeq(Followed, off + 1, off + read')
    /\ blind' = FALSE /\ skipped' = (skipped \/ blind)
    /\ lost' = IF blind THEN lost \ Lines(Beyond(off)) ELSE lost
    /\ UNCHANGED <<f, off, opened, partial, pc, done, eof, logVars, sinkVars,
                   raced, bounds>>

ReadNothing ==
    /\ pc \in Modes /\ buf = <<>> /\ off >= Len(Followed)
    /\ Drained(TRUE)
    /\ UNCHANGED <<f, off, opened, partial, logVars, sinkVars, ghostVars>>

\* The units read are written to the capture; only then does off move.
Copy ==
    /\ buf # <<>>
    /\ Emit(Head(buf))
    /\ IF Len(buf) > 1
       THEN buf' = Tail(buf) /\ UNCHANGED <<off, partial, pc, read, done, eof>>
       ELSE /\ off' = off + read
            /\ partial' = (Head(buf) # NL)
            /\ IF read < BufSize \/ done + read >= MaxPoll
               THEN Drained(read < BufSize)
               ELSE /\ done' = done + read /\ buf' = <<>> /\ read' = 0
                    /\ UNCHANGED <<pc, eof>>
    /\ UNCHANGED <<f, opened, logVars, ghostVars>>

\* The capture refuses the rest of the buffer: drain gives up, as at the end.
CopyFails ==
    /\ buf # <<>> /\ bounds.faults < MaxFaults
    /\ Drained(TRUE) /\ Count("faults")
    /\ UNCHANGED <<f, off, opened, partial, logVars, sinkVars, lost, raced, blind, skipped>>

EndLine ==
    /\ partial' = FALSE
    /\ IF partial THEN Emit(NL) ELSE UNCHANGED sinkVars

\* Mutant: a file that moved is left where the poll's drain got to.
StatMovedAtOnce ==
    /\ pc = "stat" /\ path # f
    /\ pc' = "close" /\ eof' = FALSE
    /\ UNCHANGED <<f, off, opened, partial, done, buf, read, logVars, sinkVars, ghostVars>>

\* After the drain the path is looked at: is it still the file followed?
StatMoved ==
    /\ pc = "stat" /\ path # f
    /\ IF eof THEN pc' = "close" /\ UNCHANGED <<done, buf, read>> ELSE Drain("rest")
    /\ eof' = FALSE
    /\ UNCHANGED <<f, off, opened, partial, logVars, sinkVars, ghostVars>>

\* Mutant: a file that did not grow is taken for one cut short.
StatCutOrIdle ==
    /\ pc = "stat" /\ path = f /\ Len(Followed) <= off
    /\ EndLine
    /\ off' = 0 /\ Drain("fresh") /\ eof' = FALSE
    /\ blind' = FALSE /\ lost' = lost \ Lines(Followed)
    /\ UNCHANGED <<f, opened, logVars, raced, skipped, bounds>>

StatCut ==
    /\ pc = "stat" /\ path = f /\ Len(Followed) < off
    /\ EndLine
    /\ off' = 0 /\ Drain("fresh") /\ eof' = FALSE
    /\ blind' = FALSE /\ lost' = lost \ Lines(Followed)
    /\ UNCHANGED <<f, opened, logVars, raced, skipped, bounds>>

StatSame ==
    /\ pc = "stat" /\ path = f /\ Len(Followed) >= off
    /\ pc' = "idle" /\ eof' = FALSE
    /\ UNCHANGED <<f, off, opened, partial, done, buf, read, logVars, sinkVars, ghostVars>>

\* The old file is done with; the new one, if there is one yet, is read from 0.
CloseOld ==
    /\ pc = "close"
    /\ EndLine
    /\ f' = path /\ off' = 0
    /\ IF path = None THEN pc' = "idle" /\ UNCHANGED <<done, buf, read>>
                      ELSE Drain("fresh")
    /\ blind' = FALSE
    /\ lost' = IF bounds.faults > 0 THEN lost \cup Lines(Beyond(off)) ELSE lost
    /\ UNCHANGED <<opened, eof, logVars, raced, skipped, bounds>>

Daemon == WriteLine \/ WriteEnd \/ Reopen
Rotation == Rename \/ Create \/ Truncate
Tailer == \/ PollOpens \/ Poll \/ Read \/ ReadNothing \/ Copy
          \/ StatMoved \/ StatCut \/ StatSame \/ CloseOld
Next == Daemon \/ Rotation \/ Tailer \/ CopyFails

Spec == Init /\ [][Next]_vars
\* The recorder's ticker polls for ever.
FairSpec == Spec /\ WF_vars(Tailer)
-----------------------------------------------------------------------------
\* The tailer's state is well formed: it follows a file there was, and what it
\* has read and not yet copied is no more than one buffer.
TypeOK ==
    /\ path \in 0 .. Len(content) /\ wfd \in 1 .. Len(content)
    /\ f \in 0 .. Len(content) /\ off \in Nat /\ done \in Nat
    /\ pc \in Modes \cup {"idle", "stat", "close"}
    /\ (pc # "idle" => f # None) /\ (buf # <<>> => pc \in Modes)
    /\ Len(buf) <= read /\ read <= BufSize
    /\ half \in BOOLEAN /\ opened \in BOOLEAN /\ partial \in BOOLEAN
    /\ eof \in BOOLEAN /\ blind \in BOOLEAN /\ skipped \in BOOLEAN
    /\ num \in [1 .. MaxLines -> Numbers \cup {Unread}] /\ written \in 0 .. MaxLines
    /\ Captured \subseteq Written /\ lost \subseteq Written /\ raced \subseteq Written

\* Across every rotation the capture holds the lines in the order they were
\* written and none twice, and a line cut short by a rotation never runs into the
\* first line of the next file, where its sequence number would be lost; unless a
\* write to the capture failed.
LinesInOrder ==
    bounds.faults = 0 =>
        \A i, j \in DOMAIN out : (i < j /\ out[i] # NL /\ out[j] # NL) => out[i] < out[j]

LinesApart == (bounds.faults = 0 /\ ~skipped) => Len(carry) <= 1
InOrder == LinesInOrder /\ LinesApart

\* A file the tailer is done with was captured whole, but for what cannot be
\* helped: lines truncated away, written to a file that was renamed before,
\* refused by the capture, or written between the last read and the rename.
ClosedFilesCaptured ==
    \A i \in DOMAIN content :
        i \notin {f, path} => Lines(content[i]) \subseteq Captured \cup lost \cup raced

\* The gap accounting stays consistent, and bounded, whatever arrives.
RangesStayConsistent == RangesConsistent(src)

\* Every line gets captured in the end: whatever rotates, and however small the part a
\* poll may copy, the polls catch up, so that there comes a time again at which nothing
\* that was written is outstanding.
EventuallyCaptured == []<>(Written \subseteq Captured \cup lost \cup raced)
-----------------------------------------------------------------------------
\* The lines of the capture, for the definition of what is missing: the number
\* of each is that of the first line written into it, if that was kept.
Observed ==
    LET Step(acc, u) ==
            IF u = NL
            THEN IF acc.line = <<>> THEN acc
                 ELSE [line |-> <<>>, seen |-> Append(acc.seen, num[Head(acc.line)])]
            ELSE [acc EXCEPT !.line = CarriedOn(@, u)]
    IN  FoldLeft(Step, [line |-> <<>>, seen |-> <<>>], out).seen

Between(q, i, j) == {q[k] : k \in i .. j}

\* The place where the run of numbers that the i-th belongs to began: a number
\* more than the window behind all since then begins another.
RunStart(q) ==
    LET start[i \in DOMAIN q] ==
            IF i = 1 THEN 1
            ELSE LET b == start[i - 1]
                 IN  IF q[i] + PendingWindow < Max(Between(q, b, i - 1)) THEN i ELSE b
    IN  start

\* The numbers the run begun at b skipped, up to the i-th.
Skipped(q, b, i) == (q[b] .. Max(Between(q, b, i))) \ Between(q, b, i)

RunEnds(q, start) == {i \in DOMAIN q : i = Len(q) \/ start[i + 1] # start[i]}

MissingOf(q) ==
    LET start == RunStart(q)
    IN  MapThenSumSet(LAMBDA i : Cardinality(Skipped(q, start[i], i)), RunEnds(q, start))

\* The jumps of a run that left a number out which never came.
GapsOf(q) ==
    LET start == RunStart(q)
        Jumped(b, e) ==
            {i \in b + 1 .. e :
                LET m == Max(Between(q, b, i - 1))
                IN  (m + 1 .. q[i] - 1) \cap Skipped(q, b, e) # {}}
    IN  MapThenSumSet(LAMBDA e : Cardinality(Jumped(start[e], e)), RunEnds(q, start))

\* The losses reported are never fewer than the numbers missing from the captured
\* lines whose number was read, and exactly those, in numbers and in gaps, as long
\* as no more numbers were out at once than are waited for.
LossExact ==
    LET q == Observed
        start == RunStart(q)
    IN  /\ ReportedMissing(src) >= MissingOf(q)
        /\ (\A i \in DOMAIN q : Cardinality(Skipped(q, start[i], i)) <= MaxPending) =>
                /\ ReportedMissing(src) = MissingOf(q)
                /\ ReportedGaps(src) = GapsOf(q)

\* The daemon numbers its lines in order, and nothing else went wrong.
InNumber(got) == \A i, j \in got : num[i] - num[j] = i - j
Undisturbed   == bounds.faults = 0 /\ ~skipped

\* End to end: every line that no rotation let through to the capture, between two
\* that it did, is reported; and besides those only lines that are in the capture
\* and were too long for their number to be read (source.go:163).
NoSilentLoss ==
    LET whole  == Captured \ Lines(carry)
        known  == whole \ Long
        within == Min(known) .. Max(known)
    IN  (Undisturbed /\ known # {} /\ InNumber(known)) =>
            ReportedMissing(src) =
                Cardinality(within \ whole) + Cardinality(within \cap whole \cap Long)
=============================================================================
