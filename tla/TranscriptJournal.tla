-------------------------- MODULE TranscriptJournal --------------------------
(***************************************************************************)
(* The tamper-evident journal of "agentdfir monitor --journal": the        *)
(* watcher that polls a transcript (internal/watch), the journal that      *)
(* records what it saw (internal/journal/journal.go), the collection of    *)
(* both into a case, and the check of one against the other (check.go).    *)
(*                                                                         *)
(* One transcript is modelled.  The agent appends to it, and something may *)
(* edit it, between any two accesses of the monitor, and an access of the  *)
(* monitor may fail.  A hash is the bytes hashed.  A record is written     *)
(* whole or not at all; the journal's own chain, its seals and the         *)
(* recorder's captures are left out.                                       *)
(***************************************************************************)
EXTENDS Naturals, Sequences

CONSTANTS
    Data,      \* what a byte of the transcript may be
    Written,   \* what a byte the agent writes may be
    Edits,     \* the edits that may happen: any of EditKinds
    MaxBaseline, \* maxBaselineHash: what is hashed at most of a file found at the start
    MaxLen,    \* bound: bytes of the transcript
    MaxEdits,  \* bound: edits
    MaxStarts, \* bound: starts of the monitor
    MaxFaults  \* bound: accesses of the monitor that fail

EditKinds == {"rewrite", "truncate", "replace", "delete"}
ASSUME EditsAssumption == Edits \subseteq EditKinds
ASSUME WrittenAssumption == Written \subseteq Data
ASSUME BaselineAssumption == MaxBaseline \in Nat

VARIABLES
    file,      \* the transcript: is it there, its inode, its bytes
    offset,    \* Watcher.offsets of it: unknown, or the size seen last
    state,     \* Journal.files of it: none, or its inode and what was hashed
    journal,   \* the records of journal.jsonl about it
    pc, to,    \* the monitor's next step, and the size it is growing to
    case,      \* the case: the Parts collected so far, their copies, and
               \* history: the records there were when the transcript was copied
    starts,    \* starts of the monitor so far
    faults,    \* accesses of the monitor that failed so far
    edits      \* history: the edits so far

vars == <<file, offset, state, journal, pc, to, case, starts, faults, edits>>

Take(s, n) == SubSeq(s, 1, IF n < Len(s) THEN n ELSE Len(s))
Drop(s, n) == SubSeq(s, n + 1, Len(s))
Size       == Len(file.data)

\* Two inode numbers: that of a removed file may be given to the next one.
Inodes == 1..2

NoFile   == [there |-> FALSE, id |-> 0, data |-> <<>>]
NoOffset == [known |-> FALSE, at |-> 0]
NoState  == [known |-> FALSE, id |-> 0, prefix |-> <<>>]
Parts    == {"transcript", "journal"}
Known(n) == [known |-> TRUE, at |-> n]

\* A record: the range at off holds bytes, the whole prefix being prefix.
Rec(k, off, bytes, prefix) ==
    [kind |-> k, off |-> off, bytes |-> bytes, prefix |-> prefix]
Mark(k)    == Rec(k, 0, <<>>, <<>>)
Journal(r) == journal' = Append(journal, r)
Goto(p)    == pc' = p

(***************************************************************************)
(* An access of the monitor fails: the code goes on without a word.        *)
(***************************************************************************)
Fault == faults < MaxFaults /\ faults' = faults + 1

\* A record is appended, or lost with its error.
Record(r) ==
    \/ Journal(r) /\ UNCHANGED faults
    \/ Fault /\ UNCHANGED journal

\* What comes of hashing s: the bytes that could be read, and was the record of
\* them appended?
Whole(s)    == [bytes |-> s, kept |-> TRUE]
Outcomes(s) ==
    {Whole(s)}
    \cup IF faults < MaxFaults
         THEN [bytes : {Take(s, n) : n \in 0..Len(s)}, kept : BOOLEAN] ELSE {}
Hashed(s, o) == faults' = IF o = Whole(s) THEN faults ELSE faults + 1
-----------------------------------------------------------------------------
Init ==
    /\ file = NoFile
    /\ offset = NoOffset /\ state = NoState /\ journal = <<>>
    /\ pc = "down" /\ to = 0
    /\ case = [got |-> {}, copy |-> NoFile, journal |-> <<>>, seen |-> 0]
    /\ starts = 0 /\ faults = 0 /\ edits = 0

\* Bound: what happens after the collection is of no interest.
Collected == case.got = Parts

\* The agent creates its transcript, or appends to it.
AgentWrites(d) ==
    /\ Size < MaxLen /\ ~Collected
    /\ \/ file.there /\ file' = [file EXCEPT !.data = Append(@, d)]
       \/ ~file.there /\ \E id \in Inodes :
              file' = [there |-> TRUE, id |-> id, data |-> <<d>>]
    /\ UNCHANGED <<offset, state, journal, pc, to, case, starts, faults, edits>>

\* The transcript is edited: in place, cut, replaced by another file, removed.
Edit ==
    /\ edits < MaxEdits /\ file.there /\ ~Collected
    /\ edits' = edits + 1
    /\ \/ /\ "rewrite" \in Edits
          /\ \E i \in 1..Size : \E d \in Data \ {file.data[i]} :
                file' = [file EXCEPT !.data[i] = d]
       \/ /\ "truncate" \in Edits
          /\ \E n \in 0..(Size - 1) : file' = [file EXCEPT !.data = Take(@, n)]
       \/ /\ "replace" \in Edits
          /\ \E id \in Inodes \ {file.id}, d \in Data, n \in 0..Size :
                file' = [there |-> TRUE, id |-> id,
                         data |-> <<d>> \o SubSeq(file.data, 2, n)]
       \/ "delete" \in Edits /\ file' = NoFile
    /\ UNCHANGED <<offset, state, journal, pc, to, case, starts, faults>>
-----------------------------------------------------------------------------
(***************************************************************************)
(* The monitor: Watcher.Run with the hooks of Journal.                     *)
(***************************************************************************)
Start ==
    /\ pc = "down" /\ starts < MaxStarts /\ ~Collected
    /\ starts' = starts + 1
    /\ Goto("scan")
    /\ UNCHANGED <<file, offset, state, journal, to, case, faults, edits>>

\* The first scan takes the size of what is there ...
BaselineScan ==
    /\ pc = "scan"
    /\ IF file.there
       THEN offset' = Known(Size) /\ Goto("baseline")
       ELSE Goto("poll") /\ UNCHANGED offset
    /\ UNCHANGED <<file, state, journal, to, case, starts, faults, edits>>

\* ... and Baseline hashes it, large as it has become by then, to its bound.
Baseline ==
    /\ pc = "baseline"
    /\ \/ /\ file.there
          /\ LET start == Take(file.data, MaxBaseline) IN
             \E o \in Outcomes(start) :
                /\ state' = [known |-> TRUE, id |-> file.id, prefix |-> o.bytes]
                /\ IF o.kept THEN Journal(Rec("baseline", 0, o.bytes, o.bytes))
                             ELSE UNCHANGED journal
                /\ Hashed(start, o)
       \/ /\ (~file.there /\ UNCHANGED faults) \/ Fault
          /\ UNCHANGED <<state, journal>>
    /\ Goto("poll")
    /\ UNCHANGED <<file, offset, to, case, starts, edits>>

\* Mutant of PollGrown: a file the baseline did not find is never looked at.
PollKnownGrown ==
    /\ pc = "poll" /\ file.there
    /\ offset.known /\ Size > offset.at
    /\ to' = Size
    /\ Goto("stat")
    /\ UNCHANGED <<file, offset, state, journal, case, starts, faults, edits>>

\* A poll finds the file new, or larger than it was last seen ...
PollGrown ==
    /\ pc = "poll" /\ file.there
    /\ ~offset.known \/ Size > offset.at
    /\ to' = Size
    /\ Goto("stat")
    /\ UNCHANGED <<file, offset, state, journal, case, starts, faults, edits>>

\* Shrink forgets the file: what comes next is hashed from its start.
PollShrunk ==
    /\ pc = "poll" /\ file.there /\ offset.known /\ Size < offset.at
    /\ Record(Mark("truncate"))
    /\ offset' = Known(Size)
    /\ state' = NoState
    /\ UNCHANGED <<file, pc, to, case, starts, edits>>

PollGone ==
    /\ pc = "poll" /\ ~file.there /\ offset.known
    /\ IF state.known THEN Record(Mark("deleted")) ELSE UNCHANGED <<journal, faults>>
    /\ offset' = NoOffset
    /\ state' = NoState
    /\ UNCHANGED <<file, pc, to, case, starts, edits>>

\* Grow looks at the file's inode: another one is another file.  The watcher
\* takes the size as seen whatever comes of it.
GrowStat ==
    /\ pc = "stat"
    /\ \/ /\ file.there
          /\ Goto("read")
          /\ IF state.known /\ state.id = file.id
             THEN UNCHANGED <<state, journal, faults>>
             ELSE /\ state' = [known |-> TRUE, id |-> file.id, prefix |-> <<>>]
                  /\ IF state.known THEN Record(Mark("replaced"))
                                    ELSE UNCHANGED <<journal, faults>>
          /\ UNCHANGED <<offset, to>>
       \/ /\ (~file.there /\ UNCHANGED faults) \/ Fault
          /\ offset' = Known(to) /\ to' = 0
          /\ Goto("poll")
          /\ UNCHANGED <<state, journal>>
    /\ UNCHANGED <<file, case, starts, edits>>

\* Mutant of From: the range starts where the watcher last looked.
FromOffset == IF offset.known THEN offset.at ELSE 0

\* The range starts where the hash stopped, not where the watcher last looked.
From == Len(state.prefix)

\* It then reads what it can of the range: of nothing there is no record.
GrowRead ==
    LET chunk == Drop(Take(file.data, to), From) IN
    /\ pc = "read"
    /\ IF file.there /\ chunk # <<>>
       THEN \E o \in Outcomes(chunk) :
              LET all == state.prefix \o o.bytes IN
              /\ state' = [state EXCEPT !.prefix = all]
              /\ IF o.kept /\ o.bytes # <<>>
                 THEN Journal(Rec("append", From, o.bytes, all)) ELSE UNCHANGED journal
              /\ Hashed(chunk, o)
       ELSE UNCHANGED <<state, journal, faults>>
    /\ offset' = Known(to) /\ to' = 0
    /\ Goto("poll")
    /\ UNCHANGED <<file, case, starts, edits>>

\* The monitor stops, or is killed, and with it goes what it knew of the file.
Stop ==
    /\ pc # "down" /\ ~Collected
    /\ Goto("down")
    /\ offset' = NoOffset /\ state' = NoState /\ to' = 0
    /\ UNCHANGED <<file, journal, case, starts, faults, edits>>
-----------------------------------------------------------------------------
(***************************************************************************)
(* A collection, at any time.  Its workers read the files side by side,    *)
(* each once.                                                              *)
(***************************************************************************)
CollectTranscript ==
    /\ "transcript" \notin case.got
    /\ case' = [case EXCEPT !.got = @ \cup {"transcript"}, !.copy = file, !.seen = Len(journal)]
    /\ UNCHANGED <<file, offset, state, journal, pc, to, starts, faults, edits>>

CollectJournal ==
    /\ "journal" \notin case.got
    /\ case' = [case EXCEPT !.got = @ \cup {"journal"}, !.journal = journal]
    /\ UNCHANGED <<file, offset, state, journal, pc, to, starts, faults, edits>>

Monitor ==
    /\ ~Collected
    /\ \/ BaselineScan \/ Baseline \/ PollGrown \/ PollShrunk \/ PollGone
       \/ GrowStat \/ GrowRead

Next ==
    \/ (\E d \in Written : AgentWrites(d)) \/ Edit
    \/ Start \/ Monitor \/ Stop
    \/ CollectTranscript \/ CollectJournal

Spec == Init /\ [][Next]_vars

\* A running monitor keeps polling.
FairSpec == Spec /\ WF_vars(Monitor)
-----------------------------------------------------------------------------
(***************************************************************************)
(* checkPath: what the analysis of the case reports of the transcript.     *)
(***************************************************************************)
\* Mutant of Resets: the bytes found at a restart are taken as they are.
ResetsWithBaseline(k) == k \in {"replaced", "truncate", "baseline"}

\* What is said of the file by these records also ends what was before them.
Resets(k) == k \in {"replaced", "truncate"}

\* Mutant of Holds: a range that ends with the file is taken to exceed it.
HoldsInside(r, data) ==
    /\ r.off + Len(r.bytes) < Len(data)
    /\ SubSeq(data, r.off + 1, r.off + Len(r.bytes)) = r.bytes

\* The range lies in the file and holds the bytes that were hashed.
Holds(r, data) ==
    /\ r.off + Len(r.bytes) <= Len(data)
    /\ SubSeq(data, r.off + 1, r.off + Len(r.bytes)) = r.bytes

LastReset(rs) ==
    CHOOSE i \in 0..Len(rs) :
        /\ i = 0 \/ Resets(rs[i].kind)
        /\ \A j \in DOMAIN rs : Resets(rs[j].kind) => j <= i

\* A reset leaves the records after it, a baseline being one of them.
Checked(rs) ==
    {i \in DOMAIN rs : rs[i].kind \in {"baseline", "append"} /\ i >= LastReset(rs)}

\* The file is not in the case: any record left to check says it should be.
Findings(rs, copy) ==
    {rs[i].kind : i \in {j \in DOMAIN rs : rs[j].kind \in {"replaced", "truncate"}}}
    \cup (IF copy.there
          THEN {"differs" : i \in {j \in Checked(rs) : ~Holds(rs[j], copy.data)}}
          ELSE {"missing" : i \in (LastReset(rs) + 1)..Len(rs)})

Reported == Findings(case.journal, case.copy)

\* The copy of the journal has no record made after the transcript was copied.
JournalNotNewer == Len(case.journal) <= case.seen

\* Nothing is reported of a transcript that was only ever appended to, however
\* the appends fell between the monitor's steps, its restarts and its failures:
\* "agent transcripts are append-only; a shrinking one was edited or cut"
\* (check.go:146).  The copy of the journal must not be the newer one.
AppendOnlyClean == Collected /\ edits = 0 /\ JournalNotNewer => Reported = {}

\* Whatever is no longer in the case as the monitor once journaled it is
\* reported, after any edits, restarts, failures and further appends: "every
\* range is checked" (check.go:152).
EditsReported ==
    Collected
    /\ (\E i \in DOMAIN case.journal : ~Holds(case.journal[i], case.copy.data))
        => Reported # {}

\* The running hash of an append-only transcript is that of its own prefix, and
\* a range ends where its hash does: also when the transcript grew between the
\* watcher's look and the journal's, and when an earlier range was read in part
\* or its record lost (journal.go:166-168).
JournalMirrors ==
    edits = 0 =>
        \A i \in DOMAIN journal :
            /\ journal[i].prefix = Take(file.data, Len(journal[i].prefix))
            /\ Len(journal[i].prefix) = journal[i].off + Len(journal[i].bytes)

\* What the agent appends is hashed while the monitor runs on and no access fails,
\* with all that an earlier failure or the bound of the baseline left out.  What is
\* left out is not looked at again before the transcript grows: GrowRead takes its
\* size as seen.  watch.go:69-87, journal.go:166-183.
GrowthJournaled ==
    \A n \in 1..MaxLen, f \in 0..MaxFaults :
        (pc = "poll" /\ Size >= n /\ (offset.known => offset.at < n) /\ faults = f) ~>
            \/ pc = "down" \/ Collected \/ edits > 0 \/ faults > f
            \/ Len(state.prefix) >= n
=============================================================================
