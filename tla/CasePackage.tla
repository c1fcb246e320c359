----------------------------- MODULE CasePackage -----------------------------
(***************************************************************************)
(* The rounds of one .adfir evidence package: internal/casepkg, files      *)
(* casepkg.go (New, ReopenChecked, CommitPending, Seal, Close) and         *)
(* pending.go (the transaction a round is).                                *)
(*                                                                         *)
(* One builder works on the package at a time: the lock that is meant to   *)
(* guarantee it is modelled in PackageLock.  The builder is the variables  *)
(* pc and bld; it is lost by a Crash.  Everything else is on disk.  A      *)
(* builder step is one durable write, so a crash falls between any two.    *)
(*                                                                         *)
(* A file's hash is modelled by the file's content: the seal SHA256SUMS is *)
(* the record sums of what it covers.                                      *)
(***************************************************************************)
EXTENDS Naturals, Sequences, FiniteSets

CONSTANTS
    Blobs,       \* plaintext contents the sources may have: content addresses
    Builds,      \* collector builds; each compresses a blob to its own bytes
    WriteFaults, \* BOOLEAN: may appending a line fail, or tear it (disk full)?
    MaxRuns,     \* bound: builders that get as far as writing to the package
    MaxRecords   \* bound: artifact records a builder commits

ASSUME BuildsAssumption == Builds \subseteq Nat \ {0}
ASSUME FaultsAssumption == WriteFaults \in BOOLEAN
ASSUME BoundsAssumption == MaxRuns \in Nat /\ MaxRecords \in Nat

VARIABLES
    dir,       \* does the package directory exist?
    log,       \* the append-only files, by name
    case,      \* case.json: its state and the rounds it lists
    raw,       \* raw/: the bytes stored under each content address
    tmps,      \* raw/.tmp-*: blobs written but not committed
    seals,     \* seals/SHA256SUMS.<n>: pairs of a round and the seal archived
    sums,      \* SHA256SUMS: what the current seal covers
    pend,      \* .round-pending.json
    aborted,   \* .round-aborted.json: the runs it lists
    run,       \* builders that wrote to the package so far
    pc, bld,   \* the builder: its next step, and its fields
    hist,      \* history: <<round, run>> of every seal ever written
    rolled     \* history: the runs whose round was rolled back

disk == <<dir, log, case, raw, tmps, seals, sums, pend, aborted>>
vars == <<disk, run, pc, bld, hist, rolled>>

AppendOnly == {"man", "coll", "cust"}
Absent     == 0          \* no stored bytes, no seal

(***************************************************************************)
(* A line of an append-only file.  run tells lines of different builders   *)
(* apart, as their timestamps do.                                          *)
(***************************************************************************)
Events == {"header", "artifact", "acquisition_started", "round_aborted",
           "acquisition_completed", "package_sealed", "torn", "glued"}
NoArg  == 0
Line(r, e, a) == [run |-> r, event |-> e, arg |-> a]
Lines  == [run : Nat, event : Events, arg : Blobs \cup Nat]

\* A torn line has no newline, so what is written after it is glued to it and
\* the two are one line, as invalid as the torn one.
Broken(s) == \E i \in DOMAIN s : s[i].event \in {"torn", "glued"}

Write(s, l) ==
    IF s # <<>> /\ s[Len(s)].event = "torn"
    THEN [s EXCEPT ![Len(s)].event = "glued"]
    ELSE Append(s, l)

Prefix(s, t) ==
    /\ Len(s) <= Len(t)
    /\ \A i \in 1..Len(s) : s[i] = t[i]

NoCase == [state |-> "absent", rounds |-> <<>>]
NoLogs == [f \in AppendOnly |-> <<>>]
NoRaw  == [b \in Blobs |-> Absent]
NoSeal == [run |-> Absent, log |-> NoLogs, case |-> NoCase, raw |-> NoRaw,
           seals |-> {}]
NoPend == [on |-> FALSE, run |-> 0, seal |-> Absent, lens |-> [f \in AppendOnly |-> 0],
           case |-> NoCase]
Builder(n, new, v, why) ==
    [round |-> n, created |-> new, build |-> v, how |-> why, rounds |-> <<>>,
     cur |-> NoArg, todo |-> <<>>, recs |-> 0]
NoBuilder == Builder(0, FALSE, 0, "none")

Sealed     == sums.run # Absent
Stored(b)  == raw[b] # Absent
OKRecords(s) == {s[i].arg : i \in {j \in DOMAIN s : s[j].event = "artifact"}}

\* Mutant of RoundCompleted: the pending file alone says a round is unsealed.
RoundNeverCompleted == FALSE

\* A round counts as sealed once a SHA256SUMS other than the one it started
\* from is in place.
RoundCompleted == pend.seal # sums.run
UnsealedRound  == pend.on /\ ~RoundCompleted

Log(f, l) == log' = [log EXCEPT ![f] = Write(@, l)]
Goto(p)   == pc' = p
-----------------------------------------------------------------------------
Init ==
    /\ dir = FALSE /\ log = NoLogs /\ case = NoCase /\ raw = NoRaw
    /\ tmps = {} /\ seals = {} /\ sums = NoSeal /\ pend = NoPend
    /\ aborted = <<>> /\ run = 0 /\ pc = "idle" /\ bld = NoBuilder
    /\ hist = <<>> /\ rolled = {}

\* New: the first round.  Directory, logs and manifest header, then the
\* opening custody event.  case.json is only written by Seal.
New(v) ==
    /\ pc = "idle" /\ ~dir /\ run < MaxRuns
    /\ dir' = TRUE
    /\ run' = run + 1
    /\ log' = [man  |-> <<Line(run', "header", NoArg)>>,
               coll |-> <<>>,
               cust |-> <<Line(run', "acquisition_started", 1)>>]
    /\ bld' = Builder(1, TRUE, v, "none")
    /\ Goto("collect")
    /\ UNCHANGED <<case, raw, tmps, seals, sums, pend, aborted, hist, rolled>>

\* ReopenChecked takes the lock and first rolls back what a dead builder left.
Reopen(v) ==
    /\ pc = "idle" /\ dir /\ run < MaxRuns
    /\ bld' = Builder(0, FALSE, v, "crashed")
    /\ Goto("rb_check")
    /\ UNCHANGED <<disk, run, hist, rolled>>
-----------------------------------------------------------------------------
(***************************************************************************)
(* rollbackPending, called by ReopenChecked (how = "crashed") and by Close *)
(* (how = "abandoned").                                                    *)
(***************************************************************************)
AfterRollback == IF bld.how = "crashed" THEN "read" ELSE "idle"

\* Nothing to roll back: no pending file, or the round it belongs to sealed.
RollbackNothing ==
    /\ pc = "rb_check" /\ ~UnsealedRound
    /\ pend' = NoPend
    /\ Goto(AfterRollback)
    /\ UNCHANGED <<dir, log, case, raw, tmps, seals, sums, aborted, run, bld,
                   hist, rolled>>

\* The seal is unreadable, or a sealed blob is missing: nothing is touched and
\* the round stays pending.  ReopenChecked fails; Close ignores the error.
RollbackRefused ==
    /\ pc = "rb_check" /\ UnsealedRound
    /\ ~Sealed \/ \E b \in Blobs : sums.raw[b] # Absent /\ ~Stored(b)
    /\ Goto("idle")
    /\ UNCHANGED <<disk, run, bld, hist, rolled>>

RollbackBegins ==
    /\ pc = "rb_check" /\ UnsealedRound
    /\ Sealed /\ \A b \in Blobs : sums.raw[b] # Absent => Stored(b)
    /\ Goto("rb_man")
    /\ UNCHANGED <<disk, run, bld, hist, rolled>>

\* Mutants of Truncate: an off-by-one in the cut, and one in the refusal.
TruncateShort(f, here, next) ==
    /\ pc = here
    /\ log' = [log EXCEPT ![f] = SubSeq(@, 1, pend.lens[f] - 1)]
    /\ Goto(next)
    /\ UNCHANGED <<dir, case, raw, tmps, seals, sums, pend, aborted, run, bld,
                   hist, rolled>>

TruncateOnlyLonger(f, here, next) ==
    /\ pc = here
    /\ IF Len(log[f]) <= pend.lens[f]
       THEN Goto("idle") /\ UNCHANGED log
       ELSE /\ log' = [log EXCEPT ![f] = SubSeq(@, 1, pend.lens[f])]
            /\ Goto(next)
    /\ UNCHANGED <<dir, case, raw, tmps, seals, sums, pend, aborted, run, bld,
                   hist, rolled>>

\* One file is cut to the length the round started from; a file that is
\* shorter makes the rollback fail where it stands.
Truncate(f, here, next) ==
    /\ pc = here
    /\ IF Len(log[f]) < pend.lens[f]
       THEN Goto("idle") /\ UNCHANGED log
       ELSE /\ log' = [log EXCEPT ![f] = SubSeq(@, 1, pend.lens[f])]
            /\ Goto(next)
    /\ UNCHANGED <<dir, case, raw, tmps, seals, sums, pend, aborted, run, bld,
                   hist, rolled>>

\* Mutant of TruncateLogs: the custody chain is left as it is.
TruncateAllButCustody ==
    \/ Truncate("man", "rb_man", "rb_coll")
    \/ Truncate("coll", "rb_coll", "rb_case")

TruncateLogs ==
    \/ Truncate("man", "rb_man", "rb_coll")
    \/ Truncate("coll", "rb_coll", "rb_cust")
    \/ Truncate("cust", "rb_cust", "rb_case")

\* Mutant of RestoreCase: case.json is left as the dead builder left it.
RestoreCaseSkipped ==
    /\ pc = "rb_case"
    /\ Goto("rb_raw")
    /\ UNCHANGED <<disk, run, bld, hist, rolled>>

RestoreCase ==
    /\ pc = "rb_case"
    /\ case' = pend.case
    /\ Goto("rb_raw")
    /\ UNCHANGED <<dir, log, raw, tmps, seals, sums, pend, aborted, run, bld,
                   hist, rolled>>

\* Mutant of RemoveBlob: sealed blobs are not spared.
RemoveAnyBlob(b) ==
    /\ pc = "rb_raw" /\ Stored(b)
    /\ raw' = [raw EXCEPT ![b] = Absent]
    /\ UNCHANGED <<dir, log, case, tmps, seals, sums, pend, aborted, run, pc,
                   bld, hist, rolled>>

\* Entries of raw/ that the seal does not list are removed, one at a time.
RemoveBlob(b) ==
    /\ pc = "rb_raw" /\ Stored(b) /\ sums.raw[b] = Absent
    /\ raw' = [raw EXCEPT ![b] = Absent]
    /\ UNCHANGED <<dir, log, case, tmps, seals, sums, pend, aborted, run, pc,
                   bld, hist, rolled>>

RemoveTmp(b) ==
    /\ pc = "rb_raw" /\ b \in tmps
    /\ tmps' = tmps \ {b}
    /\ UNCHANGED <<dir, log, case, raw, seals, sums, pend, aborted, run, pc,
                   bld, hist, rolled>>

\* Mutant of RemoveArchived: temporary blobs are left behind.
RemoveArchivedNotTmps ==
    /\ pc = "rb_raw"
    /\ \A b \in Blobs : Stored(b) => sums.raw[b] # Absent
    /\ seals' = {s \in seals : \E t \in sums.seals : t[1] = s[1]}
    /\ Goto("rb_end")
    /\ UNCHANGED <<dir, log, case, raw, tmps, sums, pend, aborted, run, bld,
                   hist, rolled>>

RemoveArchived ==
    /\ pc = "rb_raw" /\ tmps = {}
    /\ \A b \in Blobs : Stored(b) => sums.raw[b] # Absent
    /\ seals' = {s \in seals : \E t \in sums.seals : t[1] = s[1]}
    /\ Goto("rb_end")
    /\ UNCHANGED <<dir, log, case, raw, tmps, sums, pend, aborted, run, bld,
                   hist, rolled>>

\* endPending; the record of the round now only lives in the builder.
RollbackEnds ==
    /\ pc = "rb_end"
    /\ pend' = NoPend
    /\ bld' = [bld EXCEPT !.todo = <<pend.run>>]
    /\ rolled' = rolled \cup {pend.run}
    /\ Goto("rb_note")
    /\ UNCHANGED <<dir, log, case, raw, tmps, seals, sums, aborted, run, hist>>

NoteAborted ==
    /\ pc = "rb_note"
    /\ aborted' = aborted \o bld.todo
    /\ bld' = [bld EXCEPT !.todo = <<>>]
    /\ Goto(AfterRollback)
    /\ UNCHANGED <<dir, log, case, raw, tmps, seals, sums, pend, run, hist,
                   rolled>>
-----------------------------------------------------------------------------
(***************************************************************************)
(* The rest of ReopenChecked.                                              *)
(***************************************************************************)
Readable == case.state = "ok" /\ log["man"] # <<>> /\ ~Broken(log["man"])

NextRound(rounds) ==
    IF rounds = <<>> THEN 2
    ELSE 1 + (CHOOSE m \in {rounds[i] : i \in DOMAIN rounds} :
                 \A i \in DOMAIN rounds : rounds[i] <= m)

ReadPackage ==
    /\ pc = "read" /\ Readable
    /\ bld' = [bld EXCEPT !.rounds = case.rounds, !.round = NextRound(case.rounds)]
    /\ Goto("begin")
    /\ UNCHANGED <<disk, run, hist, rolled>>

\* ReadManifest or ReadCaseInfo failed: the lock is released, nothing changed.
ReadFails ==
    /\ pc = "read" /\ ~Readable
    /\ Goto("idle")
    /\ UNCHANGED <<disk, run, bld, hist, rolled>>

\* Mutant of BeginPending: the lengths leave out the last line.
BeginPendingShort ==
    /\ pc = "begin"
    /\ run' = run + 1
    /\ pend' = [on |-> TRUE, run |-> run', seal |-> sums.run,
                lens |-> [f \in AppendOnly |-> Len(log[f]) - 1], case |-> case]
    /\ Goto("append")
    /\ UNCHANGED <<dir, log, case, raw, tmps, seals, sums, aborted, bld, hist,
                   rolled>>

BeginPending ==
    /\ pc = "begin"
    /\ run' = run + 1
    /\ pend' = [on |-> TRUE, run |-> run', seal |-> sums.run,
                lens |-> [f \in AppendOnly |-> Len(log[f])], case |-> case]
    /\ Goto("append")
    /\ UNCHANGED <<dir, log, case, raw, tmps, seals, sums, aborted, bld, hist,
                   rolled>>

\* NewAppender verifies both chains; a broken one sends the builder to Close.
OpenLogs ==
    /\ pc = "append"
    /\ IF Broken(log["coll"]) \/ Broken(log["cust"])
       THEN bld' = [bld EXCEPT !.how = "abandoned"] /\ Goto("rb_check")
       ELSE Goto("start") /\ UNCHANGED bld
    /\ UNCHANGED <<disk, run, hist, rolled>>

StartRound ==
    /\ pc = "start"
    /\ Log("cust", Line(run, "acquisition_started", bld.round))
    /\ Goto("take")
    /\ UNCHANGED <<dir, case, raw, tmps, seals, sums, pend, aborted, run, bld,
                   hist, rolled>>

\* takeAborted clears the file before the custody events are written.
TakeAborted ==
    /\ pc = "take"
    /\ bld' = [bld EXCEPT !.todo = aborted]
    /\ aborted' = <<>>
    /\ Goto("log_aborted")
    /\ UNCHANGED <<dir, log, case, raw, tmps, seals, sums, pend, run, hist,
                   rolled>>

LogAborted ==
    /\ pc = "log_aborted" /\ bld.todo # <<>>
    /\ Log("cust", Line(run, "round_aborted", Head(bld.todo)))
    /\ bld' = [bld EXCEPT !.todo = Tail(@)]
    /\ UNCHANGED <<dir, case, raw, tmps, seals, sums, pend, aborted, run, pc,
                   hist, rolled>>

RoundOpen ==
    /\ pc = "log_aborted" /\ bld.todo = <<>>
    /\ Goto("collect")
    /\ UNCHANGED <<disk, run, bld, hist, rolled>>
-----------------------------------------------------------------------------
(***************************************************************************)
(* Acquisition: PrepareFile writes a temporary blob, CommitPending places  *)
(* it and records it in the manifest, then in the collection chain.        *)
(***************************************************************************)
Prepare(b) ==
    /\ pc = "collect" /\ bld.recs < MaxRecords /\ b \notin tmps
    /\ tmps' = tmps \cup {b}
    /\ bld' = [bld EXCEPT !.recs = @ + 1]
    /\ UNCHANGED <<dir, log, case, raw, seals, sums, pend, aborted, run, pc,
                   hist, rolled>>

\* Mutant of CommitBlob: a stored blob is always removed first.
CommitBlobReplaces(b) ==
    /\ pc = "collect" /\ b \in tmps
    /\ bld' = [bld EXCEPT !.cur = b]
    /\ raw' = [raw EXCEPT ![b] = Absent]
    /\ Goto("commit_place")
    /\ UNCHANGED <<dir, log, case, tmps, seals, sums, pend, aborted, run, hist,
                   rolled>>

\* commitBlob.  A blob already stored under this address is kept when its
\* bytes are the ones just written, else it is removed first.
CommitBlob(b) ==
    /\ pc = "collect" /\ b \in tmps
    /\ bld' = [bld EXCEPT !.cur = b]
    /\ \/ /\ ~Stored(b)
          /\ raw' = [raw EXCEPT ![b] = bld.build]
          /\ tmps' = tmps \ {b} /\ Goto("commit_man")
       \/ /\ raw[b] = bld.build
          /\ tmps' = tmps \ {b} /\ Goto("commit_man")
          /\ UNCHANGED raw
       \/ /\ Stored(b) /\ raw[b] # bld.build
          /\ raw' = [raw EXCEPT ![b] = Absent]
          /\ Goto("commit_place")
          /\ UNCHANGED tmps
    /\ UNCHANGED <<dir, log, case, seals, sums, pend, aborted, run, hist, rolled>>

ReplaceBlob ==
    /\ pc = "commit_place"
    /\ raw' = [raw EXCEPT ![bld.cur] = bld.build]
    /\ tmps' = tmps \ {bld.cur}
    /\ Goto("commit_man")
    /\ UNCHANGED <<dir, log, case, seals, sums, pend, aborted, run, bld, hist,
                   rolled>>

\* CarryForward: a source unchanged since an earlier round, whose stored bytes
\* are still present, is recorded without being read again.
CarryForward(b) ==
    /\ pc = "collect" /\ ~bld.created /\ bld.recs < MaxRecords
    /\ Stored(b)
    /\ b \in OKRecords(SubSeq(log["man"], 1, pend.lens["man"]))
    /\ bld' = [bld EXCEPT !.cur = b, !.recs = @ + 1]
    /\ Goto("commit_man")
    /\ UNCHANGED <<disk, run, hist, rolled>>

\* A write that fails may leave part of the line behind.  The run goes on.
WriteFails(f) ==
    /\ WriteFaults
    /\ \/ UNCHANGED log
       \/ Log(f, Line(run, "torn", NoArg))
    /\ Goto("collect")

RecordManifest ==
    /\ pc = "commit_man"
    /\ \/ /\ Log("man", Line(run, "artifact", bld.cur))
          /\ Goto("commit_coll")
       \/ WriteFails("man")
    /\ UNCHANGED <<dir, case, raw, tmps, seals, sums, pend, aborted, run, bld,
                   hist, rolled>>

RecordCollection ==
    /\ pc = "commit_coll"
    /\ \/ /\ Log("coll", Line(run, "artifact", bld.cur))
          /\ Goto("collect")
       \/ WriteFails("coll")
    /\ UNCHANGED <<dir, case, raw, tmps, seals, sums, pend, aborted, run, bld,
                   hist, rolled>>
-----------------------------------------------------------------------------
(***************************************************************************)
(* Seal.                                                                   *)
(***************************************************************************)
SealCustody ==
    /\ pc = "collect" /\ tmps = {}
    /\ log' = [log EXCEPT !["cust"] =
                 Write(Write(@, Line(run, "acquisition_completed", bld.round)),
                       Line(run, "package_sealed", bld.round))]
    /\ Goto("seal_trunc")
    /\ UNCHANGED <<dir, case, raw, tmps, seals, sums, pend, aborted, run, bld,
                   hist, rolled>>

\* writeJSON is not atomic: the old case.json is gone before the new one is.
TruncateCase ==
    /\ pc = "seal_trunc"
    /\ case' = [state |-> "torn", rounds |-> <<>>]
    /\ Goto("seal_case")
    /\ UNCHANGED <<dir, log, raw, tmps, seals, sums, pend, aborted, run, bld,
                   hist, rolled>>

WriteCase ==
    /\ pc = "seal_case"
    /\ case' = [state |-> "ok", rounds |-> Append(bld.rounds, bld.round)]
    /\ Goto("seal_arch")
    /\ UNCHANGED <<dir, log, raw, tmps, seals, sums, pend, aborted, run, bld,
                   hist, rolled>>

\* Mutant of ArchiveSeal: archived under the new round, not the old one.
ArchiveSealUnderNewRound ==
    /\ pc = "seal_arch"
    /\ seals' = IF Sealed THEN seals \cup {<<bld.round, sums.run>>} ELSE seals
    /\ Goto("seal_sums")
    /\ UNCHANGED <<dir, log, case, raw, tmps, sums, pend, aborted, run, bld,
                   hist, rolled>>

\* archivePreviousSeal: nothing to do without a seal, or when the archive of
\* that round is already there.
ArchiveSeal ==
    /\ pc = "seal_arch"
    /\ seals' = IF Sealed /\ ~ \E s \in seals : s[1] = bld.round - 1
                THEN seals \cup {<<bld.round - 1, sums.run>>}
                ELSE seals
    /\ Goto("seal_sums")
    /\ UNCHANGED <<dir, log, case, raw, tmps, sums, pend, aborted, run, bld,
                   hist, rolled>>

\* writeSums, atomically: the moment the round becomes sealed.
WriteSums ==
    /\ pc = "seal_sums"
    /\ sums' = [run |-> run, log |-> log, case |-> case, raw |-> raw,
                seals |-> seals]
    /\ hist' = Append(hist, <<bld.round, run>>)
    /\ Goto("seal_end")
    /\ UNCHANGED <<dir, log, case, raw, tmps, seals, pend, aborted, run, bld,
                   rolled>>

EndPending ==
    /\ pc = "seal_end"
    /\ pend' = NoPend
    /\ Goto("idle")
    /\ UNCHANGED <<dir, log, case, raw, tmps, seals, sums, aborted, run, bld,
                   hist, rolled>>
-----------------------------------------------------------------------------
(***************************************************************************)
(* The ways a round ends without a seal.                                   *)
(***************************************************************************)
Unsealing == {"start", "log_aborted", "collect", "seal_trunc", "seal_case",
              "seal_arch", "seal_sums"}

\* Close of a builder that made the directory: it removes it.
CloseNew ==
    /\ pc \in Unsealing /\ bld.created /\ tmps = {} /\ run < MaxRuns
    /\ dir' = FALSE /\ log' = NoLogs /\ case' = NoCase /\ raw' = NoRaw
    /\ seals' = {} /\ sums' = NoSeal /\ pend' = NoPend /\ aborted' = <<>>
    /\ Goto("idle")
    /\ UNCHANGED <<tmps, run, bld, hist, rolled>>

\* Close of a builder that added a round: it is rolled back.
CloseAdded ==
    /\ pc \in Unsealing /\ ~bld.created /\ tmps = {} /\ run < MaxRuns
    /\ bld' = [bld EXCEPT !.how = "abandoned"]
    /\ Goto("rb_check")
    /\ UNCHANGED <<disk, run, hist, rolled>>

\* The process dies: the disk stays as it is.  The last builder of the bound
\* is let finish.
Crash ==
    /\ pc # "idle" /\ run < MaxRuns
    /\ Goto("idle")
    /\ bld' = NoBuilder
    /\ UNCHANGED <<disk, run, hist, rolled>>

\* The bound is reached.
Stopped == pc = "idle" /\ run = MaxRuns /\ UNCHANGED vars

Open == \E v \in Builds : New(v) \/ Reopen(v)

Rollback ==
    \/ RollbackNothing \/ RollbackRefused \/ RollbackBegins \/ TruncateLogs
    \/ RestoreCase \/ (\E b \in Blobs : RemoveBlob(b) \/ RemoveTmp(b))
    \/ RemoveArchived \/ RollbackEnds \/ NoteAborted

OpenRound ==
    \/ ReadPackage \/ ReadFails \/ BeginPending \/ OpenLogs \/ StartRound
    \/ TakeAborted \/ LogAborted \/ RoundOpen

Acquire ==
    \/ \E b \in Blobs : Prepare(b) \/ CommitBlob(b) \/ CarryForward(b)
    \/ ReplaceBlob \/ RecordManifest \/ RecordCollection

Seal ==
    \/ SealCustody \/ TruncateCase \/ WriteCase \/ ArchiveSeal \/ WriteSums
    \/ EndPending

Next ==
    \/ Open \/ Rollback \/ OpenRound \/ Acquire \/ Seal
    \/ CloseNew \/ CloseAdded \/ Crash \/ Stopped

\* A live builder takes its next step, a collection that failed is started
\* again, and the machine does not crash for ever.  Nothing obliges a builder
\* to fail.
Fairness ==
    /\ WF_vars(Open \/ Rollback \/ OpenRound \/ Acquire \/ Seal)
    /\ <>[][~Crash]_vars

Spec == Init /\ [][Next]_vars
FairSpec == Spec /\ Fairness
-----------------------------------------------------------------------------
Steps == {"idle", "rb_check", "rb_man", "rb_coll", "rb_cust", "rb_case",
          "rb_raw", "rb_end", "rb_note", "read", "begin", "append", "start",
          "take", "log_aborted", "collect", "commit_place", "commit_man",
          "commit_coll", "seal_trunc", "seal_case", "seal_arch", "seal_sums",
          "seal_end"}

Numbers   == Seq(Nat)                           \* rounds, or runs
CaseFiles == [state : {"absent", "torn", "ok"}, rounds : Numbers]
Bytes     == Builds \cup {Absent}
RawFiles  == [Blobs -> Bytes]
Histories == Seq(Nat \X Nat)
Archives  == SUBSET (Nat \X Nat)
LogFiles  == [AppendOnly -> Seq(Lines)]

Seals     == [run : Nat, log : LogFiles, case : CaseFiles, raw : RawFiles,
              seals : Archives]
Pendings  == [on : BOOLEAN, run : Nat, seal : Nat, lens : [AppendOnly -> Nat],
              case : CaseFiles]
ABuild    == Builds \cup {0}
ABlob     == Blobs \cup {NoArg}
Ways      == {"none", "crashed", "abandoned"}   \* why a rollback runs
Builders  == [round : Nat, created : BOOLEAN, build : ABuild, how : Ways,
              rounds : Numbers, cur : ABlob, todo : Numbers, recs : Nat]

\* The variables hold what their comments say.
TypeOK ==
    /\ dir \in BOOLEAN
    /\ log \in LogFiles
    /\ case \in CaseFiles
    /\ raw \in RawFiles
    /\ tmps \subseteq Blobs
    /\ seals \in Archives
    /\ sums \in Seals
    /\ pend \in Pendings
    /\ aborted \in Numbers
    /\ run \in Nat
    /\ pc \in Steps
    /\ bld \in Builders
    /\ hist \in Histories
    /\ rolled \subseteq Nat

\* Whatever a builder has appended, failed to append or rolled back so far,
\* and wherever it died, the logs still begin with exactly what the current
\* seal covers ("nothing already written is ever rewritten", casepkg.go:23).
SealedLogsPreserved ==
    Sealed => \A f \in AppendOnly : Prefix(sums.log[f], log[f])

\* The same for the stored blobs: each one the seal lists is in raw/ with the
\* bytes the seal has the hash of.
SealedBlobsPreserved ==
    \A b \in Blobs : sums.raw[b] # Absent => raw[b] = sums.raw[b]

\* A sealed package that no round is open on holds exactly what its seal
\* covers: logs, case.json and archived seals.  This is the state a rollback
\* has to restore, from any point a builder can die at, the rollback included.
RestoredExactly ==
    Sealed /\ ~UnsealedRound =>
        /\ log = sums.log
        /\ case = sums.case
        /\ seals = sums.seals

\* verify(): every listed file as it was sealed, nothing unlisted beside it,
\* both chains and the manifest readable, every recorded blob present.
Verifies ==
    /\ log = sums.log /\ case = sums.case /\ seals = sums.seals
    /\ raw = sums.raw /\ tmps = {}
    /\ \A f \in AppendOnly : ~Broken(log[f])
    /\ \A b \in OKRecords(log["man"]) : Stored(b)

\* agentdfir verify finds no problem in a package at rest: sealed, and with no
\* builder at work and no round left open.
AtRestVerifies == pc = "idle" /\ Sealed /\ ~UnsealedRound => Verifies

\* An unsealed round of a sealed package can always be rolled back: no log is
\* shorter than it was and no sealed blob is gone, so rollbackPending never
\* leaves the package "for verify to examine" because of what a round did.
RollbackPossible ==
    Sealed /\ UnsealedRound =>
        /\ \A f \in AppendOnly : pend.lens[f] <= Len(log[f])
        /\ pc # "commit_place" =>
              \A b \in Blobs : sums.raw[b] # Absent => Stored(b)

AbortedInCustody ==
    {log["cust"][i].arg :
        i \in {j \in DOMAIN log["cust"] : log["cust"][j].event = "round_aborted"}}

\* A round is either sealed or rolled back, never both: a crash just after
\* SHA256SUMS is in place must not be taken for an unsealed round, reported as
\* aborted, or have its lines cut.
SealedNeverAborted ==
    \A i \in DOMAIN hist :
        /\ hist[i][2] \notin rolled
        /\ \A j \in DOMAIN aborted : aborted[j] # hist[i][2]
        /\ hist[i][2] \notin AbortedInCustody

\* No line of a rolled-back round is ever covered by a seal.
AbortedLinesNeverSealed ==
    \A f \in AppendOnly : \A i \in DOMAIN sums.log[f] :
        sums.log[f][i].run \notin rolled

\* An unsealed round of a sealed package is eventually resolved: rolled back,
\* or sealed after all.
PendingResolved == (pend.on /\ Sealed) ~> ~pend.on

\* pending.go:28: "nothing unsealed is ever presented as part of a seal":
\* every line a seal covers was written by a builder that sealed its round.
OnlySealedRounds ==
    \A f \in AppendOnly : \A i \in DOMAIN sums.log[f] :
        \E j \in DOMAIN hist : hist[j][2] = sums.log[f][i].run
=============================================================================
