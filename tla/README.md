# AgentDFIR: models and proofs

AgentDFIR collects the traces AI coding agents leave on a machine into evidence
packages (`<case>.adfir`), seals them in rounds, and analyses sealed packages.
It can also run as a monitor that journals transcripts and records endpoint logs
while they grow, alerts over a webhook, and puts guardrails into the agents' own
settings. This directory holds TLA+ models of the parts of it that change shared
or durable state, TLC instances that check them, and TLAPS proofs.

Paths below are relative to `src/internal/` unless they start with `src/`.

## The system

| Component | State | Operations | Hard behaviours |
|---|---|---|---|
| Case package, rounds (`casepkg/casepkg.go`, `pending.go`) | package directory: `manifest.jsonl`, `logs/collection.jsonl`, `logs/custody.jsonl`, `case.json`, `raw/`, `seals/`, `SHA256SUMS`, `.round-pending.json`, `.round-aborted.json` | `New`, `ReopenChecked`, `PrepareFile`/`CommitPending`, `CarryForward`, `Seal`, `Close`, `rollbackPending` | a crash between any two writes, also during a rollback; torn lines; a blob of an earlier round met again |
| Package lock (`casepkg/lock.go`) | one lock file | `acquireLock`, `release` | several processes and hosts; a dead owner; check and removal by path |
| Integrity, signatures, anchors (`integrity/`, `seal/`, `store/keys.go`) | `SEAL.sig`, `seals/SEAL.sig.<n>`, one `anchors.jsonl` per machine | `CheckPrior`, `Finish`, `RecordAnchor` | run after the package lock is gone; one anchor log for all cases; copies restored |
| Collector (`collector/`) | job and result channels, early results, next index to commit | discovery, workers, committer, `stop` | parallel results committed in order; bounded channels; an error half way |
| Watcher and journal (`watch/`, `journal/`) | offsets per file, running hashes per file, `journal.jsonl` | poll loop, `Baseline`, `Grow`, `Shrink`, `Gone`, `Check` | the file changes between looks; restarts; collection meanwhile |
| Black-box recorder: tailer (`recorder/tail.go`, `source.go`) | file and offset, carried line, pending numbers and gap ranges | `Poll`, `drain`, `Observe`, `seq`, `finalize` | rotation by rename or truncation between any two accesses; late, repeated and restarted numbers |
| Black-box recorder: captures and retention (`recorder/capture.go`, `recorder.go`, `retention.go`, `journal/prune.go`) | capture files, bytes journaled of each, journal | `Write`, `Flush`, `Prune`, `Stop`, check of a pruned file | rolling and pruning against two writers; a stop or crash in the midst; restarts; files edited or removed by another hand |
| Live detection and sinks (`realtime/`) | engine per session, bounded webhook queue and error queue | `OnLine`, `Send`, `Close` | full queue, slow or failing endpoint, an exit without `Close` |
| Mitigation ledger (`mitigate/ledger.go`) | settings files, backups, `ledger.jsonl` | `Apply`, `Revert`, `RevertAll` | agents edit the same files; a crash between edit and record; the same change twice |
| Shared blob store (`store/`) | blobs hard-linked into packages | put, `GC` | collection against a running round |
| Parsers, normalisation, detection, correlation, reports, exports, disk images | none beyond a call | pure functions of a package's contents | data, not order |

A collection (`cli/run_cmd.go`) locks the package and rolls back what a dead run
left (`ReopenChecked`), checks the earlier rounds (`CheckPrior`, through the
`beforeRound` callback), lets the collector's workers prepare artifacts that a
single committer appends, seals (`Seal`, which releases the lock), and then
signs and anchors (`Finish`). The monitor (`cli/analyst_cmds.go`) runs beside it:
its watcher feeds the journal and the live engine, whose findings go to the
sinks; its recorder tails logs into captures, which it flushes to the same
journal and prunes. The two meet in the files the collection reads.

What makes each part correct:

* rounds: a seal never loses what it covers; an unsealed round leaves nothing
  behind and nothing of it is ever sealed; the archive tells the whole history;
* lock: one writer at a time, and a dead one does not keep the case closed;
* integrity: a lost round is told, and what a round says of earlier ones can be
  held to it;
* collector: the manifest is that of a serial run, whatever fails, and the run
  ends;
* journal: an append-only transcript is never accused, an edit of what was
  journaled is never missed, all growth is journaled in the end;
* tailer: lines captured in order and once, a rotated file captured whole, the
  losses reported exactly those of the capture, as far as the numbers of its
  lines could be read;
* retention: what it deletes is accounted for, and it accounts for nothing else;
* sinks: the tail never blocks, every alert accounted for, order kept, all end;
* ledger: no edit of an agent lost, every guardrail traceable, all of them taken
  out again.

## Modules

| Module | What it is |
|---|---|
| `CasePackage` | the rounds of one package, one action per durable write |
| `CasePackageInv` | the inductive invariant `RoundInv` |
| `SealedHistory` | abstract specification: a history of seals that only grows |
| `CasePackageRefinement` | `CasePackage` implements `SealedHistory` |
| `PackageLock` | the lock file |
| `RoundSigning` | checking, sealing, signing and anchoring, several processes and packages |
| `Acquisition` | the collector's goroutines and channels |
| `SerialAcquisition` | abstract specification: the manifest of a serial run |
| `TranscriptJournal` | watcher, journal, collection and check of one transcript |
| `SequenceGaps` | the gap accounting of a source, as a function from number to number |
| `LogTail` | the tailer on a log that rotates, and its source (`SequenceGaps`) |
| `Recorder` | captures, flushes, retention, stop and restart, and the check of what is gone |
| `WebhookAlerts` | the webhook sink between engine and receiver |
| `MitigationLedger` | guardrails in settings files that agents edit |
| `MC*` | the TLC instance of the module it is named after |
| `*Proofs` | theorems, see Proofs |

Each action names the function it stands for in its comment; `PROJECT.json` maps
every definition to lines. Definitions that start with "Mutant" in their comment
are faulty variants used to see that a property can fail.

### CasePackage

The builder is `pc` and `bld`; everything else is on disk and survives `Crash`.
A step is one durable write, so a crash can fall between any two, including
those of `rollbackPending` and of `writeJSON`, which truncates `case.json`
first. `log` holds the three append-only files as sequences of lines that name
the run that wrote them; `sums` is what `SHA256SUMS` covers. A digest is
modelled by the content it is of, so a digest matches exactly when the content
is the same. `hist` and `rolled` are history variables.

The steps of opening a round: `Reopen`, the rollback, `ReadPackage`,
`BeginPending`, `OpenLogs`, `StartRound`, `TakeAborted`, `LogAborted`,
`RoundOpen`. Of collecting: `Prepare`, `CommitBlob` and `ReplaceBlob`,
`CarryForward`, `RecordManifest`, `RecordCollection`. Of sealing: `SealCustody`
(both custody events), `TruncateCase`, `WriteCase`, `ArchiveSeal`, `WriteSums`,
`EndPending`. `Close` is `CloseNew` (removes the directory) or `CloseAdded`
(rolls back).

Abstractions: one builder at a time (see the lock for when that fails); removing
a directory and truncating a file are single steps; a failed write to the
custody chain is left out, write faults being those of the manifest and the
collection chain, after which a collection goes on; the chain's hash links are
an order of lines, where a torn line makes the file invalid.

`SealedHistory` has what a reader of seals can check: the evidence, the seal and
its round, and the archive, which must gain exactly the seal before, under its
own round, and never one of a round that was given up.

### PackageLock

`file` is the lock file with its maker, whether that run still lives and whether
its pid has been written: `O_EXCL` creation and the write are two steps, as are
reading a stale lock and removing it by its path. A process that dies can start
again as a new run. A pid used again by another process is left out, as are
errors of reading other than an empty or missing file.

### RoundSigning

Rounds are one step here; `CasePackage` has their inside. Seals are numbered per
package. What is detailed is what happens with no lock held: `SignRead` and
`SignWrite`, `Digest`, and the anchor log's `LookForLog`, `CreateLog` or
`ContinueLog`, and `AppendAnchor`, in which the process that created the log
writes from its own file offset and not in append mode. `Copy` and `Restore`
replace a case by an earlier copy of itself, as the tests of `CheckPrior` do.
A run may end without its round's anchor (`Unanchored`): signing failed, `Finish`
was not to anchor (`anchor = false`), or `RecordAnchor` failed, which is only a
note; or the record went to the log in part (`AppendPart`). There is one machine
key; `Abandon` stands for a round that is rolled back.

`broke` remembers whether two runs recorded anchors at once or one wrote its
record in part. `lapses` remembers of each case whether a run ended or died
without its anchor, whether a run locked it while another still finished a round
of it, and whether a copy took its place. The properties say which of these they
except.

### Acquisition

Discovery is the main goroutine (`Submit`, `SendRecord`, `WalkEnds`, `Joined`,
`Returns`), each worker is `Take`, one of `Refused`, `Read`, `ReadFails`, then
`Send`, and the committer is `Receive`, `CommitNext` and `Drain`. A channel is
the set of what it holds, so that it may deliver in any order, more than Go's
channels do; its bound is the code's. Files are their place in the discovery.
`SerialAcquisition` records the files one at a time in that order; the refinement
maps `tried` to `next - 1` and the outcome to what `Run` returns.

### TranscriptJournal

The monitor takes a size (`BaselineScan`, `PollGrown`), and then `Grow` looks at
the inode (`GrowStat`) and reads (`GrowRead`); the agent may append and
something may edit the file before each of them. Hashes are the bytes hashed, so
a record's range can be compared directly with the collected copy, as
`checkPath` does with digests. `Findings` is the verdict of `checkPath`. Two
inode numbers are enough for a file to be replaced and for a number to be used
again. A collection may copy the two files at any time, in either order; what
happens after it is cut off, since nothing the properties speak of changes any
more. `Written` are the bytes the agent writes, of the `Data` an edit may put there.

Every access of the monitor may fail, `MaxFaults` times: the stat, the open or the
read, of which a part may have been hashed, and the record, whose error nobody
hears (`Outcomes`, `Record`). The watcher then takes the size as seen all the
same, as `GrowStat` and `GrowRead` do. A baseline hashes `MaxBaseline` bytes at
most (`maxBaselineHash`). A record is written whole or not at all. The journal's
own chain and its seals are left out.

### SequenceGaps and LogTail

`SeqStep` is `Source.seq` followed by `finalize`, on a record of the source's
fields; the samples are left out. `LogTail` feeds it the numbers of the lines
the capture gets. A log file is a sequence of units, a line's bytes and its end
being one each, so that a rotation, a read or the end of a poll can fall inside a
line. The tailer's `Poll` is taken apart at each access: the open, each read,
each write, the stat. `num` gives a line its sequence number when it is first
read, any of `Numbers`, which covers late, repeated, missing and restarted ones.
`lost` holds the lines the tailer cannot be held to: those of a file that was
truncated or that the daemon wrote to after the path had left it; `raced` those
written between the tailer's last read and the rename. A file is never shortened
without its path (`Truncate`), a daemon reopens only between lines, and errors of
opening other than absence are left out.

`Long` are the lines of which more than `maxCarry` bytes are at some time held
without the line's end. `CarriedOn` drops what was carried at such a line, as
`Observe` does, and its number with it. Which lines these are is one choice for
each line, where in the code it is a matter of how the reads fell: a line that is
copied twice after a fault is long both times or neither, and the rest of a
dropped line, which could be taken for a line of its own, has no number. A long
line that lies wholly in one read is not in `Long`, the code reading its number
like any other's.

### Recorder

Two captures: one written by the recorder's loop, one by the eslogger goroutine,
each with its own flushes, as `Tick`, the two-second ticker and `Close` make
them. Retention is one action for each of: taking the active set, the flush, the
listing, the choice, the hash, the journal's record and the removal; the loop,
the goroutine, the stop and another hand interleave with all of them. `log` is
what the journal holds of each file: its last record, the journaled prefix and
the prune record; `Reported` is what the check says of a capture that is gone
(`checkPath`, `pruneVerdict`). `Ends` is an exit or a crash, with all memory
lost. `FlushFails` is a `Grow` that fails at the stat, or later, when the journal
has made a state for the file and hashed none, some or all of what is new
(`Keeps`), or has hashed it and cannot write the record; the capture counts the
bytes as journaled in each case. `unrecorded` remembers the files of which the
last record could not be written. Left out: ages other than as a choice, the journal's chain, a second
`Stop`, the sources' states.

### WebhookAlerts

`Send` is taken apart at its three selects (`Send`/`Surface`, `SendFull`,
`DropOldest`, `Push`); the worker receives, posts at most twice and gives up.
`PostFails` leaves open whether the receiver had the alert. `Close` waits for the
worker or runs out of time; `Exit` ends the program at any point, since a signal
ends it without `Close`. The error of an alert given up is kept if there is room
for it (`KeepError`); `untold` counts those thrown away.

### MitigationLedger

A file is whether it exists, its guardrails and the agents' own edits. `Apply`
is `PlanApply`, `Reread`, `Backup`, `Write`, `RecordApply`; a revert is
`CheckRevert`, `Restore`, `RecordRevert`, alone or from `RevertAll`. An agent may
edit a file between any two. Hashes stand for contents, and an id, which is cut
from the hash of what was written, for that content. `torn` is a ledger whose
last record was cut short, which is then refused. An id may be given by its first
digits, and then it is not looked up among those reverted (`ledger.go:312-318`),
which `CheckRevert` leaves open. `Render` keeps every other edit; of the product's
own Codex rules file the lines that are no rules are in fact dropped
(`plan.go:409-457`). One change at a time: the
server serialises its own (`serve/mitigations.go:145`), and two runs of the
command at once are left out.

## Runs

| Run | Instance | What it shows |
|---|---|---|
| `package` | 4 builders, 2 records each, 2 blobs, 1 build | what is sealed stays, verifies, and can be rolled back to; rounds are resolved |
| `package_faults` | 3 builders, 1 record, 2 blobs, 2 builds, appends that fail or tear | exact rollback, nothing of an aborted round sealed, and the refinement of `SealedHistory`, under faults |
| `lock` | 3 processes on 3 hosts | exclusion and reclaiming |
| `signing` | 2 processes, a case of both (3 seals) and one of one of them (1), crashes, unsigned rounds, every failure of `Finish`, 1 restore | loss recorded, verified means provable, a case finished and anchored in turn never says FAILED, anchors chained |
| `acquisition` | 5 files, 2 workers, channels of 1, every kind of failure | nothing lost or doubled in flight, the serial manifest, termination |
| `journal` | 2 bytes of which a baseline hashes 1, 2 byte values, 1 edit, 2 monitor runs, 1 failing access, a collection at any time | no false report unless the journal's copy is the newer, no missed edit, no gap, no growth left out once the transcript grows again |
| `tail` | 4 lines, the second too long to be carried, numbers 1 to 4, a rename, a truncation, a failing write, reads of 2 units | order, completeness across rotations, exact losses, progress |
| `recorder` | 2 files, 3 lines, files of 2, 2 mishaps, or 1 once restarted, 2 sessions | retention and tampering told apart; an orderly stop journals all |
| `alerts` | queue of 2, 1 kept error, 4 findings | no stall, an exact account, order, every alert ends |
| `mitigation` | 1 file, 2 guardrails, 2 changes, 3 ledger records, 1 edit by an agent, crashes | edits survive, guardrails traceable, everything restored |
| `first_round`, `mitigation_reverts` | the smallest instance that shows it, or that of the run above | the code does not do what a comment or document says; see Findings |

Why the bounds suffice. A round depends on what one seal and one pending file
left, so a chain of builders of length four reaches a sealed round, an aborted
one, a builder that dies in rolling it back, and one that seals after all. Two
blobs are one that an earlier round stored and one that is new; two records let
a blob be met twice in a round. Lines carry the run and not their data. In
`signing` a case with two rounds, put back to the first, passes an unsound check
that is content with the first one's anchor, and is sealed on top: three seals of
the case both processes collect into. The second case is there only to share the
anchor log. In `acquisition` five
files fill both channels, both workers and the committer's buffer at once. In
`journal` one edit of each kind, before and after a restart, at any byte, with
growth on either side, and one failure anywhere; the agent writes one byte value
and an edit the other. With two bytes of which a baseline hashes one, growth falls
on a file that a failure or the bound left behind. In `tail` a rename and a
truncation in either order, with reads that end inside a line and polls that end
before the file does; of the four lines three have a number that is read, and with
a window of one and one number waited for, three out of four reach every branch of
`seq`, a jump too large to wait for included. The long line comes between two
whose numbers are read. In `recorder` two files
are one for each capture, or one full and one after it, and one pruned while the
other is written; a mishap is an edit, a removal, a failed flush, hash or record
or a failed removal. Two of them are needed: a failed flush before a failed removal,
or an edit after either. Both fall in the first session, or one in either; what the
second session makes of those of the first is part of the run, and the proofs have
any number in any session. In
`alerts` a queue of two overflows
while the worker holds a third. In `mitigation` the second change may be the
first again; its two guardrails are alike in all but name (`SYMMETRY`). `MaxRuns`, `MaxRecords`, `MaxSeals`, `MaxRestores`, `MaxLen`,
`MaxEdits`, `MaxStarts`, `MaxLines`, `MaxWritten`, `MaxRenames`, `MaxCuts`, `MaxFaults`,
`MaxFiles`, `MaxMishaps`, `MaxSessions`, `MaxAlerts`, `MaxApplies` and `N` are
the only bounds; the lock needs none. After its last builder `CasePackage` only
stutters (`Stopped`), and so does `RoundSigning`; the other systems do stop, and
their configurations say so with `CHECK_DEADLOCK FALSE`.

Properties that are conditional, and on what: `ExclusiveUntilACrash` and
`ExclusiveAcrossHosts` as their names say; `InOrder`, `ClosedFilesCaptured`
and `NoSilentLoss` on the capture accepting writes and on a truncation being
noticed, which the code says it cannot do better (`tail.go:72`); `AppendOnlyClean`
on the journal's copy not being the newer, and `GrowthJournaled` on no access
failing from there on, the transcript growing past what was left out; `LossRecorded` and `VerifiedIsProvable` on no run having
locked the case while another still finished a round of it, `FailedMeansChanged`
on every run of the case having signed and anchored in turn and the log having
been written whole and by one at a time, and `AnchorsChained` on the latter;
`RevertAllRestoresDistinct` on distinct ids;
`GuardsAccounted` and `EditsSurvive` on the instants of a crash or an overlapping
edit; `PrunedAccounted` on captures opened before retention looked, whose last record
the journal wrote, and not on one that could not be removed at first and whose
last flush failed. The hazards `PROJECT.json` lists without a property are the
cases excepted so, and those of parts that are not modelled.

### Fairness

* `CasePackage`: a builder that runs takes its next step, and a failed
  collection is started again (weak fairness of opening, rolling back,
  collecting and sealing together); from some point on the machine does not
  crash. Nothing obliges a builder to give up.
* `PackageLock`: processes keep running their cycle and from some point on do
  not die.
* `Acquisition`: every goroutine goes on when it can; a read ends, well or badly.
* `TranscriptJournal`: a running monitor keeps polling, its loop having no exit
  but a signal. The agent, the edits and the collection owe nothing.
* `LogTail`: the recorder's ticker polls for ever. The daemon and the rotation
  owe nothing.
* `WebhookAlerts`: the worker goes on until the program exits, since a post ends
  within its five seconds, and so does the engine within `Send` and `Close`.

`RoundSigning`, `Recorder` and `MitigationLedger` have safety properties only.

## Findings

* `first_round`: `New` has no pending file. A first round that dies after
  `case.json` and before `SHA256SUMS` is continued, and its lines sealed, by the
  second round.
* `mitigation_reverts`: the id of a change is cut from the hash of what it wrote.
  The same change applied, reverted and applied again counts as reverted:
  `--revert-all` passes over it and reports no error, and `--revert` refuses it.

Also seen while modelling, without a run of their own:

* a first round that dies before `case.json` leaves a directory that can never be
  opened; a lock file that was created but not yet written is never reclaimed;
  an append after a torn line is glued to it; a build that compresses differently
  replaces sealed blobs (`SealedBlobsPreserved`, `AtRestVerifies` and
  `RollbackPossible` are therefore checked with one build and whole lines);
* the record of a rolled-back round is in memory between `endPending` and
  `noteAborted`, and again between `takeAborted` and the custody event; a crash
  there loses it;
* of two runs on one host that read one stale lock, the second removes the lock
  of the first by its path (`lock.go:70`);
* two collections into different cases that record their anchors at once break
  the anchor log's chain (`store/keys.go:147`), and so does a record written in part;
* an anchor that is not recorded, because `RecordAnchor` failed or was not to be
  called, is a note of a run that ends well (`integrity/integrity.go:171`, `189`).
  The next run compares the case with the anchor of the round before and records
  for ever that "SHA256SUMS does not match the anchor [...] — the case was changed
  or rolled back since" (`integrity.go:91`), of a case nobody changed;
* so does a run that locks the case while the one before, the lock released, has
  still to record its anchor, though nothing failed and "A collect→seal cycle
  therefore holds an exclusive lock on the package" (`casepkg/lock.go:19`). With two
  such runs the signature in place may also go back to an older seal between a
  check and a seal, so that a round says verified of what it cannot be held to;
* a collection beside a running monitor can copy a journal newer than its
  transcript (`collector/collector.go:195`), which is then reported as
  `TRANSCRIPT_TRUNCATED`, "journaled content is missing, or the monitor saw the file
  shrink" (`src/docs/realtime-detection.md:82`), though it was only appended to;
* a baseline hashes 512 MiB at most (`journal/journal.go:135`), and what is beyond
  is not hashed until the transcript grows, though "Existing transcripts are hashed
  in full when monitoring starts" (`src/docs/realtime-detection.md:71`);
* an append that `Grow` could not open, stat, read or record
  (`journal/journal.go:150-183`) is not looked at again until the transcript grows,
  the watcher having taken its size as seen (`watch/watch.go:77-87`), though "every
  later append is journaled" (`src/docs/realtime-detection.md:71`);
* a captured line whose unfinished part was longer than 64 KiB has its number
  dropped (`recorder/source.go:163`), and is reported as lost: `NoSilentLoss` counts
  these lines in what is reported;
* a `Grow` that fails after it made the file's state (`journal/journal.go:155`)
  leaves a state the journal has no record of. What retention records of the intact
  capture then differs from what was journaled, and the check takes it for an edit
  (`journal/check.go:267`), though the record is made "so verification can tell the
  file was deleted intact rather than edited first" (`journal/prune.go:12`).
  `PrunedAccounted` excepts it (`unrecorded`);
* the error of an alert is thrown away while sixteen wait to be told
  (`realtime/alert.go:168`), and the alert is counted nowhere, though "drops are
  counted and printed" (`src/docs/realtime-detection.md:49`); `AlertsAccounted` says
  that this is the only way one goes uncounted;
* bytes written between the tailer's read of the end and its stat that finds the
  file renamed are not read (`recorder/tail.go:54-60`);
* retention can delete a capture that was opened after it took the active ones
  (`recorder.go:389-400`), and a second `Stop` does not wait for the first;
* a prune that then fails to remove the file has made the journal forget it
  (`journal/prune.go:36`), and of a capture of this session `knownCaptures` has no
  size (`recorder.go:446`): the record of a later prune has no prefix, and the
  whole file is compared with what was journaled, so that a capture whose last
  flush had failed is reported as changed. `PrunedAccounted` excludes it;
* a webhook error is told for a later alert, which is then counted as dropped
  though it is queued; the error told is the oldest kept, not "the most recent"
  (`alert.go:133`); those of the last alerts are told of never.

## Proofs

All are checked by TLAPS, for every value of the constants, from the assumptions
of the modules (builds are positive numbers, the bounds are natural numbers, a
capture holds a line at least, `WriteFaults` is Boolean, `HostOf` is defined on
`Procs`, there is a worker, the webhook keeps at least one alert, `None` is no
settings file and no case) and, where a theorem says `ASSUME`, from a condition on the
constants that its name states. Each rests on an inductive invariant, named below
with the reason it is needed.

### CasePackage

* `TypeCorrect`. `TypeOK` is not inductive: that the
  archive and the history hold pairs of numbers needs the round to be at least
  one, and that `NextRound` is a number needs the rounds of `case.json` to be
  increasing, since their maximum is a `CHOOSE`. `TypeInv` adds that order, and
  `RoundTaken` says where a builder has a round.
* `SealedLogs`, `Restored`, `RoundsInOrder`. All
  follow from `RoundInv`: a writer owns a round whose pending file names the
  seal in place; the pending file describes what the seal covers; a rollback has
  restored, at each stage, the files of the stages before; and no writer appends
  to a sealed log that ends in a torn line, since `NewAppender` and the reader
  of the manifest refuse it. Without the last part an append could change a
  sealed line by being glued to it. `RoundInvStep` has a step per action.
* `SealedBlobs` and `RollbackAlwaysPossible` assume `SameBuild`:
  with one collector build `commitBlob` never finds other bytes under an
  address, so `commit_place` is never reached, and a rollback finds every log at
  least as long as the pending file says. With two builds both are false.
* `SealedVerifies` assumes `SameBuild` and that no write fails:
  `agentdfir verify` is clean on every sealed package at rest. `RestoredExactly`
  gives the logs, `case.json` and the archives; `RestInv` adds the rest: no log
  has a torn line (`LogsWhole`); a temporary blob belongs to the builder, to a
  round still to be rolled back, or to a first round that died before its
  `case.json` (`TmpsOwned`); outside an unsealed round raw/ holds what the seal
  lists (`NothingUnlisted`); every record has its blob, in the package and in
  the seal, which is what lets a rollback remove blobs (`RecordsStored`).
* `NeverSealedAndAborted`, `AbortedNeverSealed`
  from `AbortInv`: the lines of the logs and of the seal are of runs that were
  not rolled back (`LinesGood`), sealed runs and rolled-back ones are apart
  (`RunsApart`), a round that may still be rolled back is none the seal knows
  (`PendingApart`), and what is noted as aborted was (`NotedRolledBack`).
* `RefinesHistory`, that every step of a builder is a seal of
  `SealedHistory` or a stutter, from `HistoryInv`: what is archived when
  (`ArchivesListed`), that a builder's round is the next one and `case.json`
  lists it when it is sealed (`RoundsListed`), that the first seal has none
  before it (`FirstSeal`), and that a round adds to the custody chain before it
  is sealed (`CustodyGrows`). Only `WriteSums` of a sealed package changes what
  the abstract specification sees.

### PackageLock

* `LockTyped`, from `LockType`, which adds that a process taking the lock has an
  attempt left.
* `LockExcludes` (`ExclusiveUntilACrash`): until a process dies nothing looks
  stale, so at most one process is past `Create`, and the file names it.
* `LockExcludesAcrossHosts` (`ExclusiveAcrossHosts`): with one process on each
  host, only the maker's own next run can find the lock stale, and the maker is
  then not holding it.

### RoundSigning

Four theorems, one for each property of the run, over `SigningInv`, its types. The
only assumption is that `None` is no case: any number of processes may collect into
any case, and every step of `Finish` may fail. What they except is said of the case
and the log, and not of the processes.

* `AnchorLogChained` (`AnchorsChained`). Until two processes record at once, or a
  record is written in part, the one that records knows how the log stands: whether
  it exists, and which anchor is the last (`ChainInv`).
* `VerifiedRoundsProvable` (`VerifiedIsProvable`), from `ProvableInv`: a
  signature is archived only under a round with another after it, so the archive
  has no entry yet for the round being followed; and what a process found of its
  package still holds when it seals (`Relies`). That takes the one who has the lock
  being alone at work on the case, which `SharedInv` gives of a case that was not
  locked while another still finished a round of it (`Unshared`).
* `LostRoundsRecorded` (`LossRecorded`), from `LossInv`. A package, or its kept
  copy, with no round saying FAILED has, with every anchored round, those
  anchored before it (`Descends`). A round is sealed without FAILED only after
  all anchored ones were found (`Known`), an anchor is recorded before the package
  can be copied or not at all, and no earlier copy has its seal, which is why an
  anchor never breaks `Descends` of the copy. How an append changes the log, over
  the start of a log another process has made and in part included, is in
  `Recorded`.
* `NoFalseAlarm` (`FailedMeansChanged`), from `CleanInv`, with `ChainInv` and
  `LossInv`: a signed package that nobody is finishing has its signature and the
  last of its anchors over the seal in place (`Clean`), as long as none of its runs
  lapsed (`Kept`); the runs of other cases may do as they like.

### TranscriptJournal

For any bytes, any length, any number of edits, restarts, polls and failing
accesses, and any bound of the baseline. The invariants speak of a transcript that
nothing but its agent wrote to (`edits = 0`); what the check does with the rest is
`EveryEditReported`.

* `GrowthMirrored` (`JournalMirrors`), from `MirrorInv`: every range journaled is
  of the transcript as it is now, its running hash that of the prefix it ends
  (`Mirrors`), and what the monitor knows, in the watcher and in the journal, is
  not ahead of the file (`WatchesIt`). That is what makes the journal safe to
  read more than the watcher saw, and to begin again after a restart or a failure.
* `NothingReported` (`AppendOnlyClean`), from `CopyInv`: the copy of the transcript
  has all that was journaled before it was taken. The monitor may run on during the
  collection; a copy of the journal that has a record made after that of the
  transcript is excepted by the property, and shows a report the code does make.
* `EveryEditReported` (`EditsReported`): with a record that resets the file in
  the journal the check reports that record; without one it compares every range
  with the copy. It needs the types only, and no assumption on who wrote what.

### Acquisition

`AcquisitionTyped`, `NothingLostInFlight` (`InFlightExactly`) and
`ParallelIsSerial` (`ImplementsSerial`), from `AInv`: a worker has a file exactly
while it reads or sends it (`HandsOK`), the stages of the end come in order
(`EndsOK`), and the manifest lacks what was lost and nothing else (`CountOK`).

### LogTail and SequenceGaps (`BlackBoxProofs`)

`AccountingConsistent` (`RangesStayConsistent`), from `TailInv`. There is a lemma
for each branch of `Source.seq` and `finalize` (`LNew`, `LGrow`, `LJump`,
`LLate`, `LRestart`, `LSettle`); with `MaxPending` the number of numbers kept is
bounded whatever jump a line makes.

`RotatedFilesCaptured` (`ClosedFilesCaptured`), for any buffer and poll size and
any number of rotations, truncations and failing writes, from `CaptureInv`. What
a step must know to leave a file is spread over the poll, so the invariant says,
besides that a line is in one place of one file (`UniqueLines`):
- `BufferOK`: the drain's buffer is the part of the file it was read from, until
  the file is truncated;
- `ReadAccounted`: the file followed is captured up to where the drain is, which
  is why `off` may move only after the write;
- `RestAccounted`: once the path names another file, a last read that came back
  short left nothing behind but what was written after it.
`CloseOld` then leaves a file whose two parts are both accounted for; the
property alone says nothing of the file that is still being read. A truncation
needs `UniqueLines`: a line read past it is taken out of the lost ones, and may
be in no other file.

`CapturedInOrder` (`InOrder`), on top of those, from three invariants. `FilesInv`
is of the log alone: its lines rise within a file and from one file to the next,
and only the daemon's file can end in the middle of a line. `OrderInv` puts every
line in one of three places, the capture, the drain's buffer, and what the tailer
may still read (`Coming`), in that order; what it may still read depends on
whether it knows of a truncation (`blind`), which is the reason a file is read
from the start again only when it was cut. `ApartInv` is the same for `endLine`:
a line left open is known as one (`partial`), and its end comes next.

`LossesExact` (`LossExact`) and `LossesNotSilent` (`NoSilentLoss`), for whatever
numbers the lines carry and whichever are too long to be carried: the first is of
the lines whose number was read, the second counts the others as reported. The
source forgets: it keeps the numbers it still waits
for, and of a run of numbers it left, two counters. The argument therefore goes
through an account that forgets nothing (`AccountOK`: every number seen since the
run began, the jumps it made, and what earlier runs missed), in three steps:
- `AFollow`: whatever number comes, the source never reports fewer losses than the
  account, and exactly its losses as long as it waits for all of them or only
  rising numbers came. One lemma for each branch of `seqStep` and `finalize`
  (`AHits`, `AFinalize`, `ANext`, `AJump`, `ALate`, `ARestart`);
- `AccountGrow`, `AccountedStep`: the account is that of the sequence of numbers
  (`AccountOf`), so that `MissingOf` and `GapsOf` of it are what the account misses
  (`AccountIs`). A number added changes the weight of the last run's end only
  (`RunsOver`, `WeightsSame`), or begins another;
- `SeenInv`: the numbers the source was given are those of the completed lines of
  the capture that were not too long (`ObservedIs`), which as long as nothing went
  wrong are in order (`OrderedAs`, with `CapturedInOrder`). `AsManyNumbers` then
  takes lines left out to numbers left out.

What these speak of, sums over sets, folds and a recursive function, is defined by
induction over data, and the theorems for that are out of reach. `FinMin` stands
in: of the subsets of a finite set for which something fails one is least, so a
fold is unique (`FoldsAgree`), exists (`FoldsExist`), and is a sum that does not
depend on the order (`TotalStep`); runs are unique by the least index at which two
differ (`RunsAgree`).

### Recorder (`BlackBoxProofs`)

`DeletionsAccounted` (`PrunedAccounted`), `TamperingReported` (`TamperReported`)
and `StopsJournaled` (`StopJournals`), for any captures, lines, mishaps and
sessions, from one invariant, `RInvariant`, which is a theorem of its own
(`RecorderConsistent`). TLC checked it on small instances before it was
proved. Its parts:
- `CapsOK`, `JournalOK`: a capture counts the lines of its file; the journal never
  has more of a file than there is, what it has is the start of the file unless
  another hand changed it, and what the session hashed is what the journal says,
  but for a file of which the last record could not be written (`unrecorded`);
- `StagesOK`: what retention deletes is in use by no capture, unless it was opened
  after `Prune` took the active ones; and the stop's steps come in order, which
  keeps the loop from the journal once it is closed;
- `PruneOK`: of a file nobody touched whose records were written, what retention knows (its size, what was
  journaled, the hash) is still so when it is recorded, which is what
  `NextCandidate`, `Hash` and `RecordPrune` pass on to each other;
- `TamperOK`: an altered file differs from the journal within what was journaled,
  and so do the hash taken of it and the record made of it. A flush cannot hide
  this, since the running hash never reads a line twice (`RGrown`);
- `StopOK`: without mishaps a file is journaled whole or awaits a flush.

A capture writes, rolls, flushes and closes in ten actions of two goroutines and
the stop. They are proved once: `CaptureSteps` says what any of them does to one
file, `RCaptureAction` that each does no more, and `RCaptureInvariant` that this
keeps the invariant whatever retention is at. Steps that leave files and journal
alone are `RQuiet`; retention's own, the end of the program, and the other hand's
have a lemma each. `RFaithful` and `RCaught` are about `Mismatch`: what a check
makes of the record of an intact file, and of an altered one.

### WebhookAlerts

`AlertsTyped`, `TailNeverStalls` (`NeverStalls`), `NoAlertVanishes`
(`AlertsAccounted`) and `ReceivedInOrder` (`PostedInOrder`), from `WInv`, which
says where each alert is, how the numbers queued, in hand and posted are ordered,
and that a close that was flushed left nothing. The account is an equation
(`CountsOK`): what is counted, waits to be told or was thrown away is what was
pushed out, found an empty queue or failed. It holds at every step of `Send`, but
for the one between a drop and its push, which a program that exits leaves off by
one; and an error is thrown away only while `ErrsCap` others are told or wait.

### MitigationLedger

For any settings files and guardrails, any number of changes, with crashes or
without. `Typed` says that a ledger is of records and the record a revert is
about is one of them; `LedgerGrows` that no step changes a record once written.

* `LedgerTypes`: what is about to be replaced is in the backups.
* `AgentsEditsSurvive` (`EditsSurvive`), from `EditsInv`: what the file has by now
  and the change did not read was written in between, and what an unforced
  revert read is what the record says was written (`RecordsTell`), so that it
  holds no edit that was not there before.
* `GuardsInLedger` (`GuardsAccounted`), from `GuardsInv`. A revert puts an older
  file back, with the guardrails that file had, so the invariant says of the
  contents before every change what the property says of the files.
* `RevertAllUndoes` (`RevertAllRestoresDistinct`), from `RevertInv`: as long as
  ids are distinct, a change is live exactly if no record says it was reverted
  (`Recorded`); what is still to be reverted is older than what is being reverted
  (`InTurn`), hence newest first is the order of undoing; the oldest live change
  of a file was made to its original (`Originals`); and a file with nothing live
  is back as it was (`SoFar`). With two changes of one id `Recorded` fails, which
  is the finding.

### Only model-checked

Liveness stays with TLC (`PendingResolved`, `DeadOwnerReclaimed`, `GrowthJournaled`,
`EventuallyCaptured`, `Terminates`, `AlertsEnd`): it needs `ENABLED`, which the
prover does not handle. Every other property a passing run checks is proved.

## Not modelled

The components listed as `not_modelled` in `PROJECT.json`, with the reason for
each. Parsers, normalisation, detection, correlation, reports, exports and disk
images, which are most of the source, are functions of their input and keep no
state between calls: a model of them would be their text again. The shared store
and the case server's job list could be modelled in the same way as the rest.
Within the modelled components: chunked append blobs (`prepareAppended`), the
data `Unchanged` compares, the bounds on sizes that discovery applies, several
signing keys, the journal's chain and seals, the lines of the watcher, the
recorder's second `Stop` and its status file, a record of the transcript's journal
written in part, the rendering of settings files,
and the lock composed with the rounds.

## Plan

1. `AppendedBlobs`: `PrepareFile`, `Unchanged` and `prepareAppended` against a
   file that grows, is replaced or rotates.
2. `SharedStore`: links, `GC` and the seek to a package being written.
3. The lock composed with `New` and `Close`, where the lock is released before
   the directory is removed.

Proofs to add: those of the modules above. Of the properties the runs check only
liveness has no theorem. `BlackBoxProofs` and `CasePackageProofs` hold the proofs of a
component's modules together.
