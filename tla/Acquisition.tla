----------------------------- MODULE Acquisition -----------------------------
(***************************************************************************)
(* The parallel acquisition of a collection (internal/collector):          *)
(* discovery walks the files in a fixed order and queues them, workers     *)
(* read them into temporary files, and a committer writes the manifest in  *)
(* the order of discovery, buffering what arrives early.                   *)
(*                                                                         *)
(* A file is its place in the discovery.  A channel is the set of what it  *)
(* holds: the order in which it delivers is left open, more than the code  *)
(* allows.  What a worker reads is only whether it made a temporary file;  *)
(* the rounds and the logs the records go to are CasePackage's.            *)
(***************************************************************************)
EXTENDS Naturals, Sequences, FiniteSets

CONSTANTS
    N,           \* bound: the files discovery comes upon
    Workers,     \* Options.Jobs
    JobsCap,     \* what the channel of jobs holds
    ResultsCap,  \* what the channel of results holds
    Faults       \* what may fail: any of FaultKinds

FaultKinds == {"walk", "prepare", "commit"}
ASSUME AcquisitionAssumption ==
    N \in Nat /\ JobsCap \in Nat \ {0} /\ ResultsCap \in Nat \ {0} /\ Workers # {}

VARIABLES
    issued,   \* files discovered so far
    jobs,     \* the files queued for the workers
    hand,     \* what each worker does, and with which file
    results,  \* the results on their way to the committer
    buf,      \* those it has received and not committed
    next,     \* the file to commit next
    log,      \* the manifest
    lost,     \* the files whose result or commit was an error
    temps,    \* the files whose bytes are in a temporary file
    walk,     \* the main goroutine: "walking", "joining", "draining", "done"
    failed,   \* discovery stopped on an error
    drained   \* the committer is through

committed == <<next, log, lost>>
vars == <<issued, jobs, hand, results, buf, committed, temps, walk, failed, drained>>

Files     == 1 .. N
Outcomes  == {"blob", "none", "error"}
Results   == [idx : Files, out : Outcomes]
Hand(p, i, o) == [pc |-> p, idx |-> i, out |-> o]
Idle      == Hand("idle", 0, "none")
Gone      == Hand("gone", 0, "none")
Hands     == [pc : {"idle", "reading", "sending", "gone"}, idx : 0 .. N, out : Outcomes]
Result(i, o) == [idx |-> i, out |-> o]
-----------------------------------------------------------------------------
Init ==
    /\ issued = 0 /\ jobs = {} /\ hand = [w \in Workers |-> Idle]
    /\ results = {} /\ buf = {}
    /\ next = 1 /\ log = <<>> /\ lost = {} /\ temps = {}
    /\ walk = "walking" /\ failed = FALSE /\ drained = FALSE
-----------------------------------------------------------------------------
(***************************************************************************)
(* Discovery: Run, ingestPath, and what it sends on.                       *)
(***************************************************************************)
\* submit: a regular file within the bounds that no earlier round holds unchanged.
Submit ==
    /\ walk = "walking" /\ issued < N /\ Cardinality(jobs) < JobsCap
    /\ issued' = issued + 1
    /\ jobs' = jobs \cup {issued'}
    /\ UNCHANGED <<hand, results, buf, committed, temps, walk, failed, drained>>

\* record, recordCarried: there is nothing to read, but it takes its turn.
SendRecord ==
    /\ walk = "walking" /\ issued < N /\ Cardinality(results) < ResultsCap
    /\ issued' = issued + 1
    /\ results' = results \cup {Result(issued', "none")}
    /\ UNCHANGED <<jobs, hand, buf, committed, temps, walk, failed, drained>>

\* All is discovered, or a pattern could not be: stop closes the jobs.
WalkEnds ==
    /\ walk = "walking"
    /\ failed' = (issued < N) /\ (failed' => "walk" \in Faults)
    /\ walk' = "joining"
    /\ UNCHANGED <<issued, jobs, hand, results, buf, committed, temps, drained>>

\* The workers are through, so no more results.
Joined ==
    /\ walk = "joining" /\ \A w \in Workers : hand[w] = Gone
    /\ walk' = "draining"
    /\ UNCHANGED <<issued, jobs, hand, results, buf, committed, temps, failed, drained>>

\* The committer is, and Run returns.
Returns ==
    /\ walk = "draining" /\ drained
    /\ walk' = "done"
    /\ UNCHANGED <<issued, jobs, hand, results, buf, committed, temps, failed, drained>>
-----------------------------------------------------------------------------
(***************************************************************************)
(* A worker.                                                               *)
(***************************************************************************)
Take(w) ==
    /\ hand[w] = Idle
    /\ \E i \in jobs :
          /\ jobs' = jobs \ {i}
          /\ hand' = [hand EXCEPT ![w] = Hand("reading", i, "none")]
    /\ UNCHANGED <<issued, results, buf, committed, temps, walk, failed, drained>>

\* Mutant: a refused file has no result.
RefusedDropped(w) ==
    /\ hand[w].pc = "reading"
    /\ hand' = [hand EXCEPT ![w] = Idle]
    /\ UNCHANGED <<issued, jobs, results, buf, committed, temps, walk, failed, drained>>

\* Pace refuses the file, or it cannot be read: a record without a blob.
Refused(w) ==
    /\ hand[w].pc = "reading"
    /\ hand' = [hand EXCEPT ![w] = Hand("sending", @.idx, "none")]
    /\ UNCHANGED <<issued, jobs, results, buf, committed, temps, walk, failed, drained>>

\* PrepareFile writes it to a temporary file ...
Read(w) ==
    /\ hand[w].pc = "reading"
    /\ temps' = temps \cup {hand[w].idx}
    /\ hand' = [hand EXCEPT ![w] = Hand("sending", @.idx, "blob")]
    /\ UNCHANGED <<issued, jobs, results, buf, committed, walk, failed, drained>>

\* ... or fails.
ReadFails(w) ==
    /\ "prepare" \in Faults /\ hand[w].pc = "reading"
    /\ hand' = [hand EXCEPT ![w] = Hand("sending", @.idx, "error")]
    /\ UNCHANGED <<issued, jobs, results, buf, committed, temps, walk, failed, drained>>

Send(w) ==
    /\ hand[w].pc = "sending" /\ Cardinality(results) < ResultsCap
    /\ results' = results \cup {Result(hand[w].idx, hand[w].out)}
    /\ hand' = [hand EXCEPT ![w] = Idle]
    /\ UNCHANGED <<issued, jobs, buf, committed, temps, walk, failed, drained>>

\* The jobs are closed and there are none left.
Leave(w) ==
    /\ hand[w] = Idle /\ walk # "walking" /\ jobs = {}
    /\ hand' = [hand EXCEPT ![w] = Gone]
    /\ UNCHANGED <<issued, jobs, results, buf, committed, temps, walk, failed, drained>>
-----------------------------------------------------------------------------
(***************************************************************************)
(* The committer.                                                          *)
(***************************************************************************)
\* Mutant: results are committed as they arrive.
DueAtOnce(r) == TRUE

\* The result to commit next.
Due(r) == r.idx = next

\* It receives only when nothing it holds can be committed.
Receive ==
    /\ ~drained /\ \A b \in buf : ~Due(b)
    /\ \E r \in results : results' = results \ {r} /\ buf' = buf \cup {r}
    /\ UNCHANGED <<issued, jobs, hand, committed, temps, walk, failed, drained>>

\* A commit takes the temporary file: into raw/, or away.
Commit(r) ==
    /\ r.out # "error" /\ log' = Append(log, r.idx)
    /\ temps' = temps \ {r.idx} /\ UNCHANGED lost

\* An error is kept, and what follows is committed all the same.
CommitFails(r) ==
    /\ r.out = "error" \/ "commit" \in Faults
    /\ lost' = lost \cup {r.idx}
    /\ temps' = temps \ {r.idx} /\ UNCHANGED log

\* Mutant: the committer stops at the first error.
CommitNextOrStop ==
    /\ ~drained
    /\ \E r \in buf :
          /\ Due(r) /\ buf' = buf \ {r} /\ next' = next + 1
          /\ (Commit(r) /\ UNCHANGED drained) \/ (CommitFails(r) /\ drained' = TRUE)
    /\ UNCHANGED <<issued, jobs, hand, results, walk, failed>>

CommitNext ==
    /\ ~drained
    /\ \E r \in buf :
          /\ Due(r) /\ buf' = buf \ {r} /\ next' = next + 1
          /\ Commit(r) \/ CommitFails(r)
    /\ UNCHANGED <<issued, jobs, hand, results, walk, failed, drained>>

\* The results are closed: what is left over is discarded.
Drain ==
    /\ ~drained /\ walk = "draining" /\ results = {} /\ \A b \in buf : ~Due(b)
    /\ drained' = TRUE /\ buf' = {}
    /\ temps' = temps \ {b.idx : b \in buf}
    /\ UNCHANGED <<issued, jobs, hand, results, committed, walk, failed>>
-----------------------------------------------------------------------------
Main      == Submit \/ SendRecord \/ WalkEnds \/ Joined \/ Returns
Worker(w) == Take(w) \/ Refused(w) \/ Read(w) \/ ReadFails(w) \/ Send(w) \/ Leave(w)
Committer == Receive \/ CommitNext \/ Drain
Next == Main \/ (\E w \in Workers : Worker(w)) \/ Committer

Spec == Init /\ [][Next]_vars
\* Each goroutine goes on when it can.
FairSpec ==
    /\ Spec
    /\ WF_vars(Main) /\ WF_vars(Committer)
    /\ \A w \in Workers : WF_vars(Worker(w))
-----------------------------------------------------------------------------
\* The type of the state.
TypeOK ==
    /\ issued \in 0 .. N /\ jobs \subseteq Files
    /\ hand \in [Workers -> Hands]
    /\ results \subseteq Results /\ buf \subseteq Results
    /\ next \in 1 .. (N + 1) /\ log \in Seq(Files) /\ lost \subseteq Files
    /\ temps \subseteq Files
    /\ walk \in {"walking", "joining", "draining", "done"}
    /\ failed \in BOOLEAN /\ drained \in BOOLEAN

\* Where a file discovered is on its way to the manifest.
Holds(w, i) == hand[w].idx = i
Held(i)     == \E w \in Workers : Holds(w, i)
Arrived(i)  == \E r \in results \cup buf : r.idx = i
InFlight    == {i \in Files : i \in jobs \/ Held(i) \/ Arrived(i)}

\* No file in flight is in two places.
InOnePlace ==
    /\ \A i \in jobs : ~Held(i) /\ ~Arrived(i)
    /\ \A i \in Files : Held(i) => ~Arrived(i)
    /\ \A v, w \in Workers, i \in Files : Holds(v, i) /\ Holds(w, i) => v = w
    /\ \A r, s \in results \cup buf : r.idx = s.idx => r = s
    /\ results \cap buf = {}

\* No file is lost on its way to the manifest, and none taken twice: what is in flight is
\* what was discovered and not committed, each in one place.  collector.go:198-233.
\* So is every temporary file, none of which outlives the collection (casepkg.go:659).
InFlightExactly ==
    /\ InFlight = next .. issued
    /\ InOnePlace
    /\ temps \subseteq InFlight

\* Run returns, whatever fails: the bounded channels never block all of them.
Terminates == <>(walk = "done")

Outcome == IF walk # "done" THEN "none" ELSE IF failed \/ lost # {} THEN "error" ELSE "ok"
Serial == INSTANCE SerialAcquisition WITH
    tried   <- next - 1,
    log     <- log,
    outcome <- Outcome

\* The manifest is that of a serial run, whatever the interleaving, and Run returns no
\* error only if every file is in it: "Ordering is what makes a parallel run reproduce
\* a serial one" (collector.go:213).
ImplementsSerial == Serial!Spec
=============================================================================
