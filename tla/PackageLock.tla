----------------------------- MODULE PackageLock -----------------------------
(***************************************************************************)
(* The lock file of an evidence package: internal/casepkg/lock.go.         *)
(* Processes, on one or several hosts, run a collect-seal cycle: they take *)
(* the lock, hold it, and remove it.  A process may die at any step.       *)
(*                                                                         *)
(* A process is its program's current run: when it ends or dies, another   *)
(* run may take its place.  What a dead run wrote stays on disk, so the    *)
(* lock file says whether the run that made it still lives.  That a pid is *)
(* used again while its file is there is left out.                         *)
(***************************************************************************)
EXTENDS Naturals, FiniteSets

CONSTANTS
    Procs,     \* processes
    HostOf     \* the host of each

ASSUME HostAssumption == DOMAIN HostOf = Procs

VARIABLES
    file,      \* the lock file, or NoFile
    pc,        \* what each process is about to do
    attempt,   \* how many times it has found a stale lock
    crashed    \* history: has any process died?

vars == <<file, pc, attempt, crashed>>

\* maker: the process that made the file; live: the run that did still runs;
\* written: its pid and host are in it (it is made empty).
Files  == [maker : Procs, live : BOOLEAN, written : BOOLEAN]
NoFile == [maker |-> "none", live |-> FALSE, written |-> FALSE]
Stages == {"out", "create", "write", "read", "remove", "held", "dead"}

Goto(p, s) == pc' = [pc EXCEPT ![p] = s]

\* The file is the one that p's present run made.
Made(p) == file # NoFile /\ file.maker = p /\ file.live

Init ==
    /\ file = NoFile
    /\ pc = [p \in Procs |-> "out"]
    /\ attempt = [p \in Procs |-> 0]
    /\ crashed = FALSE
-----------------------------------------------------------------------------
\* A new run starts where the last one ended or died.
Start(p) ==
    /\ pc[p] \in {"out", "dead"}
    /\ attempt' = [attempt EXCEPT ![p] = 0]
    /\ Goto(p, "create")
    /\ UNCHANGED <<file, crashed>>

\* Mutant of Create: without O_EXCL the lock of another process is replaced.
CreateTruncating(p) ==
    /\ pc[p] = "create"
    /\ file' = [maker |-> p, live |-> TRUE, written |-> FALSE]
    /\ Goto(p, "write")
    /\ UNCHANGED <<attempt, crashed>>

\* O_CREATE|O_EXCL: made empty, unless it exists.
Create(p) ==
    /\ pc[p] = "create"
    /\ IF file = NoFile
       THEN /\ file' = [maker |-> p, live |-> TRUE, written |-> FALSE]
            /\ Goto(p, "write")
       ELSE UNCHANGED file /\ Goto(p, "read")
    /\ UNCHANGED <<attempt, crashed>>

\* The owner is written through the open handle: into the file at the path
\* only if that still is the one p made.
WriteOwner(p) ==
    /\ pc[p] = "write"
    /\ file' = IF Made(p) THEN [file EXCEPT !.written = TRUE] ELSE file
    /\ Goto(p, "held")
    /\ UNCHANGED <<attempt, crashed>>

\* The write fails: whatever is at the path is removed.
WriteFails(p) ==
    /\ pc[p] = "write"
    /\ file' = NoFile
    /\ Goto(p, "out")
    /\ UNCHANGED <<attempt, crashed>>

\* Mutants of Stale: a pid of another host looks dead here; the test inverted.
StaleAnyHost(p)  == file.written /\ (HostOf[file.maker] # HostOf[p] \/ ~file.live)
StaleIfAlive(p)  == file.written /\ HostOf[file.maker] = HostOf[p] /\ file.live

\* The owner is dead: same host, and its pid no longer runs.
Stale(p) == file.written /\ HostOf[file.maker] = HostOf[p] /\ ~file.live

\* readLock and processAlive.  A file that is gone by now, or empty, cannot be
\* read and the attempt fails, as it does when the owner may be alive.
ReadOwner(p) ==
    /\ pc[p] = "read"
    /\ IF file # NoFile /\ Stale(p) THEN Goto(p, "remove") ELSE Goto(p, "out")
    /\ UNCHANGED <<file, attempt, crashed>>

\* The stale lock is removed by its path, and taking it is tried once more.
RemoveStale(p) ==
    /\ pc[p] = "remove"
    /\ file' = NoFile
    /\ attempt' = [attempt EXCEPT ![p] = @ + 1]
    /\ IF file = NoFile \/ attempt[p] = 1 THEN Goto(p, "out") ELSE Goto(p, "create")
    /\ UNCHANGED crashed

\* release: what is at the path is removed.
Release(p) ==
    /\ pc[p] = "held"
    /\ file' = NoFile
    /\ Goto(p, "out")
    /\ UNCHANGED <<attempt, crashed>>

\* The process dies, and the file it made outlives it.
Crash(p) ==
    /\ pc[p] \notin {"out", "dead"}
    /\ file' = IF Made(p) THEN [file EXCEPT !.live = FALSE] ELSE file
    /\ Goto(p, "dead")
    /\ crashed' = TRUE
    /\ UNCHANGED attempt

Acquire(p) ==
    \/ Create(p) \/ WriteOwner(p) \/ ReadOwner(p) \/ RemoveStale(p)

Next ==
    \E p \in Procs :
        Start(p) \/ Acquire(p) \/ WriteFails(p) \/ Release(p) \/ Crash(p)

\* Every process keeps running its cycle, and processes do not die for ever.
Fairness ==
    /\ \A p \in Procs : WF_vars(Start(p)) /\ WF_vars(Acquire(p)) /\ WF_vars(Release(p))
    /\ <>[][\A p \in Procs : ~Crash(p)]_vars

Spec == Init /\ [][Next]_vars
FairSpec == Spec /\ Fairness
-----------------------------------------------------------------------------
\* The variables hold what their comments say.
TypeOK ==
    /\ file \in Files \cup {NoFile}
    /\ pc \in [Procs -> Stages]
    /\ attempt \in [Procs -> 0..2]
    /\ crashed \in BOOLEAN

Holders == {p \in Procs : pc[p] = "held"}

\* SECURITY.md:78: "a collect-seal cycle holds an exclusive lock on the package;
\* a lock held by a live process is never stolen".
Exclusive == \A p, q \in Holders : p = q

\* As long as no process has died, the lock is exclusive, and a holder's lock
\* file is there with its name in it.
ExclusiveUntilACrash ==
    ~crashed => Exclusive /\ \A p \in Holders : Made(p) /\ file.written

\* With a single collecting process on each host the lock is exclusive even
\* when processes die: only a process of its maker's host removes a stale lock.
ExclusiveAcrossHosts ==
    (\A p, q \in Procs : p # q => HostOf[p] # HostOf[q]) => Exclusive

\* A written lock whose maker died does not stay: a run on its host reclaims it.
DeadOwnerReclaimed ==
    (file # NoFile /\ file.written /\ ~file.live)
        ~> ~(file # NoFile /\ file.written /\ ~file.live)
=============================================================================
