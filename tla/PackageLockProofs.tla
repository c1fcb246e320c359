-------------------------- MODULE PackageLockProofs --------------------------
(***************************************************************************)
(* Proofs about PackageLock, for any number of processes on any hosts.     *)
(***************************************************************************)
EXTENDS PackageLock, TLAPS

\* A process that is taking the lock has an attempt left.
AttemptsLeft ==
    \A p \in Procs :
        pc[p] \in {"create", "write", "read", "remove"} => attempt[p] <= 1

LockType == TypeOK /\ AttemptsLeft

\* The file a process makes, and what writing it or its maker's death changes.
LEMMA FileTypes ==
    /\ \A p \in Procs : LET f == [maker |-> p, live |-> TRUE, written |-> FALSE]
                       IN  f \in Files /\ f # NoFile /\ f.maker = p /\ f.live
    /\ ~NoFile.live /\ ~NoFile.written
  BY SMT DEF Files, NoFile

LEMMA FileChanges ==
    ASSUME NEW f \in Files
    PROVE  /\ [f EXCEPT !.written = TRUE] \in Files
           /\ [f EXCEPT !.live = FALSE] \in Files
<1>1. [f EXCEPT !.written = TRUE] \in Files
  BY Zenon DEF Files
<1>2. [f EXCEPT !.live = FALSE] \in Files
  BY Zenon DEF Files
<1> QED
  BY <1>1, <1>2

LEMMA LockTypeInit == Init => LockType
<1> SUFFICES ASSUME Init
             PROVE  LockType
  OBVIOUS
<1>1. pc \in [Procs -> Stages] /\ attempt \in [Procs -> 0..2]
  BY SMT DEF Init, Stages
<1>2. AttemptsLeft
  BY SMT DEF Init, AttemptsLeft
<1> QED
  BY <1>1, <1>2, Zenon DEF Init, LockType, TypeOK

LEMMA LockTypeStep == LockType /\ [Next]_vars => LockType'
<1> SUFFICES ASSUME LockType, [Next]_vars
             PROVE  LockType'
  OBVIOUS
<1> USE DEF LockType, TypeOK, AttemptsLeft, Goto, Stages
<1>1. CASE UNCHANGED vars
  BY <1>1, SMT DEF vars
<1>2. ASSUME NEW p \in Procs, Start(p)
      PROVE  LockType'
  BY <1>2, SMT DEF Start
<1>3. ASSUME NEW p \in Procs, Create(p)
      PROVE  LockType'
  <2>1. file' \in Files \cup {NoFile}
    BY <1>3, FileTypes, Zenon DEF Create
  <2> QED
    BY <1>3, <2>1, SMT DEF Create
<1>4. ASSUME NEW p \in Procs, WriteOwner(p)
      PROVE  LockType'
  <2>1. file' \in Files \cup {NoFile}
    BY <1>4, FileChanges, Zenon DEF WriteOwner, Made
  <2> QED
    BY <1>4, <2>1, SMT DEF WriteOwner
<1>5. ASSUME NEW p \in Procs, ReadOwner(p)
      PROVE  LockType'
  BY <1>5, SMT DEF ReadOwner
<1>6. ASSUME NEW p \in Procs, RemoveStale(p)
      PROVE  LockType'
  BY <1>6, SMT DEF RemoveStale
<1>7. ASSUME NEW p \in Procs, WriteFails(p)
      PROVE  LockType'
  BY <1>7, SMT DEF WriteFails
<1>8. ASSUME NEW p \in Procs, Release(p)
      PROVE  LockType'
  BY <1>8, SMT DEF Release
<1>9. ASSUME NEW p \in Procs, Crash(p)
      PROVE  LockType'
  <2>1. file' \in Files \cup {NoFile}
    BY <1>9, FileChanges, Zenon DEF Crash, Made
  <2> QED
    BY <1>9, <2>1, SMT DEF Crash
<1> QED
  BY <1>1, <1>2, <1>3, <1>4, <1>5, <1>6, <1>7, <1>8, <1>9, Zenon DEF Next, Acquire

\* The lock file and the processes taking it stay in their types; a process makes at most
\* two attempts (acquirePackageLock).
THEOREM LockTyped == Spec => []TypeOK
<1>1. LockType => TypeOK
  BY DEF LockType
<1> QED
  BY <1>1, LockTypeInit, LockTypeStep, PTL DEF Spec
-----------------------------------------------------------------------------
(***************************************************************************)
(* A process that made its lock file and did not lose it: what excludes    *)
(* the others is that there is one file, with one maker.                   *)
(***************************************************************************)
OwnersMade ==
    \A p \in Procs :
        /\ pc[p] \in {"write", "held"} => Made(p)
        /\ pc[p] = "held" => file.written

\* Before any process dies nothing looks stale.
NothingStale ==
    /\ file # NoFile => file.live
    /\ \A p \in Procs : pc[p] # "remove"

UntilACrash == ~crashed => OwnersMade /\ NothingStale

LEMMA MakersAreOne ==
    ASSUME OwnersMade
    PROVE  Exclusive
  BY SMT DEF OwnersMade, Exclusive, Holders, Made

LEMMA UntilACrashStep == LockType /\ UntilACrash /\ [Next]_vars => UntilACrash'
<1> SUFFICES ASSUME LockType, UntilACrash, [Next]_vars
             PROVE  UntilACrash'
  OBVIOUS
<1> USE DEF LockType, TypeOK, UntilACrash, OwnersMade, NothingStale, Made, Goto
<1>1. CASE UNCHANGED vars
  BY <1>1, SMT DEF vars
<1>2. ASSUME NEW p \in Procs, Start(p)
      PROVE  UntilACrash'
  BY <1>2, SMT DEF Start
<1>3. ASSUME NEW p \in Procs, Create(p)
      PROVE  UntilACrash'
  <2>1. CASE file = NoFile
    <3>1. file' # NoFile /\ file'.maker = p /\ file'.live
      BY <1>3, <2>1, FileTypes, Zenon DEF Create
    <3> QED
      BY <1>3, <2>1, <3>1, SMT DEF Create
  <2>2. CASE file # NoFile
    BY <1>3, <2>2, SMT DEF Create
  <2> QED
    BY <2>1, <2>2
<1>4. ASSUME NEW p \in Procs, WriteOwner(p)
      PROVE  UntilACrash'
  BY <1>4, SMT DEF WriteOwner, Files, NoFile
<1>5. ASSUME NEW p \in Procs, ReadOwner(p)
      PROVE  UntilACrash'
  BY <1>5, SMT DEF ReadOwner, Stale
<1>6. ASSUME NEW p \in Procs, RemoveStale(p)
      PROVE  UntilACrash'
  BY <1>6, SMT DEF RemoveStale
<1>7. ASSUME NEW p \in Procs, WriteFails(p)
      PROVE  UntilACrash'
  BY <1>7, SMT DEF WriteFails
<1>8. ASSUME NEW p \in Procs, Release(p)
      PROVE  UntilACrash'
  BY <1>8, SMT DEF Release
<1>9. ASSUME NEW p \in Procs, Crash(p)
      PROVE  UntilACrash'
  BY <1>9, SMT DEF Crash
<1> QED
  BY <1>1, <1>2, <1>3, <1>4, <1>5, <1>6, <1>7, <1>8, <1>9, Zenon DEF Next, Acquire

\* Until a process dies, the lock excludes every other and is held under its
\* maker's name, for any number of processes (acquireLock, release).
THEOREM LockExcludes == Spec => []ExclusiveUntilACrash
<1>1. Init => LockType /\ UntilACrash
  BY LockTypeInit, SMT DEF Init, UntilACrash, OwnersMade, NothingStale
<1>2. LockType /\ UntilACrash /\ [Next]_vars => (LockType /\ UntilACrash)'
  BY LockTypeStep, UntilACrashStep
<1>3. UntilACrash => ExclusiveUntilACrash
  BY MakersAreOne, Zenon DEF UntilACrash, ExclusiveUntilACrash, OwnersMade, Holders
<1> QED
  BY <1>1, <1>2, <1>3, PTL DEF Spec
-----------------------------------------------------------------------------
(***************************************************************************)
(* With one process on each host a process only ever finds its own earlier *)
(* run's lock stale, and nobody else can change that file.                 *)
(***************************************************************************)
OneEach == \A p, q \in Procs : p # q => HostOf[p] # HostOf[q]

OwnStale ==
    \A p \in Procs :
        pc[p] = "remove" => file # NoFile /\ file.maker = p /\ ~file.live

LEMMA AcrossHostsStep ==
    OneEach /\ LockType /\ OwnersMade /\ OwnStale /\ [Next]_vars
        => OwnersMade' /\ OwnStale'
<1> SUFFICES ASSUME OneEach, LockType, OwnersMade, OwnStale, [Next]_vars
             PROVE  OwnersMade' /\ OwnStale'
  OBVIOUS
<1> USE DEF LockType, TypeOK, OwnersMade, OwnStale, Made, Goto
<1>1. CASE UNCHANGED vars
  BY <1>1, SMT DEF vars
<1>2. ASSUME NEW p \in Procs, Start(p)
      PROVE  OwnersMade' /\ OwnStale'
  BY <1>2, SMT DEF Start
<1>3. ASSUME NEW p \in Procs, Create(p)
      PROVE  OwnersMade' /\ OwnStale'
  <2>1. CASE file = NoFile
    <3>1. file' # NoFile /\ file'.maker = p /\ file'.live
      BY <1>3, <2>1, FileTypes, Zenon DEF Create
    <3> QED
      BY <1>3, <2>1, <3>1, SMT DEF Create
  <2>2. CASE file # NoFile
    BY <1>3, <2>2, SMT DEF Create
  <2> QED
    BY <2>1, <2>2
<1>4. ASSUME NEW p \in Procs, WriteOwner(p)
      PROVE  OwnersMade' /\ OwnStale'
  BY <1>4, SMT DEF WriteOwner, Files, NoFile
<1>5. ASSUME NEW p \in Procs, ReadOwner(p)
      PROVE  OwnersMade' /\ OwnStale'
  BY <1>5, SMT DEF ReadOwner, Stale, OneEach, Files
<1>6. ASSUME NEW p \in Procs, RemoveStale(p)
      PROVE  OwnersMade' /\ OwnStale'
  BY <1>6, SMT DEF RemoveStale
<1>7. ASSUME NEW p \in Procs, WriteFails(p)
      PROVE  OwnersMade' /\ OwnStale'
  BY <1>7, SMT DEF WriteFails
<1>8. ASSUME NEW p \in Procs, Release(p)
      PROVE  OwnersMade' /\ OwnStale'
  BY <1>8, SMT DEF Release
<1>9. ASSUME NEW p \in Procs, Crash(p)
      PROVE  OwnersMade' /\ OwnStale'
  BY <1>9, SMT DEF Crash, Files, NoFile
<1> QED
  BY <1>1, <1>2, <1>3, <1>4, <1>5, <1>6, <1>7, <1>8, <1>9, Zenon DEF Next, Acquire

\* With a single collecting process on each host the lock excludes even when
\* processes die at any step and start again.
THEOREM LockExcludesAcrossHosts == Spec => []ExclusiveAcrossHosts
<1> DEFINE Inv == LockType /\ (OneEach => OwnersMade /\ OwnStale)
<1>1. Init => Inv
  BY LockTypeInit, SMT DEF Init, OwnersMade, OwnStale
<1>2. Inv /\ [Next]_vars => Inv'
  BY LockTypeStep, AcrossHostsStep, Zenon DEF OneEach
<1>3. Inv => ExclusiveAcrossHosts
  BY MakersAreOne, Zenon DEF ExclusiveAcrossHosts, OneEach
<1> QED
  BY <1>1, <1>2, <1>3, PTL DEF Spec
=============================================================================
