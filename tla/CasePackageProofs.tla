-------------------------- MODULE CasePackageProofs --------------------------
(***************************************************************************)
(* Proofs about CasePackage, for every set of blobs and builds, with write *)
(* faults or without, and for every bound.                                 *)
(***************************************************************************)
EXTENDS CasePackageInv, CasePackageRefinement, SequenceTheorems, TLAPS

\* Rounds are listed in strictly increasing order.
Increasing(s) == \A i, j \in DOMAIN s : i < j => s[i] < s[j]

\* The greatest round of an increasing list is its last one, so the round a
\* builder takes is greater than every one the list has.
LEMMA NextRoundIsNew ==
    ASSUME NEW s \in Seq(Nat), Increasing(s)
    PROVE  /\ NextRound(s) \in Nat /\ NextRound(s) # 0
           /\ \A i \in DOMAIN s : s[i] < NextRound(s)
<1>1. CASE s = <<>>
  BY <1>1, SMT DEF NextRound
<1>2. CASE s # <<>>
  <2> DEFINE top == s[Len(s)]
             Rs  == {s[i] : i \in DOMAIN s}
             m   == CHOOSE r \in Rs : \A i \in DOMAIN s : s[i] <= r
  <2>1. Len(s) \in DOMAIN s /\ top \in Rs
    BY <1>2, SMT
  <2>2. \A i \in DOMAIN s : s[i] <= top
    BY <1>2, <2>1, SMT DEF Increasing
  <2>3. m \in Rs /\ \A i \in DOMAIN s : s[i] <= m
    BY <2>1, <2>2, Zenon
  <2>4. Rs \subseteq Nat
    BY SMT
  <2>5. NextRound(s) = 1 + m
    BY <1>2, Zenon DEF NextRound
  <2> HIDE DEF m
  <2> QED
    BY <2>3, <2>4, <2>5, SMT
<1> QED
  BY <1>1, <1>2

\* A round that is new can be listed last.
LEMMA AppendIncreasing ==
    ASSUME NEW s \in Seq(Nat), Increasing(s), NEW r \in Nat,
           \A i \in DOMAIN s : s[i] < r
    PROVE  Append(s, r) \in Seq(Nat) /\ Increasing(Append(s, r))
  BY SMT DEF Increasing

\* Writing a line keeps a sequence of lines a sequence of lines.
LEMMA WriteType ==
    ASSUME NEW s \in Seq(Lines), NEW l \in Lines
    PROVE  Write(s, l) \in Seq(Lines)
<1>1. CASE s # <<>> /\ s[Len(s)].event = "torn"
  <2>1. Len(s) \in DOMAIN s /\ s[Len(s)] \in Lines
    BY <1>1, SMT
  <2>2. [s[Len(s)] EXCEPT !.event = "glued"] \in Lines
    BY <2>1, SMT DEF Lines, Events
  <2>3. Write(s, l) = [s EXCEPT ![Len(s)] = [s[Len(s)] EXCEPT !.event = "glued"]]
    BY <1>1, <2>1, Zenon DEF Write
  <2> QED
    BY <2>1, <2>2, <2>3, SMT
<1>2. CASE ~(s # <<>> /\ s[Len(s)].event = "torn")
  BY <1>2, SMT DEF Write
<1> QED
  BY <1>1, <1>2
-----------------------------------------------------------------------------
(***************************************************************************)
(* Type correctness.  That a round number is a number depends on the order *)
(* the rounds are listed in, so the two are proved together.               *)
(***************************************************************************)
RoundOrder ==
    /\ Increasing(case.rounds)
    /\ Increasing(pend.case.rounds)
    /\ Increasing(bld.rounds)
    /\ \A i \in DOMAIN bld.rounds : bld.rounds[i] < bld.round

TypeInv == TypeOK /\ RoundOrder

\* The values a package and a builder start from.
LEMMA InitialValues ==
    /\ NoCase \in CaseFiles /\ Increasing(NoCase.rounds)
    /\ NoLogs \in LogFiles
    /\ NoRaw \in RawFiles
    /\ NoSeal \in Seals
    /\ NoPend \in Pendings /\ Increasing(NoPend.case.rounds)
    /\ NoBuilder \in Builders /\ NoBuilder.rounds = <<>>
<1> <<>> \in Numbers /\ {} \in Archives
  BY SMT DEF Numbers, Archives
<1>1. NoCase \in CaseFiles /\ Increasing(NoCase.rounds)
  BY SMT DEF NoCase, CaseFiles, Increasing
<1>2. NoLogs \in LogFiles
  BY SMT DEF NoLogs, LogFiles
<1>3. NoRaw \in RawFiles
  BY SMT DEF NoRaw, RawFiles, Bytes
<1>4. NoSeal \in Seals
  BY <1>1, <1>2, <1>3, SMT DEF NoSeal, Seals, Absent
<1>5. NoPend \in Pendings /\ NoPend.case = NoCase
  BY <1>1, SMT DEF NoPend, Pendings, Absent
<1>6. NoBuilder \in Builders /\ NoBuilder.rounds = <<>>
  BY SMT DEF NoBuilder, Builder, Builders, NoArg, Ways, ABuild, ABlob
<1> QED
  BY <1>1, <1>2, <1>3, <1>4, <1>5, <1>6

\* Writing a line to one of the files.
LEMMA LogType ==
    ASSUME log \in LogFiles, NEW f \in AppendOnly, NEW l \in Lines
    PROVE  [log EXCEPT ![f] = Write(@, l)] \in LogFiles
<1>1. log[f] \in Seq(Lines)
  BY SMT DEF LogFiles
<1>2. Write(log[f], l) \in Seq(Lines)
  BY <1>1, WriteType
<1> QED
  BY <1>2, SMT DEF LogFiles

\* The fields of a builder, and what changing one leaves alone.
LEMMA BuilderFields ==
    ASSUME bld \in Builders
    PROVE  /\ bld.rounds \in Numbers /\ bld.round \in Nat /\ bld.recs \in Nat
           /\ bld.todo \in Numbers /\ bld.cur \in ABlob
           /\ bld.build \in ABuild /\ bld.created \in BOOLEAN
  BY SMT DEF Builders

SameRounds(c, b) == c \in Builders /\ c.rounds = b.rounds /\ c.round = b.round

LEMMA BuilderHow ==
    ASSUME NEW b \in Builders, NEW h \in Ways
    PROVE  SameRounds([b EXCEPT !.how = h], b)
  BY SMT DEF Builders, SameRounds

LEMMA BuilderTodo ==
    ASSUME NEW b \in Builders, NEW t \in Numbers
    PROVE  SameRounds([b EXCEPT !.todo = t], b)
  BY SMT DEF Builders, SameRounds

LEMMA BuilderCur ==
    ASSUME NEW b \in Builders, NEW c \in ABlob
    PROVE  SameRounds([b EXCEPT !.cur = c], b)
  BY SMT DEF Builders, SameRounds

LEMMA BuilderRecs ==
    ASSUME NEW b \in Builders, NEW n \in Nat
    PROVE  SameRounds([b EXCEPT !.recs = n], b)
  BY SMT DEF Builders, SameRounds

LEMMA BuilderCarry ==
    ASSUME NEW b \in Builders, NEW c \in ABlob, NEW n \in Nat
    PROVE  SameRounds([b EXCEPT !.cur = c, !.recs = n], b)
<1> DEFINE d == [b EXCEPT !.cur = c]
<1>1. SameRounds(d, b)
  BY BuilderCur
<1> HIDE DEF d
<1>2. SameRounds([d EXCEPT !.recs = n], d)
  BY <1>1, BuilderRecs DEF SameRounds
<1> QED
  BY <1>1, <1>2, Zenon DEF SameRounds, d

LEMMA TypeInit == Init => TypeInv
<1> SUFFICES ASSUME Init
             PROVE  TypeInv
  OBVIOUS
<1>1. RoundOrder
  <2>1. bld.rounds = <<>>
    BY SMT DEF Init, NoBuilder, Builder
  <2>2. Increasing(bld.rounds) /\ \A i \in DOMAIN bld.rounds : bld.rounds[i] < bld.round
    BY <2>1, SMT DEF Increasing
  <2> QED
    BY <2>2, InitialValues DEF Init, RoundOrder
<1>2. aborted \in Numbers /\ hist \in Histories /\ seals \in Archives
  BY SMT DEF Init, Numbers, Archives, Histories
<1>3. pc \in Steps /\ run \in Nat /\ dir \in BOOLEAN /\ tmps \subseteq Blobs /\ rolled \subseteq Nat
  BY Zenon DEF Init, Steps
<1>4. log \in LogFiles /\ case \in CaseFiles /\ raw \in RawFiles /\ sums \in Seals
  BY InitialValues, Zenon DEF Init
<1>5. pend \in Pendings /\ bld \in Builders
  BY InitialValues, Zenon DEF Init
<1>6. TypeOK
  BY <1>2, <1>3, <1>4, <1>5, Zenon DEF TypeOK
<1> QED
  BY <1>1, <1>6 DEF TypeInv

\* A builder's line is a line.
LEMMA LineType ==
    ASSUME NEW r \in Nat, NEW e \in Events, NEW a \in ABlob \cup Nat
    PROVE  Line(r, e, a) \in Lines
  BY SMT DEF Line, Lines, ABlob, NoArg

\* Writing a line of this run to one of the files.
LEMMA LogStep ==
    ASSUME log \in LogFiles, run \in Nat, NEW f \in AppendOnly,
           NEW e \in Events, NEW a \in ABlob \cup Nat,
           Log(f, Line(run, e, a))
    PROVE  log' \in LogFiles
<1>1. Line(run, e, a) \in Lines
  BY LineType
<1> QED
  BY <1>1, LogType, Zenon DEF Log

\* Removing or placing a blob.
LEMMA RawType ==
    ASSUME raw \in RawFiles, NEW b \in Blobs, NEW v \in Bytes
    PROVE  [raw EXCEPT ![b] = v] \in RawFiles
  BY SMT DEF RawFiles

\* Cutting one of the files.
LEMMA TruncateType ==
    ASSUME log \in LogFiles, pend \in Pendings, NEW f \in AppendOnly,
           ~ Len(log[f]) < pend.lens[f]
    PROVE  [log EXCEPT ![f] = SubSeq(@, 1, pend.lens[f])] \in LogFiles
<1>1. pend.lens[f] \in Nat /\ log[f] \in Seq(Lines) /\ Len(log[f]) \in Nat
  BY SMT DEF Pendings, LogFiles
<1> DEFINE n == pend.lens[f]
           s == SubSeq(log[f], 1, n)
<1>2. n \in Nat /\ n <= Len(log[f])
  BY <1>1, SMT
<1> HIDE DEF n
<1>3. \A i \in 1..n : log[f][i] \in Lines
  BY <1>1, <1>2, SMT
<1>4. s \in Seq(Lines)
  BY <1>2, <1>3, SubSeqProperties
<1> HIDE DEF s
<1>5. [log EXCEPT ![f] = s] \in LogFiles
  BY <1>4, SMT DEF LogFiles
<1> QED
  BY <1>5 DEF s, n

\* The files a new package starts with.
LEMMA NewLogs ==
    ASSUME NEW S, NEW a \in S, NEW b \in S, NEW c \in S
    PROVE  [man |-> a, coll |-> b, cust |-> c] \in [AppendOnly -> S]
  BY SMT DEF AppendOnly

\* A builder at work on a round has one, and one that replaces a blob has it.
HasRound == {"begin", "append", "start", "take", "log_aborted", "collect",
             "commit_place", "commit_man", "commit_coll", "seal_trunc",
             "seal_case", "seal_arch", "seal_sums", "seal_end"}
RoundTaken ==
    /\ pc \in HasRound => bld.round # 0
    /\ pc = "commit_place" => bld.cur \in Blobs

\* One file is replaced.
LEMMA ReplaceLog ==
    ASSUME log \in LogFiles, NEW f \in AppendOnly, NEW s \in Seq(Lines)
    PROVE  [log EXCEPT ![f] = s] \in LogFiles
  BY SMT DEF LogFiles

LEMMA TypeStep == TypeInv /\ RoundTaken /\ [Next]_vars => TypeInv'
<1> SUFFICES ASSUME TypeInv, RoundTaken, [Next]_vars
             PROVE  TypeInv'
  OBVIOUS
<1> USE DEF TypeInv, TypeOK, RoundOrder, disk, Goto
<1>1. CASE UNCHANGED vars
  <2>1. pc' \in Steps
    BY <1>1, Zenon DEF vars, Steps
  <2> QED
    BY <1>1, <2>1, SMT DEF vars
<1>2. ASSUME NEW v \in Builds, New(v)
      PROVE  TypeInv'
  <2>1. pc' \in Steps
    BY <1>2, Zenon DEF New, Steps
  <2>2. run' \in Nat
    BY <1>2, SMT DEF New
  <2>3. log' \in LogFiles
    <3>1. Line(run', "header", NoArg) \in Lines /\ Line(run', "acquisition_started", 1) \in Lines
      BY <2>2, LineType, SMT DEF NoArg, ABlob, Events
    <3>2. <<Line(run', "header", NoArg)>> \in Seq(Lines) /\ <<>> \in Seq(Lines) /\ <<Line(run', "acquisition_started", 1)>> \in Seq(Lines)
      BY <3>1, SMT
    <3> QED
      BY <1>2, <3>2, NewLogs, Zenon DEF New, LogFiles
  <2>4. bld' \in Builders /\ bld'.rounds = <<>>
    <3>1. bld' = [round |-> 1, created |-> TRUE, build |-> v, how |-> "none",
                  rounds |-> <<>>, cur |-> NoArg, todo |-> <<>>, recs |-> 0]
      BY <1>2, SMT DEF New, Builder
    <3>2. <<>> \in Numbers
      BY SMT DEF Numbers
    <3>3. v \in ABuild /\ NoArg \in ABlob /\ "none" \in Ways
      BY Zenon DEF ABuild, ABlob, Ways
    <3> QED
      BY <3>1, <3>2, <3>3, SMT DEF Builders
  <2>5. RoundOrder'
    <3>1. Increasing(bld'.rounds) /\ \A i \in DOMAIN bld'.rounds : bld'.rounds[i] < bld'.round
      BY <2>4, SMT DEF Increasing
    <3> QED
      BY <1>2, <3>1, Zenon DEF New
  <2>6. dir' \in BOOLEAN
    BY <1>2, Zenon DEF New
  <2> QED
    BY <1>2, <2>1, <2>2, <2>3, <2>4, <2>5, <2>6, Zenon DEF New
<1>3. ASSUME NEW v \in Builds, Reopen(v)
      PROVE  TypeInv'
  <2>1. pc' \in Steps
    BY <1>3, Zenon DEF Reopen, Steps
  <2>2. bld' \in Builders /\ bld'.rounds = <<>>
    <3>1. bld' = [round |-> 0, created |-> FALSE, build |-> v, how |-> "crashed",
                  rounds |-> <<>>, cur |-> NoArg, todo |-> <<>>, recs |-> 0]
      BY <1>3, SMT DEF Reopen, Builder
    <3>2. <<>> \in Numbers
      BY SMT DEF Numbers
    <3>3. v \in ABuild /\ NoArg \in ABlob /\ "crashed" \in Ways
      BY Zenon DEF ABuild, ABlob, Ways
    <3> QED
      BY <3>1, <3>2, <3>3, SMT DEF Builders
  <2>3. RoundOrder'
    <3>1. Increasing(bld'.rounds) /\ \A i \in DOMAIN bld'.rounds : bld'.rounds[i] < bld'.round
      BY <2>2, SMT DEF Increasing
    <3> QED
      BY <1>3, <3>1, Zenon DEF Reopen
  <2> QED
    BY <1>3, <2>1, <2>2, <2>3, Zenon DEF Reopen
<1>4. ASSUME NEW b \in Blobs, RemoveBlob(b)
      PROVE  TypeInv'
  <2>1. pc' \in Steps
    BY <1>4, Zenon DEF RemoveBlob, Steps
  <2>2. raw' \in RawFiles
    BY <1>4, RawType, Zenon DEF RemoveBlob, Bytes
  <2> QED
    BY <1>4, <2>1, <2>2, SMT DEF RemoveBlob
<1>5. ASSUME NEW b \in Blobs, RemoveTmp(b)
      PROVE  TypeInv'
  <2>1. pc' \in Steps
    BY <1>5, Zenon DEF RemoveTmp, Steps
  <2> QED
    BY <1>5, <2>1, SMT DEF RemoveTmp
<1>6. ASSUME NEW b \in Blobs, Prepare(b)
      PROVE  TypeInv'
  <2>1. pc' \in Steps
    BY <1>6, Zenon DEF Prepare, Steps
  <2>2. bld.recs + 1 \in Nat
    BY <1>6, BuilderFields, SMT
  <2>3. SameRounds(bld', bld)
    BY <1>6, <2>2, BuilderRecs, Zenon DEF Prepare
  <2> QED
    BY <1>6, <2>1, <2>3, SMT DEF Prepare, SameRounds
<1>7. ASSUME NEW b \in Blobs, CommitBlob(b)
      PROVE  TypeInv'
  <2>1. pc' \in Steps
    BY <1>7, Zenon DEF CommitBlob, Steps
  <2>2. SameRounds(bld', bld)
    BY <1>7, BuilderCur, Zenon DEF CommitBlob, ABlob
  <2>3. raw' \in RawFiles
    <3>1. bld.build \in Bytes /\ Absent \in Bytes
      BY BuilderFields, Zenon DEF ABuild, Bytes, Absent
    <3>2. [raw EXCEPT ![b] = bld.build] \in RawFiles /\ [raw EXCEPT ![b] = Absent] \in RawFiles
      BY <3>1, RawType
    <3> QED
      BY <1>7, <3>2, Zenon DEF CommitBlob
  <2>4. tmps' \subseteq Blobs
    BY <1>7, Zenon DEF CommitBlob
  <2> QED
    BY <1>7, <2>1, <2>2, <2>3, <2>4, SMT DEF CommitBlob, SameRounds
<1>8. ASSUME NEW b \in Blobs, CarryForward(b)
      PROVE  TypeInv'
  <2>1. pc' \in Steps
    BY <1>8, Zenon DEF CarryForward, Steps
  <2>2. bld.recs + 1 \in Nat /\ b \in ABlob
    BY <1>8, BuilderFields, SMT DEF ABlob
  <2>3. SameRounds(bld', bld)
    BY <1>8, <2>2, BuilderCarry, Zenon DEF CarryForward
  <2> QED
    BY <1>8, <2>1, <2>3, SMT DEF CarryForward, SameRounds
<1>9. CASE RollbackNothing
  <2>1. pc' \in Steps
    BY <1>9, Zenon DEF RollbackNothing, AfterRollback, Steps
  <2>2. pend' \in Pendings /\ Increasing(pend'.case.rounds)
    BY <1>9, InitialValues, Zenon DEF RollbackNothing
  <2> QED
    BY <1>9, <2>1, <2>2, SMT DEF RollbackNothing
<1>10. CASE RollbackRefused
  <2>1. pc' \in Steps
    BY <1>10, Zenon DEF RollbackRefused, Steps
  <2> QED
    BY <1>10, <2>1, SMT DEF RollbackRefused
<1>11. CASE RollbackBegins
  <2>1. pc' \in Steps
    BY <1>11, Zenon DEF RollbackBegins, Steps
  <2> QED
    BY <1>11, <2>1, SMT DEF RollbackBegins
<1>12. CASE TruncateLogs
  <2>1. ASSUME NEW f \in AppendOnly, NEW p \in Steps, NEW q \in Steps, Truncate(f, p, q)
        PROVE  TypeInv'
    <3>1. log' \in LogFiles
      BY <2>1, TruncateType, Zenon DEF Truncate
    <3>2. pc' \in Steps
      BY <2>1, Zenon DEF Truncate, Steps
    <3> QED
      BY <2>1, <3>1, <3>2, SMT DEF Truncate
  <2>2. AppendOnly = {"man", "coll", "cust"}
    BY DEF AppendOnly
  <2>3. {"rb_man", "rb_coll", "rb_cust", "rb_case"} \subseteq Steps
    BY Zenon DEF Steps
  <2> QED
    BY <1>12, <2>1, <2>2, <2>3, Zenon DEF TruncateLogs
<1>13. CASE RestoreCase
  <2>1. pc' \in Steps
    BY <1>13, Zenon DEF RestoreCase, Steps
  <2>2. case' \in CaseFiles /\ Increasing(case'.rounds)
    BY <1>13, SMT DEF RestoreCase, Pendings
  <2> QED
    BY <1>13, <2>1, <2>2, SMT DEF RestoreCase
<1>14. CASE RemoveArchived
  <2>1. pc' \in Steps
    BY <1>14, Zenon DEF RemoveArchived, Steps
  <2>2. seals' \in Archives
    BY <1>14, SMT DEF RemoveArchived, Archives
  <2> QED
    BY <1>14, <2>1, <2>2, SMT DEF RemoveArchived
<1>15. CASE RollbackEnds
  <2>1. pc' \in Steps
    BY <1>15, Zenon DEF RollbackEnds, Steps
  <2>2. pend' \in Pendings /\ Increasing(pend'.case.rounds)
    BY <1>15, InitialValues, Zenon DEF RollbackEnds
  <2>3. pend.run \in Nat /\ <<pend.run>> \in Numbers
    BY <1>15, SMT DEF Pendings, Numbers
  <2>4. SameRounds(bld', bld)
    BY <1>15, <2>3, BuilderTodo, Zenon DEF RollbackEnds
  <2> QED
    BY <1>15, <2>1, <2>2, <2>3, <2>4, SMT DEF RollbackEnds, SameRounds
<1>16. CASE NoteAborted
  <2>1. pc' \in Steps
    BY <1>16, Zenon DEF NoteAborted, AfterRollback, Steps
  <2>2. aborted' \in Numbers
    BY <1>16, BuilderFields, SMT DEF NoteAborted, Numbers
  <2>3. <<>> \in Numbers
    BY <1>16, SMT DEF Numbers
  <2>4. SameRounds(bld', bld)
    BY <1>16, <2>3, BuilderTodo, Zenon DEF NoteAborted
  <2> QED
    BY <1>16, <2>1, <2>2, <2>4, SMT DEF NoteAborted, SameRounds
<1>17. CASE ReadPackage
  <2>1. pc' \in Steps
    BY <1>17, Zenon DEF ReadPackage, Steps
  <2>2. case.rounds \in Seq(Nat) /\ case.rounds \in Numbers
    BY <1>17, SMT DEF CaseFiles, Numbers
  <2>3. NextRound(case.rounds) \in Nat /\ \A i \in DOMAIN case.rounds : case.rounds[i] < NextRound(case.rounds)
    BY <1>17, <2>2, NextRoundIsNew
  <2>4. bld' \in Builders /\ bld'.rounds = case.rounds /\ bld'.round = NextRound(case.rounds)
    <3> DEFINE d == [bld EXCEPT !.rounds = case.rounds]
    <3>1. d \in Builders /\ d.rounds = case.rounds
      BY <2>2, SMT DEF Builders
    <3>2. bld' = [d EXCEPT !.round = NextRound(case.rounds)]
      BY <1>17 DEF ReadPackage
    <3> HIDE DEF d
    <3> QED
      BY <2>3, <3>1, <3>2, SMT DEF Builders
  <2>5. RoundOrder'
    BY <1>17, <2>3, <2>4, SMT DEF ReadPackage
  <2> QED
    BY <1>17, <2>1, <2>4, <2>5, SMT DEF ReadPackage
<1>18. CASE ReadFails
  <2>1. pc' \in Steps
    BY <1>18, Zenon DEF ReadFails, Steps
  <2> QED
    BY <1>18, <2>1, SMT DEF ReadFails
<1>19. CASE BeginPending
  <2>1. pc' \in Steps
    BY <1>19, Zenon DEF BeginPending, Steps
  <2>2. run' \in Nat
    BY <1>19, SMT DEF BeginPending
  <2>3. [f \in AppendOnly |-> Len(log[f])] \in [AppendOnly -> Nat]
    BY <1>19, SMT DEF LogFiles
  <2>4. sums.run \in Nat
    BY <1>19, SMT DEF Seals
  <2>5. pend' \in Pendings /\ pend'.case = case
    BY <1>19, <2>2, <2>3, <2>4, SMT DEF BeginPending, Pendings
  <2> QED
    BY <1>19, <2>1, <2>2, <2>5, SMT DEF BeginPending
<1>20. CASE OpenLogs
  <2>1. pc' \in Steps
    BY <1>20, Zenon DEF OpenLogs, Steps
  <2>2. bld' = bld \/ SameRounds(bld', bld)
    BY <1>20, BuilderHow, Zenon DEF OpenLogs, Ways
  <2> QED
    BY <1>20, <2>1, <2>2, SMT DEF OpenLogs, SameRounds
<1>21. CASE StartRound
  <2>1. pc' \in Steps
    BY <1>21, Zenon DEF StartRound, Steps
  <2>2. bld.round \in ABlob \cup Nat /\ "acquisition_started" \in Events /\ "cust" \in AppendOnly
    BY <1>21, BuilderFields, Zenon DEF Events, AppendOnly
  <2>3. log' \in LogFiles
    BY <1>21, <2>2, LogStep, Zenon DEF StartRound
  <2> QED
    BY <1>21, <2>1, <2>3, SMT DEF StartRound
<1>22. CASE TakeAborted
  <2>1. pc' \in Steps
    BY <1>22, Zenon DEF TakeAborted, Steps
  <2>2. aborted' \in Numbers
    BY <1>22, SMT DEF TakeAborted, Numbers
  <2>3. SameRounds(bld', bld)
    BY <1>22, BuilderTodo, Zenon DEF TakeAborted
  <2> QED
    BY <1>22, <2>1, <2>2, <2>3, SMT DEF TakeAborted, SameRounds
<1>23. CASE LogAborted
  <2>1. pc' \in Steps
    BY <1>23, Zenon DEF LogAborted, Steps
  <2>2. Head(bld.todo) \in ABlob \cup Nat /\ Tail(bld.todo) \in Numbers
    BY <1>23, BuilderFields, SMT DEF LogAborted, Numbers
  <2>3. "round_aborted" \in Events /\ "cust" \in AppendOnly
    BY <1>23, Zenon DEF Events, AppendOnly
  <2>4. log' \in LogFiles
    BY <1>23, <2>2, <2>3, LogStep, Zenon DEF LogAborted
  <2>5. SameRounds(bld', bld)
    BY <1>23, <2>2, BuilderTodo, Zenon DEF LogAborted
  <2> QED
    BY <1>23, <2>1, <2>4, <2>5, SMT DEF LogAborted, SameRounds
<1>24. CASE RoundOpen
  <2>1. pc' \in Steps
    BY <1>24, Zenon DEF RoundOpen, Steps
  <2> QED
    BY <1>24, <2>1, SMT DEF RoundOpen
<1>25. CASE ReplaceBlob
  <2>1. pc' \in Steps
    BY <1>25, Zenon DEF ReplaceBlob, Steps
  <2>2. bld.build \in Bytes /\ Absent \in Bytes
    BY <1>25, BuilderFields, Zenon DEF ABuild, Bytes, Absent
  <2>3. raw' \in RawFiles
    BY <1>25, <2>2, RawType, Zenon DEF ReplaceBlob, RoundTaken
  <2> QED
    BY <1>25, <2>1, <2>3, SMT DEF ReplaceBlob
<1>26. CASE RecordManifest
  <2>1. pc' \in Steps
    BY <1>26, Zenon DEF RecordManifest, WriteFails, Steps
  <2>2. bld.cur \in ABlob \cup Nat /\ NoArg \in ABlob \cup Nat
    BY <1>26, BuilderFields, Zenon DEF ABlob
  <2>3. "artifact" \in Events /\ "torn" \in Events /\ "man" \in AppendOnly
    BY <1>26, Zenon DEF Events, AppendOnly
  <2>4. log' \in LogFiles
    <3>1. CASE Log("man", Line(run, "artifact", bld.cur))
      BY <2>2, <2>3, <3>1, LogStep, Zenon
    <3>2. CASE Log("man", Line(run, "torn", NoArg))
      BY <2>2, <2>3, <3>2, LogStep, Zenon
    <3> QED
      BY <1>26, <3>1, <3>2, Zenon DEF RecordManifest, WriteFails
  <2> QED
    BY <1>26, <2>1, <2>4, SMT DEF RecordManifest
<1>27. CASE RecordCollection
  <2>1. pc' \in Steps
    BY <1>27, Zenon DEF RecordCollection, WriteFails, Steps
  <2>2. bld.cur \in ABlob \cup Nat /\ NoArg \in ABlob \cup Nat
    BY <1>27, BuilderFields, Zenon DEF ABlob
  <2>3. "artifact" \in Events /\ "torn" \in Events /\ "coll" \in AppendOnly
    BY <1>27, Zenon DEF Events, AppendOnly
  <2>4. log' \in LogFiles
    <3>1. CASE Log("coll", Line(run, "artifact", bld.cur))
      BY <2>2, <2>3, <3>1, LogStep, Zenon
    <3>2. CASE Log("coll", Line(run, "torn", NoArg))
      BY <2>2, <2>3, <3>2, LogStep, Zenon
    <3> QED
      BY <1>27, <3>1, <3>2, Zenon DEF RecordCollection, WriteFails
  <2> QED
    BY <1>27, <2>1, <2>4, SMT DEF RecordCollection
<1>28. CASE SealCustody
  <2>1. pc' \in Steps
    BY <1>28, Zenon DEF SealCustody, Steps
  <2>2. "acquisition_completed" \in Events /\ "package_sealed" \in Events /\ bld.round \in ABlob \cup Nat
    BY <1>28, BuilderFields, Zenon DEF Events
  <2>3. Line(run, "acquisition_completed", bld.round) \in Lines /\ Line(run, "package_sealed", bld.round) \in Lines
    BY <1>28, <2>2, LineType
  <2>4. log["cust"] \in Seq(Lines)
    BY <1>28, SMT DEF LogFiles, AppendOnly
  <2>5. Write(Write(log["cust"], Line(run, "acquisition_completed", bld.round)), Line(run, "package_sealed", bld.round)) \in Seq(Lines)
    BY <1>28, <2>3, <2>4, WriteType
  <2>6. log' \in LogFiles
    BY <1>28, <2>5, ReplaceLog, Zenon DEF SealCustody, AppendOnly
  <2> QED
    BY <1>28, <2>1, <2>6, SMT DEF SealCustody
<1>29. CASE TruncateCase
  <2>1. pc' \in Steps
    BY <1>29, Zenon DEF TruncateCase, Steps
  <2>2. case' \in CaseFiles /\ case'.rounds = <<>>
    BY <1>29, SMT DEF TruncateCase, CaseFiles, Numbers
  <2>3. Increasing(case'.rounds)
    BY <1>29, <2>2, SMT DEF Increasing
  <2> QED
    BY <1>29, <2>1, <2>2, <2>3, SMT DEF TruncateCase
<1>30. CASE WriteCase
  <2>1. pc' \in Steps
    BY <1>30, Zenon DEF WriteCase, Steps
  <2>2. bld.rounds \in Seq(Nat) /\ bld.round \in Nat
    BY <1>30, BuilderFields DEF Numbers
  <2>3. Append(bld.rounds, bld.round) \in Seq(Nat) /\ Increasing(Append(bld.rounds, bld.round))
    BY <1>30, <2>2, AppendIncreasing
  <2>4. case' \in CaseFiles /\ case'.rounds = Append(bld.rounds, bld.round)
    BY <1>30, <2>3, SMT DEF WriteCase, CaseFiles, Numbers
  <2> QED
    BY <1>30, <2>1, <2>3, <2>4, SMT DEF WriteCase
<1>31. CASE ArchiveSeal
  <2>1. pc' \in Steps
    BY <1>31, Zenon DEF ArchiveSeal, Steps
  <2>2. bld.round \in Nat /\ bld.round # 0 /\ sums.run \in Nat
    BY <1>31, BuilderFields, SMT DEF ArchiveSeal, Seals, RoundTaken, HasRound
  <2>3. seals' \in Archives
    BY <1>31, <2>2, SMT DEF ArchiveSeal, Archives
  <2> QED
    BY <1>31, <2>1, <2>3, SMT DEF ArchiveSeal
<1>32. CASE WriteSums
  <2>1. pc' \in Steps
    BY <1>32, Zenon DEF WriteSums, Steps
  <2>2. sums' \in Seals
    BY <1>32, SMT DEF WriteSums, Seals
  <2>3. hist' \in Histories
    BY <1>32, BuilderFields, SMT DEF WriteSums, Histories
  <2> QED
    BY <1>32, <2>1, <2>2, <2>3, SMT DEF WriteSums
<1>33. CASE EndPending
  <2>1. pc' \in Steps
    BY <1>33, Zenon DEF EndPending, Steps
  <2>2. pend' \in Pendings /\ Increasing(pend'.case.rounds)
    BY <1>33, InitialValues, Zenon DEF EndPending
  <2> QED
    BY <1>33, <2>1, <2>2, SMT DEF EndPending
<1>34. CASE CloseNew
  <2>1. pc' \in Steps
    BY <1>34, Zenon DEF CloseNew, Steps
  <2>2. pend' \in Pendings /\ Increasing(pend'.case.rounds)
    BY <1>34, InitialValues, Zenon DEF CloseNew
  <2>3. log' \in LogFiles /\ raw' \in RawFiles /\ sums' \in Seals
    BY <1>34, InitialValues, Zenon DEF CloseNew
  <2>4. case' \in CaseFiles /\ Increasing(case'.rounds) /\ dir' \in BOOLEAN
    BY <1>34, InitialValues, Zenon DEF CloseNew
  <2>5. seals' \in Archives /\ aborted' \in Numbers
    BY <1>34, SMT DEF CloseNew, Archives, Numbers
  <2> QED
    BY <1>34, <2>1, <2>2, <2>3, <2>4, <2>5, SMT DEF CloseNew
<1>35. CASE CloseAdded
  <2>1. pc' \in Steps
    BY <1>35, Zenon DEF CloseAdded, Steps
  <2>2. SameRounds(bld', bld)
    BY <1>35, BuilderHow, Zenon DEF CloseAdded, Ways
  <2> QED
    BY <1>35, <2>1, <2>2, SMT DEF CloseAdded, SameRounds
<1>36. CASE Crash
  <2>1. pc' \in Steps
    BY <1>36, Zenon DEF Crash, Steps
  <2>2. bld' \in Builders /\ bld'.rounds = <<>>
    BY <1>36, InitialValues, Zenon DEF Crash
  <2>3. RoundOrder'
    BY <1>36, <2>2, SMT DEF Crash, Increasing
  <2> QED
    BY <1>36, <2>1, <2>2, <2>3, SMT DEF Crash
<1>37. CASE Stopped
  <2>1. pc' \in Steps
    BY <1>37, Zenon DEF Stopped, vars, Steps
  <2> QED
    BY <1>37, <2>1, SMT DEF Stopped, vars
<1> QED
  BY <1>1, <1>2, <1>3, <1>4, <1>5, <1>6, <1>7, <1>8, <1>9, <1>10, <1>11, <1>12,
     <1>13, <1>14, <1>15, <1>16, <1>17, <1>18, <1>19, <1>20, <1>21, <1>22, <1>23, <1>24,
     <1>25, <1>26, <1>27, <1>28, <1>29, <1>30, <1>31, <1>32, <1>33, <1>34, <1>35, <1>36,
     <1>37,
     Zenon DEF Next, Open, Rollback, OpenRound, Acquire, Seal
LEMMA RoundTakenInit == Init => RoundTaken
  BY Zenon DEF Init, RoundTaken, HasRound

LEMMA RoundTakenStep == TypeInv /\ RoundTaken /\ [Next]_vars => RoundTaken'
<1> SUFFICES ASSUME TypeInv, RoundTaken, [Next]_vars
             PROVE  RoundTaken'
  OBVIOUS
<1> bld \in Builders
  BY DEF TypeInv, TypeOK
<1> USE DEF RoundTaken, HasRound, disk, Goto
<1>1. CASE UNCHANGED vars
  BY <1>1, SMT DEF vars, Builders
<1>2. ASSUME NEW v \in Builds, New(v)
      PROVE  RoundTaken'
  BY <1>2, SMT DEF New, Builder
<1>3. ASSUME NEW v \in Builds, Reopen(v)
      PROVE  RoundTaken'
  BY <1>3, SMT DEF Reopen, Builder
<1>4. ASSUME NEW b \in Blobs, RemoveBlob(b)
      PROVE  RoundTaken'
  BY <1>4, SMT DEF RemoveBlob, Builders
<1>5. ASSUME NEW b \in Blobs, RemoveTmp(b)
      PROVE  RoundTaken'
  BY <1>5, SMT DEF RemoveTmp, Builders
<1>6. ASSUME NEW b \in Blobs, Prepare(b)
      PROVE  RoundTaken'
  BY <1>6, SMT DEF Prepare, Builders
<1>7. ASSUME NEW b \in Blobs, CommitBlob(b)
      PROVE  RoundTaken'
  BY <1>7, SMT DEF CommitBlob, Builders
<1>8. ASSUME NEW b \in Blobs, CarryForward(b)
      PROVE  RoundTaken'
  BY <1>8, SMT DEF CarryForward, Builders
<1>9. CASE RollbackNothing
  BY <1>9, SMT DEF RollbackNothing, AfterRollback, Builders
<1>10. CASE RollbackRefused
  BY <1>10, SMT DEF RollbackRefused, Builders
<1>11. CASE RollbackBegins
  BY <1>11, SMT DEF RollbackBegins, Builders
<1>12. CASE TruncateLogs
  BY <1>12, SMT DEF TruncateLogs, Truncate, Builders
<1>13. CASE RestoreCase
  BY <1>13, SMT DEF RestoreCase, Builders
<1>14. CASE RemoveArchived
  BY <1>14, SMT DEF RemoveArchived, Builders
<1>15. CASE RollbackEnds
  BY <1>15, SMT DEF RollbackEnds, Builders
<1>16. CASE NoteAborted
  BY <1>16, SMT DEF NoteAborted, AfterRollback, Builders
<1>17. CASE ReadPackage
  <2>1. case.rounds \in Seq(Nat) /\ Increasing(case.rounds)
    BY SMT DEF TypeInv, TypeOK, RoundOrder, CaseFiles, Numbers
  <2>2. NextRound(case.rounds) # 0
    BY <2>1, NextRoundIsNew
  <2> QED
    BY <1>17, <2>2, SMT DEF ReadPackage, Builders
<1>18. CASE ReadFails
  BY <1>18, SMT DEF ReadFails, Builders
<1>19. CASE BeginPending
  BY <1>19, SMT DEF BeginPending, Builders
<1>20. CASE OpenLogs
  BY <1>20, SMT DEF OpenLogs, Builders
<1>21. CASE StartRound
  BY <1>21, SMT DEF StartRound, Builders
<1>22. CASE TakeAborted
  BY <1>22, SMT DEF TakeAborted, Builders
<1>23. CASE LogAborted
  BY <1>23, SMT DEF LogAborted, Builders
<1>24. CASE RoundOpen
  BY <1>24, SMT DEF RoundOpen, Builders
<1>25. CASE ReplaceBlob
  BY <1>25, SMT DEF ReplaceBlob, Builders
<1>26. CASE RecordManifest
  BY <1>26, SMT DEF RecordManifest, WriteFails, Builders
<1>27. CASE RecordCollection
  BY <1>27, SMT DEF RecordCollection, WriteFails, Builders
<1>28. CASE SealCustody
  BY <1>28, SMT DEF SealCustody, Builders
<1>29. CASE TruncateCase
  BY <1>29, SMT DEF TruncateCase, Builders
<1>30. CASE WriteCase
  BY <1>30, SMT DEF WriteCase, Builders
<1>31. CASE ArchiveSeal
  BY <1>31, SMT DEF ArchiveSeal, Builders
<1>32. CASE WriteSums
  BY <1>32, SMT DEF WriteSums, Builders
<1>33. CASE EndPending
  BY <1>33, SMT DEF EndPending, Builders
<1>34. CASE CloseNew
  BY <1>34, SMT DEF CloseNew, Builders
<1>35. CASE CloseAdded
  BY <1>35, SMT DEF CloseAdded, Builders
<1>36. CASE Crash
  BY <1>36, SMT DEF Crash, Builders
<1>37. CASE Stopped
  BY <1>37, SMT DEF Stopped, vars, Builders
<1> QED
  BY <1>1, <1>2, <1>3, <1>4, <1>5, <1>6, <1>7, <1>8, <1>9, <1>10, <1>11, <1>12,
     <1>13, <1>14, <1>15, <1>16, <1>17, <1>18, <1>19, <1>20, <1>21, <1>22, <1>23, <1>24,
     <1>25, <1>26, <1>27, <1>28, <1>29, <1>30, <1>31, <1>32, <1>33, <1>34, <1>35, <1>36,
     <1>37,
     Zenon DEF Next, Open, Rollback, OpenRound, Acquire, Seal

\* Every variable always has its type: in particular every state a crash leaves
\* behind is one that ReopenChecked can read or refuse.
THEOREM TypeCorrect == Spec => []TypeOK
<1>1. Init => TypeInv /\ RoundTaken
  BY TypeInit, RoundTakenInit
<1>2. TypeInv /\ RoundTaken /\ [Next]_vars => (TypeInv /\ RoundTaken)'
  BY TypeStep, RoundTakenStep
<1>3. TypeInv => TypeOK
  BY DEF TypeInv
<1> QED
  BY <1>1, <1>2, <1>3, PTL DEF Spec

-----------------------------------------------------------------------------
(***************************************************************************)
(* SealedLogsPreserved and RestoredExactly: RoundInv is inductive.  With   *)
(* one collector build the stored blobs are kept too, and without write    *)
(* faults a sealed package at rest verifies.                               *)
(***************************************************************************)
\* Writing a line after a sealed part that has no torn line leaves it as it is.
LEMMA WritePrefix ==
    ASSUME NEW s \in Seq(Lines), NEW t \in Seq(Lines), NEW l \in Lines,
           Prefix(t, s), ~Broken(t)
    PROVE  Prefix(t, Write(s, l))
<1>1. CASE s # <<>> /\ s[Len(s)].event = "torn"
  <2>1. s[Len(s)] # t[Len(t)] \/ Len(t) = 0
    BY <1>1, SMT DEF Broken
  <2>2. Len(t) < Len(s)
    BY <1>1, <2>1, SMT DEF Prefix
  <2> DEFINE e == [s[Len(s)] EXCEPT !.event = "glued"]
             w == [s EXCEPT ![Len(s)] = e]
  <2>3. Write(s, l) = w
    BY <1>1, Zenon DEF Write
  <2> HIDE DEF e
  <2>4. Len(w) = Len(s) /\ \A i \in 1..Len(t) : w[i] = s[i]
    BY <2>2, SMT
  <2> HIDE DEF w
  <2>5. Prefix(t, w)
    BY <2>2, <2>4, SMT DEF Prefix
  <2> QED
    BY <2>3, <2>5
<1>2. CASE ~(s # <<>> /\ s[Len(s)].event = "torn")
  BY <1>2, SMT DEF Write, Prefix
<1> QED
  BY <1>1, <1>2

\* The types the steps below rely on.
LEMMA LogTypes ==
    ASSUME TypeOK
    PROVE  /\ log \in [AppendOnly -> Seq(Lines)]
           /\ sums.log \in [AppendOnly -> Seq(Lines)]
           /\ sums.run \in Nat /\ pend.seal \in Nat /\ run \in Nat
           /\ sums.seals \in Archives
  BY SMT DEF TypeOK, LogFiles, Seals, Pendings

\* Writing a line to one file keeps every sealed log.
LEMMA LogKeepsSealed ==
    ASSUME TypeOK, NEW f \in AppendOnly, NEW l \in Lines,
           Log(f, l), SealedLogsPreserved, Sealed,
           \A g \in AppendOnly : ~Broken(sums.log[g])
    PROVE  \A g \in AppendOnly : Prefix(sums.log[g], log'[g])
<1> TAKE g \in AppendOnly
<1>1. log[g] \in Seq(Lines) /\ sums.log[g] \in Seq(Lines)
  BY LogTypes
<1>2. Prefix(sums.log[g], log[g])
  BY Zenon DEF SealedLogsPreserved
<1>3. Prefix(sums.log[g], Write(log[g], l))
  BY <1>1, <1>2, WritePrefix
<1>4. log'[g] = IF g = f THEN Write(log[g], l) ELSE log[g]
  BY LogTypes, SMT DEF Log
<1> QED
  BY <1>2, <1>3, <1>4

LEMMA RoundInvInit == Init => RoundInv
  BY SMT DEF Init, RoundInv, WritersOwnARound, PendingMatchesSeal, NothingPending,
     SealsAreEarlier, ArchivesKept, RollbackProgress, SealedLogsWhole, Writing,
     FromMan, FromColl, FromCust, FromCase, FromRaw, SealedLogsPreserved,
     RestoredExactly, Sealed, NoSeal, NoPend, Absent

\* A builder in a round changes the logs or case.json, and no sealed log.
LEMMA WriterStep ==
    ASSUME RoundInv, SealedLogsPreserved', pc \in Writing, pc' \in Writing,
           UNCHANGED <<dir, seals, sums, pend, run>>
    PROVE  RoundInv'
  BY SMT DEF RoundInv, WritersOwnARound, PendingMatchesSeal, NothingPending,
     SealsAreEarlier, ArchivesKept, RollbackProgress, SealedLogsWhole, Writing,
     FromMan, FromColl, FromCust, FromCase, FromRaw, RestoredExactly, Sealed,
     UnsealedRound, RoundCompleted

LEMMA LogStepKeepsInv ==
    ASSUME TypeOK, RoundInv, pc \in Writing, pc' \in Writing,
           UNCHANGED <<dir, seals, sums, pend, run>>,
           NEW f \in AppendOnly, NEW e \in Events, NEW a \in ABlob \cup Nat,
           Log(f, Line(run, e, a))
    PROVE  RoundInv'
<1>1. Line(run, e, a) \in Lines
  BY LogTypes, LineType
<1>2. ASSUME Sealed
      PROVE  \A g \in AppendOnly : Prefix(sums.log[g], log'[g])
  <2>1. \A g \in AppendOnly : ~Broken(sums.log[g])
    BY <1>2, Zenon DEF RoundInv, SealedLogsWhole
  <2> QED
    BY <1>1, <1>2, <2>1, LogKeepsSealed, Zenon DEF RoundInv
<1>3. SealedLogsPreserved'
  BY <1>2, Zenon DEF SealedLogsPreserved, Sealed
<1> QED
  BY <1>3, WriterStep

\* What a rollback cuts a file to is what the seal covers of it.
LEMMA CutIsSealed ==
    ASSUME TypeOK, SealedLogsPreserved, Sealed, NEW f \in AppendOnly,
           pend.lens[f] = Len(sums.log[f])
    PROVE  SubSeq(log[f], 1, pend.lens[f]) = sums.log[f]
<1> DEFINE s == log[f]
           t == sums.log[f]
<1>1. s \in Seq(Lines) /\ t \in Seq(Lines)
  BY LogTypes
<1>2. Prefix(t, s)
  BY Zenon DEF SealedLogsPreserved
<1> HIDE DEF s, t
<1> DEFINE u == SubSeq(s, 1, Len(t))
<1>3. Len(t) \in Nat /\ Len(t) <= Len(s) /\ \A i \in 1..Len(t) : s[i] = t[i] /\ s[i] \in Lines
  BY <1>1, <1>2, SMT DEF Prefix
<1>4. u \in Seq(Lines) /\ Len(u) = Len(t) /\ \A i \in 1..Len(t) : u[i] = s[i]
  BY <1>3, SubSeqProperties, SMT
<1> HIDE DEF u
<1>5. u = t
  BY <1>1, <1>3, <1>4, SeqEqual
<1> QED
  BY <1>5 DEF u, s, t

LEMMA RoundInvStep == TypeOK /\ TypeOK' /\ RoundInv /\ [Next]_vars => RoundInv'
<1> SUFFICES ASSUME TypeOK, TypeOK', RoundInv, [Next]_vars
             PROVE  RoundInv'
  OBVIOUS
<1> USE DEF RoundInv, WritersOwnARound, PendingMatchesSeal, NothingPending,
     SealsAreEarlier, ArchivesKept, RollbackProgress, SealedLogsWhole, Writing,
     FromMan, FromColl, FromCust, FromCase, FromRaw, SealedLogsPreserved,
     RestoredExactly, Sealed, UnsealedRound, RoundCompleted, disk, Goto
<1>1. CASE UNCHANGED vars
  BY <1>1, SMT DEF vars
<1>2. ASSUME NEW v \in Builds, New(v)
      PROVE  RoundInv'
  <2>1. ~Sealed /\ ~pend.on /\ sums.run = 0 /\ run \in Nat
    BY <1>2, LogTypes, Zenon DEF New, Absent
  <2>2. UNCHANGED <<seals, sums, pend, case>> /\ run' = run + 1 /\ pc' = "collect" /\ dir' = TRUE
    BY <1>2 DEF New
  <2> QED
    BY <2>1, <2>2, SMT
<1>3. ASSUME NEW v \in Builds, Reopen(v)
      PROVE  RoundInv'
  BY <1>3, SMT DEF Reopen
<1>4. ASSUME NEW b \in Blobs, RemoveBlob(b)
      PROVE  RoundInv'
  BY <1>4, SMT DEF RemoveBlob
<1>5. ASSUME NEW b \in Blobs, RemoveTmp(b)
      PROVE  RoundInv'
  BY <1>5, SMT DEF RemoveTmp
<1>6. ASSUME NEW b \in Blobs, Prepare(b)
      PROVE  RoundInv'
  BY <1>6, SMT DEF Prepare
<1>7. ASSUME NEW b \in Blobs, CommitBlob(b)
      PROVE  RoundInv'
  BY <1>7, SMT DEF CommitBlob
<1>8. ASSUME NEW b \in Blobs, CarryForward(b)
      PROVE  RoundInv'
  BY <1>8, SMT DEF CarryForward
<1>9. CASE RollbackNothing
  BY <1>9, SMT DEF RollbackNothing, AfterRollback, NoPend
<1>10. CASE RollbackRefused
  BY <1>10, SMT DEF RollbackRefused
<1>11. CASE RollbackBegins
  BY <1>11, SMT DEF RollbackBegins
<1>12. CASE TruncateLogs
  <2>1. ASSUME NEW f \in AppendOnly, NEW p \in FromMan, NEW q \in FromColl,
               Truncate(f, p, q), pc' # "idle"
        PROVE  /\ log'[f] = sums.log[f]
               /\ \A g \in AppendOnly : g # f => log'[g] = log[g]
               /\ \A g \in AppendOnly : Prefix(sums.log[g], log'[g])
               /\ pc = p /\ pc' = q
               /\ UNCHANGED <<dir, case, seals, sums, pend, run>>
    <3>1. Sealed /\ UnsealedRound
      BY <2>1 DEF Truncate
    <3>2. SubSeq(log[f], 1, pend.lens[f]) = sums.log[f]
      BY <3>1, CutIsSealed
    <3>3. log' = [log EXCEPT ![f] = sums.log[f]]
      BY <2>1, <3>2, Zenon DEF Truncate
    <3>4. log'[f] = sums.log[f] /\ \A g \in AppendOnly : g # f => log'[g] = log[g]
      BY <3>3, LogTypes, SMT
    <3>5. Prefix(sums.log[f], sums.log[f])
      BY LogTypes, SMT DEF Prefix
    <3>6. \A g \in AppendOnly : Prefix(sums.log[g], log[g])
      BY <3>1
    <3> HIDE DEF UnsealedRound
    <3> QED
      BY <2>1, <3>4, <3>5, <3>6, Zenon DEF Truncate
  <2>2. AppendOnly = {"man", "coll", "cust"}
    BY DEF AppendOnly
  <2>3. CASE pc' = "idle"
    BY <1>12, <2>3, SMT DEF TruncateLogs, Truncate
  <2>4. CASE pc' # "idle" /\ Truncate("man", "rb_man", "rb_coll")
    <3>1. "man" \in AppendOnly /\ "rb_man" \in FromMan /\ "rb_coll" \in FromColl
      BY <2>2, SMT
    <3> QED
      BY <2>1, <2>4, <3>1, SMT
  <2>5. CASE pc' # "idle" /\ Truncate("coll", "rb_coll", "rb_cust")
    <3>1. "man" \in AppendOnly /\ "coll" \in AppendOnly /\ "rb_coll" \in FromMan /\ "rb_cust" \in FromColl
      BY <2>2, SMT
    <3> QED
      BY <2>1, <2>5, <3>1, SMT
  <2>6. CASE pc' # "idle" /\ Truncate("cust", "rb_cust", "rb_case")
    <3>1. {"man", "coll", "cust"} \subseteq AppendOnly /\ "rb_cust" \in FromMan /\ "rb_case" \in FromColl
      BY <2>2, SMT
    <3> QED
      BY <2>1, <2>6, <3>1, SMT
  <2> QED
    BY <1>12, <2>3, <2>4, <2>5, <2>6 DEF TruncateLogs
<1>13. CASE RestoreCase
  BY <1>13, SMT DEF RestoreCase
<1>14. CASE RemoveArchived
  BY <1>14, SMT DEF RemoveArchived
<1>15. CASE RollbackEnds
  <2>1. log = sums.log
    BY <1>15, LogTypes, SMT DEF RollbackEnds, AppendOnly
  <2>2. ~pend'.on
    BY <1>15, SMT DEF RollbackEnds, NoPend
  <2> QED
    BY <1>15, <2>1, <2>2, SMT DEF RollbackEnds
<1>16. CASE NoteAborted
  BY <1>16, SMT DEF NoteAborted, AfterRollback
<1>17. CASE ReadPackage
  BY <1>17, SMT DEF ReadPackage, Readable
<1>18. CASE ReadFails
  BY <1>18, SMT DEF ReadFails
<1>19. CASE BeginPending
  <2>1. Sealed => log = sums.log /\ case = sums.case
    BY <1>19, SMT DEF BeginPending
  <2>2. pend'.on /\ pend'.seal = sums.run /\ pend'.case = case /\ run' = run + 1
        /\ \A f \in AppendOnly : pend'.lens[f] = Len(log[f])
    BY <1>19, SMT DEF BeginPending
  <2>3. UNCHANGED <<dir, log, case, seals, sums>> /\ pc = "begin" /\ pc' = "append"
    BY <1>19 DEF BeginPending
  <2>4. dir
    BY <2>3
  <2> QED
    BY <2>1, <2>2, <2>3, <2>4, LogTypes, SMT
<1>20. CASE OpenLogs
  <2>1. CASE Broken(log["coll"]) \/ Broken(log["cust"])
    BY <1>20, <2>1, SMT DEF OpenLogs
  <2>2. CASE ~(Broken(log["coll"]) \/ Broken(log["cust"]))
    <3>1. Sealed => \A f \in AppendOnly : ~Broken(sums.log[f])
      BY <1>20, <2>2, SMT DEF OpenLogs, AppendOnly
    <3> QED
      BY <1>20, <2>2, <3>1, SMT DEF OpenLogs
  <2> QED
    BY <2>1, <2>2
<1>21. CASE StartRound
  <2>1. bld.round \in ABlob \cup Nat /\ "acquisition_started" \in Events /\ "cust" \in AppendOnly
    BY BuilderFields, Zenon DEF TypeOK, Events, AppendOnly
  <2>2. UNCHANGED <<dir, seals, sums, pend, run>> /\ pc \in Writing /\ pc' \in Writing
    BY <1>21, Zenon DEF StartRound, Writing
  <2> QED
    BY <1>21, <2>1, <2>2, LogStepKeepsInv, Zenon DEF StartRound
<1>22. CASE TakeAborted
  BY <1>22, SMT DEF TakeAborted
<1>23. CASE LogAborted
  <2>1. Head(bld.todo) \in ABlob \cup Nat
    BY <1>23, BuilderFields, SMT DEF TypeOK, LogAborted, Numbers
  <2>2. "round_aborted" \in Events /\ "cust" \in AppendOnly
    BY Zenon DEF Events, AppendOnly
  <2>3. UNCHANGED <<dir, seals, sums, pend, run>> /\ pc \in Writing /\ pc' \in Writing
    BY <1>23, Zenon DEF LogAborted, Writing
  <2> QED
    BY <1>23, <2>1, <2>2, <2>3, LogStepKeepsInv, Zenon DEF LogAborted
<1>24. CASE RoundOpen
  BY <1>24, SMT DEF RoundOpen
<1>25. CASE ReplaceBlob
  BY <1>25, SMT DEF ReplaceBlob
<1>26. CASE RecordManifest
  <2>1. bld.cur \in ABlob \cup Nat /\ NoArg \in ABlob \cup Nat
    BY BuilderFields, Zenon DEF TypeOK, ABlob
  <2>2. "artifact" \in Events /\ "torn" \in Events /\ "man" \in AppendOnly
    BY Zenon DEF Events, AppendOnly
  <2>3. UNCHANGED <<dir, seals, sums, pend, run>> /\ pc \in Writing /\ pc' \in Writing
    BY <1>26, Zenon DEF RecordManifest, WriteFails, Writing
  <2>4. CASE Log("man", Line(run, "artifact", bld.cur))
    BY <2>1, <2>2, <2>3, <2>4, LogStepKeepsInv, Zenon
  <2>5. CASE Log("man", Line(run, "torn", NoArg))
    BY <2>1, <2>2, <2>3, <2>5, LogStepKeepsInv, Zenon
  <2>6. CASE UNCHANGED log
    <3>1. SealedLogsPreserved'
      BY <2>3, <2>6
    <3> QED
      BY <2>3, <3>1, WriterStep, Zenon
  <2> QED
    BY <1>26, <2>4, <2>5, <2>6, Zenon DEF RecordManifest, WriteFails
<1>27. CASE RecordCollection
  <2>1. bld.cur \in ABlob \cup Nat /\ NoArg \in ABlob \cup Nat
    BY BuilderFields, Zenon DEF TypeOK, ABlob
  <2>2. "artifact" \in Events /\ "torn" \in Events /\ "coll" \in AppendOnly
    BY Zenon DEF Events, AppendOnly
  <2>3. UNCHANGED <<dir, seals, sums, pend, run>> /\ pc \in Writing /\ pc' \in Writing
    BY <1>27, Zenon DEF RecordCollection, WriteFails, Writing
  <2>4. CASE Log("coll", Line(run, "artifact", bld.cur))
    BY <2>1, <2>2, <2>3, <2>4, LogStepKeepsInv, Zenon
  <2>5. CASE Log("coll", Line(run, "torn", NoArg))
    BY <2>1, <2>2, <2>3, <2>5, LogStepKeepsInv, Zenon
  <2>6. CASE UNCHANGED log
    <3>1. SealedLogsPreserved'
      BY <2>3, <2>6
    <3> QED
      BY <2>3, <3>1, WriterStep, Zenon
  <2> QED
    BY <1>27, <2>4, <2>5, <2>6, Zenon DEF RecordCollection, WriteFails
<1>28. CASE SealCustody
  <2> DEFINE l == Line(run, "acquisition_completed", bld.round)
             m == Line(run, "package_sealed", bld.round)
             w == Write(log["cust"], l)
  <2>1. "acquisition_completed" \in Events /\ "package_sealed" \in Events
        /\ bld.round \in ABlob \cup Nat /\ "cust" \in AppendOnly
    BY BuilderFields, Zenon DEF TypeOK, Events, AppendOnly
  <2>2. l \in Lines /\ m \in Lines
    BY <2>1, LogTypes, LineType
  <2>3. UNCHANGED <<dir, seals, sums, pend, run>> /\ pc \in Writing /\ pc' \in Writing
    BY <1>28, Zenon DEF SealCustody, Writing
  <2>4. log' = [log EXCEPT !["cust"] = Write(w, m)]
    BY <1>28 DEF SealCustody
  <2> HIDE DEF l, m
  <2>5. ASSUME Sealed
        PROVE  Prefix(sums.log["cust"], Write(w, m))
    <3>1. ~Broken(sums.log["cust"]) /\ Prefix(sums.log["cust"], log["cust"])
      BY <2>1, <2>3, <2>5
    <3>2. log["cust"] \in Seq(Lines) /\ sums.log["cust"] \in Seq(Lines)
      BY <2>1, LogTypes
    <3>3. w \in Seq(Lines) /\ Prefix(sums.log["cust"], w)
      BY <2>2, <3>1, <3>2, WriteType, WritePrefix
    <3> QED
      BY <2>2, <3>1, <3>2, <3>3, WritePrefix
  <2> HIDE DEF w
  <2>6. SealedLogsPreserved'
    BY <2>3, <2>4, <2>5, LogTypes, SMT
  <2> QED
    BY <2>3, <2>6, WriterStep, Zenon
<1>29. CASE TruncateCase
  BY <1>29, SMT DEF TruncateCase
<1>30. CASE WriteCase
  BY <1>30, SMT DEF WriteCase
<1>31. CASE ArchiveSeal
  BY <1>31, SMT DEF ArchiveSeal
<1>32. CASE WriteSums
  <2>1. /\ sums'.run = run /\ sums'.log = log /\ sums'.case = case /\ sums'.seals = seals
        /\ UNCHANGED <<dir, log, case, seals, pend, run>> /\ pc = "seal_sums" /\ pc' = "seal_end"
    BY <1>32, SMT DEF WriteSums
  <2>2. run # Absent /\ (pend.on => pend.seal # run)
    BY <2>1, LogTypes, SMT DEF Absent
  <2>3. \A f \in AppendOnly : Prefix(log[f], log[f])
    BY LogTypes, SMT DEF Prefix
  <2> QED
    BY <2>1, <2>2, <2>3, LogTypes, SMT
<1>33. CASE EndPending
  BY <1>33, SMT DEF EndPending, NoPend
<1>34. CASE CloseNew
  <2>1. sums'.run = Absent /\ ~pend'.on /\ seals' = {}
    BY <1>34, SMT DEF CloseNew, NoSeal, NoPend
  <2>2. run \in Nat /\ run' = run /\ pc' = "idle"
    BY <1>34, LogTypes, SMT DEF CloseNew
  <2> QED
    BY <2>1, <2>2, SMT DEF Absent
<1>35. CASE CloseAdded
  BY <1>35, SMT DEF CloseAdded, Unsealing
<1>36. CASE Crash
  BY <1>36, SMT DEF Crash
<1>37. CASE Stopped
  BY <1>37, SMT DEF Stopped, vars
<1> QED
  BY <1>1, <1>2, <1>3, <1>4, <1>5, <1>6, <1>7, <1>8, <1>9, <1>10, <1>11, <1>12,
     <1>13, <1>14, <1>15, <1>16, <1>17, <1>18, <1>19, <1>20, <1>21, <1>22, <1>23, <1>24,
     <1>25, <1>26, <1>27, <1>28, <1>29, <1>30, <1>31, <1>32, <1>33, <1>34, <1>35, <1>36,
     <1>37,
     Zenon DEF Next, Open, Rollback, OpenRound, Acquire, Seal

\* Whatever a builder appends, fails to append, rolls back or leaves behind when
\* it dies, the logs begin with exactly what the current seal covers
\* (commit, record, Seal, rollbackPending).
THEOREM SealedLogs == Spec => []SealedLogsPreserved
<1>1. Init => TypeInv /\ RoundTaken /\ RoundInv
  BY TypeInit, RoundTakenInit, RoundInvInit
<1>2. TypeInv /\ RoundTaken /\ RoundInv /\ [Next]_vars
        => (TypeInv /\ RoundTaken /\ RoundInv)'
  BY TypeStep, RoundTakenStep, RoundInvStep DEF TypeInv
<1>3. RoundInv => SealedLogsPreserved
  BY DEF RoundInv
<1> QED
  BY <1>1, <1>2, <1>3, PTL DEF Spec

\* A sealed package that no round is open on holds exactly what its seal
\* covers: what rollbackPending restores is what beginPending started from.
THEOREM Restored == Spec => []RestoredExactly
<1>1. Init => TypeInv /\ RoundTaken /\ RoundInv
  BY TypeInit, RoundTakenInit, RoundInvInit
<1>2. TypeInv /\ RoundTaken /\ RoundInv /\ [Next]_vars
        => (TypeInv /\ RoundTaken /\ RoundInv)'
  BY TypeStep, RoundTakenStep, RoundInvStep DEF TypeInv
<1>3. RoundInv => RestoredExactly
  BY DEF RoundInv
<1> QED
  BY <1>1, <1>2, <1>3, PTL DEF Spec

\* What every stage of a round and of a rollback may rely on holds throughout
\* (beginPending, rollbackPending, ReopenChecked, Seal).
THEOREM RoundsInOrder == Spec => []RoundInv
<1>1. Init => TypeInv /\ RoundTaken /\ RoundInv
  BY TypeInit, RoundTakenInit, RoundInvInit
<1>2. TypeInv /\ RoundTaken /\ RoundInv /\ [Next]_vars
        => (TypeInv /\ RoundTaken /\ RoundInv)'
  BY TypeStep, RoundTakenStep, RoundInvStep DEF TypeInv
<1> QED
  BY <1>1, <1>2, PTL DEF Spec
-----------------------------------------------------------------------------
(***************************************************************************)
(* The stored blobs.  As long as one build of the collector writes to the  *)
(* package, commitBlob never finds other bytes under an address.           *)
(***************************************************************************)
SameBuild == \A v, w \in Builds : v = w

BlobInv ==
    /\ pc # "idle" => bld.build \in Builds
    /\ pc # "commit_place"
    /\ SealedBlobsPreserved

LEMMA BlobInit == Init => BlobInv
  BY SMT DEF Init, BlobInv, SealedBlobsPreserved, NoSeal, NoRaw

LEMMA BlobStep ==
    ASSUME SameBuild, TypeOK, BlobInv, [Next]_vars
    PROVE  BlobInv'
<1> USE DEF disk, Goto
<1>0. /\ bld \in Builders /\ raw \in RawFiles /\ pc # "commit_place"
      /\ (pc # "idle" => bld.build \in Builds) /\ SealedBlobsPreserved
  BY DEF TypeOK, BlobInv
<1>1. ASSUME pc # "idle" \/ pc' = "idle", pc' # "commit_place", UNCHANGED <<raw, sums>>,
             bld'.build = bld.build
      PROVE  BlobInv'
  BY <1>0, <1>1, Zenon DEF BlobInv, SealedBlobsPreserved
<1>2. ASSUME NEW v \in Builds, New(v) \/ Reopen(v) PROVE BlobInv'
  <2>1. bld'.build = v /\ pc' # "commit_place" /\ UNCHANGED <<raw, sums>>
    BY <1>2, SMT DEF New, Reopen, Builder
  <2> QED BY <1>0, <2>1, Zenon DEF BlobInv, SealedBlobsPreserved
<1>3. ASSUME NEW b \in Blobs, RemoveBlob(b) PROVE BlobInv'
  <2>1. /\ pc = "rb_raw" /\ sums.raw[b] = Absent /\ raw' = [raw EXCEPT ![b] = Absent]
        /\ UNCHANGED <<sums, pc, bld>>
    BY <1>3 DEF RemoveBlob
  <2>2. \A c \in Blobs : c # b => raw'[c] = raw[c]
    BY <1>0, <2>1 DEF RawFiles
  <2> QED BY <1>0, <2>1, <2>2, Zenon DEF BlobInv, SealedBlobsPreserved
<1>4. ASSUME NEW b \in Blobs, CommitBlob(b) PROVE BlobInv'
  <2>1. bld'.build = bld.build /\ bld.build \in Builds /\ UNCHANGED sums
    BY <1>0, <1>4, SMT DEF CommitBlob, Builders
  <2>2. Stored(b) => raw[b] = bld.build
    BY <1>0, <2>1 DEF SameBuild, RawFiles, Bytes, Stored
  <2>3. pc' = "commit_man"
    BY <1>4, <2>2, SMT DEF CommitBlob
  <2>4. \/ UNCHANGED raw
        \/ ~Stored(b) /\ raw' = [raw EXCEPT ![b] = bld.build]
    <3>1. ~(Stored(b) /\ raw[b] # bld.build)
      BY <2>2
    <3>2. \/ ~Stored(b) /\ raw' = [raw EXCEPT ![b] = bld.build]
          \/ UNCHANGED raw
          \/ Stored(b) /\ raw[b] # bld.build
      BY <1>4, Zenon DEF CommitBlob
    <3> QED BY <3>1, <3>2, Zenon
  <2>5. \A c \in Blobs : sums.raw[c] # Absent => raw'[c] = raw[c]
    BY <1>0, <2>4 DEF RawFiles, SealedBlobsPreserved, Stored
  <2>6. SealedBlobsPreserved'
    BY <1>0, <2>1, <2>5 DEF SealedBlobsPreserved
  <2> QED BY <2>1, <2>3, <2>6, SMT DEF BlobInv
<1>5. CASE ReplaceBlob
  BY <1>0, <1>5 DEF ReplaceBlob
<1>6. CASE WriteSums
  <2>1. sums'.raw = raw /\ UNCHANGED <<raw, bld>> /\ pc = "seal_sums" /\ pc' = "seal_end"
    BY <1>6 DEF WriteSums
  <2> QED BY <1>0, <2>1, SMT DEF BlobInv, SealedBlobsPreserved
<1>7. CASE CloseNew
  <2>1. \A b \in Blobs : sums'.raw[b] = Absent
    BY <1>7 DEF CloseNew, NoSeal, NoRaw
  <2>2. pc' = "idle"
    BY <1>7 DEF CloseNew
  <2> QED BY <2>1, <2>2, SMT DEF BlobInv, SealedBlobsPreserved
<1>8. CASE Crash
  BY <1>0, <1>8, SMT DEF Crash, BlobInv, SealedBlobsPreserved
<1>9. CASE UNCHANGED vars
  BY <1>0, <1>9, SMT DEF vars, BlobInv, SealedBlobsPreserved
<1>10. CASE Stopped
  BY <1>9, <1>10 DEF Stopped
<1>11. ASSUME NEW b \in Blobs, RemoveTmp(b) \/ Prepare(b) \/ CarryForward(b) PROVE BlobInv'
  <2>1. bld'.build = bld.build
    BY <1>0, <1>11 DEF RemoveTmp, Prepare, CarryForward, Builders
  <2> QED BY <1>1, <1>11, <2>1, SMT DEF RemoveTmp, Prepare, CarryForward
<1>12. CASE RollbackNothing \/ RollbackRefused \/ RollbackBegins \/ TruncateLogs
            \/ RestoreCase \/ RemoveArchived
  BY <1>1, <1>12, SMT DEF RollbackNothing, RollbackRefused, RollbackBegins, TruncateLogs,
     Truncate, RestoreCase, RemoveArchived, AfterRollback
<1>13. CASE RollbackEnds \/ NoteAborted \/ ReadPackage \/ OpenLogs \/ TakeAborted \/ LogAborted
            \/ CloseAdded
  <2>1. bld'.build = bld.build
    BY <1>0, <1>13 DEF RollbackEnds, NoteAborted, ReadPackage, OpenLogs, TakeAborted,
       LogAborted, CloseAdded, Builders
  <2>2. /\ UNCHANGED <<raw, sums>>
        /\ pc # "idle" \/ pc' = "idle"
        /\ pc' # "commit_place"
    BY <1>0, <1>13, SMT DEF RollbackEnds, NoteAborted, ReadPackage, OpenLogs, TakeAborted,
       LogAborted, CloseAdded, AfterRollback, Unsealing
  <2> QED BY <1>1, <2>1, <2>2
<1>14. CASE ReadFails \/ BeginPending \/ StartRound \/ RoundOpen
  BY <1>1, <1>14, SMT DEF ReadFails, BeginPending, StartRound, RoundOpen
<1>15. CASE RecordManifest \/ RecordCollection \/ SealCustody \/ TruncateCase \/ WriteCase
            \/ ArchiveSeal \/ EndPending
  BY <1>1, <1>15, SMT DEF RecordManifest, RecordCollection, WriteFails, SealCustody,
     TruncateCase, WriteCase, ArchiveSeal, EndPending
<1> QED
  BY <1>2, <1>3, <1>4, <1>5, <1>6, <1>7, <1>8, <1>9, <1>10, <1>11, <1>12, <1>13, <1>14,
     <1>15, Zenon DEF Next, Open, Rollback, OpenRound, Acquire, Seal

\* Every blob a seal lists stays in raw/ with the bytes it has the hash of,
\* while rounds prepare, place and carry forward blobs and rollbacks remove
\* them (commitBlob, rollbackPending): as long as the rounds of the package are
\* collected by one build, which compresses a blob to the same bytes each time.
THEOREM SealedBlobs == ASSUME SameBuild PROVE Spec => []SealedBlobsPreserved
<1>1. Init => TypeInv /\ RoundTaken /\ BlobInv
  BY TypeInit, RoundTakenInit, BlobInit
<1>2. TypeInv /\ RoundTaken /\ BlobInv /\ [Next]_vars
        => (TypeInv /\ RoundTaken /\ BlobInv)'
  BY TypeStep, RoundTakenStep, BlobStep DEF TypeInv
<1>3. BlobInv => SealedBlobsPreserved
  BY DEF BlobInv
<1> QED
  BY <1>1, <1>2, <1>3, PTL DEF Spec

\* Under the same condition an unsealed round of a sealed package can always be
\* rolled back: no log is shorter than the pending file says and no sealed blob
\* is gone, so that rollbackPending never refuses because of what a round did.
THEOREM RollbackAlwaysPossible == ASSUME SameBuild PROVE Spec => []RollbackPossible
<1>1. Init => TypeInv /\ RoundTaken /\ RoundInv /\ BlobInv
  BY TypeInit, RoundTakenInit, RoundInvInit, BlobInit
<1>2. TypeInv /\ RoundTaken /\ RoundInv /\ BlobInv /\ [Next]_vars
        => (TypeInv /\ RoundTaken /\ RoundInv /\ BlobInv)'
  BY TypeStep, RoundTakenStep, RoundInvStep, BlobStep DEF TypeInv
<1>3. RoundInv /\ BlobInv => RollbackPossible
  <2> SUFFICES ASSUME RoundInv, BlobInv, Sealed, UnsealedRound
               PROVE  /\ \A f \in AppendOnly : pend.lens[f] <= Len(log[f])
                      /\ \A b \in Blobs : sums.raw[b] # Absent => Stored(b)
    BY DEF RollbackPossible
  <2>1. \A f \in AppendOnly : pend.lens[f] = Len(sums.log[f])
    BY DEF RoundInv, PendingMatchesSeal
  <2>2. \A f \in AppendOnly : Len(sums.log[f]) <= Len(log[f])
    BY DEF RoundInv, SealedLogsPreserved, Prefix
  <2>3. \A b \in Blobs : sums.raw[b] # Absent => Stored(b)
    BY DEF BlobInv, SealedBlobsPreserved, Stored
  <2> QED BY <2>1, <2>2, <2>3
<1> QED
  BY <1>1, <1>2, <1>3, PTL DEF Spec
-----------------------------------------------------------------------------
(***************************************************************************)
(* The package at rest.  Where every write succeeds and one build collects *)
(* every round, what a round adds to raw/ and to the manifest is gone once *)
(* it is rolled back, and listed once it is sealed.                        *)
(***************************************************************************)
Collecting == {"collect", "commit_man", "commit_coll"}
Sealing    == {"seal_trunc", "seal_case", "seal_arch", "seal_sums", "seal_end"}

\* No log has a torn line.
LogsWhole ==
    \A f \in AppendOnly : ~Broken(log[f]) /\ (Sealed => ~Broken(sums.log[f]))

\* A temporary blob belongs to the builder at work, to the round to roll back,
\* or to a first round that died before its case.json.
TmpsOwned ==
    /\ tmps # {} =>
          \/ pc \in Collecting
          \/ UnsealedRound
          \/ ~Sealed /\ case.state # "ok"
    /\ pc \in Sealing \cup {"rb_end"} => tmps = {}
    /\ pc \in {"append", "start", "take", "log_aborted"} => pend.on
    /\ pc \in Collecting /\ ~pend.on => case.state # "ok"
    /\ ~dir => case.state # "ok"

\* Outside an unsealed round raw/ holds what the seal lists and nothing else.
NothingUnlisted ==
    Sealed /\ (~UnsealedRound \/ pc = "rb_end") => raw = sums.raw

\* Every record of the manifest has its blob, in the package and in the seal.
RecordsStored ==
    /\ \A b \in OKRecords(log["man"]) : b \in Blobs /\ Stored(b)
    /\ Sealed => \A b \in OKRecords(sums.log["man"]) : b \in Blobs /\ sums.raw[b] # Absent
    /\ pc = "commit_man" => bld.cur \in Blobs /\ Stored(bld.cur)

RestInv == LogsWhole /\ TmpsOwned /\ NothingUnlisted /\ RecordsStored

LEMMA RestInit == Init => RestInv
<1> SUFFICES ASSUME Init PROVE RestInv
  OBVIOUS
<1>1. /\ \A f \in AppendOnly : log[f] = <<>>
      /\ ~Sealed /\ case.state # "ok" /\ tmps = {} /\ ~dir /\ pc = "idle"
  BY SMT DEF Init, NoLogs, NoSeal, NoCase, Sealed
<1>2. "man" \in AppendOnly
  BY DEF AppendOnly
<1> QED
  BY <1>1, <1>2, SMT DEF RestInv, LogsWhole, TmpsOwned, NothingUnlisted, RecordsStored,
     Broken, OKRecords, Sealing, Collecting

\* A whole line written to a log that has no torn line comes after its last one.
Whole == Events \ {"torn", "glued"}

LEMMA WriteWhole ==
    ASSUME NEW s \in Seq(Lines), NEW l \in Lines, ~Broken(s), l.event \in Whole
    PROVE  /\ Write(s, l) = Append(s, l)
           /\ ~Broken(Write(s, l))
           /\ l.event # "artifact" => OKRecords(Write(s, l)) = OKRecords(s)
           /\ OKRecords(Write(s, l)) \subseteq OKRecords(s) \cup {l.arg}
<1>1. ~(s # <<>> /\ s[Len(s)].event = "torn")
  BY SMT DEF Broken
<1> DEFINE t == Append(s, l)
<1>2. Write(s, l) = t
  BY <1>1, Zenon DEF Write
<1>3. /\ DOMAIN s = 1..Len(s) /\ Len(s) \in Nat
      /\ DOMAIN t = 1..(Len(s) + 1) /\ t[Len(s) + 1] = l
      /\ \A i \in 1..Len(s) : t[i] = s[i]
  BY SMT
<1> HIDE DEF t
<1>4. \A i \in DOMAIN t : (i \in DOMAIN s /\ t[i] = s[i]) \/ t[i] = l
  BY <1>3, SMT
<1>5. ~Broken(t)
  BY <1>4, SMT DEF Broken, Whole
<1>6. l.event # "artifact" => OKRecords(t) = OKRecords(s)
  <2> SUFFICES ASSUME l.event # "artifact" PROVE OKRecords(t) = OKRecords(s)
    OBVIOUS
  <2>1. \A i \in DOMAIN s : i \in DOMAIN t /\ t[i] = s[i]
    BY <1>3, SMT
  <2>2. {j \in DOMAIN t : t[j].event = "artifact"} = {j \in DOMAIN s : s[j].event = "artifact"}
    BY <1>3, <2>1, SMT
  <2> QED BY <2>1, <2>2, Zenon DEF OKRecords
<1>7. OKRecords(t) \subseteq OKRecords(s) \cup {l.arg}
  BY <1>4, Zenon DEF OKRecords
<1> QED
  BY <1>2, <1>5, <1>6, <1>7 DEF t

LEMMA LogWritten ==
    ASSUME TypeOK, LogsWhole, UNCHANGED sums, NEW f \in AppendOnly,
           NEW e \in Whole, NEW a \in ABlob \cup Nat, Log(f, Line(run, e, a))
    PROVE  /\ LogsWhole'
           /\ f # "man" => log'["man"] = log["man"]
           /\ e # "artifact" => OKRecords(log'[f]) = OKRecords(log[f])
           /\ OKRecords(log'[f]) \subseteq OKRecords(log[f]) \cup {a}
<1> DEFINE l == Line(run, e, a)
<1>1. l \in Lines /\ l.event = e /\ l.arg = a
  <2>1. e \in Events
    BY DEF Whole
  <2> QED BY <2>1, LogTypes, LineType, Zenon DEF Line
<1>2. log[f] \in Seq(Lines) /\ ~Broken(log[f])
  BY LogTypes DEF LogsWhole
<1> HIDE DEF l
<1> DEFINE w == Write(log[f], l)
<1>3. /\ ~Broken(w)
      /\ e # "artifact" => OKRecords(w) = OKRecords(log[f])
      /\ OKRecords(w) \subseteq OKRecords(log[f]) \cup {a}
  BY <1>1, <1>2, WriteWhole
<1>4. log' = [log EXCEPT ![f] = w]
  BY DEF Log, l
<1> HIDE DEF w
<1>5. log'[f] = w /\ \A g \in AppendOnly : g # f => log'[g] = log[g]
  BY <1>4, LogTypes, SMT
<1>6. "man" \in AppendOnly
  BY DEF AppendOnly
<1> QED
  BY <1>3, <1>5, <1>6, SMT DEF LogsWhole, Sealed

\* What the steps that leave the logs and the seal alone keep.
LEMMA LogsWholeSame ==
    ASSUME LogsWhole, UNCHANGED <<log, sums>>
    PROVE  LogsWhole'
  BY SMT DEF LogsWhole, Sealed

\* SealCustody writes two lines.
LEMMA CustodySealed ==
    ASSUME TypeOK, LogsWhole, SealCustody
    PROVE  LogsWhole' /\ log'["man"] = log["man"]
<1> DEFINE l == Line(run, "acquisition_completed", bld.round)
           m == Line(run, "package_sealed", bld.round)
           w == Write(log["cust"], l)
<1>1. /\ "acquisition_completed" \in Events /\ "package_sealed" \in Events
      /\ bld.round \in ABlob \cup Nat /\ "cust" \in AppendOnly
      /\ "acquisition_completed" \in Whole /\ "package_sealed" \in Whole
  BY BuilderFields, SMT DEF TypeOK, Events, AppendOnly, Whole
<1>2. l \in Lines /\ m \in Lines /\ l.event \in Whole /\ m.event \in Whole
  <2>1. l.event = "acquisition_completed" /\ m.event = "package_sealed"
    BY DEF Line
  <2> QED BY <1>1, <2>1, LogTypes, LineType
<1>3. log' = [log EXCEPT !["cust"] = Write(w, m)] /\ UNCHANGED sums
  BY DEF SealCustody
<1> HIDE DEF l, m
<1>4. log["cust"] \in Seq(Lines) /\ ~Broken(log["cust"])
  BY <1>1, LogTypes DEF LogsWhole
<1>5. w \in Seq(Lines) /\ ~Broken(w)
  BY <1>2, <1>4, WriteWhole, WriteType
<1> HIDE DEF w
<1>6. ~Broken(Write(w, m))
  BY <1>2, <1>5, WriteWhole
<1>7. log'["cust"] = Write(w, m) /\ \A g \in AppendOnly : g # "cust" => log'[g] = log[g]
  BY <1>1, <1>3, LogTypes, SMT
<1>8. "man" \in AppendOnly /\ "man" # "cust"
  BY DEF AppendOnly
<1> QED
  BY <1>3, <1>6, <1>7, <1>8, SMT DEF LogsWhole, Sealed

\* A cut leaves what the seal covers.
LEMMA CutWhole ==
    ASSUME TypeOK, RoundInv, LogsWhole, TruncateLogs
    PROVE  /\ LogsWhole'
           /\ Sealed
           /\ log'["man"] = log["man"] \/ log'["man"] = sums.log["man"]
<1>1. PICK f \in AppendOnly, p \in FromMan, q \in FromColl : Truncate(f, p, q)
  BY SMT DEF TruncateLogs, AppendOnly, FromMan, FromColl
<1>2. Sealed /\ UnsealedRound
  BY <1>1, SMT DEF Truncate, RoundInv, RollbackProgress
<1>3. SubSeq(log[f], 1, pend.lens[f]) = sums.log[f]
  BY <1>2, CutIsSealed DEF RoundInv, PendingMatchesSeal
<1>4. log' = log \/ log' = [log EXCEPT ![f] = sums.log[f]]
  BY <1>1, <1>3, Zenon DEF Truncate
<1>5. UNCHANGED sums
  BY <1>1 DEF Truncate
<1>6. \A g \in AppendOnly : log'[g] = log[g] \/ log'[g] = sums.log[g]
  BY <1>4, LogTypes, SMT
<1>7. "man" \in AppendOnly
  BY DEF AppendOnly
<1> QED
  BY <1>2, <1>5, <1>6, <1>7, SMT DEF LogsWhole, Sealed

\* The logs stay whole as long as every write succeeds.
LEMMA LogsWholeStep ==
    ASSUME ~WriteFaults, TypeOK, RoundInv, LogsWhole, [Next]_vars
    PROVE  LogsWhole'
<1> USE DEF disk, Goto
<1>1. ASSUME NEW v \in Builds, New(v) PROVE LogsWhole'
  <2>1. ~Sealed
    BY <1>1 DEF New, RoundInv, NothingPending
  <2>2. UNCHANGED sums
    BY <1>1 DEF New
  <2>3. \A f \in AppendOnly : ~Broken(log'[f])
    <3>1. /\ ~Broken(<<Line(run', "header", NoArg)>>) /\ ~Broken(<<>>)
          /\ ~Broken(<<Line(run', "acquisition_started", 1)>>)
      BY SMT DEF Broken, Line
    <3>2. log' = [man  |-> <<Line(run', "header", NoArg)>>, coll |-> <<>>,
                  cust |-> <<Line(run', "acquisition_started", 1)>>]
      BY <1>1 DEF New
    <3> QED BY <3>1, <3>2, SMT DEF AppendOnly
  <2> QED BY <2>1, <2>2, <2>3, SMT DEF LogsWhole, Sealed
<1>2. CASE TruncateLogs
  BY <1>2, CutWhole
<1>3. CASE StartRound
  <2>1. "acquisition_started" \in Whole /\ "cust" \in AppendOnly /\ bld.round \in ABlob \cup Nat
    BY BuilderFields, SMT DEF Whole, Events, AppendOnly, TypeOK
  <2> QED BY <1>3, <2>1, LogWritten, Zenon DEF StartRound
<1>4. CASE LogAborted
  <2>1. Head(bld.todo) \in ABlob \cup Nat
    BY <1>4, BuilderFields, SMT DEF TypeOK, LogAborted, Numbers
  <2>2. "round_aborted" \in Whole /\ "cust" \in AppendOnly
    BY SMT DEF Whole, Events, AppendOnly
  <2> QED BY <1>4, <2>1, <2>2, LogWritten, Zenon DEF LogAborted
<1>5. CASE RecordManifest \/ RecordCollection
  <2>1. "artifact" \in Whole /\ {"man", "coll"} \subseteq AppendOnly /\ bld.cur \in ABlob \cup Nat
    BY BuilderFields, SMT DEF Whole, Events, AppendOnly, TypeOK
  <2>2. /\ UNCHANGED sums
        /\ \E f \in {"man", "coll"} : Log(f, Line(run, "artifact", bld.cur))
    BY <1>5, Zenon DEF RecordManifest, RecordCollection, WriteFails
  <2> QED BY <2>1, <2>2, LogWritten, Zenon
<1>6. CASE SealCustody
  BY <1>6, CustodySealed
<1>7. CASE WriteSums
  <2>1. sums'.log = log /\ UNCHANGED log
    BY <1>7 DEF WriteSums
  <2> QED BY <2>1, SMT DEF LogsWhole
<1>8. CASE CloseNew
  <2>1. ~Sealed' /\ \A f \in AppendOnly : log'[f] = <<>>
    BY <1>8, SMT DEF CloseNew, NoSeal, NoLogs, Sealed
  <2> QED BY <2>1, SMT DEF LogsWhole, Broken
<1>9. ASSUME UNCHANGED <<log, sums>> PROVE LogsWhole'
  BY <1>9, LogsWholeSame
<1>10. ASSUME NEW v \in Builds, Reopen(v) PROVE LogsWhole'
  BY <1>9, <1>10 DEF Reopen
<1>11. ASSUME NEW b \in Blobs,
              RemoveBlob(b) \/ RemoveTmp(b) \/ Prepare(b) \/ CommitBlob(b) \/ CarryForward(b)
       PROVE  LogsWhole'
  BY <1>9, <1>11, Zenon DEF RemoveBlob, RemoveTmp, Prepare, CommitBlob, CarryForward
<1>12. CASE RollbackNothing \/ RollbackRefused \/ RollbackBegins \/ RestoreCase
            \/ RemoveArchived \/ RollbackEnds \/ NoteAborted \/ ReadPackage \/ ReadFails
  BY <1>9, <1>12, Zenon DEF RollbackNothing, RollbackRefused, RollbackBegins, RestoreCase,
     RemoveArchived, RollbackEnds, NoteAborted, ReadPackage, ReadFails
<1>13. CASE BeginPending \/ OpenLogs \/ TakeAborted \/ RoundOpen \/ ReplaceBlob
            \/ TruncateCase \/ WriteCase \/ ArchiveSeal \/ EndPending \/ CloseAdded \/ Crash
  BY <1>9, <1>13, Zenon DEF BeginPending, OpenLogs, TakeAborted, RoundOpen, ReplaceBlob,
     TruncateCase, WriteCase, ArchiveSeal, EndPending, CloseAdded, Crash
<1>14. CASE Stopped \/ UNCHANGED vars
  BY <1>9, <1>14 DEF Stopped, vars
<1> QED
  BY <1>1, <1>2, <1>3, <1>4, <1>5, <1>6, <1>7, <1>8, <1>10, <1>11, <1>12, <1>13, <1>14,
     Zenon DEF Next, Open, Rollback, OpenRound, Acquire, Seal

\* What TmpsOwned relies on.
LEMMA Stages ==
    ASSUME RoundInv
    PROVE  /\ pc \in Writing \cup {"append"} =>
                 (~Sealed /\ ~pend.on) \/ (pend.on /\ UnsealedRound)
           /\ pc \in FromMan => Sealed /\ UnsealedRound
           /\ pc # "idle" => dir
           /\ ~dir => ~Sealed /\ ~pend.on
           /\ pc \in {"rb_note", "read", "begin"} => ~UnsealedRound
<1>1. pend.on /\ pend.seal = sums.run => UnsealedRound
  BY DEF UnsealedRound, RoundCompleted
<1>2. ~pend.on => ~UnsealedRound
  BY DEF UnsealedRound
<1>3. pc \in Writing \cup {"append"} =>
        (~Sealed /\ ~pend.on) \/ (pend.on /\ UnsealedRound)
  BY <1>1, Zenon DEF RoundInv, WritersOwnARound
<1>4. pc \in FromMan => Sealed /\ UnsealedRound
  BY Zenon DEF RoundInv, RollbackProgress
<1>5. /\ pc # "idle" => dir
      /\ ~dir => ~Sealed /\ ~pend.on
      /\ pc \in {"rb_note", "read", "begin"} => ~pend.on
  BY DEF RoundInv, NothingPending
<1> QED
  BY <1>2, <1>3, <1>4, <1>5

LEMMA TmpsOwnedStep ==
    ASSUME TypeOK, BlobInv, BlobInv', RoundInv, RoundInv', TmpsOwned, [Next]_vars
    PROVE  TmpsOwned'
<1> USE DEF disk, Goto, TmpsOwned, Collecting, Sealing, Sealed, UnsealedRound, RoundCompleted
<1>1. /\ pc \in Writing \cup {"append"} =>
            (~Sealed /\ ~pend.on) \/ (pend.on /\ UnsealedRound)
      /\ pc \in FromMan => Sealed /\ UnsealedRound
      /\ pc # "idle" => dir
      /\ ~dir => ~Sealed /\ ~pend.on
      /\ pc # "commit_place" /\ pc' # "commit_place"
  BY Stages DEF BlobInv
<1> USE DEF Writing, FromMan
<1>2. ASSUME NEW v \in Builds, New(v) PROVE TmpsOwned'
  <2>1. /\ pc' = "collect" /\ dir' = TRUE /\ ~dir
        /\ UNCHANGED <<case, tmps, sums, pend>>
    BY <1>2 DEF New
  <2> QED BY <1>1, <2>1, SMT
<1>3. ASSUME NEW v \in Builds, Reopen(v) PROVE TmpsOwned'
  <2>1. pc = "idle" /\ pc' = "rb_check" /\ dir /\ UNCHANGED <<dir, case, tmps, sums, pend>>
    BY <1>3 DEF Reopen
  <2> QED BY <2>1, SMT
<1>4. ASSUME NEW b \in Blobs, RemoveTmp(b) PROVE TmpsOwned'
  <2>1. /\ pc = "rb_raw" /\ pc' = "rb_raw"
        /\ UNCHANGED <<dir, case, sums, pend>>
    BY <1>4 DEF RemoveTmp
  <2> QED BY <1>1, <2>1, SMT
<1>5. ASSUME NEW b \in Blobs, Prepare(b) \/ CarryForward(b) \/ CommitBlob(b) PROVE TmpsOwned'
  <2>1. /\ pc = "collect" /\ pc' \in Collecting
        /\ UNCHANGED <<dir, case, sums, pend>>
    BY <1>1, <1>5, SMT DEF Prepare, CarryForward, CommitBlob
  <2> QED BY <1>1, <2>1, SMT
<1>6. ASSUME NEW b \in Blobs, RemoveBlob(b) PROVE TmpsOwned'
  BY <1>6, SMT DEF RemoveBlob
<1>7. CASE RollbackNothing
  <2>1. /\ pc = "rb_check" /\ ~UnsealedRound /\ pend' = NoPend /\ pc' \in {"idle", "read"}
        /\ UNCHANGED <<dir, case, tmps, sums>>
    BY <1>7, SMT DEF RollbackNothing, AfterRollback
  <2> QED BY <2>1, SMT
<1>8. CASE RollbackRefused \/ RollbackBegins
  BY <1>1, <1>8, SMT DEF RollbackRefused, RollbackBegins
<1>9. CASE TruncateLogs
  <2>1. /\ pc \in FromMan /\ pc' \in {"rb_coll", "rb_cust", "rb_case", "idle"}
        /\ UNCHANGED <<dir, case, tmps, sums, pend>>
    BY <1>9, SMT DEF TruncateLogs, Truncate
  <2> QED BY <1>1, <2>1, SMT
<1>10. CASE RestoreCase
  BY <1>1, <1>10, SMT DEF RestoreCase
<1>11. CASE RemoveArchived
  BY <1>11, SMT DEF RemoveArchived
<1>12. CASE RollbackEnds
  BY <1>1, <1>12, SMT DEF RollbackEnds
<1>13. CASE NoteAborted
  BY <1>13, SMT DEF NoteAborted, AfterRollback
<1>14. CASE ReadPackage \/ ReadFails
  BY <1>14, SMT DEF ReadPackage, ReadFails
<1>15. CASE BeginPending
  <2>1. /\ pc' = "append" /\ pend'.on /\ pend'.seal = sums.run /\ dir
        /\ UNCHANGED <<dir, sums>>
    BY <1>1, <1>15, SMT DEF BeginPending
  <2> QED BY <2>1, SMT
<1>16. CASE OpenLogs
  BY <1>16, SMT DEF OpenLogs
<1>17. CASE StartRound \/ TakeAborted \/ LogAborted \/ RoundOpen
  BY <1>1, <1>17, SMT DEF StartRound, TakeAborted, LogAborted, RoundOpen
<1>18. CASE ReplaceBlob
  BY <1>1, <1>18 DEF ReplaceBlob
<1>19. CASE RecordManifest \/ RecordCollection
  <2>1. /\ pc \in Collecting /\ pc' \in Collecting
        /\ UNCHANGED <<dir, case, tmps, sums, pend>>
    BY <1>19, SMT DEF RecordManifest, RecordCollection, WriteFails
  <2> QED BY <2>1, SMT
<1>20. CASE SealCustody \/ ArchiveSeal
  BY <1>20, SMT DEF SealCustody, ArchiveSeal
<1>21. CASE TruncateCase \/ WriteCase
  BY <1>1, <1>21, SMT DEF TruncateCase, WriteCase
<1>22. CASE WriteSums
  <2>1. tmps = {} /\ tmps' = {} /\ pc' = "seal_end" /\ dir' = dir /\ dir
    BY <1>1, <1>22, SMT DEF WriteSums
  <2> QED BY <2>1, SMT
<1>23. CASE EndPending
  <2>1. tmps' = {} /\ pc' = "idle" /\ dir' = dir /\ dir
    BY <1>1, <1>23, SMT DEF EndPending
  <2> QED BY <2>1, SMT
<1>24. CASE CloseNew
  <2>1. tmps' = {} /\ pc' = "idle" /\ case'.state # "ok"
    BY <1>24, SMT DEF CloseNew, NoCase
  <2> QED BY <2>1, SMT
<1>25. CASE CloseAdded
  <2>1. tmps' = {} /\ pc' = "rb_check" /\ dir' = dir /\ dir
    BY <1>1, <1>25, SMT DEF CloseAdded, Unsealing
  <2> QED BY <2>1, SMT
<1>26. CASE Crash
  BY <1>1, <1>26, SMT DEF Crash
<1>27. CASE Stopped \/ UNCHANGED vars
  BY <1>27, SMT DEF Stopped, vars
<1> QED
  BY <1>2, <1>3, <1>4, <1>5, <1>6, <1>7, <1>8, <1>9, <1>10, <1>11, <1>12, <1>13, <1>14,
     <1>15, <1>16, <1>17, <1>18, <1>19, <1>20, <1>21, <1>22, <1>23, <1>24, <1>25, <1>26,
     <1>27, Zenon DEF Next, Open, Rollback, OpenRound, Acquire, Seal

\* raw/ before and after the one step that places a blob.
LEMMA BlobPlaced ==
    ASSUME SameBuild, TypeOK, BlobInv, NEW b \in Blobs, CommitBlob(b)
    PROVE  /\ pc' = "commit_man" /\ bld'.cur = b
           /\ \A c \in Blobs : Stored(c) => Stored(c)'
           /\ Stored(b)'
<1>1. bld.build \in Builds /\ bld.build # Absent /\ raw \in RawFiles /\ bld \in Builders
  <2>1. pc # "idle"
    BY DEF CommitBlob
  <2>2. bld.build \in Builds
    BY <2>1 DEF BlobInv
  <2> QED BY <2>2, BuildsAssumption, SMT DEF TypeOK, Absent
<1>2. Stored(b) => raw[b] = bld.build
  BY <1>1 DEF SameBuild, RawFiles, Bytes, Stored
<1>3. /\ pc' = "commit_man"
      /\ raw' = [raw EXCEPT ![b] = bld.build] \/ (raw' = raw /\ Stored(b))
  <2>1. CASE ~Stored(b) /\ raw' = [raw EXCEPT ![b] = bld.build] /\ pc' = "commit_man"
    BY <2>1
  <2>2. CASE raw[b] = bld.build /\ raw' = raw /\ pc' = "commit_man"
    BY <1>1, <2>2 DEF Stored
  <2>3. CASE Stored(b) /\ raw[b] # bld.build
    BY <1>2, <2>3
  <2> QED BY <2>1, <2>2, <2>3, Zenon DEF CommitBlob, Goto
<1>4. bld'.cur = b
  BY <1>1 DEF CommitBlob, Builders
<1>5. \A c \in Blobs : raw'[c] = raw[c] \/ (c = b /\ raw'[c] = bld.build)
  <2>1. CASE raw' = raw
    BY <2>1
  <2>2. CASE raw' = [raw EXCEPT ![b] = bld.build]
    BY <1>1, <2>2, SMT DEF RawFiles
  <2> QED BY <1>3, <2>1, <2>2
<1>6. raw'[b] # Absent
  BY <1>1, <1>3, SMT DEF RawFiles, Stored
<1> QED
  BY <1>1, <1>3, <1>4, <1>5, <1>6, SMT DEF Stored

LEMMA NothingUnlistedStep ==
    ASSUME SameBuild, TypeOK, TypeOK', BlobInv, BlobInv', RoundInv, RoundInv',
           NothingUnlisted, [Next]_vars
    PROVE  NothingUnlisted'
<1> USE DEF disk, Goto
<1>1. /\ pc \in Writing \cup {"append"} =>
            (~Sealed /\ ~pend.on) \/ (pend.on /\ UnsealedRound)
      /\ pc \in FromMan => Sealed /\ UnsealedRound
      /\ pc # "idle" => dir
      /\ ~dir => ~Sealed /\ ~pend.on
      /\ pc # "commit_place" /\ pc' # "commit_place"
  BY Stages DEF BlobInv
<1> USE DEF NothingUnlisted, Sealed
\* A step that leaves raw/ and the seal alone, and opens or ends no round.
<1>2. ASSUME UNCHANGED <<raw, sums>>, UnsealedRound => UnsealedRound', pc' # "rb_end"
      PROVE  NothingUnlisted'
  BY <1>2, SMT
<1>3. ASSUME UNCHANGED <<raw, sums, pend>>, pc' # "rb_end"
      PROVE  NothingUnlisted'
  <2>1. UnsealedRound => UnsealedRound'
    BY <1>3, SMT DEF UnsealedRound, RoundCompleted
  <2> QED BY <1>2, <1>3, <2>1
<1>4. ASSUME NEW v \in Builds, New(v) \/ Reopen(v) PROVE NothingUnlisted'
  <2>1. UNCHANGED <<raw, sums, pend>>
    BY <1>4, Zenon DEF New, Reopen
  <2>2. pc' \in {"collect", "rb_check"}
    BY <1>4, Zenon DEF New, Reopen
  <2> QED BY <1>3, <2>1, <2>2
<1>5. ASSUME NEW b \in Blobs, RemoveBlob(b) PROVE NothingUnlisted'
  <2>1. pc = "rb_raw" /\ pc' = "rb_raw" /\ UNCHANGED <<sums, pend>>
    BY <1>5 DEF RemoveBlob
  <2>2. UnsealedRound
    BY <1>1, <2>1, SMT DEF FromMan
  <2>3. UnsealedRound'
    BY <2>1, <2>2, SMT DEF UnsealedRound, RoundCompleted
  <2> QED BY <2>1, <2>3, SMT
<1>6. ASSUME NEW b \in Blobs, CommitBlob(b) PROVE NothingUnlisted'
  <2>1. pc = "collect" /\ pc' # "rb_end" /\ UNCHANGED <<sums, pend>>
    BY <1>6, SMT DEF CommitBlob
  <2>2. ~Sealed \/ UnsealedRound
    BY <1>1, <2>1, SMT DEF Writing
  <2>3. ~Sealed' \/ UnsealedRound'
    BY <2>1, <2>2, SMT DEF UnsealedRound, RoundCompleted
  <2> QED BY <2>1, <2>3
<1>7. ASSUME NEW b \in Blobs, RemoveTmp(b) \/ Prepare(b) \/ CarryForward(b)
      PROVE NothingUnlisted'
  <2>1. UNCHANGED <<raw, sums, pend>> /\ pc' # "rb_end"
    BY <1>7, SMT DEF RemoveTmp, Prepare, CarryForward
  <2> QED BY <1>3, <2>1
<1>8. CASE RollbackNothing
  <2>1. UNCHANGED <<raw, sums>> /\ pc' # "rb_end" /\ ~UnsealedRound
    BY <1>8, SMT DEF RollbackNothing, AfterRollback
  <2> QED BY <1>2, <2>1
<1>9. CASE RollbackRefused \/ RollbackBegins \/ TruncateLogs \/ RestoreCase
  <2>1. UNCHANGED <<raw, sums, pend>> /\ pc' # "rb_end"
    BY <1>9, SMT DEF RollbackRefused, RollbackBegins, TruncateLogs, Truncate, RestoreCase
  <2> QED BY <1>3, <2>1
<1>10. CASE RemoveArchived
  <2>1. /\ \A b \in Blobs : Stored(b) => sums.raw[b] # Absent
        /\ UNCHANGED <<raw, sums>>
    BY <1>10 DEF RemoveArchived
  <2>2. \A b \in Blobs : raw[b] = sums.raw[b]
    BY <2>1, SMT DEF BlobInv, SealedBlobsPreserved, Stored
  <2>3. raw \in RawFiles /\ sums.raw \in RawFiles
    BY SMT DEF TypeOK, Seals
  <2>4. raw = sums.raw
    BY <2>2, <2>3, SMT DEF RawFiles
  <2> QED BY <2>1, <2>4, SMT
<1>11. CASE RollbackEnds
  <2>1. pc = "rb_end" /\ UNCHANGED <<raw, sums>>
    BY <1>11 DEF RollbackEnds
  <2> QED BY <2>1, SMT
<1>12. CASE NoteAborted \/ ReadPackage \/ ReadFails \/ OpenLogs
  <2>1. UNCHANGED <<raw, sums, pend>> /\ pc' # "rb_end"
    BY <1>12, SMT DEF NoteAborted, ReadPackage, ReadFails, OpenLogs, AfterRollback
  <2> QED BY <1>3, <2>1
<1>13. CASE BeginPending
  <2>1. /\ pc' = "append" /\ pend'.on /\ pend'.seal = sums.run
        /\ UNCHANGED <<raw, sums>>
    BY <1>13, SMT DEF BeginPending
  <2>2. UnsealedRound'
    BY <2>1, SMT DEF UnsealedRound, RoundCompleted
  <2> QED BY <2>1, <2>2, SMT
<1>14. CASE StartRound \/ TakeAborted \/ LogAborted \/ RoundOpen
  <2>1. UNCHANGED <<raw, sums, pend>> /\ pc' # "rb_end"
    BY <1>14, SMT DEF StartRound, TakeAborted, LogAborted, RoundOpen
  <2> QED BY <1>3, <2>1
<1>15. CASE ReplaceBlob
  BY <1>1, <1>15 DEF ReplaceBlob
<1>16. CASE RecordManifest \/ RecordCollection
  <2>1. UNCHANGED <<raw, sums, pend>> /\ pc' # "rb_end"
    BY <1>16, SMT DEF RecordManifest, RecordCollection, WriteFails
  <2> QED BY <1>3, <2>1
<1>17. CASE SealCustody \/ TruncateCase \/ WriteCase \/ ArchiveSeal
  <2>1. UNCHANGED <<raw, sums, pend>> /\ pc' # "rb_end"
    BY <1>17, SMT DEF SealCustody, TruncateCase, WriteCase, ArchiveSeal
  <2> QED BY <1>3, <2>1
<1>18. CASE WriteSums
  <2>1. sums'.raw = raw /\ UNCHANGED raw
    BY <1>18 DEF WriteSums
  <2> QED BY <2>1
<1>19. CASE EndPending
  <2>1. pc = "seal_end" /\ pc' = "idle" /\ UNCHANGED <<raw, sums>>
    BY <1>19 DEF EndPending
  <2>2. ~UnsealedRound
    BY <2>1 DEF RoundInv, NothingPending
  <2> QED BY <1>2, <2>1, <2>2, SMT
<1>20. CASE CloseNew
  <2>1. ~Sealed'
    BY <1>20 DEF CloseNew, NoSeal
  <2> QED BY <2>1
<1>21. CASE CloseAdded \/ Crash
  <2>1. UNCHANGED <<raw, sums, pend>> /\ pc' # "rb_end"
    BY <1>21, SMT DEF CloseAdded, Crash
  <2> QED BY <1>3, <2>1
<1>22. CASE Stopped \/ UNCHANGED vars
  <2>1. UNCHANGED <<raw, sums, pend, pc>>
    BY <1>22, SMT DEF Stopped, vars
  <2>2. UnsealedRound' = UnsealedRound
    BY <2>1, SMT DEF UnsealedRound, RoundCompleted
  <2> QED BY <2>1, <2>2, SMT
<1> QED
  BY <1>4, <1>5, <1>6, <1>7, <1>8, <1>9, <1>10, <1>11, <1>12, <1>13, <1>14,
     <1>15, <1>16, <1>17, <1>18, <1>19, <1>20, <1>21, <1>22,
     Zenon DEF Next, Open, Rollback, OpenRound, Acquire, Seal

\* Records stay stored while raw/ and the seal only grow by what they lack.
LEMMA RecordsKept ==
    ASSUME RecordsStored, UNCHANGED sums,
           \A b \in OKRecords(log'["man"]) : b \in OKRecords(log["man"]),
           \A b \in Blobs : Stored(b) => Stored(b)',
           pc' = "commit_man" => bld'.cur \in Blobs /\ raw'[bld'.cur] # Absent
    PROVE  RecordsStored'
  BY SMT DEF RecordsStored, Sealed, Stored

LEMMA RecordsStoredStep ==
    ASSUME SameBuild, ~WriteFaults, TypeOK, BlobInv, BlobInv', RoundInv, RoundInv',
           LogsWhole, RecordsStored, [Next]_vars
    PROVE  RecordsStored'
<1> USE DEF disk, Goto
<1>1. "man" \in AppendOnly
  BY DEF AppendOnly
<1>2. ASSUME UNCHANGED <<raw, sums>>, pc' # "commit_man", log'["man"] = log["man"]
      PROVE  RecordsStored'
  <2>1. \A b \in Blobs : Stored(b) => Stored(b)'
    BY <1>2 DEF Stored
  <2> QED BY <1>2, <2>1, RecordsKept
<1>3. ASSUME NEW v \in Builds, New(v) PROVE RecordsStored'
  <2>1. ~Sealed /\ UNCHANGED sums /\ pc' = "collect"
    BY <1>3 DEF New, RoundInv, NothingPending
  <2>2. log'["man"] = <<Line(run', "header", NoArg)>>
    BY <1>3 DEF New
  <2>3. OKRecords(log'["man"]) = {}
    BY <2>2, SMT DEF OKRecords, Line
  <2> QED BY <2>1, <2>3, SMT DEF RecordsStored, Sealed
<1>4. ASSUME NEW v \in Builds, Reopen(v) PROVE RecordsStored'
  BY <1>2, <1>4, SMT DEF Reopen
<1>5. ASSUME NEW b \in Blobs, RemoveBlob(b) PROVE RecordsStored'
  <2>1. /\ pc = "rb_raw" /\ sums.raw[b] = Absent /\ raw' = [raw EXCEPT ![b] = Absent]
        /\ UNCHANGED <<sums, log, pc>>
    BY <1>5 DEF RemoveBlob
  <2>2. Sealed /\ log["man"] = sums.log["man"]
    BY <2>1, SMT DEF RoundInv, RollbackProgress, FromMan, FromColl, FromCust, FromCase
  <2>3. \A c \in Blobs : sums.raw[c] # Absent => c # b /\ raw[c] # Absent
    BY <2>1, SMT DEF BlobInv, SealedBlobsPreserved
  <2>4. \A c \in Blobs : c # b => raw'[c] = raw[c]
    BY <2>1 DEF TypeOK, RawFiles
  <2> QED BY <2>1, <2>2, <2>3, <2>4, SMT DEF RecordsStored, Sealed, Stored
<1>6. ASSUME NEW b \in Blobs, RemoveTmp(b) \/ Prepare(b) PROVE RecordsStored'
  BY <1>2, <1>6, SMT DEF RemoveTmp, Prepare
<1>7. ASSUME NEW b \in Blobs, CommitBlob(b) PROVE RecordsStored'
  <2>1. UNCHANGED <<sums, log>>
    BY <1>7 DEF CommitBlob
  <2>2. /\ \A c \in Blobs : Stored(c) => Stored(c)'
        /\ bld'.cur \in Blobs /\ raw'[bld'.cur] # Absent
    BY <1>7, BlobPlaced DEF Stored
  <2> QED BY <2>1, <2>2, RecordsKept
<1>8. ASSUME NEW b \in Blobs, CarryForward(b) PROVE RecordsStored'
  <2>1. UNCHANGED <<sums, log, raw>> /\ Stored(b)
    BY <1>8 DEF CarryForward
  <2>2. bld'.cur = b
    BY <1>8 DEF CarryForward, TypeOK, Builders
  <2>3. \A c \in Blobs : Stored(c) => Stored(c)'
    BY <2>1 DEF Stored
  <2>4. bld'.cur \in Blobs /\ raw'[bld'.cur] # Absent
    BY <2>1, <2>2 DEF Stored
  <2> QED BY <2>1, <2>3, <2>4, RecordsKept
<1>9. CASE TruncateLogs
  <2>1. /\ Sealed
        /\ log'["man"] = log["man"] \/ log'["man"] = sums.log["man"]
    BY <1>9, CutWhole
  <2>2. UNCHANGED <<sums, raw>> /\ pc' # "commit_man"
    BY <1>9, SMT DEF TruncateLogs, Truncate
  <2>3. \A b \in OKRecords(sums.log["man"]) : b \in Blobs /\ Stored(b)
    BY <2>1, SMT DEF RecordsStored, BlobInv, SealedBlobsPreserved, Stored
  <2> QED BY <2>1, <2>2, <2>3, SMT DEF RecordsStored, Sealed, Stored
<1>10. CASE RollbackNothing \/ RollbackRefused \/ RollbackBegins \/ RestoreCase
            \/ RemoveArchived \/ RollbackEnds \/ NoteAborted
  BY <1>2, <1>10, SMT DEF RollbackNothing, RollbackRefused, RollbackBegins, RestoreCase,
     RemoveArchived, RollbackEnds, NoteAborted, AfterRollback
<1>11. CASE ReadPackage \/ ReadFails \/ BeginPending \/ OpenLogs \/ TakeAborted \/ RoundOpen
  BY <1>2, <1>11, SMT DEF ReadPackage, ReadFails, BeginPending, OpenLogs, TakeAborted,
     RoundOpen
<1>12. CASE StartRound
  <2>1. "acquisition_started" \in Whole /\ "cust" \in AppendOnly /\ bld.round \in ABlob \cup Nat
    BY BuilderFields, SMT DEF Whole, Events, AppendOnly, TypeOK
  <2>2. Log("cust", Line(run, "acquisition_started", bld.round))
        /\ UNCHANGED <<raw, sums>> /\ pc' # "commit_man"
    BY <1>12, SMT DEF StartRound
  <2>3. log'["man"] = log["man"]
    BY <2>1, <2>2, LogWritten
  <2> QED BY <1>2, <2>2, <2>3
<1>13. CASE LogAborted
  <2>1. Head(bld.todo) \in ABlob \cup Nat
    BY <1>13, BuilderFields, SMT DEF TypeOK, LogAborted, Numbers
  <2>2. "round_aborted" \in Whole /\ "cust" \in AppendOnly
    BY SMT DEF Whole, Events, AppendOnly
  <2>3. Log("cust", Line(run, "round_aborted", Head(bld.todo)))
        /\ UNCHANGED <<raw, sums>> /\ pc' # "commit_man"
    BY <1>13, SMT DEF LogAborted
  <2>4. log'["man"] = log["man"]
    BY <2>1, <2>2, <2>3, LogWritten
  <2> QED BY <1>2, <2>3, <2>4
<1>14. CASE ReplaceBlob
  BY <1>14 DEF ReplaceBlob, BlobInv
<1>15. CASE RecordManifest
  <2>1. "artifact" \in Whole /\ bld.cur \in ABlob \cup Nat
    BY BuilderFields, SMT DEF Whole, Events, TypeOK
  <2>2. /\ UNCHANGED <<sums, raw>> /\ pc = "commit_man" /\ pc' = "commit_coll"
        /\ Log("man", Line(run, "artifact", bld.cur))
    BY <1>15, Zenon DEF RecordManifest, WriteFails
  <2>3. OKRecords(log'["man"]) \subseteq OKRecords(log["man"]) \cup {bld.cur}
    BY <1>1, <2>1, <2>2, LogWritten
  <2> QED BY <2>2, <2>3, SMT DEF RecordsStored, Sealed, Stored
<1>16. CASE RecordCollection
  <2>1. "artifact" \in Whole /\ bld.cur \in ABlob \cup Nat /\ "coll" \in AppendOnly
    BY BuilderFields, SMT DEF Whole, Events, TypeOK, AppendOnly
  <2>2. /\ UNCHANGED <<sums, raw>> /\ pc' = "collect"
        /\ Log("coll", Line(run, "artifact", bld.cur))
    BY <1>16, Zenon DEF RecordCollection, WriteFails
  <2>3. log'["man"] = log["man"]
    BY <2>1, <2>2, LogWritten
  <2> QED BY <1>2, <2>2, <2>3
<1>17. CASE SealCustody
  <2>1. UNCHANGED <<raw, sums>> /\ pc' # "commit_man"
    BY <1>17, SMT DEF SealCustody
  <2> QED BY <1>2, <1>17, <2>1, CustodySealed
<1>18. CASE TruncateCase \/ WriteCase \/ ArchiveSeal \/ EndPending
  BY <1>2, <1>18, SMT DEF TruncateCase, WriteCase, ArchiveSeal, EndPending
<1>19. CASE WriteSums
  <2>1. sums'.raw = raw /\ sums'.log = log /\ UNCHANGED <<log, raw>> /\ pc' = "seal_end"
    BY <1>19 DEF WriteSums
  <2> QED BY <2>1, SMT DEF RecordsStored, Stored
<1>20. CASE CloseNew
  <2>1. ~Sealed' /\ pc' = "idle"
    BY <1>20 DEF CloseNew, NoSeal, Sealed
  <2>2. log'["man"] = <<>>
    BY <1>1, <1>20, SMT DEF CloseNew, NoLogs
  <2>3. OKRecords(log'["man"]) = {}
    BY <2>2, SMT DEF OKRecords
  <2> QED BY <2>1, <2>3, SMT DEF RecordsStored
<1>21. CASE CloseAdded \/ Crash
  BY <1>2, <1>21, SMT DEF CloseAdded, Crash
<1>22. CASE Stopped \/ UNCHANGED vars
  <2>1. UNCHANGED <<raw, sums, log, pc, bld>>
    BY <1>22, SMT DEF Stopped, vars
  <2> QED BY <2>1, SMT DEF RecordsStored, Sealed, Stored
<1> QED
  BY <1>3, <1>4, <1>5, <1>6, <1>7, <1>8, <1>9, <1>10, <1>11, <1>12, <1>13, <1>14,
     <1>15, <1>16, <1>17, <1>18, <1>19, <1>20, <1>21, <1>22,
     Zenon DEF Next, Open, Rollback, OpenRound, Acquire, Seal

\* agentdfir verify finds no problem in a sealed package that no round is open
\* on, whatever rounds were sealed, died or were rolled back before (verify,
\* rollbackPending, Seal): as long as one build collects every round and no
\* write to a log fails.
THEOREM SealedVerifies ==
    ASSUME SameBuild, ~WriteFaults PROVE Spec => []AtRestVerifies
<1> DEFINE I == TypeInv /\ RoundTaken /\ RoundInv /\ BlobInv /\ RestInv
<1>1. Init => I
  BY TypeInit, RoundTakenInit, RoundInvInit, BlobInit, RestInit
<1>2. I /\ [Next]_vars => I'
  <2> SUFFICES ASSUME I, [Next]_vars PROVE I'
    OBVIOUS
  <2>1. (TypeInv /\ RoundTaken /\ RoundInv /\ BlobInv)'
    BY TypeStep, RoundTakenStep, RoundInvStep, BlobStep DEF TypeInv
  <2>2. TypeOK /\ TypeOK'
    BY <2>1 DEF TypeInv
  <2>3. LogsWhole'
    BY <2>2, LogsWholeStep DEF RestInv
  <2>4. TmpsOwned'
    BY <2>1, <2>2, TmpsOwnedStep DEF RestInv
  <2>5. NothingUnlisted'
    BY <2>1, <2>2, NothingUnlistedStep DEF RestInv
  <2>6. RecordsStored'
    BY <2>1, <2>2, RecordsStoredStep DEF RestInv
  <2> QED BY <2>1, <2>3, <2>4, <2>5, <2>6 DEF RestInv
<1>3. I => AtRestVerifies
  <2> SUFFICES ASSUME I, pc = "idle", Sealed, ~UnsealedRound PROVE Verifies
    BY DEF AtRestVerifies
  <2>1. log = sums.log /\ case = sums.case /\ seals = sums.seals
    BY DEF RoundInv, RestoredExactly
  <2>2. raw = sums.raw
    BY DEF RestInv, NothingUnlisted
  <2>3. tmps = {}
    BY SMT DEF RestInv, TmpsOwned, Collecting
  <2>4. \A f \in AppendOnly : ~Broken(log[f])
    BY DEF RestInv, LogsWhole
  <2>5. \A b \in OKRecords(log["man"]) : Stored(b)
    BY DEF RestInv, RecordsStored
  <2> QED BY <2>1, <2>2, <2>3, <2>4, <2>5 DEF Verifies
<1> HIDE DEF I
<1> QED
  BY <1>1, <1>2, <1>3, PTL DEF Spec

-----------------------------------------------------------------------------
(***************************************************************************)
(* A round is sealed or rolled back, never both, and no line of a rolled   *)
(* back one is ever sealed.  What makes it so is that the runs are told    *)
(* apart, by the lines they wrote, by the seal in place and by the pending *)
(* file.                                                                   *)
(*                                                                         *)
(* From there CasePackage is shown to implement SealedHistory: the seals   *)
(* that follow one another only ever add to what they cover.               *)
(***************************************************************************)
\* A line of a run there has been, that was not rolled back; and an abort it
\* notes is that of a run that was.
GoodLine(l, n, D) ==
    l.run <= n /\ l.run \notin D /\ (l.event = "round_aborted" => l.arg \in D)
GoodLines(s, n, D) == \A i \in DOMAIN s : GoodLine(s[i], n, D)
GoodLogs(g, n, D)  == \A f \in AppendOnly : GoodLines(g[f], n, D)

LinesGood == GoodLogs(log, run, rolled) /\ GoodLogs(sums.log, run, rolled)

\* A sealed run was not rolled back, and both are runs there have been.
RunsApart ==
    /\ \A r \in rolled : r <= run
    /\ \A i \in DOMAIN hist : hist[i][2] <= run /\ hist[i][2] \notin rolled
    /\ pc \in Writing \cup {"append"} => run \notin rolled

\* A round that may be rolled back is none that the seal in place knows of.
PendingApart ==
    /\ pend.on => pend.run <= run
    /\ UnsealedRound =>
        /\ \A f \in AppendOnly : \A i \in DOMAIN sums.log[f] : sums.log[f][i].run # pend.run
        /\ \A i \in DOMAIN hist : hist[i][2] # pend.run

\* What is to be noted as aborted was rolled back.
NotedRolledBack ==
    /\ \A i \in DOMAIN aborted : aborted[i] \in rolled
    /\ \A i \in DOMAIN bld.todo : bld.todo[i] \in rolled

AbortInv == LinesGood /\ RunsApart /\ PendingApart /\ NotedRolledBack
-----------------------------------------------------------------------------
\* Writing a good line after good ones.
LEMMA WriteGood ==
    ASSUME NEW s \in Seq(Lines), NEW l \in Lines, NEW n, NEW D,
           GoodLines(s, n, D), GoodLine(l, n, D)
    PROVE  GoodLines(Write(s, l), n, D)
<1>1. CASE s # <<>> /\ s[Len(s)].event = "torn"
  <2> DEFINE e == [s[Len(s)] EXCEPT !.event = "glued"]
  <2>1. Len(s) \in DOMAIN s /\ s[Len(s)] \in Lines /\ GoodLine(s[Len(s)], n, D)
    BY <1>1 DEF GoodLines
  <2>2. e.run = s[Len(s)].run /\ e.event = "glued"
    BY <2>1 DEF Lines
  <2>3. GoodLine(e, n, D)
    BY <2>1, <2>2 DEF GoodLine
  <2>4. Write(s, l) = [s EXCEPT ![Len(s)] = e]
    BY <1>1, Zenon DEF Write
  <2> HIDE DEF e
  <2> QED BY <2>1, <2>3, <2>4 DEF GoodLines
<1>2. CASE ~(s # <<>> /\ s[Len(s)].event = "torn")
  BY <1>2 DEF Write, GoodLines
<1> QED BY <1>1, <1>2

LEMMA LineFields ==
    ASSUME NEW r, NEW e, NEW a
    PROVE  Line(r, e, a).run = r /\ Line(r, e, a).event = e /\ Line(r, e, a).arg = a
  BY DEF Line

\* A builder in a round appends a line of its run to a log.
LEMMA LogGood ==
    ASSUME TypeOK, AbortInv, pc \in Writing,
           NEW f \in AppendOnly, NEW e \in Events, NEW a \in ABlob \cup Nat,
           e = "round_aborted" => a \in rolled, Log(f, Line(run, e, a))
    PROVE  GoodLogs(log', run, rolled)
<1>1. run \notin rolled /\ run <= run
  BY LogTypes DEF AbortInv, RunsApart
<1>2. GoodLine(Line(run, e, a), run, rolled)
  BY <1>1, LineFields DEF GoodLine
<1>3. Line(run, e, a) \in Lines
  BY LogTypes, LineType
<1> SUFFICES ASSUME NEW g \in AppendOnly PROVE GoodLines(log'[g], run, rolled)
  BY DEF GoodLogs
<1>4. log[g] \in Seq(Lines) /\ GoodLines(log[g], run, rolled)
  BY LogTypes DEF AbortInv, LinesGood, GoodLogs
<1>5. GoodLines(Write(log[g], Line(run, e, a)), run, rolled)
  BY <1>2, <1>3, <1>4, WriteGood
<1>6. log'[g] = IF g = f THEN Write(log[g], Line(run, e, a)) ELSE log[g]
  BY LogTypes, Zenon DEF Log
<1> QED BY <1>4, <1>5, <1>6

\* What was good stays good when runs are added and when it is not of a run rolled back.
LEMMA StaysGood ==
    ASSUME NEW n \in Nat, NEW m \in Nat, n <= m, NEW D, NEW E, D \subseteq E,
           NEW g \in [AppendOnly -> Seq(Lines)], GoodLogs(g, n, D),
           \A f \in AppendOnly : \A i \in DOMAIN g[f] : g[f][i].run \notin E \ D
    PROVE  GoodLogs(g, m, E)
<1> SUFFICES ASSUME NEW f \in AppendOnly, NEW i \in DOMAIN g[f]
             PROVE  GoodLine(g[f][i], m, E)
  BY DEF GoodLogs, GoodLines
<1> DEFINE l == g[f][i]
<1>1. GoodLine(l, n, D) /\ l.run \in Nat /\ l.run \notin E \ D
  <2>1. g[f] \in Seq(Lines)
    OBVIOUS
  <2>2. l \in Lines /\ GoodLine(l, n, D)
    BY <2>1 DEF GoodLogs, GoodLines
  <2>3. l.run \in Nat
    BY <2>2 DEF Lines
  <2> QED BY <2>2, <2>3
<1> HIDE DEF l
<1>2. l.run <= m
  BY <1>1 DEF GoodLine
<1>3. GoodLine(l, m, E)
  BY <1>1, <1>2 DEF GoodLine
<1> QED BY <1>3 DEF l

LEMMA AbortInit == Init => AbortInv
<1> SUFFICES ASSUME Init PROVE AbortInv
  OBVIOUS
<1>1. log = NoLogs /\ sums.log = NoLogs /\ rolled = {} /\ hist = <<>> /\ aborted = <<>>
  BY DEF Init, NoSeal
<1>2. ~pend.on /\ ~UnsealedRound /\ pc = "idle" /\ bld.todo = <<>>
  BY DEF Init, NoPend, UnsealedRound, NoBuilder, Builder
<1>3. LinesGood
  BY <1>1 DEF LinesGood, GoodLogs, GoodLines, NoLogs
<1>4. RunsApart
  BY <1>1, <1>2 DEF RunsApart, Writing
<1>5. PendingApart
  BY <1>1, <1>2 DEF PendingApart
<1>6. NotedRolledBack
  BY <1>1, <1>2 DEF NotedRolledBack
<1> QED BY <1>3, <1>4, <1>5, <1>6 DEF AbortInv

-----------------------------------------------------------------------------
\* The steps that change no line, no run and no round rolled back.
Same == UNCHANGED <<log, sums, run, rolled, hist>>

LEMMA LinesStep ==
    ASSUME TypeOK, RoundInv, AbortInv, [Next]_vars
    PROVE  LinesGood'
<1> USE DEF disk
<1>0. LinesGood /\ run \in Nat /\ pend.run \in Nat
  BY DEF AbortInv, TypeOK, Pendings
<1>1. ASSUME Same PROVE LinesGood'
  BY <1>0, <1>1, Zenon DEF Same, LinesGood
<1>2. ASSUME GoodLogs(log', run, rolled), UNCHANGED <<sums, run, rolled>> PROVE LinesGood'
  BY <1>0, <1>2, Zenon DEF LinesGood
<1>3. ASSUME run' = run + 1, UNCHANGED rolled
      PROVE  GoodLogs(log, run', rolled') /\ GoodLogs(sums.log, run', rolled')
  <2>1. run + 1 \in Nat /\ run <= run + 1
    BY <1>0
  <2>2. GoodLogs(log, run + 1, rolled) /\ GoodLogs(sums.log, run + 1, rolled)
    BY <1>0, <2>1, LogTypes, StaysGood DEF LinesGood
  <2> QED BY <1>3, <2>2, Zenon
<1>4. ASSUME NEW v \in Builds, New(v) PROVE LinesGood'
  <2>1. run' = run + 1 /\ UNCHANGED <<sums, rolled>>
    BY <1>4 DEF New
  <2> DEFINE h == Line(run', "header", NoArg)
             a == Line(run', "acquisition_started", 1)
  <2>2. log' = [man |-> <<h>>, coll |-> <<>>, cust |-> <<a>>]
    BY <1>4 DEF New
  <2>3. run' <= run' /\ run' \notin rolled
    <3>1. \A r \in rolled : r <= run
      BY DEF AbortInv, RunsApart
    <3>2. ~(run + 1 <= run)
      BY <1>0
    <3>3. run' <= run'
      BY <1>0, <2>1
    <3> QED BY <2>1, <3>1, <3>2, <3>3
  <2>4. GoodLine(h, run', rolled) /\ GoodLine(a, run', rolled)
    BY <2>3, LineFields DEF GoodLine
  <2> HIDE DEF h, a
  <2>5. GoodLogs(log', run', rolled')
    BY <2>1, <2>2, <2>4 DEF GoodLogs, GoodLines, AppendOnly
  <2>6. GoodLogs(sums.log, run', rolled')
    BY <1>3, <2>1
  <2> QED BY <2>1, <2>5, <2>6, Zenon DEF LinesGood
<1>5. CASE BeginPending
  <2>1. run' = run + 1 /\ UNCHANGED <<log, sums, rolled>>
    BY <1>5 DEF BeginPending
  <2> QED BY <1>3, <2>1, Zenon DEF LinesGood
<1>6. CASE TruncateLogs
  <2>1. ASSUME NEW f \in AppendOnly, NEW p, NEW q, Truncate(f, p, q) PROVE LinesGood'
    <3>1. UNCHANGED <<sums, run, rolled>>
      BY <2>1 DEF Truncate
    <3> SUFFICES ASSUME NEW g \in AppendOnly PROVE GoodLines(log'[g], run, rolled)
      BY <1>2, <3>1 DEF GoodLogs
    <3>2. log[g] \in Seq(Lines) /\ log[f] \in Seq(Lines) /\ GoodLines(log[g], run, rolled)
      BY <1>0, LogTypes DEF LinesGood, GoodLogs
    <3>3. CASE UNCHANGED log
      BY <3>2, <3>3
    <3>4. CASE ~(Len(log[f]) < pend.lens[f]) /\ log' = [log EXCEPT ![f] = SubSeq(@, 1, pend.lens[f])]
      <4> DEFINE n == pend.lens[f]
                 s == log[f]
                 c == SubSeq(s, 1, n)
      <4>1. n \in Nat /\ s \in Seq(Lines)
        BY <3>2 DEF TypeOK, Pendings
      <4>2. log'[g] = IF g = f THEN c ELSE log[g]
        BY <3>4, LogTypes
      <4>3. n <= Len(s)
        BY <3>4, <4>1
      <4> HIDE DEF n, s
      <4>4. DOMAIN c \subseteq DOMAIN s /\ \A i \in DOMAIN c : c[i] = s[i]
        BY <4>1, <4>3
      <4>5. g = f => GoodLines(c, run, rolled)
        BY <3>2, <4>4 DEF GoodLines, s
      <4> QED BY <3>2, <4>2, <4>5
    <3> QED BY <2>1, <3>3, <3>4 DEF Truncate
  <2> QED BY <1>6, <2>1 DEF TruncateLogs, AppendOnly
<1>7. CASE RollbackEnds
  <2>1. /\ pc = "rb_end" /\ rolled' = rolled \cup {pend.run} /\ UNCHANGED <<log, sums, run>>
    BY <1>7 DEF RollbackEnds
  <2>2. Sealed /\ UnsealedRound /\ log = sums.log
    <3>1. pc \in FromMan /\ pc \in FromColl /\ pc \in FromCust /\ pc \in FromCase
      BY <2>1, SMT DEF FromMan, FromColl, FromCust, FromCase
    <3>2. /\ Sealed /\ UnsealedRound /\ log["man"] = sums.log["man"]
          /\ log["coll"] = sums.log["coll"] /\ log["cust"] = sums.log["cust"]
      BY <3>1, Zenon DEF RoundInv, RollbackProgress
    <3>3. \A f \in AppendOnly : log[f] = sums.log[f]
      BY <3>2, Zenon DEF AppendOnly
    <3> QED BY <3>2, <3>3, LogTypes
  <2>3. \A f \in AppendOnly : \A i \in DOMAIN sums.log[f] : sums.log[f][i].run # pend.run
    BY <2>2 DEF AbortInv, PendingApart
  <2> DEFINE E == rolled \cup {pend.run}
  <2>4. run <= run /\ rolled \subseteq E
    BY <1>0
  <2>5. sums.log \in [AppendOnly -> Seq(Lines)] /\ GoodLogs(sums.log, run, rolled)
    BY <1>0, LogTypes DEF LinesGood
  <2>6. \A f \in AppendOnly : \A i \in DOMAIN sums.log[f] :
            sums.log[f][i].run \notin E \ rolled
    BY <2>3
  <2> HIDE DEF E
  <2>7. GoodLogs(sums.log, run, E)
    BY <1>0, <2>4, <2>5, <2>6, StaysGood
  <2> QED BY <2>1, <2>2, <2>7, Zenon DEF LinesGood, E
<1>8. CASE StartRound
  <2>1. bld.round \in ABlob \cup Nat /\ "acquisition_started" \in Events /\ "cust" \in AppendOnly
    BY BuilderFields, Zenon DEF TypeOK, Events, AppendOnly
  <2>2. UNCHANGED <<sums, run, rolled>> /\ pc \in Writing
    BY <1>8, Zenon DEF StartRound, Writing
  <2>3. Log("cust", Line(run, "acquisition_started", bld.round))
    BY <1>8 DEF StartRound
  <2>4. GoodLogs(log', run, rolled)
    BY <2>1, <2>2, <2>3, LogGood
  <2> QED BY <1>2, <2>2, <2>4
<1>9. CASE LogAborted
  <2>1. bld.todo \in Seq(Nat) /\ bld.todo # <<>>
    BY <1>9, BuilderFields DEF TypeOK, LogAborted, Numbers
  <2>2. Head(bld.todo) \in Nat /\ 1 \in DOMAIN bld.todo /\ Head(bld.todo) = bld.todo[1]
    BY <2>1
  <2>3. Head(bld.todo) \in rolled
    BY <2>2 DEF AbortInv, NotedRolledBack
  <2>4. "round_aborted" \in Events /\ "cust" \in AppendOnly
    BY Zenon DEF Events, AppendOnly
  <2>5. UNCHANGED <<sums, run, rolled>> /\ pc \in Writing
    BY <1>9, Zenon DEF LogAborted, Writing
  <2>6. Log("cust", Line(run, "round_aborted", Head(bld.todo)))
    BY <1>9 DEF LogAborted
  <2>7. GoodLogs(log', run, rolled)
    BY <2>2, <2>3, <2>4, <2>5, <2>6, LogGood
  <2> QED BY <1>2, <2>5, <2>7
<1>10. CASE RecordManifest \/ RecordCollection
  <2>1. PICK f \in {"man", "coll"} :
            Log(f, Line(run, "artifact", bld.cur)) \/ Log(f, Line(run, "torn", NoArg)) \/ UNCHANGED log
    BY <1>10, Zenon DEF RecordManifest, RecordCollection, WriteFails
  <2>2. /\ f \in AppendOnly /\ "artifact" \in Events /\ "torn" \in Events
        /\ bld.cur \in ABlob \cup Nat /\ NoArg \in ABlob \cup Nat
    BY BuilderFields DEF TypeOK, Events, AppendOnly, ABlob
  <2>3. UNCHANGED <<sums, run, rolled>> /\ pc \in Writing
    BY <1>10, Zenon DEF RecordManifest, RecordCollection, Writing
  <2>4. GoodLogs(log, run, rolled)
    BY <1>0 DEF LinesGood
  <2>5. CASE Log(f, Line(run, "artifact", bld.cur))
    BY <1>2, <2>2, <2>3, <2>5, LogGood
  <2>6. CASE Log(f, Line(run, "torn", NoArg))
    BY <1>2, <2>2, <2>3, <2>6, LogGood
  <2>7. CASE UNCHANGED log
    BY <1>2, <2>3, <2>4, <2>7
  <2> QED BY <2>1, <2>5, <2>6, <2>7
<1>11. CASE SealCustody
  <2> DEFINE l == Line(run, "acquisition_completed", bld.round)
             m == Line(run, "package_sealed", bld.round)
  <2>1. UNCHANGED <<sums, run, rolled>> /\ pc \in Writing
    BY <1>11, Zenon DEF SealCustody, Writing
  <2>2. run \notin rolled /\ run <= run
    BY <1>0, <2>1 DEF AbortInv, RunsApart
  <2>3. GoodLine(l, run, rolled) /\ GoodLine(m, run, rolled)
    BY <2>2, LineFields DEF GoodLine
  <2>4. l \in Lines /\ m \in Lines
    <3>1. bld.round \in ABlob \cup Nat
      BY BuilderFields DEF TypeOK
    <3>2. "acquisition_completed" \in Events /\ "package_sealed" \in Events
      BY DEF Events
    <3> QED BY <1>0, <3>1, <3>2, LineType
  <2>5. log' = [log EXCEPT !["cust"] = Write(Write(log["cust"], l), m)]
    BY <1>11 DEF SealCustody
  <2> HIDE DEF l, m
  <2> SUFFICES ASSUME NEW g \in AppendOnly PROVE GoodLines(log'[g], run, rolled)
    BY <1>2, <2>1 DEF GoodLogs
  <2>6. log[g] \in Seq(Lines) /\ GoodLines(log[g], run, rolled)
    BY <1>0, LogTypes DEF LinesGood, GoodLogs
  <2>7. Write(log[g], l) \in Seq(Lines) /\ GoodLines(Write(log[g], l), run, rolled)
    BY <2>3, <2>4, <2>6, WriteType, WriteGood
  <2>8. GoodLines(Write(Write(log[g], l), m), run, rolled)
    BY <2>3, <2>4, <2>7, WriteGood
  <2>9. log'[g] = IF g = "cust" THEN Write(Write(log[g], l), m) ELSE log[g]
    BY <2>5, LogTypes, Zenon
  <2> QED BY <2>6, <2>8, <2>9
<1>12. CASE WriteSums
  <2>1. sums'.log = log /\ UNCHANGED <<log, run, rolled>>
    BY <1>12 DEF WriteSums
  <2> QED BY <1>0, <2>1, Zenon DEF LinesGood
<1>13. CASE CloseNew
  <2>1. log' = NoLogs /\ sums'.log = NoLogs
    BY <1>13 DEF CloseNew, NoSeal
  <2> QED BY <2>1 DEF LinesGood, GoodLogs, GoodLines, NoLogs
<1>14. CASE UNCHANGED vars
  BY <1>1, <1>14 DEF Same, vars
<1>15. ASSUME NEW v \in Builds, Reopen(v) PROVE LinesGood'
  BY <1>1, <1>15 DEF Same, Reopen
<1>16. ASSUME NEW b \in Blobs, RemoveBlob(b) \/ RemoveTmp(b) PROVE LinesGood'
  BY <1>1, <1>16 DEF Same, RemoveBlob, RemoveTmp
<1>17. CASE RollbackNothing \/ RollbackRefused \/ RollbackBegins \/ RestoreCase
            \/ RemoveArchived \/ NoteAborted
  BY <1>1, <1>17 DEF Same, RollbackNothing, RollbackRefused, RollbackBegins, RestoreCase,
     RemoveArchived, NoteAborted
<1>18. CASE ReadPackage \/ ReadFails \/ OpenLogs \/ TakeAborted \/ RoundOpen
  BY <1>1, <1>18 DEF Same, ReadPackage, ReadFails, OpenLogs, TakeAborted, RoundOpen
<1>19. ASSUME NEW b \in Blobs, Prepare(b) \/ CommitBlob(b) \/ CarryForward(b) PROVE LinesGood'
  BY <1>1, <1>19 DEF Same, Prepare, CommitBlob, CarryForward
<1>20. CASE ReplaceBlob \/ TruncateCase \/ WriteCase \/ ArchiveSeal \/ EndPending
            \/ CloseAdded \/ Crash \/ Stopped
  BY <1>1, <1>20 DEF Same, ReplaceBlob, TruncateCase, WriteCase, ArchiveSeal, EndPending,
     CloseAdded, Crash, Stopped, vars
<1> QED
  BY <1>4, <1>5, <1>6, <1>7, <1>8, <1>9, <1>10, <1>11, <1>12, <1>13, <1>14, <1>15, <1>16,
     <1>17, <1>18, <1>19, <1>20, Zenon DEF Next, Open, Rollback, OpenRound, Acquire, Seal

\* The runs that are sealed and those that are rolled back stay apart.
LEMMA RunsStep ==
    ASSUME TypeOK, RoundInv, AbortInv, [Next]_vars
    PROVE  RunsApart'
<1> USE DEF disk, Goto
<1>0. /\ run \in Nat /\ pend.run \in Nat /\ hist \in Seq(Nat \X Nat) /\ rolled \subseteq Nat
      /\ RunsApart
  BY DEF AbortInv, TypeOK, Pendings, Histories
<1>1. ASSUME UNCHANGED <<run, rolled, hist>>,
             pc' \notin Writing \cup {"append"} \/ pc \in Writing \cup {"append"}
      PROVE  RunsApart'
  BY <1>0, <1>1, Zenon DEF RunsApart
<1>2. ASSUME run' = run + 1, UNCHANGED <<rolled, hist>> PROVE RunsApart'
  <2>1. \A r \in rolled : r \in Nat /\ r <= run
    BY <1>0 DEF RunsApart
  <2>2. \A r \in rolled : r <= run + 1 /\ r # run + 1
    BY <1>0, <2>1
  <2>3. \A i \in DOMAIN hist : hist[i][2] \in Nat /\ hist[i][2] <= run /\ hist[i][2] \notin rolled
    BY <1>0 DEF RunsApart
  <2>4. \A i \in DOMAIN hist : hist[i][2] <= run + 1 /\ hist[i][2] \notin rolled
    BY <1>0, <2>3
  <2> QED BY <1>2, <2>2, <2>4, Zenon DEF RunsApart
<1>3. ASSUME NEW v \in Builds, New(v) PROVE RunsApart'
  BY <1>2, <1>3 DEF New
<1>4. CASE BeginPending
  BY <1>2, <1>4 DEF BeginPending
<1>5. CASE RollbackEnds
  <2>1. /\ pc = "rb_end" /\ rolled' = rolled \cup {pend.run} /\ UNCHANGED <<run, hist>>
        /\ pc' = "rb_note"
    BY <1>5 DEF RollbackEnds
  <2>2. UnsealedRound /\ pend.on
    <3>1. pc \in FromMan
      BY <2>1, SMT DEF FromMan
    <3> QED BY <3>1 DEF RoundInv, RollbackProgress, UnsealedRound
  <2>3. pend.run <= run /\ \A i \in DOMAIN hist : hist[i][2] # pend.run
    BY <2>2 DEF AbortInv, PendingApart
  <2>4. pc' \notin Writing \cup {"append"}
    BY <2>1, SMT DEF Writing
  <2> QED BY <1>0, <2>1, <2>3, <2>4, Zenon DEF RunsApart
<1>6. CASE WriteSums
  <2>1. /\ pc = "seal_sums" /\ hist' = Append(hist, <<bld.round, run>>)
        /\ UNCHANGED <<run, rolled>> /\ pc' = "seal_end"
    BY <1>6 DEF WriteSums
  <2>2. run \notin rolled
    BY <1>0, <2>1, SMT DEF RunsApart, Writing
  <2>3. \A i \in DOMAIN hist' : (i \in DOMAIN hist /\ hist'[i] = hist[i]) \/ hist'[i] = <<bld.round, run>>
    BY <1>0, <2>1
  <2>4. run <= run
    BY <1>0
  <2>5. \A i \in DOMAIN hist' : hist'[i][2] <= run /\ hist'[i][2] \notin rolled
    BY <1>0, <2>2, <2>3, <2>4 DEF RunsApart
  <2>6. pc' \notin Writing \cup {"append"}
    BY <2>1, SMT DEF Writing
  <2> QED BY <1>0, <2>1, <2>5, <2>6, Zenon DEF RunsApart
<1>7. CASE UNCHANGED vars
  BY <1>1, <1>7 DEF vars
<1>8. ASSUME NEW v \in Builds, Reopen(v) PROVE RunsApart'
  BY <1>1, <1>8, SMT DEF Reopen, Writing
<1>9. ASSUME NEW b \in Blobs, RemoveBlob(b) \/ RemoveTmp(b) PROVE RunsApart'
  BY <1>1, <1>9, SMT DEF RemoveBlob, RemoveTmp
<1>10. CASE RollbackNothing \/ RollbackRefused \/ RollbackBegins \/ RestoreCase
            \/ RemoveArchived \/ NoteAborted
  BY <1>1, <1>10, SMT DEF RollbackNothing, RollbackRefused, RollbackBegins, RestoreCase,
     RemoveArchived, NoteAborted, AfterRollback, Writing
<1>11. CASE TruncateLogs
  BY <1>1, <1>11, SMT DEF TruncateLogs, Truncate, Writing
<1>12. CASE ReadPackage \/ ReadFails \/ OpenLogs \/ TakeAborted \/ RoundOpen
  BY <1>1, <1>12, SMT DEF ReadPackage, ReadFails, OpenLogs, TakeAborted, RoundOpen, Writing
<1>13. CASE StartRound \/ LogAborted \/ RecordManifest \/ RecordCollection \/ SealCustody
  BY <1>1, <1>13, SMT DEF StartRound, LogAborted, RecordManifest, RecordCollection, SealCustody,
     WriteFails, Writing
<1>14. ASSUME NEW b \in Blobs, Prepare(b) \/ CommitBlob(b) \/ CarryForward(b) PROVE RunsApart'
  BY <1>1, <1>14, SMT DEF Prepare, CommitBlob, CarryForward, Writing
<1>15. CASE ReplaceBlob \/ TruncateCase \/ WriteCase \/ ArchiveSeal \/ EndPending
            \/ CloseNew \/ CloseAdded \/ Crash \/ Stopped
  BY <1>1, <1>15, SMT DEF ReplaceBlob, TruncateCase, WriteCase, ArchiveSeal, EndPending,
     CloseNew, CloseAdded, Crash, Stopped, vars, Writing
<1> QED
  BY <1>3, <1>4, <1>5, <1>6, <1>7, <1>8, <1>9, <1>10, <1>11, <1>12, <1>13, <1>14, <1>15,
     Zenon DEF Next, Open, Rollback, OpenRound, Acquire, Seal

\* The pending round stays one that the seal in place does not know of.
LEMMA PendingStep ==
    ASSUME TypeOK, RoundInv, AbortInv, [Next]_vars
    PROVE  PendingApart'
<1> USE DEF disk
<1>0. /\ run \in Nat /\ pend.run \in Nat /\ hist \in Seq(Nat \X Nat)
      /\ PendingApart
  BY DEF AbortInv, TypeOK, Pendings, Histories
<1>1. ASSUME UNCHANGED <<run, hist, sums, pend>> PROVE PendingApart'
  BY <1>0, <1>1, Zenon DEF PendingApart, UnsealedRound, RoundCompleted
<1>2. ASSUME ~pend'.on PROVE PendingApart'
  BY <1>2 DEF PendingApart, UnsealedRound
<1>3. ASSUME NEW v \in Builds, New(v) PROVE PendingApart'
  <2>1. ~pend.on /\ UNCHANGED pend
    BY <1>3 DEF New, RoundInv, NothingPending
  <2> QED BY <1>2, <2>1
<1>4. CASE BeginPending
  <2>1. run' = run + 1 /\ pend'.run = run + 1 /\ UNCHANGED <<log, sums, hist>>
    BY <1>4 DEF BeginPending
  <2>2. run + 1 <= run + 1
    BY <1>0
  <2>3. ASSUME NEW f \in AppendOnly, NEW i \in DOMAIN sums.log[f]
        PROVE  sums.log[f][i].run # run + 1
    <3>1. sums.log[f] \in Seq(Lines)
      BY LogTypes
    <3>2. sums.log[f][i] \in Lines /\ GoodLine(sums.log[f][i], run, rolled)
      BY <3>1 DEF AbortInv, LinesGood, GoodLogs, GoodLines
    <3>3. sums.log[f][i].run \in Nat /\ sums.log[f][i].run <= run
      BY <3>2 DEF Lines, GoodLine
    <3> QED BY <1>0, <3>3
  <2>4. ASSUME NEW i \in DOMAIN hist PROVE hist[i][2] # run + 1
    <3>1. hist[i][2] \in Nat /\ hist[i][2] <= run
      BY <1>0 DEF AbortInv, RunsApart
    <3> QED BY <1>0, <3>1
  <2> QED BY <2>1, <2>2, <2>3, <2>4, Zenon DEF PendingApart
<1>5. CASE RollbackNothing \/ RollbackEnds \/ EndPending \/ CloseNew
  BY <1>2, <1>5 DEF RollbackNothing, RollbackEnds, EndPending, CloseNew, NoPend
<1>6. CASE WriteSums
  <2>1. pc = "seal_sums" /\ sums'.run = run /\ UNCHANGED <<pend, run>>
    BY <1>6 DEF WriteSums
  <2>2. sums.run < run /\ (pend.on => pend.seal = sums.run)
    BY <2>1, SMT DEF RoundInv, SealsAreEarlier, WritersOwnARound, Writing, Sealed
  <2>3. sums.run # run
    BY <1>0, <2>2, LogTypes
  <2>4. ~UnsealedRound'
    BY <2>1, <2>2, <2>3 DEF UnsealedRound, RoundCompleted
  <2> QED BY <1>0, <2>1, <2>4, Zenon DEF PendingApart
<1>7. CASE UNCHANGED vars
  BY <1>1, <1>7 DEF vars
<1>8. ASSUME NEW v \in Builds, Reopen(v) PROVE PendingApart'
  BY <1>1, <1>8 DEF Reopen
<1>9. ASSUME NEW b \in Blobs, RemoveBlob(b) \/ RemoveTmp(b) PROVE PendingApart'
  BY <1>1, <1>9 DEF RemoveBlob, RemoveTmp
<1>10. CASE RollbackRefused \/ RollbackBegins \/ TruncateLogs \/ RestoreCase
            \/ RemoveArchived \/ NoteAborted
  BY <1>1, <1>10 DEF RollbackRefused, RollbackBegins, TruncateLogs, Truncate, RestoreCase,
     RemoveArchived, NoteAborted
<1>11. CASE ReadPackage \/ ReadFails \/ OpenLogs \/ TakeAborted \/ RoundOpen
  BY <1>1, <1>11 DEF ReadPackage, ReadFails, OpenLogs, TakeAborted, RoundOpen
<1>12. CASE StartRound \/ LogAborted \/ RecordManifest \/ RecordCollection \/ SealCustody
  BY <1>1, <1>12 DEF StartRound, LogAborted, RecordManifest, RecordCollection, SealCustody
<1>13. ASSUME NEW b \in Blobs, Prepare(b) \/ CommitBlob(b) \/ CarryForward(b) PROVE PendingApart'
  BY <1>1, <1>13 DEF Prepare, CommitBlob, CarryForward
<1>14. CASE ReplaceBlob \/ TruncateCase \/ WriteCase \/ ArchiveSeal
            \/ CloseAdded \/ Crash \/ Stopped
  BY <1>1, <1>14 DEF ReplaceBlob, TruncateCase, WriteCase, ArchiveSeal, CloseAdded, Crash,
     Stopped, vars
<1> QED
  BY <1>3, <1>4, <1>5, <1>6, <1>7, <1>8, <1>9, <1>10, <1>11, <1>12, <1>13, <1>14,
     Zenon DEF Next, Open, Rollback, OpenRound, Acquire, Seal

\* Only what was rolled back is noted as aborted.
LEMMA NotedStep ==
    ASSUME TypeOK, RoundInv, AbortInv, [Next]_vars
    PROVE  NotedRolledBack'
<1> USE DEF disk
<1>0. NotedRolledBack /\ bld \in Builders /\ bld.todo \in Seq(Nat) /\ aborted \in Seq(Nat)
  BY BuilderFields DEF AbortInv, TypeOK, Numbers
<1>1. ASSUME UNCHANGED <<aborted, rolled>>, bld'.todo = bld.todo PROVE NotedRolledBack'
  BY <1>0, <1>1, Zenon DEF NotedRolledBack
<1>2. ASSUME UNCHANGED <<aborted, rolled>>, bld'.todo = <<>> PROVE NotedRolledBack'
  BY <1>0, <1>2 DEF NotedRolledBack
<1>3. ASSUME NEW v \in Builds, New(v) \/ Reopen(v) PROVE NotedRolledBack'
  BY <1>2, <1>3 DEF New, Reopen, Builder
<1>4. CASE Crash
  BY <1>2, <1>4 DEF Crash, NoBuilder, Builder
<1>5. CASE RollbackEnds
  <2>1. rolled' = rolled \cup {pend.run} /\ UNCHANGED aborted /\ bld' = [bld EXCEPT !.todo = <<pend.run>>]
    BY <1>5 DEF RollbackEnds
  <2>2. bld'.todo = <<pend.run>>
    BY <1>0, <2>1 DEF Builders
  <2>3. \A i \in DOMAIN bld'.todo : bld'.todo[i] = pend.run
    BY <2>2
  <2>4. \A i \in DOMAIN bld'.todo : bld'.todo[i] \in rolled'
    BY <2>1, <2>3
  <2>5. \A i \in DOMAIN aborted : aborted[i] \in rolled'
    BY <1>0, <2>1 DEF NotedRolledBack
  <2> QED BY <2>1, <2>4, <2>5, Zenon DEF NotedRolledBack
<1>6. CASE NoteAborted
  <2>1. aborted' = aborted \o bld.todo /\ UNCHANGED rolled /\ bld' = [bld EXCEPT !.todo = <<>>]
    BY <1>6 DEF NoteAborted
  <2>2. bld'.todo = <<>>
    BY <1>0, <2>1 DEF Builders
  <2> DEFINE s == bld.todo
  <2>3. s \in Seq(Nat) /\ (\A i \in DOMAIN s : s[i] \in rolled) /\ \A i \in DOMAIN aborted : aborted[i] \in rolled
    BY <1>0 DEF NotedRolledBack
  <2>4. aborted' = aborted \o s
    BY <2>1
  <2> HIDE DEF s
  <2>5. \A i \in DOMAIN (aborted \o s) : (aborted \o s)[i] \in rolled
    BY <1>0, <2>3
  <2> QED BY <2>1, <2>2, <2>4, <2>5 DEF NotedRolledBack
<1>7. CASE TakeAborted
  <2>1. aborted' = <<>> /\ UNCHANGED rolled /\ bld' = [bld EXCEPT !.todo = aborted]
    BY <1>7 DEF TakeAborted
  <2>2. bld'.todo = aborted
    BY <1>0, <2>1 DEF Builders
  <2> QED BY <1>0, <2>1, <2>2 DEF NotedRolledBack
<1>8. CASE LogAborted
  <2>1. bld.todo # <<>> /\ UNCHANGED <<aborted, rolled>> /\ bld' = [bld EXCEPT !.todo = Tail(bld.todo)]
    BY <1>8 DEF LogAborted
  <2>2. bld'.todo = Tail(bld.todo)
    BY <1>0, <2>1 DEF Builders
  <2> DEFINE s == bld.todo
  <2>3. s \in Seq(Nat) /\ s # <<>> /\ \A i \in DOMAIN s : s[i] \in rolled
    BY <1>0, <2>1 DEF NotedRolledBack
  <2>4. bld'.todo = Tail(s)
    BY <2>2
  <2> HIDE DEF s
  <2>5. \A i \in DOMAIN Tail(s) : Tail(s)[i] \in rolled
    BY <2>3
  <2> QED BY <1>0, <2>1, <2>4, <2>5 DEF NotedRolledBack
<1>9. CASE CloseNew
  BY <1>0, <1>9 DEF CloseNew, NotedRolledBack
<1>10. CASE UNCHANGED vars
  BY <1>1, <1>10 DEF vars
<1>11. ASSUME NEW b \in Blobs, RemoveBlob(b) \/ RemoveTmp(b) PROVE NotedRolledBack'
  BY <1>1, <1>11 DEF RemoveBlob, RemoveTmp
<1>12. CASE RollbackNothing \/ RollbackRefused \/ RollbackBegins \/ TruncateLogs \/ RestoreCase
            \/ RemoveArchived
  BY <1>1, <1>12 DEF RollbackNothing, RollbackRefused, RollbackBegins, TruncateLogs, Truncate,
     RestoreCase, RemoveArchived
<1>13. CASE ReadPackage \/ ReadFails \/ BeginPending \/ OpenLogs \/ RoundOpen \/ StartRound
  <2>1. UNCHANGED <<aborted, rolled>>
    BY <1>13 DEF ReadPackage, ReadFails, BeginPending, OpenLogs, RoundOpen, StartRound
  <2>2. bld'.todo = bld.todo
    BY <1>0, <1>13 DEF ReadPackage, ReadFails, BeginPending, OpenLogs, RoundOpen, StartRound,
       Builders
  <2> QED BY <1>1, <2>1, <2>2
<1>14. CASE RecordManifest \/ RecordCollection \/ SealCustody
  BY <1>1, <1>14 DEF RecordManifest, RecordCollection, SealCustody
<1>15. ASSUME NEW b \in Blobs, Prepare(b) \/ CommitBlob(b) \/ CarryForward(b)
       PROVE  NotedRolledBack'
  <2>1. UNCHANGED <<aborted, rolled>>
    BY <1>15 DEF Prepare, CommitBlob, CarryForward
  <2>2. bld'.todo = bld.todo
    BY <1>0, <1>15 DEF Prepare, CommitBlob, CarryForward, Builders
  <2> QED BY <1>1, <2>1, <2>2
<1>16. CASE ReplaceBlob \/ TruncateCase \/ WriteCase \/ ArchiveSeal \/ WriteSums \/ EndPending
            \/ Stopped
  BY <1>1, <1>16 DEF ReplaceBlob, TruncateCase, WriteCase, ArchiveSeal, WriteSums, EndPending,
     Stopped, vars
<1>17. CASE CloseAdded
  <2>1. UNCHANGED <<aborted, rolled>> /\ bld'.todo = bld.todo
    BY <1>0, <1>17 DEF CloseAdded, Builders
  <2> QED BY <1>1, <2>1
<1> QED
  BY <1>3, <1>4, <1>5, <1>6, <1>7, <1>8, <1>9, <1>10, <1>11, <1>12, <1>13, <1>14, <1>15,
     <1>16, <1>17, Zenon DEF Next, Open, Rollback, OpenRound, Acquire, Seal

-----------------------------------------------------------------------------
\* Everything a step of a builder may rely on, at once.
PackageInv == TypeInv /\ RoundTaken /\ RoundInv /\ AbortInv

LEMMA PackageInvariant == Spec => []PackageInv
<1>1. Init => PackageInv
  BY TypeInit, RoundTakenInit, RoundInvInit, AbortInit DEF PackageInv
<1>2. PackageInv /\ [Next]_vars => PackageInv'
  BY TypeStep, RoundTakenStep, RoundInvStep, LinesStep, RunsStep, PendingStep, NotedStep
     DEF PackageInv, TypeInv, AbortInv
<1> QED BY <1>1, <1>2, PTL DEF Spec

\* A round is either sealed or rolled back, never both (rollbackPending,
\* roundCompleted, writeSums): whenever the builder dies around the writing of
\* SHA256SUMS, its run is not both in the seals there have been and among those
\* cut away, still to be noted as aborted, or noted so in the custody chain.
THEOREM NeverSealedAndAborted == Spec => []SealedNeverAborted
<1>1. PackageInv => SealedNeverAborted
  <2> SUFFICES ASSUME PackageInv, NEW i \in DOMAIN hist
               PROVE  /\ hist[i][2] \notin rolled
                      /\ \A j \in DOMAIN aborted : aborted[j] # hist[i][2]
                      /\ hist[i][2] \notin AbortedInCustody
    BY DEF SealedNeverAborted
  <2>1. hist[i][2] \notin rolled /\ \A j \in DOMAIN aborted : aborted[j] \in rolled
    BY DEF PackageInv, AbortInv, RunsApart, NotedRolledBack
  <2>2. "cust" \in AppendOnly
    BY DEF AppendOnly
  <2>3. GoodLines(log["cust"], run, rolled)
    BY <2>2, Zenon DEF PackageInv, AbortInv, LinesGood, GoodLogs
  <2>4. \A a \in AbortedInCustody : a \in rolled
    BY <2>3, Zenon DEF AbortedInCustody, GoodLines, GoodLine
  <2> QED BY <2>1, <2>4
<1> QED BY <1>1, PackageInvariant, PTL

\* No line of a rolled-back round is ever covered by a seal
\* (rollbackPending cuts the logs before it ends the pending round).
THEOREM AbortedNeverSealed == Spec => []AbortedLinesNeverSealed
<1>1. PackageInv => AbortedLinesNeverSealed
  BY DEF PackageInv, AbortInv, LinesGood, GoodLogs, GoodLines, GoodLine, AbortedLinesNeverSealed
<1> QED BY <1>1, PackageInvariant, PTL
-----------------------------------------------------------------------------
(***************************************************************************)
(* Why one seal follows another as SealedHistory says.                     *)
(***************************************************************************)
SealRound == IF SealedRounds = <<>> THEN 0 ELSE SealedRounds[Len(SealedRounds)]
Active    == Writing \cup {"begin", "append"}

\* Before the first seal there is none to archive; a builder that may remove
\* the package made it, and has not sealed it.
FirstSeal ==
    /\ ~Sealed => sums = NoSeal /\ seals = {}
    /\ pc \in Writing /\ bld.created => ~Sealed
    /\ bld.created => pc \in Writing \cup {"seal_end", "idle"}

\* A builder's round comes after those the seal lists, and case.json says so
\* when it is sealed.
RoundsListed ==
    /\ Sealed => SealedRounds # <<>>
    /\ pc \in Active /\ Sealed => bld.rounds = SealedRounds /\ bld.round = SealRound + 1
    /\ pc \in {"seal_arch", "seal_sums"} => case.rounds = Append(bld.rounds, bld.round)

\* The archived seals are earlier ones, and the one in place joins them last.
ArchivesListed ==
    /\ Sealed => \A p \in sums.seals : p[1] < SealRound /\ p[2] < sums.run
    /\ pc \in (Writing \cup {"append"}) \ {"seal_sums"} => seals = sums.seals
    /\ pc = "seal_sums" /\ Sealed => seals = sums.seals \cup {<<SealRound, sums.run>>}

\* Every round adds to the custody chain.
CustodyGrows ==
    /\ pc = "start" /\ Sealed => log = sums.log
    /\ pc \in Writing \ {"start"} => Len(sums.log["cust"]) < Len(log["cust"])

HistoryInv == FirstSeal /\ RoundsListed /\ ArchivesListed /\ CustodyGrows

\* The round after those listed is one more than the last of them.
LEMMA NextIsLast ==
    ASSUME NEW s \in Seq(Nat), Increasing(s), s # <<>>
    PROVE  NextRound(s) = s[Len(s)] + 1
<1> DEFINE Rs == {s[i] : i \in DOMAIN s}
           m  == CHOOSE r \in Rs : \A i \in DOMAIN s : s[i] <= r
<1>1. Len(s) \in DOMAIN s /\ s[Len(s)] \in Rs /\ s[Len(s)] \in Nat
  BY SMT
<1>2. \A i \in DOMAIN s : s[i] <= s[Len(s)]
  BY <1>1, SMT DEF Increasing
<1>3. m \in Rs /\ \A i \in DOMAIN s : s[i] <= m
  BY <1>1, <1>2, Zenon
<1>4. NextRound(s) = 1 + m
  BY Zenon DEF NextRound
<1> HIDE DEF m
<1>5. m \in Nat /\ m <= s[Len(s)] /\ s[Len(s)] <= m
  BY <1>1, <1>2, <1>3, SMT
<1> QED BY <1>1, <1>4, <1>5

\* Writing a line makes no log shorter, and an unbroken or empty one longer.
LEMMA WriteLonger ==
    ASSUME NEW s \in Seq(Lines), NEW l \in Lines
    PROVE  /\ Len(s) \in Nat /\ Len(Write(s, l)) \in Nat
           /\ Len(s) <= Len(Write(s, l)) /\ 0 < Len(Write(s, l))
           /\ ~Broken(s) => Len(s) < Len(Write(s, l))
<1>1. CASE s # <<>> /\ s[Len(s)].event = "torn"
  <2>1. Broken(s) /\ Len(s) \in Nat /\ 0 < Len(s)
    BY <1>1 DEF Broken
  <2> DEFINE e == [s[Len(s)] EXCEPT !.event = "glued"]
  <2>2. Write(s, l) = [s EXCEPT ![Len(s)] = e]
    BY <1>1, Zenon DEF Write
  <2> HIDE DEF e
  <2>3. Len(Write(s, l)) = Len(s)
    BY <2>2
  <2> QED BY <2>1, <2>3
<1>2. CASE ~(s # <<>> /\ s[Len(s)].event = "torn")
  <2>1. Write(s, l) = Append(s, l)
    BY <1>2, Zenon DEF Write
  <2> QED BY <2>1
<1> QED BY <1>1, <1>2

LEMMA HistoryTypes ==
    ASSUME TypeInv
    PROVE  /\ SealedRounds \in Seq(Nat) /\ SealRound \in Nat
           /\ bld.rounds \in Seq(Nat) /\ bld.round \in Nat /\ bld \in Builders
           /\ sums.seals \subseteq Nat \X Nat /\ sums.run \in Nat /\ run \in Nat
           /\ Len(log["cust"]) \in Nat /\ Len(sums.log["cust"]) \in Nat
           /\ log["cust"] \in Seq(Lines) /\ sums.log["cust"] \in Seq(Lines)
<1>1. SealedRounds \in Seq(Nat)
  BY DEF TypeInv, TypeOK, Seals, CaseFiles, Numbers, SealedRounds
<1>2. SealRound \in Nat
  BY <1>1 DEF SealRound
<1>3. log["cust"] \in Seq(Lines) /\ sums.log["cust"] \in Seq(Lines)
  BY LogTypes DEF TypeInv, AppendOnly
<1>4. /\ bld.rounds \in Seq(Nat) /\ bld.round \in Nat /\ bld \in Builders
      /\ sums.run \in Nat /\ run \in Nat /\ sums.seals \subseteq Nat \X Nat
  BY BuilderFields, LogTypes DEF TypeInv, TypeOK, Numbers, Archives
<1> QED BY <1>1, <1>2, <1>3, <1>4

LEMMA HistoryInit == Init => HistoryInv
  BY SMT DEF Init, HistoryInv, FirstSeal, RoundsListed, ArchivesListed, CustodyGrows,
     Sealed, NoSeal, Absent, Writing, Active

\* Nothing to keep for a builder that is not in a round.
LEMMA HistoryOut ==
    ASSUME HistoryInv, pc' \notin Active, UNCHANGED sums, seals' \subseteq seals,
           pc' \in {"seal_end", "idle"} \/ ~bld'.created
    PROVE  HistoryInv'
<1>1. /\ pc' \notin Writing /\ pc' \notin {"seal_arch", "seal_sums", "append", "start"}
      /\ pc' \notin Writing \cup {"append"}
  BY SMT DEF Active, Writing
<1>2. FirstSeal'
  BY <1>1 DEF HistoryInv, FirstSeal, Sealed
<1>3. RoundsListed'
  BY <1>1, Zenon DEF HistoryInv, RoundsListed, Sealed, SealedRounds
<1>4. ArchivesListed'
  BY <1>1, Zenon DEF HistoryInv, ArchivesListed, Sealed, SealedRounds, SealRound
<1>5. CustodyGrows'
  BY <1>1, Zenon DEF CustodyGrows
<1> QED BY <1>2, <1>3, <1>4, <1>5 DEF HistoryInv

\* The steps between the opening of a round and its seal.
Mid == Writing \ {"start", "seal_arch", "seal_sums"}

LEMMA HistoryMid ==
    ASSUME TypeInv, TypeInv', HistoryInv, pc \in Mid, pc' \in Mid, UNCHANGED <<sums, seals>>,
           bld'.rounds = bld.rounds, bld'.round = bld.round, bld'.created = bld.created,
           Len(log["cust"]) <= Len(log'["cust"])
    PROVE  HistoryInv'
<1>1. /\ pc \in Writing \ {"start"} /\ pc \in Active
      /\ pc \in (Writing \cup {"append"}) \ {"seal_sums"} /\ pc \in Writing
  BY SMT DEF Mid, Active
<1>2. pc' \notin {"seal_arch", "seal_sums", "start"}
  BY DEF Mid
<1>3. FirstSeal'
  <2>1. pc' \in Writing
    BY DEF Mid
  <2> QED BY <1>1, <2>1, Zenon DEF HistoryInv, FirstSeal, Sealed
<1>4. RoundsListed'
  BY <1>1, <1>2, Zenon DEF HistoryInv, RoundsListed, Sealed, SealedRounds, SealRound
<1>5. ArchivesListed'
  BY <1>1, <1>2, Zenon DEF HistoryInv, ArchivesListed, Sealed, SealedRounds, SealRound
<1>6. CustodyGrows'
  <2>1. Len(sums.log["cust"]) < Len(log["cust"])
    BY <1>1 DEF HistoryInv, CustodyGrows
  <2>2. /\ Len(sums.log["cust"]) \in Nat /\ Len(log["cust"]) \in Nat /\ Len(log'["cust"]) \in Nat
    <3>1. (Len(log["cust"]) \in Nat)'
      BY HistoryTypes, PTL
    <3> QED BY <3>1, HistoryTypes
  <2>3. Len(sums.log["cust"]) < Len(log'["cust"])
    BY <2>1, <2>2
  <2> QED BY <1>2, <2>3 DEF CustodyGrows
<1> QED BY <1>3, <1>4, <1>5, <1>6 DEF HistoryInv

LEMMA HistoryStep ==
    ASSUME TypeInv, TypeInv', RoundTaken, RoundInv, HistoryInv, [Next]_vars
    PROVE  HistoryInv'
<1> USE DEF disk, Goto
<1>0. TypeOK /\ bld \in Builders
  BY DEF TypeInv, TypeOK
<1>1. ASSUME UNCHANGED vars PROVE HistoryInv'
  BY <1>1, Zenon DEF vars, HistoryInv, FirstSeal, RoundsListed, ArchivesListed, CustodyGrows,
     Sealed, SealedRounds, SealRound
<1>2. ASSUME NEW v \in Builds, New(v) PROVE HistoryInv'
  <2>1. /\ ~Sealed /\ UNCHANGED <<sums, seals>> /\ pc' = "collect"
        /\ Len(log'["cust"]) = 1
    BY <1>2 DEF New, RoundInv, NothingPending
  <2>2. sums = NoSeal /\ seals = {} /\ ~Sealed'
    BY <2>1 DEF HistoryInv, FirstSeal, Sealed
  <2>3. Len(sums.log["cust"]) = 0 /\ sums.seals = {}
    BY <2>2 DEF NoSeal, NoLogs, AppendOnly
  <2>4. FirstSeal' /\ RoundsListed'
    BY <2>1, <2>2 DEF FirstSeal, RoundsListed, Writing
  <2>5. ArchivesListed' /\ CustodyGrows'
    BY <2>1, <2>2, <2>3 DEF ArchivesListed, CustodyGrows
  <2> QED BY <2>4, <2>5 DEF HistoryInv
<1>3. ASSUME NEW v \in Builds, Reopen(v) PROVE HistoryInv'
  BY <1>3, HistoryOut, SMT DEF Reopen, Active, Writing, Builder
<1>4. pc \notin Writing \cup {"seal_end", "idle"} => ~bld.created
  BY DEF HistoryInv, FirstSeal
<1>5. ASSUME pc \notin Writing \cup {"seal_end", "idle"}, pc' \notin Active,
             UNCHANGED sums, seals' \subseteq seals, bld'.created = bld.created
      PROVE  HistoryInv'
  BY <1>4, <1>5, HistoryOut
<1>6. ASSUME NEW b \in Blobs, RemoveBlob(b) \/ RemoveTmp(b) PROVE HistoryInv'
  BY <1>5, <1>6, SMT DEF RemoveBlob, RemoveTmp, Active, Writing
<1>7. CASE RollbackNothing \/ RollbackRefused \/ RollbackBegins \/ TruncateLogs \/ RestoreCase
            \/ RemoveArchived \/ ReadFails
  BY <1>5, <1>7, SMT DEF RollbackNothing, RollbackRefused, RollbackBegins, TruncateLogs,
     Truncate, RestoreCase, RemoveArchived, ReadFails, AfterRollback, Active, Writing
<1>8. CASE RollbackEnds \/ NoteAborted
  <2>1. bld'.created = bld.created
    BY <1>0, <1>8 DEF RollbackEnds, NoteAborted, Builders
  <2> QED BY <1>5, <1>8, <2>1, SMT DEF RollbackEnds, NoteAborted, AfterRollback, Active, Writing
<1>9. CASE CloseAdded
  <2>1. ~bld'.created
    BY <1>0, <1>9 DEF CloseAdded, Builders
  <2> QED BY <1>9, <2>1, HistoryOut, SMT DEF CloseAdded, Active, Writing
<1>10. CASE Crash \/ EndPending
  BY <1>10, HistoryOut, SMT DEF Crash, EndPending, Active, Writing
<1>11. CASE ReadPackage
  <2>1. /\ pc = "read" /\ pc' = "begin" /\ UNCHANGED <<sums, seals, case, log>>
        /\ bld' = [bld EXCEPT !.rounds = case.rounds, !.round = NextRound(case.rounds)]
    BY <1>11 DEF ReadPackage
  <2>2. bld'.rounds = case.rounds /\ bld'.round = NextRound(case.rounds)
    BY <1>0, <2>1 DEF Builders
  <2>3. ASSUME Sealed
        PROVE  bld'.rounds = SealedRounds /\ bld'.round = SealRound + 1
    <3>1. ~UnsealedRound
      BY <2>1 DEF RoundInv, NothingPending, UnsealedRound
    <3>2. case.rounds = SealedRounds /\ SealedRounds # <<>>
      BY <2>3, <3>1 DEF RoundInv, RestoredExactly, HistoryInv, RoundsListed, SealedRounds
    <3>3. Increasing(SealedRounds) /\ SealedRounds \in Seq(Nat)
      BY <3>2, HistoryTypes DEF TypeInv, RoundOrder
    <3>4. NextRound(SealedRounds) = SealRound + 1
      BY <3>2, <3>3, NextIsLast DEF SealRound
    <3> QED BY <2>2, <3>2, <3>4
  <2>4. FirstSeal' /\ ArchivesListed' /\ CustodyGrows'
    <3>1. pc' \notin Writing \cup {"append"} /\ ~bld.created
      BY <1>4, <2>1, SMT DEF Writing
    <3>2. ~bld'.created
      BY <1>0, <2>1, <3>1 DEF Builders
    <3> QED BY <2>1, <3>1, <3>2, Zenon DEF HistoryInv, FirstSeal, ArchivesListed, CustodyGrows, Sealed,
               SealRound, SealedRounds
  <2>5. RoundsListed'
    BY <2>1, <2>3, Zenon DEF HistoryInv, RoundsListed, Sealed, SealedRounds, SealRound
  <2> QED BY <2>4, <2>5 DEF HistoryInv
<1>12. CASE BeginPending
  <2>1. pc = "begin" /\ pc' = "append" /\ UNCHANGED <<sums, seals, case, log, bld>>
    BY <1>12 DEF BeginPending
  <2>2. Sealed => seals = sums.seals
    BY <2>1 DEF RoundInv, NothingPending, RestoredExactly, UnsealedRound
  <2>3. ~Sealed => seals = sums.seals
    BY DEF HistoryInv, FirstSeal, NoSeal
  <2>4. FirstSeal' /\ RoundsListed' /\ CustodyGrows'
    <3>1. pc \in Active /\ pc' \notin Writing /\ ~bld.created
      BY <1>4, <2>1, SMT DEF Active, Writing
    <3> QED BY <2>1, <3>1, Zenon DEF HistoryInv, FirstSeal, RoundsListed, CustodyGrows, Sealed,
               SealedRounds, SealRound
  <2>5. ArchivesListed'
    BY <2>1, <2>2, <2>3, Zenon DEF HistoryInv, ArchivesListed, Sealed, SealedRounds, SealRound
  <2> QED BY <2>4, <2>5 DEF HistoryInv
<1>13. CASE OpenLogs
  <2>a. bld'.created = bld.created
    BY <1>0, <1>13 DEF OpenLogs, Builders
  <2>1. CASE pc' # "start"
    BY <1>5, <1>13, <2>1, <2>a, SMT DEF OpenLogs, Active, Writing
  <2>2. CASE pc' = "start"
    <3>1. pc = "append" /\ UNCHANGED <<sums, seals, case, log, bld>>
      BY <1>13, <2>2, SMT DEF OpenLogs
    <3>2. /\ pc \in Active /\ pc \in (Writing \cup {"append"}) \ {"seal_sums"} /\ pc' \in Writing
      BY <2>2, <3>1, SMT DEF Active, Writing
    <3>3. Sealed => log = sums.log
      BY <3>1 DEF RoundInv, SealedLogsWhole
    <3>4. ~bld.created
      BY <1>4, <3>1, SMT DEF Writing
    <3> QED BY <2>2, <3>1, <3>2, <3>3, <3>4, Zenon DEF HistoryInv, FirstSeal, RoundsListed,
               ArchivesListed, CustodyGrows, Sealed, SealedRounds, SealRound
  <2> QED BY <2>1, <2>2
<1>14. CASE StartRound
  <2>1. /\ pc = "start" /\ pc' = "take" /\ UNCHANGED <<sums, seals, case, bld>>
        /\ Log("cust", Line(run, "acquisition_started", bld.round))
    BY <1>14 DEF StartRound
  <2>2. /\ pc \in Active /\ pc \in (Writing \cup {"append"}) \ {"seal_sums"}
        /\ pc \in Writing /\ pc' \in Writing
    BY <2>1, SMT DEF Active, Writing
  <2> DEFINE l == Line(run, "acquisition_started", bld.round)
  <2>3. l \in Lines
    <3>1. bld.round \in ABlob \cup Nat /\ "acquisition_started" \in Events
      BY HistoryTypes DEF Events
    <3> QED BY <3>1, HistoryTypes, LineType
  <2> HIDE DEF l
  <2>4. log'["cust"] = Write(log["cust"], l)
    BY <1>0, <2>1, LogTypes DEF Log, AppendOnly, l
  <2>5. /\ Len(log["cust"]) \in Nat /\ Len(log'["cust"]) \in Nat /\ 0 < Len(log'["cust"])
        /\ ~Broken(log["cust"]) => Len(log["cust"]) < Len(log'["cust"])
    BY <2>3, <2>4, HistoryTypes, WriteLonger
  <2>6. Len(sums.log["cust"]) < Len(log'["cust"])
    <3>1. CASE Sealed
      <4>1. log = sums.log
        BY <2>1, <3>1 DEF HistoryInv, CustodyGrows
      <4>2. ~Broken(log["cust"])
        BY <2>2, <3>1, <4>1 DEF RoundInv, SealedLogsWhole, AppendOnly
      <4> QED BY <2>5, <4>1, <4>2
    <3>2. CASE ~Sealed
      <4>1. Len(sums.log["cust"]) = 0
        BY <3>2 DEF HistoryInv, FirstSeal, NoSeal, NoLogs, AppendOnly
      <4> QED BY <2>5, <4>1
    <3> QED BY <3>1, <3>2
  <2>7. CustodyGrows'
    BY <2>1, <2>6 DEF CustodyGrows
  <2>8. FirstSeal' /\ RoundsListed' /\ ArchivesListed'
    BY <2>1, <2>2, Zenon DEF HistoryInv, FirstSeal, RoundsListed, ArchivesListed, Sealed,
       SealedRounds, SealRound
  <2> QED BY <2>7, <2>8 DEF HistoryInv
<1>15. ASSUME pc \in Mid, pc' \in Mid, UNCHANGED <<sums, seals, log>>, SameRounds(bld', bld),
              bld'.created = bld.created
       PROVE  HistoryInv'
  <2>1. Len(log["cust"]) <= Len(log'["cust"])
    BY <1>15, HistoryTypes
  <2> QED BY <1>15, <2>1, HistoryMid DEF SameRounds
<1>16. CASE TakeAborted \/ RoundOpen \/ ReplaceBlob \/ TruncateCase
  <2>1. SameRounds(bld', bld) /\ bld'.created = bld.created
    BY <1>0, <1>16 DEF TakeAborted, RoundOpen, ReplaceBlob, TruncateCase, SameRounds, Builders,
       TypeInv, TypeOK
  <2> QED BY <1>15, <1>16, <2>1, SMT DEF TakeAborted, RoundOpen, ReplaceBlob, TruncateCase, Mid,
             Writing
<1>17. ASSUME NEW b \in Blobs, Prepare(b) \/ CommitBlob(b) \/ CarryForward(b)
       PROVE  HistoryInv'
  <2>1. SameRounds(bld', bld) /\ bld'.created = bld.created
    <3>1. bld'.created = bld.created /\ bld'.rounds = bld.rounds /\ bld'.round = bld.round
      BY <1>0, <1>17 DEF Prepare, CommitBlob, CarryForward, Builders
    <3> QED BY <3>1 DEF SameRounds, TypeInv, TypeOK
  <2>2. pc \in Mid /\ pc' \in Mid
    BY <1>17, SMT DEF Prepare, CommitBlob, CarryForward, Mid, Writing
  <2>3. UNCHANGED <<sums, seals, log>>
    BY <1>17 DEF Prepare, CommitBlob, CarryForward
  <2> QED BY <1>15, <2>1, <2>2, <2>3
<1>18. ASSUME pc \in Mid, pc' \in Mid, UNCHANGED <<sums, seals>>,
              bld'.rounds = bld.rounds, bld'.round = bld.round, bld'.created = bld.created,
              NEW f \in AppendOnly, NEW l \in Lines, Log(f, l)
       PROVE  HistoryInv'
  <2>1. log'["cust"] = IF f = "cust" THEN Write(log["cust"], l) ELSE log["cust"]
    BY <1>0, <1>18, LogTypes DEF Log, AppendOnly
  <2>2. Len(log["cust"]) <= Len(log'["cust"])
    BY <2>1, HistoryTypes, WriteLonger
  <2> QED BY <1>18, <2>2, HistoryMid
<1>19. CASE LogAborted
  <2>1. pc \in Mid /\ pc' \in Mid /\ UNCHANGED <<sums, seals>> /\ bld.todo # <<>>
    BY <1>19, SMT DEF LogAborted, Mid, Writing
  <2>2. bld'.rounds = bld.rounds /\ bld'.round = bld.round /\ bld'.created = bld.created
    BY <1>0, <1>19 DEF LogAborted, Builders
  <2> DEFINE l == Line(run, "round_aborted", Head(bld.todo))
  <2>3. l \in Lines
    <3>1. bld.todo \in Seq(Nat)
      BY BuilderFields, <1>0 DEF Numbers
    <3>2. Head(bld.todo) \in ABlob \cup Nat /\ "round_aborted" \in Events
      BY <2>1, <3>1 DEF Events
    <3> QED BY <3>2, HistoryTypes, LineType
  <2>4. Log("cust", l) /\ "cust" \in AppendOnly
    BY <1>19 DEF LogAborted, AppendOnly
  <2> HIDE DEF l
  <2> QED BY <1>18, <2>1, <2>2, <2>3, <2>4
<1>20. CASE RecordManifest \/ RecordCollection
  <2>1. pc \in Mid /\ pc' \in Mid /\ UNCHANGED <<sums, seals, bld>>
    BY <1>20, SMT DEF RecordManifest, RecordCollection, WriteFails, Mid, Writing
  <2> DEFINE a == Line(run, "artifact", bld.cur)
             b == Line(run, "torn", NoArg)
  <2>2. PICK f \in {"man", "coll"} : Log(f, a) \/ Log(f, b) \/ UNCHANGED log
    BY <1>20, Zenon DEF RecordManifest, RecordCollection, WriteFails
  <2>3. a \in Lines /\ b \in Lines
    <3>1. bld.cur \in ABlob \cup Nat /\ NoArg \in ABlob \cup Nat
      BY BuilderFields, <1>0 DEF ABlob
    <3>2. "artifact" \in Events /\ "torn" \in Events
      BY DEF Events
    <3> QED BY <3>1, <3>2, HistoryTypes, LineType
  <2> HIDE DEF a, b
  <2>4. f \in AppendOnly
    BY DEF AppendOnly
  <2>5. CASE Log(f, a) \/ Log(f, b)
    BY <1>18, <2>1, <2>3, <2>4, <2>5
  <2>6. CASE UNCHANGED log
    <3>1. SameRounds(bld', bld)
      BY <1>0, <2>1 DEF SameRounds
    <3> QED BY <1>15, <2>1, <2>6, <3>1
  <2> QED BY <2>2, <2>5, <2>6
<1>21. CASE SealCustody
  <2>1. pc \in Mid /\ pc' \in Mid /\ UNCHANGED <<sums, seals, bld>>
    BY <1>21, SMT DEF SealCustody, Mid, Writing
  <2> DEFINE l == Line(run, "acquisition_completed", bld.round)
             m == Line(run, "package_sealed", bld.round)
  <2>2. log' = [log EXCEPT !["cust"] = Write(Write(log["cust"], l), m)]
    BY <1>21 DEF SealCustody
  <2>3. l \in Lines /\ m \in Lines
    <3>1. bld.round \in ABlob \cup Nat /\ "acquisition_completed" \in Events
          /\ "package_sealed" \in Events
      BY HistoryTypes DEF Events
    <3> QED BY <3>1, HistoryTypes, LineType
  <2> HIDE DEF l, m
  <2>4. log'["cust"] = Write(Write(log["cust"], l), m)
    BY <1>0, <2>2, LogTypes DEF AppendOnly
  <2>5. log["cust"] \in Seq(Lines) /\ Write(log["cust"], l) \in Seq(Lines)
    BY <2>3, HistoryTypes, WriteType
  <2>6. /\ Len(log["cust"]) <= Len(Write(log["cust"], l)) /\ Len(log["cust"]) \in Nat
        /\ Len(Write(log["cust"], l)) <= Len(log'["cust"]) /\ Len(log'["cust"]) \in Nat
        /\ Len(Write(log["cust"], l)) \in Nat
    BY <2>3, <2>4, <2>5, WriteLonger
  <2>7. Len(log["cust"]) <= Len(log'["cust"])
    BY <2>6
  <2> QED BY <2>1, <2>7, HistoryMid
<1>22. CASE WriteCase
  <2>1. /\ pc = "seal_case" /\ pc' = "seal_arch" /\ UNCHANGED <<sums, seals, log, bld>>
        /\ case'.rounds = Append(bld.rounds, bld.round)
    BY <1>22 DEF WriteCase
  <2>2. /\ pc \in Active /\ pc \in (Writing \cup {"append"}) \ {"seal_sums"}
        /\ pc \in Writing \ {"start"} /\ pc' \in Writing
    BY <2>1, SMT DEF Active, Writing
  <2> QED BY <2>1, <2>2, Zenon DEF HistoryInv, FirstSeal, RoundsListed, ArchivesListed,
             CustodyGrows, Sealed, SealedRounds, SealRound
<1>23. CASE ArchiveSeal
  <2>1. /\ pc = "seal_arch" /\ pc' = "seal_sums" /\ UNCHANGED <<sums, case, log, bld>>
        /\ seals' = IF Sealed /\ ~ \E s \in seals : s[1] = bld.round - 1
                    THEN seals \cup {<<bld.round - 1, sums.run>>}
                    ELSE seals
    BY <1>23 DEF ArchiveSeal
  <2>2. pc \in Active /\ pc \in Writing \ {"start"} /\ pc' \in Writing
    BY <2>1, SMT DEF Active, Writing
  <2>3. CASE ~Sealed
    <3>1. seals' = seals
      BY <2>1, <2>3
    <3> QED BY <2>1, <2>2, <2>3, <3>1, Zenon DEF HistoryInv, FirstSeal, RoundsListed,
               ArchivesListed, CustodyGrows, Sealed, SealedRounds, SealRound
  <2>4. CASE Sealed
    <3>1. bld.round = SealRound + 1 /\ SealRound \in Nat
      BY <2>2, <2>4, HistoryTypes DEF HistoryInv, RoundsListed
    <3>2. seals = sums.seals
      BY <2>1, SMT DEF HistoryInv, ArchivesListed, Writing
    <3>3. \A p \in sums.seals : p[1] \in Nat /\ p[1] < SealRound
      BY <2>4, HistoryTypes DEF HistoryInv, ArchivesListed
    <3>4. bld.round - 1 = SealRound
      BY <3>1
    <3>5. ~ \E s \in seals : s[1] = SealRound
      BY <3>1, <3>2, <3>3
    <3>6. seals' = sums.seals \cup {<<SealRound, sums.run>>}
      BY <2>1, <2>4, <3>2, <3>4, <3>5, Zenon
    <3>7. ArchivesListed'
      BY <2>1, <2>4, <3>6, Zenon DEF HistoryInv, ArchivesListed, Sealed, SealedRounds, SealRound
    <3>8. FirstSeal' /\ RoundsListed' /\ CustodyGrows'
      BY <2>1, <2>2, <2>4, Zenon DEF HistoryInv, FirstSeal, RoundsListed, CustodyGrows, Sealed,
         SealedRounds, SealRound
    <3> QED BY <3>7, <3>8 DEF HistoryInv
  <2> QED BY <2>3, <2>4
<1>24. CASE WriteSums
  <2>1. /\ pc = "seal_sums" /\ pc' = "seal_end" /\ UNCHANGED <<seals, log, case, bld, run>>
        /\ sums'.run = run /\ sums'.case = case /\ sums'.seals = seals
    BY <1>24 DEF WriteSums
  <2>2. /\ pc \in Active /\ pc \in Writing /\ pc' \notin Active /\ pc' \notin Writing
        /\ pc' \notin {"start", "append", "seal_arch", "seal_sums"}
    BY <2>1, SMT DEF Active, Writing
  <2>3. sums.run < run /\ run # 0 /\ sums.run \in Nat /\ run \in Nat
    <3>1. sums.run < run
      BY <2>2 DEF RoundInv, SealsAreEarlier
    <3> QED BY <3>1, HistoryTypes
  <2>4. SealedRounds' = Append(bld.rounds, bld.round)
    BY <2>1 DEF HistoryInv, RoundsListed, SealedRounds
  <2>5. SealedRounds' # <<>> /\ SealRound' = bld.round
    <3>1. bld.rounds \in Seq(Nat)
      BY HistoryTypes
    <3>2. SealedRounds' # <<>> /\ SealedRounds'[Len(SealedRounds')] = bld.round
      BY <2>4, <3>1
    <3> QED BY <3>2 DEF SealRound
  <2>6. ASSUME NEW p \in seals PROVE p[1] < bld.round /\ p[2] < run
    <3>1. Sealed /\ bld.round = SealRound + 1
      BY <2>2, <2>6 DEF HistoryInv, FirstSeal, RoundsListed
    <3>2. p \in sums.seals \/ p = <<SealRound, sums.run>>
      BY <2>1, <2>6, <3>1 DEF HistoryInv, ArchivesListed
    <3>3. CASE p \in sums.seals
      <4>1. p[1] < SealRound /\ p[2] < sums.run /\ p[1] \in Nat /\ p[2] \in Nat
        BY <3>1, <3>3, HistoryTypes DEF HistoryInv, ArchivesListed
      <4> QED BY <2>3, <3>1, <4>1, HistoryTypes
    <3>4. CASE p = <<SealRound, sums.run>>
      BY <2>3, <3>1, <3>4, HistoryTypes
    <3> QED BY <3>2, <3>3, <3>4
  <2>7. FirstSeal' /\ RoundsListed' /\ CustodyGrows'
    BY <2>1, <2>2, <2>3, <2>5, Zenon DEF FirstSeal, RoundsListed, CustodyGrows, Sealed, Absent
  <2>8. ArchivesListed'
    BY <2>1, <2>2, <2>5, <2>6, Zenon DEF ArchivesListed
  <2> QED BY <2>7, <2>8 DEF HistoryInv
<1>25. CASE CloseNew
  <2>1. sums' = NoSeal /\ seals' = {} /\ pc' = "idle"
    BY <1>25 DEF CloseNew
  <2>2. sums'.run = Absent /\ ~Sealed'
    BY <2>1 DEF NoSeal, Sealed
  <2> QED BY <2>1, <2>2, SMT DEF HistoryInv, FirstSeal, RoundsListed, ArchivesListed,
             CustodyGrows, Active, Writing
<1>26. CASE Stopped
  BY <1>1, <1>26 DEF Stopped
<1> QED
  BY <1>1, <1>2, <1>3, <1>6, <1>7, <1>8, <1>9, <1>10, <1>11, <1>12, <1>13, <1>14, <1>16,
     <1>17, <1>19, <1>20, <1>21, <1>22, <1>23, <1>24, <1>25, <1>26,
     Zenon DEF Next, Open, Rollback, OpenRound, Acquire, Seal

\* A step changes what the seal in place covers only by adding a round to it.
LEMMA HistoryMaps ==
    ASSUME TypeInv, TypeInv', RoundTaken, RoundInv, HistoryInv, [Next]_vars
    PROVE  [History!Next]_(History!vars)
<1> USE DEF disk, Goto
<1>1. ASSUME UNCHANGED sums PROVE UNCHANGED History!vars
  BY <1>1 DEF History!vars, SealedRounds
<1>2. CASE WriteSums
  <2>1. /\ pc = "seal_sums" /\ UNCHANGED <<seals, log, case, bld, run>>
        /\ sums'.run = run /\ sums'.case = case /\ sums'.seals = seals /\ sums'.log = log
    BY <1>2 DEF WriteSums
  <2>2. pc \in Active /\ pc \in Writing /\ pc \in Writing \ {"start"}
    BY <2>1, SMT DEF Active, Writing
  <2>3. sums.run < run /\ run # 0 /\ sums.run \in Nat /\ run \in Nat
    <3>1. sums.run < run
      BY <2>2 DEF RoundInv, SealsAreEarlier
    <3> QED BY <3>1, HistoryTypes
  <2>4. SealRound' = bld.round
    <3>1. SealedRounds' = Append(bld.rounds, bld.round) /\ bld.rounds \in Seq(Nat)
      BY <2>1, HistoryTypes DEF HistoryInv, RoundsListed, SealedRounds
    <3>2. SealedRounds' # <<>> /\ SealedRounds'[Len(SealedRounds')] = bld.round
      BY <3>1
    <3> QED BY <3>2 DEF SealRound
  <2>5. ASSUME NEW f \in AppendOnly PROVE History!Extends(log[f], sums.log[f])
    <3> DEFINE s == sums.log[f]
               t == log[f]
               u == SubSeq(t, 1, Len(s))
    <3>1. s \in Seq(Lines) /\ t \in Seq(Lines)
      BY LogTypes DEF TypeInv
    <3>2. Prefix(s, t)
      <4>1. CASE Sealed
        BY <4>1 DEF RoundInv, SealedLogsPreserved
      <4>2. CASE ~Sealed
        <5>1. s = <<>>
          BY <4>2 DEF HistoryInv, FirstSeal, NoSeal, NoLogs
        <5> HIDE DEF s
        <5> QED BY <3>1, <5>1 DEF Prefix
      <4> QED BY <4>1, <4>2
    <3> HIDE DEF s, t
    <3>3. Len(s) \in Nat /\ Len(s) <= Len(t) /\ \A i \in 1..Len(s) : t[i] = s[i] /\ t[i] \in Lines
      BY <3>1, <3>2, SMT DEF Prefix
    <3>4. u \in Seq(Lines) /\ Len(u) = Len(s) /\ \A i \in 1..Len(s) : u[i] = t[i]
      BY <3>3, SubSeqProperties, SMT
    <3> HIDE DEF u
    <3>5. u = s
      BY <3>1, <3>3, <3>4, SeqEqual
    <3> QED BY <3>3, <3>5 DEF History!Extends, u, s, t
  <2>6. History!GrowEvidence
    <3>1. DOMAIN sums'.log = AppendOnly
      BY <2>1, LogTypes DEF TypeInv
    <3>2. Len(sums.log["cust"]) < Len(sums'.log["cust"])
      BY <2>1, <2>2 DEF HistoryInv, CustodyGrows
    <3> QED BY <2>1, <2>5, <3>1, <3>2 DEF History!GrowEvidence
  <2>7. ASSUME Sealed
        PROVE  /\ bld.round = SealRound + 1 /\ SealRound \in Nat
               /\ seals = sums.seals \cup {<<SealRound, sums.run>>}
               /\ \A p \in sums.seals : p[1] < SealRound /\ p[2] < sums.run /\ p[2] \in Nat
    <3>1. bld.round = SealRound + 1
      BY <2>2, <2>7 DEF HistoryInv, RoundsListed
    <3>2. /\ seals = sums.seals \cup {<<SealRound, sums.run>>}
          /\ \A p \in sums.seals : p[1] < SealRound /\ p[2] < sums.run
      BY <2>1, <2>7 DEF HistoryInv, ArchivesListed
    <3> QED BY <3>1, <3>2, HistoryTypes
  <2>8. ASSUME ~Sealed
        PROVE  seals = {} /\ sums.seals = {} /\ sums.run = 0 /\ SealRound = 0
    BY <2>8 DEF HistoryInv, FirstSeal, NoSeal, NoCase, SealRound, SealedRounds, Absent
  <2>9. SealRound = (IF SealedRounds = <<>> THEN 0 ELSE SealedRounds[Len(SealedRounds)])
    BY DEF SealRound
  <2>10. Sealed <=> sums.run # 0
    BY DEF Sealed, Absent
  <2>11. History!Archive
    <3>1. \A p \in sums.seals : p[1] < SealRound /\ p[2] # sums.run
      BY <2>3, <2>7, <2>8
    <3>2. seals = IF sums.run = 0 THEN {} ELSE sums.seals \cup {<<SealRound, sums.run>>}
      BY <2>7, <2>8, <2>10
    <3> QED BY <2>1, <2>9, <3>1, <3>2, Zenon DEF History!Archive
  <2>12. SealRound' > SealRound
    <3>1. CASE Sealed
      BY <2>4, <2>7, <3>1
    <3>2. CASE ~Sealed
      <4>1. bld.round # 0 /\ bld.round \in Nat
        BY <2>1, HistoryTypes, SMT DEF RoundTaken, HasRound
      <4> QED BY <2>4, <2>8, <3>2, <4>1
    <3> QED BY <3>1, <3>2
  <2>13. run \notin {0, sums.run} \cup {p[2] : p \in sums.seals}
    <3>1. \A p \in sums.seals : p[2] # run
      BY <2>3, <2>7, <2>8
    <3> QED BY <2>3, <3>1
  <2>14. SealRound' = (IF SealedRounds' = <<>> THEN 0 ELSE SealedRounds'[Len(SealedRounds')])
    BY DEF SealRound
  <2>15. History!AddRound
    BY <2>1, <2>6, <2>9, <2>11, <2>12, <2>13, <2>14, Zenon DEF History!AddRound
  <2> QED BY <2>15 DEF History!Next
<1>3. CASE CloseNew
  <2>1. pc \in Writing /\ bld.created /\ sums' = NoSeal
    BY <1>3, SMT DEF CloseNew, Unsealing, Writing
  <2>2. UNCHANGED sums
    BY <2>1 DEF HistoryInv, FirstSeal
  <2> QED BY <1>1, <2>2
<1>4. CASE UNCHANGED vars \/ Stopped
  BY <1>1, <1>4 DEF vars, Stopped
<1>5. ASSUME NEW v \in Builds, New(v) \/ Reopen(v) PROVE UNCHANGED sums
  BY <1>5 DEF New, Reopen
<1>6. CASE Rollback
  <2>1. UNCHANGED sums
    BY <1>6 DEF Rollback, RollbackNothing, RollbackRefused, RollbackBegins, TruncateLogs,
       Truncate, RestoreCase, RemoveBlob, RemoveTmp, RemoveArchived, RollbackEnds, NoteAborted
  <2> QED BY <1>1, <2>1
<1>7. CASE OpenRound
  BY <1>1, <1>7 DEF OpenRound, ReadPackage, ReadFails, BeginPending, OpenLogs, StartRound,
     TakeAborted, LogAborted, RoundOpen
<1>8. CASE Acquire
  <2>1. UNCHANGED sums
    BY <1>8 DEF Acquire, Prepare, CommitBlob, CarryForward, ReplaceBlob, RecordManifest,
       RecordCollection
  <2> QED BY <1>1, <2>1
<1>9. CASE SealCustody \/ TruncateCase \/ WriteCase \/ ArchiveSeal \/ EndPending
  BY <1>1, <1>9 DEF SealCustody, TruncateCase, WriteCase, ArchiveSeal, EndPending
<1>10. CASE CloseAdded \/ Crash
  BY <1>1, <1>10 DEF CloseAdded, Crash
<1> QED
  BY <1>1, <1>2, <1>3, <1>4, <1>5, <1>6, <1>7, <1>8, <1>9, <1>10, Zenon DEF Next, Open, Seal

\* CasePackage implements SealedHistory: whatever builders do and wherever they
\* stop, what the current SHA256SUMS covers changes only when a round is
\* sealed, and then every log of it has grown from what it was, the custody
\* chain by at least a line, the round is a later one, and the seal before has
\* joined the archived ones (Seal, archivePreviousSeal, writeSums).
THEOREM RefinesHistory == Spec => ImplementsHistory
<1> DEFINE I == PackageInv /\ HistoryInv
<1>1. Init => I /\ History!Init
  <2>1. Init => History!Init
    BY DEF Init, NoSeal, NoLogs, NoCase, Absent, SealedRounds, History!Init
  <2> QED BY <2>1, TypeInit, RoundTakenInit, RoundInvInit, AbortInit, HistoryInit DEF PackageInv
<1>2. I /\ [Next]_vars => I'
  BY TypeStep, RoundTakenStep, RoundInvStep, LinesStep, RunsStep, PendingStep, NotedStep,
     HistoryStep DEF PackageInv, TypeInv, AbortInv
<1>3. I /\ I' /\ [Next]_vars => [History!Next]_(History!vars)
  BY HistoryMaps DEF PackageInv
<1> QED BY <1>1, <1>2, <1>3, PTL DEF Spec, ImplementsHistory, History!Spec

=============================================================================
