-------------------------- MODULE AcquisitionProofs --------------------------
(***************************************************************************)
(* The parallel acquisition, for any number of files and workers and any   *)
(* sizes of the channels: nothing is lost or taken twice on its way to the *)
(* manifest, and the manifest is that of a serial run.                     *)
(***************************************************************************)
EXTENDS Acquisition, TLAPS

\* A worker has a file exactly while it reads it or sends its result.
HandsOK ==
    \A w \in Workers : \/ hand[w] \in {Idle, Gone}
                       \/ hand[w].pc \in {"reading", "sending"} /\ hand[w].idx \in Files

\* The stages of the end: no worker leaves before the jobs are closed and taken, the
\* results are closed when all have left, and then the committer finds all of them due.
EndsOK ==
    /\ \A w \in Workers : hand[w] = Gone => walk # "walking" /\ jobs = {}
    /\ walk \in {"draining", "done"} => \A w \in Workers : hand[w] = Gone
    /\ walk # "walking" => failed = (issued < N)
    /\ drained => walk \in {"draining", "done"} /\ results = {} /\ buf = {}
    /\ walk = "done" => drained

\* The committer is never ahead of discovery, and the manifest lacks what was lost and
\* nothing else.
CountOK ==
    /\ next <= issued + 1
    /\ Len(log) <= next - 1
    /\ lost = {} => Len(log) = next - 1

AInv == TypeOK /\ HandsOK /\ EndsOK /\ CountOK /\ InFlightExactly

-----------------------------------------------------------------------------
\* What a worker holds and a result carries.
Pcs == {"idle", "reading", "sending", "gone"}

LEMMA AHand ==
    /\ \A p \in Pcs, i \in 0 .. N, o \in Outcomes :
          /\ Hand(p, i, o) \in Hands /\ Hand(p, i, o).pc = p
          /\ Hand(p, i, o).idx = i /\ Hand(p, i, o).out = o
    /\ \A h \in Hands : h.pc \in Pcs /\ h.idx \in 0 .. N /\ h.out \in Outcomes
  BY DEF Hand, Hands, Pcs

LEMMA AResult ==
    /\ \A i \in Files, o \in Outcomes :
          Result(i, o) \in Results /\ Result(i, o).idx = i /\ Result(i, o).out = o
    /\ \A r \in Results : r.idx \in Files /\ r.out \in Outcomes
  BY DEF Result, Results

LEMMA ANone ==
    /\ Idle \in Hands /\ Idle.pc = "idle" /\ Idle.idx = 0
    /\ Gone \in Hands /\ Gone.pc = "gone" /\ Gone.idx = 0
    /\ 0 \notin Files /\ Files \subseteq 0 .. N
    /\ "none" \in Outcomes /\ "blob" \in Outcomes /\ "error" \in Outcomes
    /\ "reading" \in Pcs /\ "sending" \in Pcs
  BY AHand, AcquisitionAssumption DEF Idle, Gone, Pcs, Outcomes, Files

LEMMA AAppend == \A s \in Seq(Files), i \in Files :
                    Append(s, i) \in Seq(Files) /\ Len(Append(s, i)) = Len(s) + 1
  OBVIOUS

-----------------------------------------------------------------------------
LEMMA AInvInit == Init => AInv
<1> SUFFICES ASSUME Init PROVE AInv
  OBVIOUS
<1>1. TypeOK
  <2>1. log \in Seq(Files) /\ next \in 1 .. (N + 1) /\ issued \in 0 .. N
    BY AcquisitionAssumption DEF Init
  <2>2. hand \in [Workers -> Hands]
    BY ANone DEF Init
  <2> QED BY <2>1, <2>2 DEF Init, TypeOK
<1>2. HandsOK /\ EndsOK /\ CountOK
  <2>1. HandsOK
    BY DEF Init, HandsOK
  <2>2. EndsOK
    BY ANone DEF Init, EndsOK
  <2>3. CountOK
    BY SMT DEF Init, CountOK
  <2> QED BY <2>1, <2>2, <2>3
<1>3. InFlightExactly
  <2>1. \A i \in Files : ~Held(i) /\ ~Arrived(i)
    BY ANone DEF Init, Held, Holds, Arrived
  <2>2. InFlight = {} /\ next .. issued = {}
    BY <2>1 DEF Init, InFlight
  <2>3. InOnePlace
    BY <2>1, ANone DEF Init, InOnePlace, Holds
  <2> QED BY <2>2, <2>3 DEF InFlightExactly, Init
<1> QED BY <1>1, <1>2, <1>3 DEF AInv

-----------------------------------------------------------------------------
\* Every step keeps the state in its type.
LEMMA ATypeStep == TypeOK /\ HandsOK /\ [Next]_vars => TypeOK'
<1> SUFFICES ASSUME TypeOK, HandsOK, [Next]_vars PROVE TypeOK'
  OBVIOUS
<1> USE AcquisitionAssumption DEF TypeOK, committed
<1>1. CASE Submit
  BY <1>1, SMT DEF Submit, Files
<1>2. CASE SendRecord
  <2>1. issued' \in Files
    BY <1>2, SMT DEF SendRecord, Files
  <2> QED BY <1>2, <2>1, AResult, ANone, SMT DEF SendRecord
<1>3. CASE WalkEnds
  BY <1>3, SMT DEF WalkEnds
<1>4. CASE Joined
  BY <1>4, SMT DEF Joined
<1>5. CASE Returns
  BY <1>5, SMT DEF Returns
<1>6. ASSUME NEW w \in Workers, Worker(w) PROVE TypeOK'
  <2>1. CASE Take(w)
    BY <2>1, AHand, ANone, SMT DEF Take
  <2>2. CASE Refused(w)
    BY <2>2, AHand, ANone, SMT DEF Refused
  <2>3. CASE Read(w)
    <3>1. hand[w].idx \in Files
      BY <2>3, ANone DEF Read, HandsOK
    <3>2. hand' \in [Workers -> Hands]
      BY <2>3, AHand, ANone, SMT DEF Read
    <3> QED BY <2>3, <3>1, <3>2 DEF Read
  <2>4. CASE ReadFails(w)
    BY <2>4, AHand, ANone, SMT DEF ReadFails
  <2>5. CASE Send(w)
    <3>1. hand[w].idx \in Files
      BY <2>5, ANone DEF Send, HandsOK
    <3> QED BY <2>5, <3>1, AHand, AResult, ANone, SMT DEF Send
  <2>6. CASE Leave(w)
    BY <2>6, ANone, SMT DEF Leave
  <2> QED BY <1>6, <2>1, <2>2, <2>3, <2>4, <2>5, <2>6 DEF Worker
<1>7. CASE Receive
  BY <1>7, SMT DEF Receive
<1>8. CASE CommitNext
  <2>1. PICK r \in buf : r.idx = next /\ buf' = buf \ {r} /\ next' = next + 1
                         /\ (Commit(r) \/ CommitFails(r))
    BY <1>8 DEF CommitNext, Due
  <2>2. r.idx \in Files /\ next \in Files
    BY <2>1, AResult
  <2>3. next' \in 1 .. (N + 1)
    BY <2>1, <2>2, SMT DEF Files
  <2>4. log' \in Seq(Files) /\ lost' \subseteq Files /\ temps' \subseteq Files
    <3>1. Append(log, r.idx) \in Seq(Files)
      BY <2>2, AAppend
    <3> QED BY <2>1, <2>2, <3>1 DEF Commit, CommitFails
  <2>5. buf' \subseteq Results
    BY <2>1
  <2>6. UNCHANGED <<issued, jobs, hand, results, walk, failed, drained>>
    BY <1>8 DEF CommitNext
  <2> QED BY <2>3, <2>4, <2>5, <2>6
<1>9. CASE Drain
  BY <1>9, SMT DEF Drain, committed
<1>10. CASE UNCHANGED vars
  BY <1>10 DEF vars, committed
<1> QED BY <1>1, <1>2, <1>3, <1>4, <1>5, <1>6, <1>7, <1>8, <1>9, <1>10
    DEF Next, Main, Committer

LEMMA AHandsStep == TypeOK /\ HandsOK /\ [Next]_vars => HandsOK'
<1> SUFFICES ASSUME TypeOK, HandsOK, [Next]_vars PROVE HandsOK'
  OBVIOUS
<1>0. hand \in [Workers -> Hands] /\ jobs \subseteq Files
  BY DEF TypeOK
<1>1. ASSUME hand' = hand PROVE HandsOK'
  BY <1>1 DEF HandsOK
<1>2. ASSUME NEW w \in Workers, Worker(w) PROVE HandsOK'
  <2>1. CASE Take(w)
    BY <2>1, <1>0, AHand, ANone, SMT DEF Take, HandsOK
  <2>2. ASSUME hand[w].pc = "reading",
               NEW o \in Outcomes, hand' = [hand EXCEPT ![w] = Hand("sending", hand[w].idx, o)]
        PROVE HandsOK'
    <3>1. hand[w].idx \in Files
      BY <2>2, ANone DEF HandsOK
    <3> QED BY <2>2, <3>1, <1>0, AHand, ANone, SMT DEF HandsOK
  <2>3. CASE Refused(w)
    BY <2>2, <2>3, ANone DEF Refused
  <2>4. CASE Read(w)
    BY <2>2, <2>4, ANone DEF Read
  <2>5. CASE ReadFails(w)
    BY <2>2, <2>5, ANone DEF ReadFails
  <2>6. CASE Send(w)
    BY <2>6, <1>0, SMT DEF Send, HandsOK
  <2>7. CASE Leave(w)
    BY <2>7, <1>0, SMT DEF Leave, HandsOK
  <2> QED BY <1>2, <2>1, <2>3, <2>4, <2>5, <2>6, <2>7 DEF Worker
<1> QED BY <1>1, <1>2 DEF Next, Main, Committer, Submit, SendRecord, WalkEnds, Joined, Returns,
    Receive, CommitNext, Drain, vars

-----------------------------------------------------------------------------
\* Every step keeps the stages of the end.
LEMMA AEndsStep == AInv /\ [Next]_vars => EndsOK'
<1> SUFFICES ASSUME AInv, [Next]_vars PROVE EndsOK'
  OBVIOUS
<1>0. TypeOK /\ EndsOK
  BY DEF AInv
<1> USE DEF EndsOK
<1>1. CASE Submit
  BY <1>0, <1>1, SMT DEF Submit
<1>2. CASE SendRecord
  BY <1>0, <1>2, SMT DEF SendRecord
<1>3. CASE WalkEnds
  BY <1>0, <1>3, SMT DEF WalkEnds
<1>4. CASE Joined
  BY <1>0, <1>4, SMT DEF Joined
<1>5. CASE Returns
  BY <1>0, <1>5, SMT DEF Returns
<1>6. ASSUME NEW w \in Workers, Worker(w) PROVE EndsOK'
  <2>0. hand \in [Workers -> Hands] /\ hand[w] # Gone
    BY <1>0, <1>6, AHand, ANone DEF TypeOK, Worker, Take, Refused, Read, ReadFails, Send, Leave
  <2>1. walk # "draining" /\ walk # "done" /\ ~drained
    BY <1>0, <2>0
  <2>2. UNCHANGED <<issued, walk, failed, drained>> /\ jobs' \subseteq jobs
    BY <1>6, SMT DEF Worker, Take, Refused, Read, ReadFails, Send, Leave
  <2>3. ASSUME NEW v \in Workers, hand'[v] = Gone PROVE walk # "walking" /\ jobs = {}
    <3>1. CASE v # w
      <4>1. hand'[v] = hand[v]
        BY <1>6, <2>0, <3>1 DEF Worker, Take, Refused, Read, ReadFails, Send, Leave
      <4> QED BY <1>0, <2>3, <4>1
    <3>2. CASE v = w
      <4>1. CASE Leave(w)
        BY <4>1 DEF Leave
      <4>2. CASE ~Leave(w)
        <5>1. hand'[w].pc # "gone"
          BY <1>0, <1>6, <2>0, <4>2, AHand, ANone, SMT
             DEF TypeOK, Worker, Take, Refused, Read, ReadFails, Send
        <5> QED BY <2>3, <3>2, <5>1, ANone
      <4> QED BY <4>1, <4>2
    <3> QED BY <3>1, <3>2
  <2> QED BY <1>0, <2>1, <2>2, <2>3
<1>7. CASE Receive
  BY <1>0, <1>7, SMT DEF Receive
<1>8. CASE CommitNext
  BY <1>0, <1>8, SMT DEF CommitNext
<1>9. CASE Drain
  BY <1>0, <1>9, SMT DEF Drain
<1>10. CASE UNCHANGED vars
  BY <1>0, <1>10, SMT DEF vars
<1> QED BY <1>1, <1>2, <1>3, <1>4, <1>5, <1>6, <1>7, <1>8, <1>9, <1>10
    DEF Next, Main, Committer

-----------------------------------------------------------------------------
\* What the committer does with the next file, and what the manifest lacks.
LEMMA ACommit ==
    ASSUME TypeOK, CommitNext
    PROVE  \E r \in buf : /\ r.idx = next /\ next \in Files
                          /\ buf' = buf \ {r} /\ next' = next + 1
                          /\ temps' = temps \ {next}
                          /\ \/ log' = Append(log, next) /\ lost' = lost
                             \/ log' = log /\ lost' = lost \cup {next}
<1>1. PICK r \in buf : r.idx = next /\ buf' = buf \ {r} /\ next' = next + 1
                       /\ (Commit(r) \/ CommitFails(r))
  BY DEF CommitNext, Due
<1>2. next \in Files
  BY <1>1, AResult DEF TypeOK
<1> QED BY <1>1, <1>2 DEF Commit, CommitFails

-----------------------------------------------------------------------------
(***************************************************************************)
(* Where the files are.                                                    *)
(***************************************************************************)
\* A step that leaves every file where it was, at this level.
LEMMA AStill ==
    ASSUME InFlightExactly, next' = next, issued' = issued, temps' \subseteq temps,
           \A i \in Files : (i \in jobs \/ Held(i) \/ Arrived(i))
                          <=> (i \in jobs' \/ Held(i)' \/ Arrived(i)')
    PROVE  InFlight' = next' .. issued' /\ temps' \subseteq InFlight'
<1>1. InFlight' = InFlight
  BY DEF InFlight
<1> QED BY <1>1 DEF InFlightExactly

\* One that makes nothing but the last file discovered of it.
LEMMA ADiscovered ==
    ASSUME TypeOK, CountOK, InFlightExactly, issued < N, next' = next, issued' = issued + 1, temps' = temps,
           \A i \in Files : (i \in jobs \/ Held(i) \/ Arrived(i)) \/ i = issued'
                          <=> (i \in jobs' \/ Held(i)' \/ Arrived(i)')
    PROVE  InFlight' = next' .. issued' /\ temps' \subseteq InFlight'
<1>1. issued' \in Files /\ issued' \in Nat /\ issued \in Nat /\ next \in Nat
  BY AcquisitionAssumption, SMT DEF TypeOK, Files
<1>2. InFlight' = InFlight \cup {issued'}
  BY <1>1 DEF InFlight
<1>3. InFlight = next .. issued /\ temps \subseteq InFlight
  BY DEF InFlightExactly
<1>4. next <= issued + 1
  BY DEF CountOK
<1> QED BY <1>1, <1>2, <1>3, <1>4, SMT

\* The next file is committed: it is in flight no more.
LEMMA ACommitted ==
    ASSUME TypeOK, InFlightExactly, CommitNext
    PROVE  /\ InFlight' = next' .. issued' /\ temps' \subseteq InFlight'
           /\ InOnePlace' /\ next <= issued
<1>1. PICK r \in buf : /\ r.idx = next /\ next \in Files
                       /\ buf' = buf \ {r} /\ next' = next + 1
                       /\ temps' = temps \ {next}
  BY ACommit
<1>2. UNCHANGED <<issued, jobs, hand, results>>
  BY DEF CommitNext
<1>3. InFlight = next .. issued /\ InOnePlace /\ temps \subseteq InFlight
  BY DEF InFlightExactly
<1>4. \A i \in Files : Held(i)' <=> Held(i)
  BY <1>2 DEF Held, Holds
<1>5. \A i \in Files : Arrived(i)' <=> Arrived(i) /\ i # next
  BY <1>1, <1>2, <1>3 DEF Arrived, InOnePlace
<1>6. Arrived(next)
  BY <1>1 DEF Arrived
<1>7. next \notin jobs /\ ~Held(next)
  BY <1>1, <1>3, <1>6 DEF InOnePlace
<1>8. InFlight' = InFlight \ {next}
  BY <1>1, <1>2, <1>4, <1>5, <1>7 DEF InFlight
<1>9. next \in InFlight
  BY <1>1, <1>6 DEF InFlight
<1>10. InOnePlace'
  BY <1>1, <1>2, <1>3, SMT DEF InOnePlace, Held, Holds, Arrived
<1>11. next \in Nat /\ issued \in Nat
  BY AcquisitionAssumption DEF TypeOK
<1> QED BY <1>1, <1>2, <1>3, <1>8, <1>9, <1>10, <1>11, SMT

\* The committer does not overtake discovery, and the count of the records is right.
LEMMA ACountStep == AInv /\ [Next]_vars => CountOK'
<1> SUFFICES ASSUME AInv, [Next]_vars PROVE CountOK'
  OBVIOUS
<1>0. TypeOK /\ CountOK /\ InFlightExactly /\ next \in Nat /\ issued \in Nat
  BY AcquisitionAssumption DEF AInv, TypeOK
<1>1. CASE CommitNext
  <2>1. PICK r \in buf : /\ next \in Files /\ next' = next + 1
                         /\ \/ log' = Append(log, next) /\ lost' = lost
                            \/ log' = log /\ lost' = lost \cup {next}
    BY <1>0, <1>1, ACommit
  <2>2. next \in Nat /\ Len(log) \in Nat
    BY <1>0, AcquisitionAssumption DEF TypeOK
  <2>3. next' <= issued' + 1
    BY <1>0, <1>1, <2>1, ACommitted, SMT DEF CommitNext
  <2>4. CASE log' = Append(log, next) /\ lost' = lost
    <3>1. Len(log') = Len(log) + 1
      BY <1>0, <2>1, <2>4, AAppend DEF TypeOK
    <3> QED BY <1>0, <2>1, <2>2, <2>3, <2>4, <3>1, SMT DEF CountOK
  <2>5. CASE log' = log /\ lost' = lost \cup {next}
    BY <1>0, <2>1, <2>2, <2>3, <2>5, SMT DEF CountOK
  <2> QED BY <2>1, <2>4, <2>5
<1>2. ASSUME UNCHANGED committed, issued' = issued \/ issued' = issued + 1 PROVE CountOK'
  BY <1>0, <1>2, SMT DEF CountOK, committed
<1> QED BY <1>1, <1>2 DEF Next, Main, Worker, Committer, Submit, SendRecord, WalkEnds, Joined,
    Returns, Take, Refused, Read, ReadFails, Send, Leave, Receive, Drain, vars, committed

\* When the results are closed and none held is due, none is held.
LEMMA ADrained ==
    ASSUME TypeOK, EndsOK, InFlightExactly, Drain
    PROVE  buf = {} /\ jobs = {} /\ temps' = temps /\ buf' = buf
<1>1. /\ results = {} /\ walk = "draining" /\ \A b \in buf : b.idx # next
      /\ buf' = {} /\ temps' = temps \ {b.idx : b \in buf}
  BY DEF Drain, Due
<1>2. jobs = {}
  BY <1>1, AcquisitionAssumption DEF EndsOK
<1>3. \A i \in Files : ~Held(i)
  BY <1>1, ANone DEF EndsOK, Held, Holds
<1>4. buf = {}
  <2> SUFFICES ASSUME NEW b \in buf PROVE FALSE
    OBVIOUS
  <2>1. b.idx \in Files
    BY AResult DEF TypeOK
  <2>2. b.idx \in next .. issued /\ next \in 1 .. (N + 1) /\ issued \in 0 .. N
    BY <2>1 DEF InFlightExactly, InFlight, Arrived, TypeOK
  <2>3. next \in InFlight
    BY <2>2, AcquisitionAssumption, SMT DEF InFlightExactly
  <2>4. Arrived(next)
    BY <1>2, <1>3, <2>3 DEF InFlight
  <2> QED BY <1>1, <2>4 DEF Arrived
<1> QED BY <1>1, <1>2, <1>4

-----------------------------------------------------------------------------
\* Every step keeps the files in flight exactly those between the committer and discovery.
LEMMA AFlightStep == AInv /\ [Next]_vars => InFlightExactly'
<1> SUFFICES ASSUME AInv, [Next]_vars PROVE InFlightExactly'
  OBVIOUS
<1>0. TypeOK /\ HandsOK /\ EndsOK /\ CountOK /\ InFlightExactly /\ InOnePlace
  BY DEF AInv, InFlightExactly
<1>a. next \in Nat /\ issued \in Nat /\ jobs \subseteq Files /\ hand \in [Workers -> Hands]
      /\ results \subseteq Results /\ buf \subseteq Results /\ temps \subseteq Files
  BY <1>0, AcquisitionAssumption DEF TypeOK
<1>b. ASSUME hand' = hand PROVE \A i \in Files : Held(i)' <=> Held(i)
  BY <1>b DEF Held, Holds
<1>c. ASSUME results' \cup buf' = results \cup buf PROVE \A i \in Files : Arrived(i)' <=> Arrived(i)
  BY <1>c DEF Arrived
<1>d. ASSUME NEW i \in Files, i = issued + 1 PROVE i \notin jobs /\ ~Held(i) /\ ~Arrived(i)
  BY <1>0, <1>a, <1>d, SMT DEF InFlightExactly, InFlight
<1>1. CASE Submit
  <2>1. issued' \in Files /\ issued' = issued + 1 /\ jobs' = jobs \cup {issued'}
        /\ UNCHANGED <<hand, results, buf, temps, next>> /\ issued < N
    BY <1>1, <1>a, AcquisitionAssumption, SMT DEF Submit, committed, Files
  <2>2. InFlight' = next' .. issued' /\ temps' \subseteq InFlight'
    BY <1>0, <1>b, <1>c, <2>1, ADiscovered
  <2>3. InOnePlace'
    BY <1>0, <1>a, <1>b, <1>c, <1>d, <2>1 DEF InOnePlace, Holds
  <2> QED BY <2>2, <2>3 DEF InFlightExactly
<1>2. CASE SendRecord
  <2>1. issued' \in Files /\ issued' = issued + 1 /\ results' = results \cup {Result(issued', "none")}
        /\ UNCHANGED <<jobs, hand, buf, temps, next>> /\ issued < N
    BY <1>2, <1>a, AcquisitionAssumption, SMT DEF SendRecord, committed, Files
  <2>2. Result(issued', "none").idx = issued'
    BY <2>1, AResult, ANone
  <2>3. \A i \in Files : Arrived(i)' <=> Arrived(i) \/ i = issued'
    BY <2>1, <2>2 DEF Arrived
  <2>4. InFlight' = next' .. issued' /\ temps' \subseteq InFlight'
    BY <1>0, <1>b, <2>1, <2>3, ADiscovered
  <2>5. InOnePlace'
    <3>1. \A i \in jobs' : ~Held(i)' /\ ~Arrived(i)'
      BY <1>0, <1>a, <1>b, <1>d, <2>1, <2>3 DEF InOnePlace
    <3>2. \A i \in Files : Held(i)' => ~Arrived(i)'
      BY <1>0, <1>a, <1>b, <1>d, <2>1, <2>3 DEF InOnePlace
    <3>3. \A v, w \in Workers, i \in Files : Holds(v, i)' /\ Holds(w, i)' => v = w
      BY <1>0, <2>1 DEF InOnePlace, Holds
    <3>4. \A r \in results \cup buf : r.idx # issued'
      BY <1>a, <1>d, <2>1 DEF Arrived
    <3>5. /\ \A r, s \in results' \cup buf' : r.idx = s.idx => r = s
          /\ results' \cap buf' = {}
      BY <1>0, <2>1, <2>2, <3>4 DEF InOnePlace
    <3> QED BY <3>1, <3>2, <3>3, <3>5 DEF InOnePlace
  <2> QED BY <2>4, <2>5 DEF InFlightExactly
<1>3. ASSUME UNCHANGED <<issued, jobs, hand, results, buf, next, temps>> PROVE InFlightExactly'
  <2>1. InFlight' = next' .. issued' /\ temps' \subseteq InFlight'
    BY <1>0, <1>3, <1>b, <1>c, AStill
  <2>2. InOnePlace'
    BY <1>0, <1>3 DEF InOnePlace, Holds, Held, Arrived
  <2> QED BY <2>1, <2>2 DEF InFlightExactly
<1>4. ASSUME NEW w \in Workers, Worker(w) PROVE InFlightExactly'
  <2>1. CASE Take(w)
    <3>1. PICK i \in jobs : /\ hand[w] = Idle /\ jobs' = jobs \ {i}
                            /\ hand' = [hand EXCEPT ![w] = Hand("reading", i, "none")]
                            /\ UNCHANGED <<issued, results, buf, next, temps>>
      BY <2>1 DEF Take, committed
    <3>2. Hand("reading", i, "none").idx = i /\ i \in Files
      BY <1>a, AHand, ANone
    <3>3. \A v \in Workers, j \in Files : Holds(v, j)' <=> Holds(v, j) \/ (v = w /\ j = i)
      BY <1>a, <3>1, <3>2, ANone DEF Holds
    <3>4. \A j \in Files : Held(j)' <=> Held(j) \/ j = i
      BY <3>3 DEF Held
    <3>5. InFlight' = next' .. issued' /\ temps' \subseteq InFlight'
      BY <1>0, <1>c, <3>1, <3>2, <3>4, AStill
    <3>6. InOnePlace'
      <4>1. ~Held(i) /\ ~Arrived(i)
        BY <1>0 DEF InOnePlace
      <4>2. \A j \in jobs' : ~Held(j)' /\ ~Arrived(j)'
        BY <1>0, <1>a, <1>c, <3>1, <3>4 DEF InOnePlace
      <4>3. \A j \in Files : Held(j)' => ~Arrived(j)'
        BY <1>0, <1>c, <3>1, <3>4, <4>1 DEF InOnePlace
      <4>4. \A u, v \in Workers, j \in Files : Holds(u, j)' /\ Holds(v, j)' => u = v
        BY <1>0, <3>3, <4>1 DEF InOnePlace, Held
      <4> QED BY <1>0, <3>1, <4>2, <4>3, <4>4 DEF InOnePlace
    <3> QED BY <3>5, <3>6 DEF InFlightExactly
  <2>2. ASSUME UNCHANGED <<issued, jobs, results, buf, next>>,
               \A v \in Workers, j \in Files : Holds(v, j)' <=> Holds(v, j),
               \/ temps' = temps
               \/ hand[w].idx \in Files /\ temps' = temps \cup {hand[w].idx}
        PROVE InFlightExactly'
    <3>1. \A j \in Files : (Held(j)' <=> Held(j)) /\ (Arrived(j)' <=> Arrived(j))
      BY <1>c, <2>2 DEF Held
    <3>2. InFlight' = InFlight
      BY <2>2, <3>1 DEF InFlight
    <3>3. hand[w].idx \in Files => hand[w].idx \in InFlight
      BY DEF InFlight, Held, Holds
    <3>4. InOnePlace'
      BY <1>0, <1>a, <2>2, <3>1 DEF InOnePlace
    <3> QED BY <1>0, <2>2, <3>2, <3>3, <3>4 DEF InFlightExactly
  <2>3. ASSUME NEW p \in Pcs, NEW o \in Outcomes,
               hand' = [hand EXCEPT ![w] = Hand(p, hand[w].idx, o)]
        PROVE \A v \in Workers, j \in Files : Holds(v, j)' <=> Holds(v, j)
    BY <1>a, <2>3, AHand DEF Holds
  <2>4. hand[w].pc = "reading" => hand[w].idx \in Files
    BY <1>0, ANone DEF HandsOK
  <2>5. CASE Refused(w)
    BY <2>2, <2>3, <2>5, ANone DEF Refused, committed
  <2>6. CASE Read(w)
    BY <2>2, <2>3, <2>4, <2>6, ANone DEF Read, committed
  <2>7. CASE ReadFails(w)
    BY <2>2, <2>3, <2>7, ANone DEF ReadFails, committed
  <2>8. CASE Leave(w)
    <3>1. \A v \in Workers, j \in Files : Holds(v, j)' <=> Holds(v, j)
      BY <1>a, <2>8, ANone DEF Leave, Holds
    <3> QED BY <2>2, <2>8, <3>1 DEF Leave, committed
  <2>9. CASE Send(w)
    <3> DEFINE i == hand[w].idx
               r == Result(i, hand[w].out)
    <3>1. i \in Files /\ hand[w].out \in Outcomes
      BY <1>0, <1>a, <2>9, ANone, AHand DEF Send, HandsOK
    <3>2. r.idx = i
      BY <3>1, AResult
    <3>3. /\ results' = results \cup {r} /\ hand' = [hand EXCEPT ![w] = Idle]
          /\ UNCHANGED <<issued, jobs, buf, next, temps>>
      BY <2>9 DEF Send, committed
    <3> HIDE DEF r
    <3>4. \A v \in Workers, j \in Files : Holds(v, j)' <=> Holds(v, j) /\ v # w
      BY <1>a, <3>3, ANone DEF Holds
    <3>5. Holds(w, i) /\ Held(i) /\ ~Arrived(i) /\ i \notin jobs
      BY <1>0, <3>1 DEF InOnePlace, Held, Holds
    <3> HIDE DEF i
    <3>6. \A j \in Files : Held(j)' <=> Held(j) /\ j # i
      <4>1. \A j \in Files : Holds(w, j) => j = i
        BY DEF Holds, i
      <4>2. \A v \in Workers : Holds(v, i) => v = w
        BY <1>0, <3>1, <3>5 DEF InOnePlace
      <4> QED BY <3>4, <4>1, <4>2 DEF Held
    <3>7. \A j \in Files : Arrived(j)' <=> Arrived(j) \/ j = i
      BY <3>2, <3>3 DEF Arrived
    <3>8. InFlight' = next' .. issued' /\ temps' \subseteq InFlight'
      BY <1>0, <3>3, <3>5, <3>6, <3>7, AStill
    <3>9. InOnePlace'
      <4>1. \A j \in jobs' : ~Held(j)' /\ ~Arrived(j)'
        BY <1>0, <1>a, <3>3, <3>5, <3>6, <3>7 DEF InOnePlace
      <4>2. \A j \in Files : Held(j)' => ~Arrived(j)'
        BY <1>0, <3>6, <3>7 DEF InOnePlace
      <4>3. \A u, v \in Workers, j \in Files : Holds(u, j)' /\ Holds(v, j)' => u = v
        BY <1>0, <3>4 DEF InOnePlace
      <4>4. \A s \in results \cup buf : s.idx # i
        BY <3>5 DEF Arrived
      <4>5. /\ \A s, t \in results' \cup buf' : s.idx = t.idx => s = t
            /\ results' \cap buf' = {}
        BY <1>0, <3>2, <3>3, <4>4 DEF InOnePlace
      <4> QED BY <4>1, <4>2, <4>3, <4>5 DEF InOnePlace
    <3> QED BY <3>8, <3>9 DEF InFlightExactly
  <2> QED BY <1>4, <2>1, <2>5, <2>6, <2>7, <2>8, <2>9 DEF Worker
<1>5. CASE Receive
  <2>1. PICK r \in results : results' = results \ {r} /\ buf' = buf \cup {r}
    BY <1>5 DEF Receive
  <2>2. UNCHANGED <<issued, jobs, hand, next, temps>> /\ results' \cup buf' = results \cup buf
    BY <1>5, <2>1 DEF Receive, committed
  <2>3. InFlight' = next' .. issued' /\ temps' \subseteq InFlight'
    BY <1>0, <2>2, <1>b, <1>c, AStill
  <2>4. results' \cap buf' = {}
    BY <1>0, <2>1 DEF InOnePlace
  <2>5. InOnePlace'
    BY <1>0, <1>a, <1>b, <1>c, <2>2, <2>4 DEF InOnePlace, Holds
  <2> QED BY <2>3, <2>5 DEF InFlightExactly
<1>6. CASE CommitNext
  BY <1>0, <1>6, ACommitted DEF InFlightExactly
<1>7. CASE Drain
  BY <1>0, <1>3, <1>7, ADrained DEF Drain, committed
<1>8. CASE UNCHANGED vars
  BY <1>3, <1>8 DEF vars, committed
<1> QED BY <1>1, <1>2, <1>3, <1>4, <1>5, <1>6, <1>7, <1>8
    DEF Next, Main, Committer, WalkEnds, Joined, Returns, committed

-----------------------------------------------------------------------------
LEMMA AInvariant == Spec => []AInv
<1>1. AInv /\ [Next]_vars => AInv'
  BY ATypeStep, AHandsStep, AEndsStep, ACountStep, AFlightStep DEF AInv
<1> QED BY AInvInit, <1>1, PTL DEF Spec

\* The state keeps its type (collector.go, the variables of Run and its goroutines).
THEOREM AcquisitionTyped == Spec => []TypeOK
<1>1. AInv => TypeOK
  BY DEF AInv
<1> QED BY AInvariant, <1>1, PTL

\* However many workers run and however small the channels are, a file discovered and not
\* yet committed is in exactly one place on the way to the manifest, and only such a file
\* has a temporary file (collector.go:198-233, casepkg.go:659).
THEOREM NothingLostInFlight == Spec => []InFlightExactly
<1>1. AInv => InFlightExactly
  BY DEF AInv
<1> QED BY AInvariant, <1>1, PTL

-----------------------------------------------------------------------------
\* At the end of a collection that reports no error, every file has been committed.
LEMMA AAllCommitted ==
    ASSUME AInv, drained, ~failed, lost = {}
    PROVE  Len(log) = N
<1>1. /\ walk # "walking" /\ results = {} /\ buf = {}
      /\ \A w \in Workers : hand[w] = Gone
  BY DEF AInv, EndsOK
<1>2. jobs = {} /\ issued = N
  <2>1. jobs = {}
    BY <1>1, AcquisitionAssumption DEF AInv, EndsOK
  <2>2. ~(issued < N) /\ issued \in 0 .. N
    BY <1>1 DEF AInv, EndsOK, TypeOK
  <2> QED BY <2>1, <2>2, AcquisitionAssumption, SMT
<1>3. \A i \in Files : ~Held(i) /\ ~Arrived(i)
  BY <1>1, ANone DEF Held, Holds, Arrived
<1>4. next .. N = {}
  BY <1>2, <1>3 DEF AInv, InFlightExactly, InFlight
<1> QED BY <1>2, <1>4, AcquisitionAssumption, SMT DEF AInv, TypeOK, CountOK

\* A step of the collection is a step of the serial run, or none.
LEMMA AMaps == AInv /\ [Next]_vars => [Serial!Next]_(Serial!vars)
<1> SUFFICES ASSUME AInv, [Next]_vars PROVE [Serial!Next]_(Serial!vars)
  OBVIOUS
<1>1. CASE CommitNext
  <2>1. PICK r \in buf : /\ next \in Files /\ next' = next + 1
                         /\ \/ log' = Append(log, next) /\ lost' = lost
                            \/ log' = log /\ lost' = lost \cup {next}
    BY <1>1, ACommit DEF AInv
  <2>2. next - 1 < N /\ (next - 1)' = (next - 1) + 1 /\ (next - 1)' = next
    BY <2>1, AcquisitionAssumption, SMT DEF Files
  <2>3. Outcome = "none" /\ Outcome' = "none"
    BY <1>1 DEF CommitNext, AInv, EndsOK, Outcome
  <2>4. Serial!Record \/ Serial!Lose
    BY <2>1, <2>2, <2>3 DEF Serial!Record, Serial!Lose
  <2> QED BY <2>4 DEF Serial!Next
<1>2. CASE Returns
  <2>1. /\ walk = "draining" /\ drained /\ walk' = "done"
        /\ UNCHANGED <<next, log, lost, failed>>
    BY <1>2 DEF Returns, committed
  <2>2. Outcome = "none" /\ UNCHANGED <<next - 1, log>>
    BY <2>1 DEF Outcome
  <2>3. Outcome' = "error" \/ (Len(log) = N /\ Outcome' = "ok")
    BY <2>1, AAllCommitted DEF Outcome
  <2>4. Serial!End
    BY <2>2, <2>3 DEF Serial!End
  <2> QED BY <2>4 DEF Serial!Next
<1>3. ASSUME UNCHANGED committed, walk # "done" /\ walk' # "done" PROVE UNCHANGED Serial!vars
  BY <1>3 DEF committed, Outcome, Serial!vars
<1>4. CASE Main /\ ~Returns
  BY <1>3, <1>4 DEF Main, Submit, SendRecord, WalkEnds, Joined
<1>5. ASSUME NEW w \in Workers, Worker(w) PROVE UNCHANGED Serial!vars
  <2>1. UNCHANGED <<committed, walk, failed>>
    BY <1>5 DEF Worker, Take, Refused, Read, ReadFails, Send, Leave
  <2> QED BY <2>1 DEF committed, Outcome, Serial!vars
<1>6. CASE Committer /\ ~CommitNext
  <2>1. UNCHANGED <<committed, walk, failed>>
    BY <1>6 DEF Committer, Receive, Drain
  <2> QED BY <2>1 DEF committed, Outcome, Serial!vars
<1>7. CASE UNCHANGED vars
  BY <1>7 DEF vars, committed, Outcome, Serial!vars
<1> QED BY <1>1, <1>2, <1>4, <1>5, <1>6, <1>7 DEF Next

\* A parallel run is a serial one: the manifest is written in the order of discovery, and
\* Run returns no error only if every file is in it (collector.go:213, "Ordering is what
\* makes a parallel run reproduce a serial one").
THEOREM ParallelIsSerial == Spec => ImplementsSerial
<1>1. Init => Serial!Init
  BY DEF Init, Serial!Init, Outcome
<1>2. AInv /\ [Next]_vars => [Serial!Next]_(Serial!vars)
  BY AMaps
<1> QED BY AInvariant, <1>1, <1>2, PTL DEF Spec, ImplementsSerial, Serial!Spec
=============================================================================
