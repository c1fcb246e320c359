------------------------- MODULE WebhookAlertsProofs -------------------------
(***************************************************************************)
(* The webhook sink, for any sizes of its queues and any number of alerts: *)
(* the engine never waits for it, every alert is accounted for, and the    *)
(* receiver gets them in order.                                            *)
(***************************************************************************)
EXTENDS WebhookAlerts, FiniteSetTheorems, TLAPS

\* The worker takes the alerts in the order they were queued in, and an alert not found
\* yet has not ended.
QueueOK ==
    /\ \A a \in Alerts : found < a => done[a] = "open"
    /\ \A i, j \in DOMAIN queue : i < j => queue[i] < queue[j]
    /\ hand # None => \A i \in DOMAIN queue : hand < queue[i]

PostsOf(a) == {i \in DOMAIN posts : posts[i] = a}

\* What was posted is behind what is queued, and the alert in hand was posted no more
\* often than it was tried.
PostsOK ==
    /\ \A i \in DOMAIN posts : posts[i] <= found /\ (hand # None => posts[i] <= hand)
    /\ \A i \in DOMAIN posts, j \in DOMAIN queue : posts[i] < queue[j]
    /\ hand # None => Cardinality(PostsOf(hand)) <= tries

\* The counts of the engine, whatever it is doing: a push is counted after the drop it
\* is for, and an error that is kept is one that was not told.  The balance is exact, but
\* for a program that exits between the two.
Pushed == Cardinality(Ended("pushed out"))
Failed == Cardinality(Ended("failed"))
Counted == dropped + Len(errs) + untold
CountsOK ==
    /\ pc \in {"drop", "push"} => found < MaxAlerts
    /\ alerts + dropped <= found /\ (pc = "surface" => alerts + dropped < found)
    /\ idle <= found + (IF pc \in {"push", "exited"} THEN 1 ELSE 0)
    /\ pc # "exited" => Pushed + idle <= dropped + (IF pc = "push" THEN 1 ELSE 0)
    /\ pc # "exited" => Counted + (IF pc = "push" THEN 1 ELSE 0) = Pushed + idle + Failed
    /\ pc = "exited" => Pushed + idle + Failed \in {Counted, Counted + 1}
    /\ untold > 0 => untold + ErrsCap <= Failed

WInv == /\ TypeOK /\ NeverStalls /\ QueueOK /\ EachSomewhere /\ PostsOK /\ PostedInOrder
        /\ CountsOK /\ CloseFlushes

-----------------------------------------------------------------------------
\* What Append, Head and Tail do to a sequence of alerts.
LEMMA WAppend ==
    ASSUME NEW s \in Seq(Alerts), NEW a \in Alerts
    PROVE  /\ Append(s, a) \in Seq(Alerts) /\ Len(Append(s, a)) = Len(s) + 1
           /\ Len(s) \in Nat /\ DOMAIN s = 1 .. Len(s) /\ DOMAIN Append(s, a) = 1 .. Len(s) + 1
           /\ \A i \in 1 .. Len(s) : Append(s, a)[i] = s[i]
           /\ Append(s, a)[Len(s) + 1] = a
  OBVIOUS

LEMMA WTail ==
    ASSUME NEW s \in Seq(Alerts), s # <<>>
    PROVE  /\ Tail(s) \in Seq(Alerts) /\ Len(Tail(s)) = Len(s) - 1 /\ Len(s) \in Nat \ {0}
           /\ DOMAIN s = 1 .. Len(s) /\ DOMAIN Tail(s) = 1 .. Len(s) - 1
           /\ \A i \in 1 .. Len(s) - 1 : Tail(s)[i] = s[i + 1]
           /\ Head(s) = s[1] /\ Head(s) \in Alerts
  OBVIOUS

LEMMA WAppendSet ==
    ASSUME NEW s \in Seq(Alerts), NEW a \in Alerts
    PROVE  ToSet(Append(s, a)) = ToSet(s) \cup {a}
<1> DEFINE t == Append(s, a)
<1>1. /\ DOMAIN t = 1 .. Len(s) + 1 /\ t[Len(s) + 1] = a /\ Len(s) \in Nat
      /\ DOMAIN s = 1 .. Len(s) /\ \A i \in 1 .. Len(s) : t[i] = s[i]
  BY WAppend
<1> HIDE DEF t
<1> QED BY <1>1 DEF ToSet

LEMMA WTailSet ==
    ASSUME NEW s \in Seq(Alerts), s # <<>>
    PROVE  ToSet(s) = ToSet(Tail(s)) \cup {Head(s)}
<1> DEFINE t == Tail(s)
           h == Head(s)
<1>1. /\ DOMAIN t = 1 .. Len(s) - 1 /\ DOMAIN s = 1 .. Len(s) /\ Len(s) \in Nat \ {0}
      /\ h = s[1] /\ \A i \in 1 .. Len(s) - 1 : t[i] = s[i + 1]
  BY WTail
<1> HIDE DEF t, h
<1>2. ASSUME NEW i \in 1 .. Len(s) PROVE s[i] \in ToSet(t) \cup {h}
  <2>1. CASE i = 1
    BY <1>1, <2>1
  <2>2. CASE i # 1
    <3>1. i - 1 \in DOMAIN t /\ t[i - 1] = s[i]
      BY <1>1, <2>2
    <3> QED BY <3>1 DEF ToSet
  <2> QED BY <2>1, <2>2
<1>3. ASSUME NEW i \in DOMAIN t PROVE t[i] \in ToSet(s)
  <2>1. i + 1 \in DOMAIN s /\ t[i] = s[i + 1]
    BY <1>1
  <2> QED BY <2>1 DEF ToSet
<1>4. h \in ToSet(s)
  BY <1>1 DEF ToSet
<1> QED BY <1>1, <1>2, <1>3, <1>4 DEF ToSet, t, h

-----------------------------------------------------------------------------
\* The type of the state, in three parts.
TNumbers ==
    /\ found \in 0 .. MaxAlerts /\ tries \in 0 .. Attempts
    /\ alerts \in 0 .. found /\ dropped \in 0 .. found /\ idle \in 0 .. MaxAlerts
    /\ untold \in Nat
TSequences ==
    /\ queue \in Seq(Alerts) /\ Len(queue) <= QueueCap
    /\ errs \in Seq(Alerts) /\ Len(errs) <= ErrsCap
    /\ posts \in Seq(Alerts)
TOthers ==
    /\ pc \in {"ready", "surface", "drop", "push", "closing", "closed", "exited"}
    /\ closed \in BOOLEAN /\ gaveUp \in BOOLEAN /\ hand \in Alerts \cup {None}
    /\ done \in [Alerts -> {"open", "taken", "failed", "pushed out"}]

LEMMA WParts == TypeOK <=> TNumbers /\ TSequences /\ TOthers
<1>1. ASSUME TypeOK PROVE TNumbers
  BY <1>1, Zenon DEF TypeOK, TNumbers
<1>2. ASSUME TypeOK PROVE TSequences
  BY <1>2, Zenon DEF TypeOK, TSequences
<1>3. ASSUME TypeOK PROVE TOthers
  BY <1>3, Zenon DEF TypeOK, TOthers
<1>4. ASSUME TNumbers, TSequences, TOthers PROVE TypeOK
  BY <1>4, Zenon DEF TypeOK, TNumbers, TSequences, TOthers
<1> QED BY <1>1, <1>2, <1>3, <1>4

\* Every step keeps the numbers in their bounds ...
LEMMA WNumbersStep == TNumbers /\ CountsOK /\ [Next]_vars => TNumbers'
<1> SUFFICES ASSUME TNumbers, CountsOK, [Next]_vars PROVE TNumbers'
  OBVIOUS
<1> USE AlertsAssumption DEF TNumbers, engine, worker, Attempts
<1>1. CASE Send
  BY <1>1, SMT DEF Send
<1>2. CASE Surface
  BY <1>2, SMT DEF Surface, Told, CountsOK
<1>3. CASE SendFull
  BY <1>3, SMT DEF SendFull
<1>4. CASE DropOldest
  <2>1. /\ pc = "drop" /\ idle' \in {idle, idle + 1}
        /\ UNCHANGED <<found, tries, alerts, dropped, untold>>
    BY <1>4 DEF DropOldest
  <2>2. idle <= found /\ found < MaxAlerts
    BY <2>1, SMT DEF CountsOK
  <2> QED BY <2>1, <2>2, SMT
<1>5. CASE Push
  BY <1>5, SMT DEF Push, Told, CountsOK
<1>6. CASE Worker
  BY <1>6, SMT DEF Worker, Receive, Taken, PostFails, GiveUp, KeepError
<1>7. CASE Closing \/ Exit
  BY <1>7, SMT DEF Closing, Close, Flushed, CloseTimeout, Exit
<1>8. CASE UNCHANGED vars
  BY <1>8, SMT DEF vars
<1> QED BY <1>1, <1>2, <1>3, <1>4, <1>5, <1>6, <1>7, <1>8 DEF Next, Engine

\* ... the queues in theirs, with room where Send counts on it, ...
LEMMA WSequencesStep ==
    TypeOK /\ CountsOK /\ NeverStalls /\ [Next]_vars => TSequences' /\ NeverStalls'
<1> SUFFICES ASSUME TypeOK, CountsOK, NeverStalls, [Next]_vars
             PROVE  TSequences' /\ NeverStalls'
  OBVIOUS
<1>0. TNumbers /\ TSequences /\ hand \in Alerts \cup {None}
  BY WParts DEF TOthers
<1>n. ASSUME found < MaxAlerts PROVE found + 1 \in Alerts
  <2>1. found \in 0 .. MaxAlerts
    BY <1>0 DEF TNumbers
  <2> QED BY <2>1, <1>n, AlertsAssumption, SMT DEF Alerts
<1>q. queue # <<>> => Tail(queue) \in Seq(Alerts) /\ Len(Tail(queue)) = Len(queue) - 1
  BY <1>0, WTail DEF TSequences
<1>l. Len(queue) \in Nat /\ Len(errs) \in Nat
  BY <1>0 DEF TSequences
<1> USE AlertsAssumption DEF TSequences, NeverStalls, engine, worker
<1>1. CASE Send \/ Push
  <2>1. found + 1 \in Alerts /\ queue' = Append(queue, found + 1) /\ Len(queue) < QueueCap
    BY <1>1, <1>n DEF Send, Push, CountsOK
  <2>2. queue' \in Seq(Alerts) /\ Len(queue') <= QueueCap
    BY <1>0, <1>l, <2>1, WAppend, SMT
  <2>3. UNCHANGED <<errs, posts>> /\ pc' # "push"
    BY <1>1 DEF Send, Push
  <2> QED BY <1>0, <2>2, <2>3
<1>2. CASE Surface
  <2>1. errs' \in Seq(Alerts) /\ Len(errs') <= ErrsCap
    <3>1. CASE errs = <<>>
      BY <1>0, <1>2, <3>1 DEF Surface
    <3>2. CASE errs # <<>>
      BY <1>0, <1>2, <1>l, <3>2, WTail, SMT DEF Surface
    <3> QED BY <3>1, <3>2
  <2> QED BY <1>0, <1>2, <2>1 DEF Surface
<1>3. CASE SendFull
  BY <1>0, <1>3 DEF SendFull
<1>4. CASE DropOldest
  <2>1. queue' \in Seq(Alerts) /\ Len(queue') < QueueCap
    <3>1. CASE queue # <<>>
      <4>1. queue' = Tail(queue)
        BY <1>4, <3>1 DEF DropOldest
      <4> QED BY <1>0, <1>q, <1>l, <3>1, <4>1, SMT
    <3>2. CASE queue = <<>>
      BY <1>0, <1>4, <3>2, SMT DEF DropOldest
    <3> QED BY <3>1, <3>2
  <2>2. UNCHANGED <<errs, posts>>
    BY <1>4 DEF DropOldest
  <2>3. Len(queue') <= QueueCap
    BY <2>1, SMT
  <2> QED BY <1>0, <2>1, <2>2, <2>3
<1>5. CASE Receive
  <2>1. queue' = Tail(queue) /\ queue # <<>> /\ UNCHANGED <<errs, posts, pc>>
    BY <1>5 DEF Receive
  <2>2. Len(queue') <= QueueCap /\ (pc = "push" => Len(queue') < QueueCap)
    BY <1>0, <1>q, <1>l, <2>1, SMT
  <2> QED BY <1>0, <1>q, <2>1, <2>2
<1>6. CASE Taken \/ PostFails
  <2>0. hand \in Alerts /\ posts' \in {posts, Append(posts, hand)}
    BY <1>0, <1>6 DEF Taken, PostFails
  <2>1. posts' \in Seq(Alerts)
    BY <1>0, <2>0, WAppend
  <2>2. UNCHANGED <<queue, errs, pc>>
    BY <1>6 DEF Taken, PostFails
  <2> QED BY <1>0, <2>1, <2>2
<1>7. CASE GiveUp
  <2>1. hand \in Alerts
    BY <1>0, <1>7 DEF GiveUp
  <2>2. errs' \in Seq(Alerts) /\ Len(errs') <= ErrsCap
    <3>1. CASE Len(errs) < ErrsCap
      <4>1. errs' = Append(errs, hand)
        BY <1>7, <3>1 DEF GiveUp, KeepError
      <4>2. errs' \in Seq(Alerts) /\ Len(errs') = Len(errs) + 1
        BY <1>0, <2>1, <4>1, WAppend
      <4> QED BY <1>l, <3>1, <4>2, SMT
    <3>2. CASE ~(Len(errs) < ErrsCap)
      BY <1>0, <1>7, <3>2 DEF GiveUp, KeepError
    <3> QED BY <3>1, <3>2
  <2> QED BY <1>0, <1>7, <2>2 DEF GiveUp, KeepError
<1>8. CASE Closing \/ Exit
  BY <1>0, <1>8 DEF Closing, Close, Flushed, CloseTimeout, Exit
<1>9. CASE UNCHANGED vars
  BY <1>0, <1>9 DEF vars
<1> QED BY <1>1, <1>2, <1>3, <1>4, <1>5, <1>6, <1>7, <1>8, <1>9 DEF Next, Engine, Worker

\* ... and the rest.
LEMMA WOthersStep == TypeOK /\ [Next]_vars => TOthers'
<1> SUFFICES ASSUME TypeOK, [Next]_vars PROVE TOthers'
  OBVIOUS
<1>0. TSequences /\ TOthers
  BY WParts
<1> USE <1>0 DEF TOthers, engine, worker
<1>1. CASE Engine
  BY <1>1 DEF Engine, Send, Surface, SendFull, DropOldest, Push
<1>2. CASE Receive
  <2>1. hand' \in Alerts
    BY <1>2, WTail DEF Receive, TSequences
  <2> QED BY <1>2, <2>1 DEF Receive
<1>3. CASE Taken \/ PostFails \/ GiveUp
  BY <1>3 DEF Taken, PostFails, GiveUp
<1>4. CASE Closing \/ Exit
  BY <1>4 DEF Closing, Close, Flushed, CloseTimeout, Exit
<1>5. CASE UNCHANGED vars
  BY <1>5 DEF vars
<1> QED BY <1>1, <1>2, <1>3, <1>4, <1>5 DEF Next, Worker

-----------------------------------------------------------------------------
\* The alert at the head of the queue is before the rest and after the one in hand.
LEMMA WHead ==
    ASSUME TypeOK, QueueOK, queue # <<>>
    PROVE  /\ Head(queue) \in Alerts /\ Head(queue) # None /\ Head(queue) \in ToSet(queue)
           /\ Head(queue) \notin ToSet(Tail(queue))
           /\ ToSet(queue) = ToSet(Tail(queue)) \cup {Head(queue)}
           /\ hand # None => hand < Head(queue)
           /\ \A j \in DOMAIN Tail(queue) : Head(queue) < Tail(queue)[j]
           /\ \A j \in DOMAIN Tail(queue) : j + 1 \in DOMAIN queue /\ Tail(queue)[j] = queue[j + 1]
<1>0. queue \in Seq(Alerts)
  BY WParts DEF TSequences
<1> DEFINE t == Tail(queue)
           h == Head(queue)
<1>1. /\ DOMAIN t = 1 .. Len(queue) - 1 /\ DOMAIN queue = 1 .. Len(queue) /\ Len(queue) \in Nat \ {0}
      /\ h = queue[1] /\ h \in Alerts /\ \A i \in 1 .. Len(queue) - 1 : t[i] = queue[i + 1]
  BY <1>0, WTail
<1>2. ToSet(queue) = ToSet(t) \cup {h}
  BY <1>0, WTailSet
<1> HIDE DEF t, h
<1>3. h # None /\ h \in Nat
  BY <1>1, AlertsAssumption, SMT DEF Alerts, None
<1>4. hand # None => hand < h
  BY <1>1, SMT DEF QueueOK
<1>5. \A j \in DOMAIN t : j + 1 \in DOMAIN queue /\ t[j] = queue[j + 1] /\ h < t[j]
  BY <1>1, SMT DEF QueueOK
<1>6. h \notin ToSet(t)
  BY <1>3, <1>5, SMT DEF ToSet
<1> QED BY <1>1, <1>2, <1>3, <1>4, <1>5, <1>6 DEF t, h

LEMMA WHand ==
    ASSUME TypeOK, QueueOK, EachSomewhere, hand # None
    PROVE  /\ hand \in Alerts /\ hand \in Waiting /\ done[hand] = "open"
           /\ hand \notin ToSet(queue)
<1>1. hand \in Alerts
  BY WParts DEF TOthers
<1>2. hand \in Waiting
  BY DEF Waiting
<1>3. hand \in Nat
  BY <1>1, AlertsAssumption, SMT DEF Alerts
<1>4. hand \notin ToSet(queue)
  BY <1>3, SMT DEF QueueOK, ToSet
<1> QED BY <1>1, <1>2, <1>4 DEF EachSomewhere

\* Every step keeps the queue in order.
LEMMA WQueueStep == TypeOK /\ TypeOK' /\ CountsOK /\ EachSomewhere /\ QueueOK /\ [Next]_vars => QueueOK'
<1> SUFFICES ASSUME TypeOK, TypeOK', CountsOK, EachSomewhere, QueueOK, [Next]_vars PROVE QueueOK'
  OBVIOUS
<1>0. TNumbers /\ TSequences /\ TOthers
  BY WParts
<1>f. found \in Nat
  BY <1>0, AlertsAssumption DEF TNumbers
<1>w. /\ \A i \in DOMAIN queue : queue[i] \in 1 .. found
      /\ hand # None => hand \in 1 .. found
  BY DEF EachSomewhere, Waiting, ToSet
<1>1. CASE Send \/ Push
  <2>1. /\ queue' = Append(queue, found + 1) /\ found' = found + 1
        /\ UNCHANGED <<hand, done>> /\ found < MaxAlerts
    BY <1>1 DEF Send, Push, CountsOK, worker
  <2>2. found + 1 \in Alerts
    BY <1>0, <2>1, AlertsAssumption, SMT DEF TNumbers, Alerts
  <2>3. /\ DOMAIN queue' = 1 .. Len(queue) + 1 /\ Len(queue) \in Nat /\ DOMAIN queue = 1 .. Len(queue)
        /\ \A i \in 1 .. Len(queue) : queue'[i] = queue[i]
        /\ queue'[Len(queue) + 1] = found + 1
    BY <1>0, <2>1, <2>2, WAppend DEF TSequences
  <2>4. \A i, j \in DOMAIN queue' : i < j => queue'[i] < queue'[j]
    BY <1>f, <1>w, <2>3, SMT DEF QueueOK
  <2>5. hand' # None => \A i \in DOMAIN queue' : hand' < queue'[i]
    BY <1>f, <1>w, <2>1, <2>3, SMT DEF QueueOK
  <2>6. \A a \in Alerts : found' < a => done'[a] = "open"
    <3>1. \A a \in Alerts : a \in Nat
      BY AlertsAssumption, SMT DEF Alerts
    <3>2. \A a \in Alerts : found + 1 < a => found < a
      BY <1>f, <3>1, SMT
    <3> QED BY <2>1, <3>2 DEF QueueOK
  <2> QED BY <2>4, <2>5, <2>6 DEF QueueOK
<1>2. ASSUME queue # <<>>, queue' = Tail(queue),
             hand' = hand \/ hand' = Head(queue)
      PROVE  /\ \A i, j \in DOMAIN queue' : i < j => queue'[i] < queue'[j]
             /\ hand' # None => \A i \in DOMAIN queue' : hand' < queue'[i]
  <2> DEFINE t == Tail(queue)
             h == Head(queue)
  <2>1. /\ \A j \in DOMAIN t : h < t[j]
        /\ \A j \in DOMAIN t : j + 1 \in DOMAIN queue /\ t[j] = queue[j + 1]
    BY <1>2, WHead
  <2>2. DOMAIN t = 1 .. Len(queue) - 1 /\ Len(queue) \in Nat
    BY <1>0, <1>2, WTail DEF TSequences
  <2> HIDE DEF t, h
  <2>3. \A i, j \in DOMAIN t : i < j => t[i] < t[j]
    BY <2>1, <2>2, SMT DEF QueueOK
  <2>4. \A i \in DOMAIN t : hand # None => hand < t[i]
    BY <2>1 DEF QueueOK
  <2> QED BY <1>2, <2>1, <2>3, <2>4 DEF t, h
<1>3. ASSUME NEW a \in Alerts, a \in 1 .. found, NEW how,
             done' = [done EXCEPT ![a] = how], found' = found
      PROVE  \A b \in Alerts : found' < b => done'[b] = "open"
  <2>1. ~(found < a)
    BY <1>3, <1>f, SMT
  <2> QED BY <1>0, <1>3, <2>1, Zenon DEF QueueOK, TOthers
<1>4. ASSUME UNCHANGED <<done, found>> PROVE \A b \in Alerts : found' < b => done'[b] = "open"
  BY <1>4 DEF QueueOK
<1>5. CASE DropOldest
  <2>1. CASE queue # <<>>
    <3>1. Head(queue) \in Alerts /\ Head(queue) \in 1 .. found
      BY <2>1, <1>w, WHead DEF ToSet
    <3>2. queue' = Tail(queue) /\ hand' = hand /\ found' = found
          /\ done' = [done EXCEPT ![Head(queue)] = "pushed out"]
      BY <1>5, <2>1 DEF DropOldest, worker
    <3> QED BY <2>1, <1>2, <1>3, <3>1, <3>2 DEF QueueOK
  <2>2. CASE queue = <<>>
    BY <1>5, <2>2 DEF DropOldest, worker, QueueOK
  <2> QED BY <2>1, <2>2
<1>6. CASE Receive
  <2>1. queue # <<>> /\ queue' = Tail(queue) /\ hand' = Head(queue) /\ UNCHANGED <<done, found>>
    BY <1>6 DEF Receive, engine
  <2> QED BY <2>1, <1>2, <1>4 DEF QueueOK
<1>7. CASE Taken \/ GiveUp
  <2>1. hand \in Alerts /\ hand \in 1 .. found
    BY <1>7, <1>w, WHand DEF Taken, GiveUp
  <2>2. PICK how : done' = [done EXCEPT ![hand] = how]
    BY <1>7 DEF Taken, GiveUp
  <2>3. hand' = None /\ queue' = queue /\ found' = found
    BY <1>7 DEF Taken, GiveUp, engine
  <2>4. \A b \in Alerts : found' < b => done'[b] = "open"
    BY <1>3, <2>1, <2>2, <2>3
  <2> QED BY <2>3, <2>4 DEF QueueOK
<1>8. CASE UNCHANGED <<queue, hand, found, done>>
  BY <1>8 DEF QueueOK
<1> QED BY <1>1, <1>5, <1>6, <1>7, <1>8 DEF Next, Engine, Worker, Closing, Surface, SendFull,
    PostFails, Close, Flushed, CloseTimeout, Exit, vars, engine, worker

-----------------------------------------------------------------------------
\* Every step keeps each alert in one place.
LEMMA WSomewhereStep ==
    TypeOK /\ CountsOK /\ EachSomewhere /\ QueueOK /\ [Next]_vars => EachSomewhere'
<1> SUFFICES ASSUME TypeOK, CountsOK, EachSomewhere, QueueOK, [Next]_vars PROVE EachSomewhere'
  OBVIOUS
<1>0. TNumbers /\ TSequences /\ TOthers
  BY WParts
<1>f. found \in Nat /\ Len(queue) \in Nat
  BY <1>0, AlertsAssumption DEF TNumbers, TSequences
<1>w. IsFiniteSet(Waiting) /\ Cardinality(Waiting) \in Nat
  <2>1. IsFiniteSet(1 .. found)
    BY <1>f, FS_Interval
  <2>2. Waiting \in SUBSET (1 .. found)
    BY DEF EachSomewhere
  <2> QED BY <2>1, <2>2, FS_Subset, FS_CardinalityType
<1>h. hand # None => hand \in Waiting /\ hand \notin ToSet(queue)
  BY WHand
<1>1. CASE Send \/ Push
  <2>1. /\ queue' = Append(queue, found + 1) /\ found' = found + 1
        /\ UNCHANGED <<hand, done>> /\ found < MaxAlerts
    BY <1>1 DEF Send, Push, CountsOK, worker
  <2>2. found + 1 \in Alerts
    BY <1>0, <2>1, AlertsAssumption, SMT DEF TNumbers, Alerts
  <2>3. Waiting' = Waiting \cup {found + 1}
    BY <1>0, <2>1, <2>2, WAppendSet DEF Waiting, TSequences
  <2>4. done[found + 1] = "open"
    BY <1>f, <2>2, SMT DEF QueueOK
  <2>5. 1 .. found + 1 = (1 .. found) \cup {found + 1} /\ found + 1 \notin 1 .. found
    BY <1>f, SMT
  <2>6. Waiting' = {a \in 1 .. found' : done'[a] = "open"}
    BY <2>1, <2>3, <2>4, <2>5 DEF EachSomewhere
  <2>7. found + 1 \notin Waiting
    BY <2>5 DEF EachSomewhere
  <2>8. Cardinality(Waiting') = Cardinality(Waiting) + 1
    BY <1>w, <2>3, <2>7, FS_AddElement
  <2>9. Len(queue') = Len(queue) + 1
    BY <1>0, <2>1, <2>2, WAppend DEF TSequences
  <2>10. Cardinality(Waiting') = Len(queue') + (IF hand' = None THEN 0 ELSE 1)
    BY <1>f, <1>w, <2>1, <2>8, <2>9, SMT DEF EachSomewhere
  <2> QED BY <2>6, <2>10 DEF EachSomewhere
<1>2. ASSUME NEW a \in Waiting, NEW how, how # "open",
             done' = [done EXCEPT ![a] = how], found' = found, Waiting' = Waiting \ {a}
      PROVE  /\ Waiting' = {b \in 1 .. found' : done'[b] = "open"}
             /\ Cardinality(Waiting') = Cardinality(Waiting) - 1
  <2>1. a \in 1 .. found /\ 1 .. found \subseteq Alerts
    BY <1>0, <1>f, AlertsAssumption, SMT DEF EachSomewhere, TNumbers, Alerts
  <2>2. \A b \in 1 .. found : done'[b] = IF b = a THEN how ELSE done[b]
    BY <1>0, <1>2, <2>1 DEF TOthers
  <2>3. Waiting' = {b \in 1 .. found' : done'[b] = "open"}
    BY <1>2, <2>1, <2>2 DEF EachSomewhere
  <2>4. Cardinality(Waiting') = Cardinality(Waiting) - 1
    BY <1>w, <1>2, FS_RemoveElement
  <2> QED BY <2>3, <2>4
<1>3. CASE DropOldest /\ queue # <<>>
  <2>1. /\ queue' = Tail(queue) /\ UNCHANGED <<hand, found>>
        /\ done' = [done EXCEPT ![Head(queue)] = "pushed out"]
    BY <1>3 DEF DropOldest, worker
  <2>2. Head(queue) \in Waiting /\ Waiting' = Waiting \ {Head(queue)}
    <3>1. Head(queue) # hand
      BY <1>3, <1>h, WHead
    <3> QED BY <1>3, <2>1, <3>1, WHead DEF Waiting
  <2>3. Len(queue') = Len(queue) - 1
    BY <1>0, <1>3, <2>1, WTail DEF TSequences
  <2>4. Waiting' = {b \in 1 .. found' : done'[b] = "open"}
        /\ Cardinality(Waiting') = Cardinality(Waiting) - 1
    BY <1>2, <2>1, <2>2
  <2>5. hand' = hand /\ Cardinality(Waiting) = Len(queue) + (IF hand = None THEN 0 ELSE 1)
    BY <2>1 DEF EachSomewhere
  <2>6. Cardinality(Waiting') = Len(queue') + (IF hand' = None THEN 0 ELSE 1)
    BY <1>f, <2>3, <2>4, <2>5, SMT
  <2> QED BY <2>4, <2>6 DEF EachSomewhere
<1>4. CASE Receive
  <2>1. /\ hand = None /\ queue # <<>> /\ queue' = Tail(queue) /\ hand' = Head(queue)
        /\ UNCHANGED <<done, found>>
    BY <1>4 DEF Receive, engine
  <2>2. hand' # None /\ Waiting' = Waiting
    BY <2>1, WHead DEF Waiting
  <2>3. Len(queue') = Len(queue) - 1
    BY <1>0, <2>1, WTail DEF TSequences
  <2>4. Cardinality(Waiting') = Len(queue') + (IF hand' = None THEN 0 ELSE 1)
    BY <1>f, <1>w, <2>1, <2>2, <2>3, SMT DEF EachSomewhere
  <2> QED BY <2>1, <2>2, <2>4 DEF EachSomewhere
<1>5. CASE Taken \/ GiveUp
  <2>1. hand # None /\ hand' = None /\ UNCHANGED <<queue, found>>
    BY <1>5 DEF Taken, GiveUp, engine
  <2>2. Waiting' = Waiting \ {hand}
    BY <1>h, <2>1 DEF Waiting
  <2>3. PICK how : how # "open" /\ done' = [done EXCEPT ![hand] = how]
    BY <1>5 DEF Taken, GiveUp
  <2>4. Waiting' = {b \in 1 .. found' : done'[b] = "open"}
        /\ Cardinality(Waiting') = Cardinality(Waiting) - 1
    BY <1>2, <1>h, <2>1, <2>2, <2>3
  <2>5. Cardinality(Waiting') = Len(queue') + (IF hand' = None THEN 0 ELSE 1)
    BY <1>f, <1>w, <2>1, <2>4, SMT DEF EachSomewhere
  <2> QED BY <2>4, <2>5 DEF EachSomewhere
<1>6. CASE UNCHANGED <<queue, hand, found, done>>
  BY <1>6 DEF EachSomewhere, Waiting
<1>7. CASE DropOldest /\ queue = <<>>
  BY <1>6, <1>7 DEF DropOldest, worker
<1> QED BY <1>1, <1>3, <1>4, <1>5, <1>6, <1>7 DEF Next, Engine, Worker, Closing, Surface, SendFull,
    PostFails, Close, Flushed, CloseTimeout, Exit, vars, engine, worker

-----------------------------------------------------------------------------
\* A post that reached the receiver is the last, and one more of its alert.
LEMMA WPosted ==
    ASSUME TypeOK, NEW a \in Alerts
    PROVE  /\ IsFiniteSet(PostsOf(a)) /\ Cardinality(PostsOf(a)) \in Nat
           /\ posts' = Append(posts, a) =>
                /\ Cardinality(PostsOf(a)') = Cardinality(PostsOf(a)) + 1
                /\ \A b \in Alerts : b # a => PostsOf(b)' = PostsOf(b)
<1>0. posts \in Seq(Alerts) /\ Len(posts) \in Nat /\ DOMAIN posts = 1 .. Len(posts)
  BY WParts DEF TSequences
<1>1. IsFiniteSet(PostsOf(a)) /\ Cardinality(PostsOf(a)) \in Nat
  <2>1. IsFiniteSet(1 .. Len(posts))
    BY <1>0, FS_Interval
  <2>2. PostsOf(a) \in SUBSET (1 .. Len(posts))
    BY <1>0 DEF PostsOf
  <2> QED BY <2>1, <2>2, FS_Subset, FS_CardinalityType
<1>2. ASSUME posts' = Append(posts, a)
      PROVE  /\ Cardinality(PostsOf(a)') = Cardinality(PostsOf(a)) + 1
             /\ \A b \in Alerts : b # a => PostsOf(b)' = PostsOf(b)
  <2>1. /\ DOMAIN posts' = 1 .. Len(posts) + 1 /\ posts'[Len(posts) + 1] = a
        /\ \A i \in 1 .. Len(posts) : posts'[i] = posts[i]
    BY <1>0, <1>2, WAppend
  <2>2. 1 .. Len(posts) + 1 = (1 .. Len(posts)) \cup {Len(posts) + 1}
        /\ Len(posts) + 1 \notin 1 .. Len(posts)
    BY <1>0, SMT
  <2>3. PostsOf(a)' = PostsOf(a) \cup {Len(posts) + 1} /\ Len(posts) + 1 \notin PostsOf(a)
    BY <1>0, <2>1, <2>2 DEF PostsOf
  <2>4. \A b \in Alerts : b # a => PostsOf(b)' = PostsOf(b)
    BY <1>0, <2>1, <2>2 DEF PostsOf
  <2> QED BY <1>1, <2>3, <2>4, FS_AddElement
<1> QED BY <1>1, <1>2

\* Every step keeps the posts in the order of the findings.
LEMMA WPostsStep ==
    ASSUME TypeOK, CountsOK, EachSomewhere, QueueOK, PostsOK, PostedInOrder, [Next]_vars
    PROVE  PostsOK' /\ PostedInOrder'
<1>0. TNumbers /\ TSequences /\ TOthers
  BY WParts
<1>f. found \in Nat /\ tries \in 0 .. Attempts
  BY <1>0, AlertsAssumption DEF TNumbers
<1>a. \A a \in Alerts : a \in Nat
  BY AlertsAssumption, SMT DEF Alerts
<1>p. DOMAIN posts = 1 .. Len(posts) /\ Len(posts) \in Nat /\ \A i \in DOMAIN posts : posts[i] \in Nat
  BY <1>0, <1>a DEF TSequences
<1>1. CASE Send \/ Push
  <2>1. /\ queue' = Append(queue, found + 1) /\ found' = found + 1
        /\ UNCHANGED <<hand, tries, posts>> /\ found < MaxAlerts
    BY <1>1 DEF Send, Push, CountsOK, worker
  <2>2. found + 1 \in Alerts
    BY <1>0, <2>1, AlertsAssumption, SMT DEF TNumbers, Alerts
  <2>3. /\ DOMAIN queue' = 1 .. Len(queue) + 1 /\ Len(queue) \in Nat /\ DOMAIN queue = 1 .. Len(queue)
        /\ \A i \in 1 .. Len(queue) : queue'[i] = queue[i]
        /\ queue'[Len(queue) + 1] = found + 1
    BY <1>0, <2>1, <2>2, WAppend DEF TSequences
  <2>4. \A i \in DOMAIN posts, j \in DOMAIN queue' : posts[i] < queue'[j]
    BY <1>f, <1>p, <2>3, SMT DEF PostsOK
  <2>5. \A i \in DOMAIN posts : posts[i] <= found'
    BY <1>f, <1>p, <2>1, SMT DEF PostsOK
  <2>6. PostsOK'
    BY <2>1, <2>4, <2>5 DEF PostsOK, PostsOf
  <2> QED BY <2>1, <2>6 DEF PostedInOrder
<1>2. CASE DropOldest /\ queue # <<>>
  <2>1. queue' = Tail(queue) /\ UNCHANGED <<hand, tries, posts, found>>
    BY <1>2 DEF DropOldest, worker
  <2>2. \A j \in DOMAIN queue' : j + 1 \in DOMAIN queue /\ queue'[j] = queue[j + 1]
    BY <1>2, <2>1, WHead
  <2>3. \A i \in DOMAIN posts, j \in DOMAIN queue' : posts[i] < queue'[j]
    BY <2>2 DEF PostsOK
  <2> QED BY <2>1, <2>3 DEF PostsOK, PostsOf, PostedInOrder
<1>3. CASE Receive
  <2>1. /\ queue # <<>> /\ queue' = Tail(queue) /\ hand' = Head(queue) /\ tries' = 0
        /\ UNCHANGED <<posts, found>>
    BY <1>3 DEF Receive, engine
  <2>2. \A j \in DOMAIN queue' : j + 1 \in DOMAIN queue /\ queue'[j] = queue[j + 1]
    BY <2>1, WHead
  <2>3. hand' \in Nat /\ \A i \in DOMAIN posts : posts[i] < hand'
    <3>1. hand' \in ToSet(queue) /\ hand' \in Nat
      BY <1>a, <2>1, WHead
    <3> QED BY <3>1 DEF PostsOK, ToSet
  <2>4. PostsOf(hand)' = {}
    <3>1. \A i \in DOMAIN posts : posts[i] # hand'
      BY <1>p, <2>3, SMT
    <3> QED BY <2>1, <3>1 DEF PostsOf
  <2>5. \A i \in DOMAIN posts : posts[i] <= hand'
    BY <1>p, <2>3, SMT
  <2>6. Cardinality(PostsOf(hand)') <= tries'
    <3>1. Cardinality(PostsOf(hand)') = 0
      BY <2>4, FS_EmptySet
    <3> QED BY <2>1, <3>1
  <2>7. \A i \in DOMAIN posts, j \in DOMAIN queue' : posts[i] < queue'[j]
    BY <2>2 DEF PostsOK
  <2>8. PostsOK'
    BY <2>1, <2>5, <2>6, <2>7 DEF PostsOK
  <2> QED BY <2>1, <2>8 DEF PostedInOrder
<1>4. CASE Taken \/ PostFails
  <2>1. hand # None /\ hand \in Alerts /\ tries < Attempts
    BY <1>0, <1>4 DEF Taken, PostFails, TOthers
  <2>2. /\ UNCHANGED <<queue, found>> /\ (hand' = None \/ (hand' = hand /\ tries' = tries + 1))
        /\ posts' = Append(posts, hand) \/ (posts' = posts /\ hand' = hand)
    BY <1>4 DEF Taken, PostFails, engine
  <2>3. CASE posts' = posts
    <3>1. Cardinality(PostsOf(hand)) <= tries /\ Cardinality(PostsOf(hand)) \in Nat
      BY <2>1, WPosted DEF PostsOK
    <3>2. hand' # None => Cardinality(PostsOf(hand)) <= tries'
      BY <1>f, <2>2, <3>1, SMT
    <3>3. PostsOK'
      BY <2>1, <2>2, <2>3, <3>2 DEF PostsOK, PostsOf
    <3> QED BY <2>3, <3>3 DEF PostedInOrder
  <2>4. CASE posts' = Append(posts, hand)
    <3>1. /\ DOMAIN posts' = 1 .. Len(posts) + 1 /\ posts'[Len(posts) + 1] = hand
          /\ \A i \in 1 .. Len(posts) : posts'[i] = posts[i]
      BY <1>0, <2>1, <2>4, WAppend DEF TSequences
    <3>2. hand \in Nat /\ hand <= found
      <4>1. hand \in 1 .. found
        BY <2>1, WHand DEF EachSomewhere
      <4> QED BY <1>f, <4>1, SMT
    <3>3. \A i \in DOMAIN posts : posts[i] <= hand /\ posts[i] <= found
      BY <2>1 DEF PostsOK
    <3>4. \A i \in DOMAIN posts' : posts'[i] <= hand /\ posts'[i] <= found'
      BY <1>p, <2>2, <3>1, <3>2, <3>3, SMT
    <3>5. \A i, j \in DOMAIN posts' : i < j => posts'[i] <= posts'[j]
      BY <1>p, <3>1, <3>3, SMT DEF PostedInOrder
    <3>6. \A j \in DOMAIN queue : hand < queue[j]
      BY <2>1 DEF QueueOK
    <3>7. \A i \in DOMAIN posts', j \in DOMAIN queue' : posts'[i] < queue'[j]
      BY <1>p, <2>2, <3>1, <3>6, SMT DEF PostsOK
    <3>8. PICK a \in Alerts : a = hand
      BY <2>1
    <3>9. /\ Cardinality(PostsOf(a)) <= tries /\ Cardinality(PostsOf(a)) \in Nat
          /\ Cardinality(PostsOf(a)') = Cardinality(PostsOf(a)) + 1
          /\ \A b \in Alerts : b # a => PostsOf(b)' = PostsOf(b)
      <4>1. /\ Cardinality(PostsOf(a)) \in Nat
            /\ Cardinality(PostsOf(a)') = Cardinality(PostsOf(a)) + 1
            /\ \A b \in Alerts : b # a => PostsOf(b)' = PostsOf(b)
        BY <2>4, <3>8, WPosted
      <4> QED BY <2>1, <3>8, <4>1 DEF PostsOK
    <3>10. Cardinality(PostsOf(a)') <= tries + 1 /\ Cardinality(PostsOf(a)') <= Attempts
      BY <1>f, <2>1, <3>9, SMT DEF Attempts
    <3>11. PostedInOrder'
      <4>1. ASSUME NEW b \in Alerts PROVE Cardinality(PostsOf(b)') <= Attempts
        <5>1. Cardinality(PostsOf(b)) <= Attempts
          BY DEF PostedInOrder, PostsOf
        <5> QED BY <3>9, <3>10, <5>1
      <4> QED BY <3>5, <4>1 DEF PostedInOrder, PostsOf
    <3>12. hand' # None => Cardinality(PostsOf(hand)') <= tries'
      BY <2>2, <3>8, <3>10 DEF PostsOf
    <3>13. PostsOK'
      BY <2>2, <3>4, <3>7, <3>12 DEF PostsOK
    <3> QED BY <3>11, <3>13
  <2> QED BY <2>2, <2>3, <2>4
<1>5. CASE GiveUp
  <2>1. hand' = None /\ UNCHANGED <<posts, queue, found>>
    BY <1>5 DEF GiveUp, engine
  <2> QED BY <2>1 DEF PostsOK, PostedInOrder
<1>6. CASE UNCHANGED <<posts, queue, found, hand, tries>>
  BY <1>6 DEF PostsOK, PostedInOrder, PostsOf
<1>7. CASE DropOldest /\ queue = <<>>
  BY <1>6, <1>7 DEF DropOldest, worker
<1> QED BY <1>1, <1>2, <1>3, <1>4, <1>5, <1>6, <1>7 DEF Next, Engine, Worker, Closing, Surface,
    SendFull, Close, Flushed, CloseTimeout, Exit, vars, engine, worker

-----------------------------------------------------------------------------
\* An alert that ends is one more of those that ended so.
LEMMA WEnded ==
    ASSUME TypeOK, NEW a \in Alerts, NEW how, done[a] = "open", how # "open",
           done' = [done EXCEPT ![a] = how], NEW x, x # "open"
    PROVE  Cardinality(Ended(x)') = Cardinality(Ended(x)) + (IF x = how THEN 1 ELSE 0)
<1>1. IsFiniteSet(Alerts)
  BY AlertsAssumption, FS_Interval DEF Alerts
<1>2. IsFiniteSet(Ended(x)) /\ Cardinality(Ended(x)) \in Nat
  <2>1. Ended(x) \in SUBSET Alerts
    BY DEF Ended
  <2> QED BY <1>1, <2>1, FS_Subset, FS_CardinalityType
<1>3. \A b \in Alerts : done'[b] = IF b = a THEN how ELSE done[b]
  BY WParts DEF TOthers
<1>4. CASE x = how
  <2>1. Ended(x)' = Ended(x) \cup {a} /\ a \notin Ended(x)
    BY <1>3, <1>4 DEF Ended
  <2> QED BY <1>2, <1>4, <2>1, FS_AddElement
<1>5. CASE x # how
  <2>1. Ended(x)' = Ended(x)
    BY <1>3, <1>5 DEF Ended
  <2> QED BY <1>2, <1>5, <2>1, SMT
<1> QED BY <1>4, <1>5

LEMMA WCounted == TypeOK => Pushed \in Nat /\ Failed \in Nat
<1>1. IsFiniteSet(Alerts)
  BY AlertsAssumption, FS_Interval DEF Alerts
<1>2. \A x : Ended(x) \in SUBSET Alerts
  BY DEF Ended
<1>3. \A x : IsFiniteSet(Ended(x))
  BY <1>1, <1>2, FS_Subset
<1> QED BY <1>3, FS_CardinalityType DEF Pushed, Failed

\* Every step keeps the counts.
LEMMA WCountsStep ==
    TypeOK /\ TypeOK' /\ CountsOK /\ EachSomewhere /\ QueueOK /\ [Next]_vars => CountsOK'
<1> SUFFICES ASSUME TypeOK, TypeOK', CountsOK, EachSomewhere, QueueOK, [Next]_vars PROVE CountsOK'
  OBVIOUS
<1>0. TNumbers /\ TSequences /\ TOthers
  BY WParts
<1>n. /\ found \in Nat /\ alerts \in Nat /\ dropped \in Nat /\ idle \in Nat /\ idle <= MaxAlerts
      /\ Pushed \in Nat /\ Failed \in Nat /\ Len(errs) \in Nat
      /\ untold \in Nat
  BY <1>0, AlertsAssumption, WCounted DEF TNumbers, TSequences
<1>s. ASSUME done' = done PROVE Pushed' = Pushed /\ Failed' = Failed
  BY <1>s DEF Pushed, Failed, Ended
<1> USE AlertsAssumption
<1>1. CASE Send
  <2>1. /\ pc = "ready" /\ pc' = "surface" /\ found < MaxAlerts /\ found' = found + 1
        /\ UNCHANGED <<alerts, dropped, errs, idle, untold, done>>
    BY <1>1 DEF Send
  <2> QED BY <1>n, <1>s, <2>1, SMT DEF CountsOK, Counted
<1>2. CASE Surface
  <2>1. pc = "surface" /\ pc' = "ready" /\ UNCHANGED <<found, idle, untold, done>>
    BY <1>2 DEF Surface
  <2>2. CASE errs = <<>>
    <3>1. alerts' = alerts + 1 /\ dropped' = dropped /\ errs' = errs
      BY <1>2, <2>2 DEF Surface, Told
    <3> QED BY <1>n, <1>s, <2>1, <3>1, SMT DEF CountsOK, Counted
  <2>3. CASE errs # <<>>
    <3>1. alerts' = alerts /\ dropped' = dropped + 1 /\ errs' = Tail(errs)
      BY <1>2, <2>3 DEF Surface, Told
    <3>2. Len(errs') = Len(errs) - 1
      BY <1>0, <2>3, <3>1, WTail DEF TSequences
    <3>3. /\ Pushed' = Pushed /\ Failed' = Failed /\ idle' = idle /\ found' = found
          /\ alerts' = alerts /\ dropped' = dropped + 1 /\ untold' = untold
      BY <1>s, <2>1, <3>1
    <3> QED BY <1>n, <2>1, <3>2, <3>3, SMT DEF CountsOK, Counted
  <2> QED BY <2>2, <2>3
<1>3. CASE SendFull
  <2>1. /\ pc = "ready" /\ pc' = "drop" /\ found < MaxAlerts
        /\ UNCHANGED <<found, alerts, dropped, errs, idle, untold, done>>
    BY <1>3 DEF SendFull
  <2> QED BY <1>n, <1>s, <2>1, SMT DEF CountsOK, Counted
<1>4. CASE DropOldest
  <2>1. pc = "drop" /\ pc' = "push" /\ UNCHANGED <<found, alerts, dropped, errs, untold>>
    BY <1>4 DEF DropOldest
  <2>2. Pushed' + idle' = Pushed + idle + 1 /\ Failed' = Failed /\ idle' <= found + 1
        /\ Pushed' \in Nat /\ idle' \in Nat
    <3>1. CASE queue = <<>>
      <4>1. idle' = idle + 1 /\ done' = done
        BY <1>4, <3>1 DEF DropOldest
      <4> QED BY <1>n, <1>s, <2>1, <4>1, SMT DEF CountsOK, Counted
    <3>2. CASE queue # <<>>
      <4>1. Head(queue) \in Alerts /\ done[Head(queue)] = "open" /\ idle' = idle
            /\ done' = [done EXCEPT ![Head(queue)] = "pushed out"]
        BY <1>4, <3>2, WHead DEF DropOldest, EachSomewhere, Waiting
      <4>2. Pushed' = Pushed + 1 /\ Failed' = Failed + 0
        BY <4>1, WEnded DEF Pushed, Failed
      <4>3. idle' = idle
        BY <4>1
      <4>4. idle <= found + 1
        BY <1>n, <2>1, SMT DEF CountsOK, Counted
      <4> QED BY <1>n, <4>2, <4>3, <4>4, SMT
    <3> QED BY <3>1, <3>2
  <2>3. /\ found' = found /\ alerts' = alerts /\ dropped' = dropped /\ Len(errs') = Len(errs)
        /\ untold' = untold /\ Failed' = Failed /\ pc = "drop" /\ pc' = "push"
    BY <2>1, <2>2
  <2>4. found < MaxAlerts /\ alerts + dropped <= found /\ Pushed + idle <= dropped
        /\ dropped + Len(errs) + untold = Pushed + idle + Failed
        /\ (untold > 0 => untold + ErrsCap <= Failed)
    BY <1>n, <2>3, SMT DEF CountsOK, Counted
  <2>5. dropped' + Len(errs') + untold' + 1 = Pushed' + idle' + Failed'
    <3>1. dropped + Len(errs) + untold + 1 = (Pushed + idle + 1) + Failed
      BY <1>n, <2>4, SMT
    <3> QED BY <2>2, <2>3, <3>1, Zenon
  <2>6. Pushed' + idle' <= dropped' + 1
    <3>1. Pushed + idle + 1 <= dropped + 1
      BY <1>n, <2>4, SMT
    <3> QED BY <2>2, <2>3, <3>1, Zenon
  <2>7. found' < MaxAlerts /\ alerts' + dropped' <= found' /\ idle' <= found' + 1 /\ pc' = "push"
        /\ (untold' > 0 => untold' + ErrsCap <= Failed')
    BY <2>2, <2>3, <2>4, Zenon
  <2> QED BY <2>5, <2>6, <2>7 DEF CountsOK, Counted
<1>5. CASE Push
  <2>1. /\ pc = "push" /\ pc' = "ready" /\ found' = found + 1
        /\ alerts' = alerts /\ dropped' = dropped + 1 /\ UNCHANGED <<errs, idle, untold, done>>
    BY <1>5 DEF Push, Told
  <2> QED BY <1>n, <1>s, <2>1, SMT DEF CountsOK, Counted
<1>6. CASE Taken
  <2>1. /\ hand \in Alerts /\ done[hand] = "open" /\ done' = [done EXCEPT ![hand] = "taken"]
        /\ UNCHANGED <<pc, found, alerts, dropped, errs, idle, untold>>
    BY <1>6, WHand DEF Taken, engine
  <2>2. Pushed' = Pushed + 0 /\ Failed' = Failed + 0
    <3>1. \A x : x # "open" => Cardinality(Ended(x)') = Cardinality(Ended(x)) + (IF x = "taken" THEN 1 ELSE 0)
      BY <2>1, WEnded
    <3> QED BY <3>1 DEF Pushed, Failed
  <2> QED BY <1>n, <2>1, <2>2, SMT DEF CountsOK, Counted
<1>7. CASE GiveUp /\ pc # "exited"
  <2>1. /\ hand \in Alerts /\ done[hand] = "open" /\ done' = [done EXCEPT ![hand] = "failed"]
        /\ UNCHANGED <<pc, found, alerts, dropped, idle>>
    BY <1>7, WHand DEF GiveUp, engine
  <2>2. Pushed' = Pushed + 0 /\ Failed' = Failed + 1
    <3>1. \A x : x # "open" => Cardinality(Ended(x)') = Cardinality(Ended(x)) + (IF x = "failed" THEN 1 ELSE 0)
      BY <2>1, WEnded
    <3> QED BY <3>1 DEF Pushed, Failed
  <2>3. CASE Len(errs) < ErrsCap
    <3>1. errs' = Append(errs, hand) /\ untold' = untold
      BY <1>7, <2>3 DEF GiveUp, KeepError
    <3>2. Len(errs') = Len(errs) + 1
      BY <1>0, <2>1, <3>1, WAppend DEF TSequences
    <3> QED BY <1>n, <2>1, <2>2, <3>1, <3>2, SMT DEF CountsOK, Counted
  <2>4. CASE ~(Len(errs) < ErrsCap)
    <3>1. errs' = errs /\ untold' = untold + 1
      BY <1>7, <2>4 DEF GiveUp, KeepError
    <3>2. Pushed + idle <= dropped + (IF pc = "push" THEN 1 ELSE 0)
      BY <1>7, SMT DEF CountsOK, Counted
    <3>3. untold' + ErrsCap <= Failed'
      BY <1>n, <1>7, <2>2, <2>4, <3>1, <3>2, SMT DEF CountsOK, Counted
    <3> QED BY <1>n, <2>1, <2>2, <3>1, <3>3, SMT DEF CountsOK, Counted
  <2> QED BY <2>3, <2>4
<1>8. CASE Closing
  <2>1. pc \notin {"surface", "drop", "push", "exited"} /\ pc' \in {"closing", "closed"}
        /\ UNCHANGED <<found, alerts, dropped, errs, idle, untold, done>>
    BY <1>8 DEF Closing, Close, Flushed, CloseTimeout
  <2> QED BY <1>n, <1>s, <2>1, SMT DEF CountsOK, Counted
<1>9. CASE Exit
  <2>1. pc' = "exited" /\ UNCHANGED <<found, alerts, dropped, errs, idle, untold, done>>
    BY <1>9 DEF Exit
  <2> QED BY <1>n, <1>s, <2>1, SMT DEF CountsOK, Counted
<1>10. CASE UNCHANGED <<engine, errs, idle, untold, done>>
  BY <1>s, <1>10 DEF CountsOK, Counted, engine
<1> QED BY <1>1, <1>2, <1>3, <1>4, <1>5, <1>6, <1>7, <1>8, <1>9, <1>10 DEF Next, Engine, Worker,
    Receive, PostFails, vars

-----------------------------------------------------------------------------
\* Every step keeps what Close waited for.
LEMMA WCloseStep == TypeOK /\ CloseFlushes /\ [Next]_vars => CloseFlushes'
<1> SUFFICES ASSUME TypeOK, CloseFlushes, [Next]_vars PROVE CloseFlushes'
  OBVIOUS
<1>0. queue \in Seq(Alerts) /\ hand \in Alerts \cup {None}
  BY WParts DEF TSequences, TOthers
<1>1. CASE Flushed
  <2>1. queue' = <<>> /\ hand' = None
    BY <1>1 DEF Flushed, WorkerEnded, worker
  <2>2. Waiting' = {}
    BY <2>1 DEF Waiting, ToSet
  <2> QED BY <2>2 DEF CloseFlushes
<1>2. CASE Worker
  <2>1. CASE pc = "closed" /\ ~gaveUp
    <3>1. hand = None /\ queue = <<>>
      <4>1. ToSet(queue) = {} /\ {hand} \ {None} = {}
        BY <2>1 DEF CloseFlushes, Waiting
      <4>2. queue # <<>> => Head(queue) \in ToSet(queue)
        BY <1>0, WTailSet
      <4> QED BY <4>1, <4>2
    <3> QED BY <1>2, <3>1 DEF Worker, Receive, Taken, PostFails, GiveUp
  <2>2. CASE ~(pc = "closed" /\ ~gaveUp)
    <3>1. UNCHANGED <<pc, gaveUp>>
      BY <1>2 DEF Worker, Receive, Taken, PostFails, GiveUp, engine
    <3> QED BY <2>2, <3>1 DEF CloseFlushes
  <2> QED BY <2>1, <2>2
<1>3. CASE Engine \/ Close \/ Exit
  <2>1. pc' # "closed"
    BY <1>3 DEF Engine, Send, Surface, SendFull, DropOldest, Push, Close, Exit
  <2> QED BY <2>1 DEF CloseFlushes
<1>4. CASE CloseTimeout
  <2>1. gaveUp' = TRUE
    BY <1>4 DEF CloseTimeout
  <2> QED BY <2>1 DEF CloseFlushes
<1>5. CASE UNCHANGED vars
  BY <1>5 DEF vars, engine, worker, CloseFlushes, Waiting
<1> QED BY <1>1, <1>2, <1>3, <1>4, <1>5 DEF Next, Closing

-----------------------------------------------------------------------------
LEMMA WInit == Init => WInv
<1> SUFFICES ASSUME Init PROVE WInv
  OBVIOUS
<1> USE AlertsAssumption
<1>1. TypeOK
  <2>1. TNumbers
    BY SMT DEF Init, TNumbers, Attempts
  <2>2. TSequences
    <3>1. queue = <<>> /\ errs = <<>> /\ posts = <<>>
      BY DEF Init
    <3>2. \A s : s = <<>> => s \in Seq(Alerts) /\ Len(s) = 0
      OBVIOUS
    <3> QED BY <3>1, <3>2, SMT DEF TSequences
  <2>3. TOthers
    BY DEF Init, TOthers
  <2> QED BY <2>1, <2>2, <2>3, WParts
<1>2. NeverStalls /\ QueueOK /\ CloseFlushes
  BY DEF Init, NeverStalls, QueueOK, CloseFlushes
<1>3. EachSomewhere
  <2>1. Waiting = {} /\ 1 .. found = {} /\ Len(queue) = 0 /\ hand = None
    BY DEF Init, Waiting, ToSet
  <2> QED BY <2>1, FS_EmptySet DEF EachSomewhere
<1>4. PostsOK /\ PostedInOrder
  <2>1. posts = <<>> /\ hand = None
    BY DEF Init
  <2>2. \A a \in Alerts : Cardinality({i \in DOMAIN posts : posts[i] = a}) = 0
    <3>1. \A a \in Alerts : {i \in DOMAIN posts : posts[i] = a} = {}
      BY <2>1
    <3> QED BY <3>1, FS_EmptySet
  <2> QED BY <2>1, <2>2 DEF PostsOK, PostedInOrder, Attempts
<1>5. CountsOK
  <2>1. Ended("pushed out") = {} /\ Ended("failed") = {}
    BY DEF Init, Ended
  <2>2. Pushed = 0 /\ Failed = 0
    BY <2>1, FS_EmptySet DEF Pushed, Failed
  <2>3. found = 0 /\ alerts = 0 /\ dropped = 0 /\ idle = 0 /\ untold = 0 /\ Len(errs) = 0 /\ pc = "ready"
    BY DEF Init
  <2> QED BY <2>2, <2>3, SMT DEF CountsOK, Counted
<1> QED BY <1>1, <1>2, <1>3, <1>4, <1>5 DEF WInv

LEMMA WInvariant == Spec => []WInv
<1>1. WInv /\ [Next]_vars => WInv'
  <2> SUFFICES ASSUME WInv, [Next]_vars PROVE WInv'
    OBVIOUS
  <2>0. TypeOK /\ TNumbers /\ CountsOK /\ NeverStalls /\ QueueOK /\ EachSomewhere /\ PostsOK
        /\ PostedInOrder /\ CloseFlushes
    BY WParts DEF WInv
  <2>1. TypeOK' /\ NeverStalls'
    <3>1. TNumbers' /\ TSequences' /\ NeverStalls' /\ TOthers'
      BY <2>0, WNumbersStep, WSequencesStep, WOthersStep
    <3>2. TypeOK' <=> TNumbers' /\ TSequences' /\ TOthers'
      BY WParts, PTL
    <3> QED BY <3>1, <3>2
  <2>2. QueueOK' /\ EachSomewhere' /\ CountsOK' /\ CloseFlushes'
    BY <2>0, <2>1, WQueueStep, WSomewhereStep, WCountsStep, WCloseStep
  <2>3. PostsOK' /\ PostedInOrder'
    BY <2>0, WPostsStep
  <2> QED BY <2>1, <2>2, <2>3 DEF WInv
<1> QED BY WInit, <1>1, PTL DEF Spec

\* The state keeps its type: in particular both queues stay within their bounds
\* (alert.go:70-116).
THEOREM AlertsTyped == Spec => []TypeOK
<1>1. WInv => TypeOK
  BY DEF WInv
<1> QED BY WInvariant, <1>1, PTL

\* Whatever the receiver does, the engine never waits for it: where Send sends without a
\* choice there is room in the queue (alert.go:118-140).
THEOREM TailNeverStalls == Spec => []NeverStalls
<1>1. WInv => NeverStalls
  BY DEF WInv
<1> QED BY WInvariant, <1>1, PTL

\* However small the queues are, every alert is accounted for: each is queued, being
\* posted or ended, and what is counted as dropped or waits to be is exactly the alerts
\* pushed out and the failures, but for those whose error found no room, which happens
\* only while as many errors as there is room for are told or wait (alert.go:118-203).
THEOREM NoAlertVanishes == Spec => []AlertsAccounted
<1>1. ASSUME WInv PROVE DropsCounted
  <2>1. CountsOK
    BY <1>1 DEF WInv
  <2> QED BY <2>1, Zenon DEF DropsCounted, CountsOK, Counted, Pushed, Failed
<1>2. WInv => AlertsAccounted
  BY <1>1 DEF WInv, AlertsAccounted
<1> QED BY WInvariant, <1>2, PTL

\* The receiver gets the alerts in the order of the findings, each at most twice
\* (alert.go:142-174).
THEOREM ReceivedInOrder == Spec => []PostedInOrder
<1>1. WInv => PostedInOrder
  BY DEF WInv
<1> QED BY WInvariant, <1>1, PTL
=============================================================================
