---------------------------- MODULE WebhookAlerts ----------------------------
(***************************************************************************)
(* Live alerts over a webhook (internal/realtime): the engine hands its    *)
(* findings to the sink one at a time, the sink queues them, and a worker  *)
(* of its own posts them.  The receiver may be slow, refuse, or fail after *)
(* it took the alert; the program may exit at any time.                    *)
(*                                                                         *)
(* An alert is the number of the finding it is about.  The five seconds of *)
(* a post and the six of Close are choices: each may run out or not.       *)
(***************************************************************************)
EXTENDS Naturals, Sequences, FiniteSets, SequencesExt

CONSTANTS
    QueueCap,   \* what the queue holds: 256
    ErrsCap,    \* the errors kept to be told: 16
    MaxAlerts   \* bound: the findings

ASSUME AlertsAssumption ==
    QueueCap \in Nat \ {0} /\ ErrsCap \in Nat \ {0} /\ MaxAlerts \in Nat

\* loop posts an alert at most this often.
Attempts == 2

VARIABLES
    found,    \* the findings so far
    pc,       \* the engine: in Send, or in Close
    queue, closed,
    errs,     \* the errors of deliveries, to be told
    hand,     \* the alert the worker has, or None
    tries,    \* and how often it has posted it
    alerts, dropped,   \* Stats.Alerts, Stats.Dropped
    posts,    \* history: the posts that reached the receiver
    done,     \* history: how each alert ended: "taken", "failed", "pushed out"
    idle,     \* history: the times a full queue was empty by the time of the drop
    untold,   \* history: the failures whose error found no room in errs
    gaveUp    \* history: Close did not wait for the worker

engine == <<found, pc, alerts, dropped>>
worker == <<hand, tries>>
vars == <<engine, queue, closed, errs, worker, posts, done, idle, untold, gaveUp>>

None   == 0
Alerts == 1 .. MaxAlerts
Ended(how) == {a \in Alerts : done[a] = how}
-----------------------------------------------------------------------------
Init ==
    /\ found = 0 /\ pc = "ready" /\ queue = <<>> /\ closed = FALSE /\ errs = <<>>
    /\ hand = None /\ tries = 0 /\ alerts = 0 /\ dropped = 0
    /\ posts = <<>> /\ done = [a \in Alerts |-> "open"] /\ idle = 0
    /\ untold = 0 /\ gaveUp = FALSE

\* onEvent counts what Send returned.
Told(error) ==
    IF error THEN dropped' = dropped + 1 /\ UNCHANGED alerts
             ELSE alerts' = alerts + 1 /\ UNCHANGED dropped

\* Send: there is room ...
Send ==
    /\ pc = "ready" /\ found < MaxAlerts /\ Len(queue) < QueueCap
    /\ found' = found + 1 /\ queue' = Append(queue, found')
    /\ pc' = "surface"
    /\ UNCHANGED <<alerts, dropped, closed, errs, worker, posts, done, idle, untold, gaveUp>>

\* ... and an earlier delivery's error is returned for it, ...
Surface ==
    /\ pc = "surface" /\ pc' = "ready"
    /\ Told(errs # <<>>)
    /\ errs' = IF errs = <<>> THEN errs ELSE Tail(errs)
    /\ UNCHANGED <<found, queue, closed, worker, posts, done, idle, untold, gaveUp>>

\* ... or there is none: the oldest is pushed out, if the worker left one, ...
SendFull ==
    /\ pc = "ready" /\ found < MaxAlerts /\ Len(queue) >= QueueCap
    /\ pc' = "drop"
    /\ UNCHANGED <<found, alerts, dropped, queue, closed, errs, worker, posts, done,
                   idle, untold, gaveUp>>

\* Mutant: nothing is pushed out.
DropNothing ==
    /\ pc = "drop" /\ pc' = "push" /\ idle' = idle + 1
    /\ UNCHANGED <<found, alerts, dropped, queue, closed, errs, worker, posts, done,
                   untold, gaveUp>>

DropOldest ==
    /\ pc = "drop" /\ pc' = "push"
    /\ IF queue # <<>>
       THEN /\ queue' = Tail(queue)
            /\ done' = [done EXCEPT ![Head(queue)] = "pushed out"]
            /\ UNCHANGED idle
       ELSE idle' = idle + 1 /\ UNCHANGED <<queue, done>>
    /\ UNCHANGED <<found, alerts, dropped, closed, errs, worker, posts, untold, gaveUp>>

\* ... and the alert takes its place.  This send waits if there is still no room.
Push ==
    /\ pc = "push" /\ Len(queue) < QueueCap
    /\ found' = found + 1 /\ queue' = Append(queue, found')
    /\ Told(TRUE) /\ pc' = "ready"
    /\ UNCHANGED <<closed, errs, worker, posts, done, idle, untold, gaveUp>>
-----------------------------------------------------------------------------
Receive ==
    /\ hand = None /\ queue # <<>>
    /\ hand' = Head(queue) /\ queue' = Tail(queue) /\ tries' = 0
    /\ UNCHANGED <<engine, closed, errs, posts, done, idle, untold, gaveUp>>

\* A post is answered with success.
Taken ==
    /\ hand # None /\ tries < Attempts
    /\ posts' = Append(posts, hand)
    /\ done' = [done EXCEPT ![hand] = "taken"]
    /\ hand' = None /\ tries' = 0
    /\ UNCHANGED <<engine, queue, closed, errs, idle, untold, gaveUp>>

\* Mutant: a post that failed is tried again after the others.
PostFailsToBack ==
    /\ hand # None /\ tries < Attempts
    /\ posts' \in {posts, Append(posts, hand)}
    /\ queue' = Append(queue, hand) /\ hand' = None /\ tries' = 0
    /\ UNCHANGED <<engine, closed, errs, done, idle, untold, gaveUp>>

\* A post fails or times out: the receiver may have it all the same.
PostFails ==
    /\ hand # None /\ tries < Attempts
    /\ posts' \in {posts, Append(posts, hand)}
    /\ tries' = tries + 1
    /\ UNCHANGED <<engine, queue, closed, errs, hand, done, idle, untold, gaveUp>>

\* The error is kept to be told, if there is room for it, and thrown away if not.
KeepError ==
    IF Len(errs) < ErrsCap THEN errs' = Append(errs, hand) /\ UNCHANGED untold
                           ELSE untold' = untold + 1 /\ UNCHANGED errs

\* Mutant: the worker waits until the error can be kept.
GiveUpWaiting ==
    /\ hand # None /\ tries = Attempts /\ Len(errs) < ErrsCap
    /\ errs' = Append(errs, hand)
    /\ done' = [done EXCEPT ![hand] = "failed"]
    /\ hand' = None /\ tries' = 0
    /\ UNCHANGED <<engine, queue, closed, posts, idle, untold, gaveUp>>

\* Mutant: an alert given up leaves no error.
GiveUpSilently ==
    /\ hand # None /\ tries = Attempts
    /\ done' = [done EXCEPT ![hand] = "failed"]
    /\ hand' = None /\ tries' = 0
    /\ UNCHANGED <<engine, queue, closed, errs, posts, idle, untold, gaveUp>>

\* After the last, the alert has failed.
GiveUp ==
    /\ hand # None /\ tries = Attempts
    /\ KeepError
    /\ done' = [done EXCEPT ![hand] = "failed"]
    /\ hand' = None /\ tries' = 0
    /\ UNCHANGED <<engine, queue, closed, posts, idle, gaveUp>>
-----------------------------------------------------------------------------
\* Close: the worker ends when the queue is empty.
Close ==
    /\ pc = "ready" /\ pc' = "closing" /\ closed' = TRUE
    /\ UNCHANGED <<found, alerts, dropped, queue, errs, worker, posts, done, idle, untold, gaveUp>>

WorkerEnded == closed /\ queue = <<>> /\ hand = None

Flushed ==
    /\ pc = "closing" /\ WorkerEnded /\ pc' = "closed"
    /\ UNCHANGED <<found, alerts, dropped, queue, closed, errs, worker, posts, done,
                   idle, untold, gaveUp>>

CloseTimeout ==
    /\ pc = "closing" /\ pc' = "closed" /\ gaveUp' = TRUE
    /\ UNCHANGED <<found, alerts, dropped, queue, closed, errs, worker, posts, done, idle,
                   untold>>

\* The program ends, after Close or, on a signal (analyst_cmds.go:289), without it.
Exit ==
    /\ pc # "exited" /\ pc' = "exited"
    /\ UNCHANGED <<found, alerts, dropped, queue, closed, errs, worker, posts, done,
                   idle, untold, gaveUp>>

Engine == Send \/ Surface \/ SendFull \/ DropOldest \/ Push
Worker == pc # "exited" /\ (Receive \/ Taken \/ PostFails \/ GiveUp)
Closing == Close \/ Flushed \/ CloseTimeout
Next == Engine \/ Worker \/ Closing \/ Exit

Spec == Init /\ [][Next]_vars

\* Until the program exits the engine goes on, and so does the worker: a post ends
\* within its five seconds, and Close within its six.
FairSpec ==
    /\ Spec
    /\ WF_vars(Surface \/ DropOldest \/ Push) /\ WF_vars(Flushed \/ CloseTimeout)
    /\ WF_vars(Worker)
-----------------------------------------------------------------------------
\* The type of the state.
TypeOK ==
    /\ found \in 0 .. MaxAlerts
    /\ pc \in {"ready", "surface", "drop", "push", "closing", "closed", "exited"}
    /\ queue \in Seq(Alerts) /\ Len(queue) <= QueueCap
    /\ errs \in Seq(Alerts) /\ Len(errs) <= ErrsCap
    /\ closed \in BOOLEAN /\ hand \in Alerts \cup {None} /\ tries \in 0 .. Attempts
    /\ alerts \in 0 .. found /\ dropped \in 0 .. found
    /\ posts \in Seq(Alerts) /\ idle \in 0 .. MaxAlerts /\ untold \in Nat
    /\ done \in [Alerts -> {"open", "taken", "failed", "pushed out"}]
    /\ gaveUp \in BOOLEAN

\* The engine never waits for the receiver: where Send sends without a choice there is
\* room.  "a slow receiver never stalls the tail" (docs/realtime-detection.md:49).
NeverStalls == pc = "push" => Len(queue) < QueueCap

\* No alert is in two places: it is queued, being posted, or ended (alert.go:118-174).
Waiting == ToSet(queue) \cup ({hand} \ {None})
EachSomewhere ==
    /\ Waiting = {a \in 1 .. found : done[a] = "open"}
    /\ Cardinality(Waiting) = Len(queue) + (IF hand = None THEN 0 ELSE 1)

\* What is counted as dropped, or waits to be, is each alert pushed out, each drop that
\* hit an empty queue, and each failure but those whose error was thrown away; and one is
\* thrown away only while as many errors as errs holds are told or wait to be.
DropsCounted ==
    LET due == Cardinality(Ended("pushed out")) + idle + Cardinality(Ended("failed"))
        counted == dropped + Len(errs) + untold
    IN  /\ pc # "exited" => counted + (IF pc = "push" THEN 1 ELSE 0) = due
        /\ pc = "exited" => due \in {counted, counted + 1}
        /\ untold > 0 => untold + ErrsCap <= Cardinality(Ended("failed"))

\* Unless it runs out of time, Close leaves no alert unsent.
CloseFlushes == pc = "closed" /\ ~gaveUp => Waiting = {}

\* Every alert is accounted for: it is queued, being posted, or ended in one way, and one
\* that did not reach the receiver is counted as dropped or its error waits to be, unless
\* the error was thrown away because the sixteen before it were not told yet
\* (alert.go:118-174).
AlertsAccounted == EachSomewhere /\ DropsCounted /\ CloseFlushes

\* The receiver gets the alerts in the order of the findings, each at most twice, and
\* one twice only after a failure: 5 s timeout, one retry (docs/realtime-detection.md:49).
PostedInOrder ==
    /\ \A i, j \in DOMAIN posts : i < j => posts[i] <= posts[j]
    /\ \A a \in Alerts : Cardinality({i \in DOMAIN posts : posts[i] = a}) <= Attempts

\* Until the program exits, every alert ends: the queue is drained, whatever the
\* receiver does and whether or not the engine finds anything more (alert.go:142-174).
AlertsEnd == \A a \in Alerts : (a \in 1 .. found) ~> (done[a] # "open" \/ pc = "exited")
=============================================================================
