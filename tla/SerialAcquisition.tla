-------------------------- MODULE SerialAcquisition --------------------------
(***************************************************************************)
(* What a collection promises, however many workers it has: the manifest   *)
(* of a serial run.  The files discovered are recorded one at a time, in   *)
(* the order of their discovery; one may be lost, but then the collection  *)
(* says that it failed.                                                    *)
(***************************************************************************)
EXTENDS Naturals, Sequences

CONSTANT N   \* the files to discover

VARIABLES
    tried,   \* the files recorded or lost so far
    log,     \* the records of the manifest, each by its place in the discovery
    outcome  \* "none" before the end, then "ok" or "error"

vars == <<tried, log, outcome>>

Init == tried = 0 /\ log = <<>> /\ outcome = "none"

Record ==
    /\ outcome = "none" /\ tried < N
    /\ tried' = tried + 1 /\ log' = Append(log, tried')
    /\ UNCHANGED outcome

Lose ==
    /\ outcome = "none" /\ tried < N
    /\ tried' = tried + 1
    /\ UNCHANGED <<log, outcome>>

End ==
    /\ outcome = "none"
    /\ outcome' = "error" \/ (Len(log) = N /\ outcome' = "ok")
    /\ UNCHANGED <<tried, log>>

Next == Record \/ Lose \/ End

Spec == Init /\ [][Next]_vars
=============================================================================
