---------------------------- MODULE SealedHistory ----------------------------
(***************************************************************************)
(* What an evidence package promises a reader who only trusts its seals:   *)
(* a history of seals in which each covers the evidence of the one before, *)
(* grown at the end, and the archive of every seal before it.  Rounds that *)
(* fail, crash or are rolled back do not show.                             *)
(***************************************************************************)
EXTENDS Naturals, Sequences

CONSTANTS
    Logs,      \* the append-only files
    Custody    \* the one of them that every round adds to

VARIABLES
    evidence,  \* the lines of each log the current seal covers
    seal,      \* the current seal, 0 before the first
    round,     \* and the round it is of
    chain      \* <<round, seal>> of the archived seals it covers

vars == <<evidence, seal, round, chain>>

Init ==
    /\ evidence = [f \in Logs |-> <<>>]
    /\ seal = 0 /\ round = 0
    /\ chain = {}

Extends(t, s) == Len(s) <= Len(t) /\ SubSeq(t, 1, Len(s)) = s

\* The evidence of a sealed round is added after what was there.
GrowEvidence ==
    /\ DOMAIN evidence' = Logs
    /\ \A f \in Logs : Extends(evidence'[f], evidence[f])
    /\ Len(evidence[Custody]) < Len(evidence'[Custody])

\* The previous seal is archived, under its own round, after all earlier ones.
Archive ==
    /\ chain' = IF seal = 0 THEN {} ELSE chain \cup {<<round, seal>>}
    /\ \A p \in chain : p[1] < round /\ p[2] # seal

AddRound ==
    /\ GrowEvidence
    /\ Archive
    /\ round' > round
    /\ seal' \notin {0, seal} \cup {p[2] : p \in chain}

Next == AddRound

Spec == Init /\ [][Next]_vars
=============================================================================
