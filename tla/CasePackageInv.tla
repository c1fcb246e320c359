--------------------------- MODULE CasePackageInv ---------------------------
(***************************************************************************)
(* The inductive invariant behind SealedLogsPreserved and RestoredExactly: *)
(* what each stage of a round and of a rollback may rely on.               *)
(***************************************************************************)
EXTENDS CasePackage

\* The stages in which a builder appends to the logs and seals.
Writing == {"start", "take", "log_aborted", "collect", "commit_place",
            "commit_man", "commit_coll", "seal_trunc", "seal_case",
            "seal_arch", "seal_sums"}

\* The stages of a rollback that has begun, in order.
FromMan  == {"rb_man", "rb_coll", "rb_cust", "rb_case", "rb_raw", "rb_end"}
FromColl == FromMan \ {"rb_man"}
FromCust == FromColl \ {"rb_coll"}
FromCase == FromCust \ {"rb_cust"}
FromRaw  == FromCase \ {"rb_case"}

\* A builder writes only in a round it opened: the first one, which no seal and
\* no pending file precede, or one whose pending file names the seal in place.
WritersOwnARound ==
    pc \in Writing \cup {"append"} =>
        \/ ~Sealed /\ ~pend.on
        \/ pend.on /\ pend.seal = sums.run

\* The pending file describes exactly what the seal covers.
PendingMatchesSeal ==
    Sealed /\ UnsealedRound =>
        /\ \A f \in AppendOnly : pend.lens[f] = Len(sums.log[f])
        /\ pend.case = sums.case

\* The stages in which no round may be pending; a builder has a directory.
NothingPending ==
    /\ pc # "idle" => dir
    /\ pc \in {"rb_note", "read", "begin"} => ~pend.on
    /\ pc = "seal_end" => Sealed /\ ~UnsealedRound
    /\ ~dir => ~Sealed /\ ~pend.on

\* A seal is of an earlier run, until the present one writes its own.
SealsAreEarlier ==
    /\ sums.run <= run
    /\ pc \in Writing \cup {"append"} => sums.run < run

\* Archives are named once, and those that a seal covers are there.
ArchivesKept ==
    /\ \A s, t \in seals : s[1] = t[1] => s = t
    /\ Sealed => sums.seals \subseteq seals

\* How far a rollback has restored the sealed state.
RollbackProgress ==
    /\ pc \in FromMan  => Sealed /\ UnsealedRound
    /\ pc \in FromColl => log["man"] = sums.log["man"]
    /\ pc \in FromCust => log["coll"] = sums.log["coll"]
    /\ pc \in FromCase => log["cust"] = sums.log["cust"]
    /\ pc \in FromRaw  => case = sums.case
    /\ pc = "rb_end"   => seals = sums.seals

\* No writer extends a sealed log that ends in a torn line.
SealedLogsWhole ==
    Sealed =>
        /\ pc \in {"begin", "append"} => ~Broken(sums.log["man"])
        /\ pc = "append" => log = sums.log
        /\ pc \in Writing => \A f \in AppendOnly : ~Broken(sums.log[f])

\* The conjunction that every step preserves.
RoundInv ==
    /\ WritersOwnARound
    /\ PendingMatchesSeal
    /\ NothingPending
    /\ SealsAreEarlier
    /\ ArchivesKept
    /\ RollbackProgress
    /\ SealedLogsWhole
    /\ SealedLogsPreserved
    /\ RestoredExactly
=============================================================================
