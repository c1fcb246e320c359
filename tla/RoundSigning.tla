----------------------------- MODULE RoundSigning -----------------------------
(***************************************************************************)
(* Proving the earlier rounds of a case, and signing and anchoring a new   *)
(* one: internal/integrity (CheckPrior, Finish), internal/seal (Sign,      *)
(* Verify), the anchor log of internal/store/keys.go, and the order        *)
(* cli/run_cmd.go calls them in.  Signing and anchoring come after Seal,   *)
(* and so after the package lock has been released.                        *)
(*                                                                         *)
(* What CasePackage details is one step here: a round is sealed or leaves  *)
(* no trace, and the lock excludes.  A SHA256SUMS digest is the number of  *)
(* the seal, in the order the seals of a package were made.  There is one  *)
(* machine key, and the anchor log is shared by all packages.              *)
(***************************************************************************)
EXTENDS Naturals, Sequences, FiniteSets

CONSTANTS
    Procs,       \* processes collecting
    Works,       \* Works[p]: the packages p collects into
    MayNotSign,  \* BOOLEAN: may a round be collected with --no-sign?
    MayCrash,    \* BOOLEAN: may a process die?
    MayFail,     \* BOOLEAN: may Finish fail, or end without recording its anchor?
    MaxSeals,    \* bound: seals made of each package
    MaxRestores  \* bound: times a package is replaced by an earlier copy

Pkgs == UNION {Works[p] : p \in Procs}

VARIABLES
    pkg,       \* each package: its rounds, SEAL.sig and the archived ones
    holder,    \* who has its lock
    anchors,   \* anchors.jsonl
    pc, job,   \* each process: its next step, and the collection it runs
    made,      \* history: seals made of each package
    copy,      \* a copy of each package kept elsewhere
    restores,  \* restores made
    broke,     \* history: "overlap" when two processes recorded anchors at once,
               \* "torn" when the record of one was written in part
    lapses     \* history of each package: "unanchored" when a round was sealed and
               \* its run ended or died with no anchor recorded, "shared" when it was
               \* locked while another process still finished a round of it,
               \* "replaced" when an earlier copy took its place

vars == <<pkg, holder, anchors, pc, job, made, copy, restores, broke, lapses>>

None    == "none"
Status  == {None, "unsigned", "verified", "FAILED"}

\* A round names its seal, whether it was sealed for a key, and what the check
\* of the earlier rounds found.  sig and sigs give the seal a signature is over.
Rounds  == Seq([seal : Nat, signer : BOOLEAN, prior : Status])
Pkg     == [rounds : Rounds, sig : Nat, sigs : SUBSET (Nat \X Nat)]
NoPkg   == [rounds |-> <<>>, sig |-> 0, sigs |-> {}]

\* An anchor is linked to the one that was last when its log was opened.
Anchor(k, r, d, prev) == [id |-> <<k, r>>, digest |-> d, prev |-> prev]
Genesis == <<None, 0>>
Torn    == Anchor(None, 0, 0, <<None, 1>>)

Last(s) == s[Len(s)]
Current(k) == IF pkg[k].rounds = <<>> THEN 0 ELSE Last(pkg[k].rounds).seal

Chained(recs) ==
    \A i \in DOMAIN recs :
        recs[i].prev = IF i = 1 THEN Genesis ELSE recs[i - 1].id

AnchorsOf(k) == {i \in DOMAIN anchors.recs : anchors.recs[i].id[1] = k}

NoJob == [pkg |-> None, round |-> 0, seal |-> 0, sign |-> FALSE, prior |-> None,
          at |-> 0, create |-> FALSE, prev |-> Genesis]

Goto(p, s) == pc' = [pc EXCEPT ![p] = s]
Work(p, j) == job' = [job EXCEPT ![p] = j]
Lapse(k, what) == lapses' = [lapses EXCEPT ![k] = @ \cup {what}]
-----------------------------------------------------------------------------
Init ==
    /\ pkg = [k \in Pkgs |-> NoPkg]
    /\ holder = [k \in Pkgs |-> None]
    /\ anchors = [exists |-> FALSE, recs |-> <<>>]
    /\ pc = [p \in Procs |-> "out"]
    /\ job = [p \in Procs |-> NoJob]
    /\ made = [k \in Pkgs |-> 0]
    /\ copy = [k \in Pkgs |-> NoPkg]
    /\ restores = 0 /\ broke = {} /\ lapses = [k \in Pkgs |-> {}]

\* openPackage: an existing package is checked once it is locked.
Open(p, k, sign) ==
    /\ pc[p] = "out" /\ holder[k] = None /\ made[k] < MaxSeals[k]
    /\ sign \/ MayNotSign
    /\ holder' = [holder EXCEPT ![k] = p]
    /\ Work(p, [NoJob EXCEPT !.pkg = k, !.sign = sign,
                             !.round = Len(pkg[k].rounds) + 1])
    /\ Goto(p, IF pkg[k] = NoPkg THEN "collect" ELSE "check_sig")
    /\ IF \E q \in Procs : job[q].pkg = k THEN Lapse(k, "shared") ELSE UNCHANGED lapses
    /\ UNCHANGED <<pkg, anchors, made, copy, restores, broke>>

\* A signature is expected once any round was sealed for a key.
SignatureFails(k) ==
    /\ \E i \in DOMAIN pkg[k].rounds : pkg[k].rounds[i].signer
    /\ pkg[k].sig # Current(k)

CheckSignature(p) ==
    LET k == job[p].pkg IN
    /\ pc[p] = "check_sig"
    /\ Work(p, [job[p] EXCEPT !.prior =
                  IF SignatureFails(k) THEN "FAILED"
                  ELSE IF pkg[k].sig = Current(k) THEN "verified" ELSE "unsigned"])
    /\ Goto(p, "check_anchor")
    /\ UNCHANGED <<pkg, holder, anchors, made, copy, restores, broke, lapses>>

\* Mutant of AnchorFails: an anchor for the current seal anywhere in the log.
AnchorMissing(k) ==
    \/ ~Chained(anchors.recs)
    \/ AnchorsOf(k) # {} /\ \A i \in AnchorsOf(k) : anchors.recs[i].digest # Current(k)

\* Mutant of AnchorFails: any anchor of another seal.
AnchorDiffers(k) ==
    \/ ~Chained(anchors.recs)
    \/ \E i \in AnchorsOf(k) : anchors.recs[i].digest # Current(k)

\* The log's own chain is broken, or the last anchor is of another seal.
AnchorFails(k) ==
    \/ ~Chained(anchors.recs)
    \/ \E i \in AnchorsOf(k) :
          /\ \A j \in AnchorsOf(k) : j <= i
          /\ anchors.recs[i].digest # Current(k)

CheckAnchor(p) ==
    /\ pc[p] = "check_anchor"
    /\ Work(p, [job[p] EXCEPT !.prior = IF AnchorFails(job[p].pkg) THEN "FAILED" ELSE @])
    /\ Goto(p, "collect")
    /\ UNCHANGED <<pkg, holder, anchors, made, copy, restores, broke, lapses>>

\* The round is given up and rolled back.
Abandon(p) ==
    /\ pc[p] = "collect"
    /\ holder' = [holder EXCEPT ![job[p].pkg] = None]
    /\ Goto(p, "out") /\ Work(p, NoJob)
    /\ UNCHANGED <<pkg, anchors, made, copy, restores, broke, lapses>>

\* Mutant of Archived: the signature goes under the round being sealed.
ArchivedUnderNewRound(k, n) ==
    IF pkg[k].sig = 0 \/ \E s \in pkg[k].sigs : s[1] = n
    THEN pkg[k].sigs
    ELSE pkg[k].sigs \cup {<<n, pkg[k].sig>>}

\* archivePreviousSeal: the signature in place goes with the seal before.
Archived(k, n) ==
    IF pkg[k].sig = 0 \/ \E s \in pkg[k].sigs : s[1] = n - 1
    THEN pkg[k].sigs
    ELSE pkg[k].sigs \cup {<<n - 1, pkg[k].sig>>}

\* Seal, which releases the lock.  SEAL.sig stays as it is.
Seal(p) ==
    LET k == job[p].pkg IN
    /\ pc[p] = "collect" /\ made[k] < MaxSeals[k]
    /\ made' = [made EXCEPT ![k] = @ + 1]
    /\ pkg' = [pkg EXCEPT
                 ![k].rounds = Append(@, [seal |-> made'[k], signer |-> job[p].sign,
                                          prior |-> job[p].prior]),
                 ![k].sigs = Archived(k, job[p].round)]
    /\ holder' = [holder EXCEPT ![k] = None]
    /\ Goto(p, IF job[p].sign THEN "sign" ELSE "digest")
    /\ UNCHANGED <<anchors, job, copy, restores, broke, lapses>>
-----------------------------------------------------------------------------
(***************************************************************************)
(* Finish.                                                                 *)
(***************************************************************************)
\* Sign takes the digest of the SHA256SUMS that is there now ...
SignRead(p) ==
    /\ pc[p] = "sign"
    /\ Work(p, [job[p] EXCEPT !.at = Current(job[p].pkg)])
    /\ Goto(p, "sign_write")
    /\ UNCHANGED <<pkg, holder, anchors, made, copy, restores, broke, lapses>>

\* ... and replaces SEAL.sig.
SignWrite(p) ==
    /\ pc[p] = "sign_write"
    /\ pkg' = [pkg EXCEPT ![job[p].pkg].sig = job[p].at]
    /\ Goto(p, "digest")
    /\ UNCHANGED <<holder, anchors, job, made, copy, restores, broke, lapses>>

Digest(p) ==
    /\ pc[p] = "digest"
    /\ Work(p, [job[p] EXCEPT !.seal = Current(job[p].pkg)])
    /\ Goto(p, "anchor")
    /\ UNCHANGED <<pkg, holder, anchors, made, copy, restores, broke, lapses>>

Recording == {"anchor_open", "anchor_append"}
Finishing == {"sign", "sign_write", "digest", "anchor"} \cup Recording

\* RecordAnchor looks whether there is a log, then creates or continues it.
LookForLog(p) ==
    /\ pc[p] = "anchor"
    /\ Work(p, [job[p] EXCEPT !.create = ~anchors.exists])
    /\ Goto(p, "anchor_open")
    /\ broke' = IF \E q \in Procs : pc[q] \in Recording THEN broke \cup {"overlap"} ELSE broke
    /\ UNCHANGED <<pkg, holder, anchors, made, copy, restores, lapses>>

\* NewWriter truncates whatever another process has made since.
CreateLog(p) ==
    /\ pc[p] = "anchor_open" /\ job[p].create
    /\ anchors' = [exists |-> TRUE, recs |-> <<>>]
    /\ Goto(p, "anchor_append")
    /\ UNCHANGED <<pkg, holder, job, made, copy, restores, broke, lapses>>

\* Mutant of ContinueLog: an anchor is linked to the last one of its own case.
ContinueLogOfCase(p) ==
    LET own == SelectSeq(anchors.recs, LAMBDA a : a.id[1] = job[p].pkg) IN
    /\ pc[p] = "anchor_open" /\ ~job[p].create
    /\ Work(p, [job[p] EXCEPT !.prev = IF own = <<>> THEN Genesis ELSE Last(own).id])
    /\ Goto(p, "anchor_append")
    /\ UNCHANGED <<pkg, holder, anchors, made, copy, restores, broke, lapses>>

\* NewAppender refuses a broken chain: the anchor is not recorded, and the run ends
\* well all the same.
ContinueLog(p) ==
    /\ pc[p] = "anchor_open" /\ ~job[p].create
    /\ IF Chained(anchors.recs)
       THEN /\ Work(p, [job[p] EXCEPT !.prev =
                          IF anchors.recs = <<>> THEN Genesis ELSE Last(anchors.recs).id])
            /\ Goto(p, "anchor_append")
            /\ UNCHANGED lapses
       ELSE /\ Goto(p, "out") /\ Work(p, NoJob)
            /\ Lapse(job[p].pkg, "unanchored")
    /\ UNCHANGED <<pkg, holder, anchors, made, copy, restores, broke>>

\* An appended record goes to the end of the file; one of the process that
\* made the file goes to its start, over what others wrote there, and the rest
\* of a longer line stays behind it.
AppendAnchor(p) ==
    LET new == Anchor(job[p].pkg, job[p].round, job[p].seal, job[p].prev)
        old == anchors.recs
    IN
    /\ pc[p] = "anchor_append"
    /\ \/ /\ ~job[p].create \/ old = <<>>
          /\ anchors' = [anchors EXCEPT !.recs = Append(old, new)]
       \/ /\ job[p].create /\ old # <<>>
          /\ \/ anchors' = [anchors EXCEPT !.recs[1] = new]
             \/ anchors' = [anchors EXCEPT !.recs = <<new, Torn>> \o Tail(old)]
    /\ Goto(p, "out") /\ Work(p, NoJob)
    /\ UNCHANGED <<pkg, holder, made, copy, restores, broke, lapses>>

\* A record of which only the first bytes could be written.
AppendPart(p) ==
    LET old == anchors.recs IN
    /\ MayFail /\ pc[p] = "anchor_append"
    /\ anchors' = [anchors EXCEPT !.recs =
                      IF job[p].create /\ old # <<>> THEN <<Torn>> \o Tail(old)
                      ELSE Append(old, Torn)]
    /\ broke' = broke \cup {"torn"}
    /\ Lapse(job[p].pkg, "unanchored")
    /\ Goto(p, "out") /\ Work(p, NoJob)
    /\ UNCHANGED <<pkg, holder, made, copy, restores>>

\* A run that does not anchor its round: signing it failed, and the run ends in an error;
\* or Finish was not asked to, or the machine's home was not to be had, or the log
\* could not be opened or written to, which is one of Finish's notes.
Unanchored(p) ==
    /\ MayFail /\ pc[p] \in Finishing
    /\ Lapse(job[p].pkg, "unanchored")
    /\ Goto(p, "out") /\ Work(p, NoJob)
    /\ UNCHANGED <<pkg, holder, anchors, made, copy, restores, broke>>
-----------------------------------------------------------------------------
\* A process dies; the next run on the package reclaims its lock.
Crash(p) ==
    /\ MayCrash /\ pc[p] # "out"
    /\ IF pc[p] \in Finishing THEN Lapse(job[p].pkg, "unanchored") ELSE UNCHANGED lapses
    /\ holder' = [k \in Pkgs |-> IF holder[k] = p THEN None ELSE holder[k]]
    /\ Goto(p, "out") /\ Work(p, NoJob)
    /\ UNCHANGED <<pkg, anchors, made, copy, restores, broke>>

AtRest(k) == holder[k] = None /\ \A p \in Procs : job[p].pkg # k

\* A case is copied elsewhere, and later replaced by the copy, as the tests of
\* CheckPrior do.
Copy(k) ==
    /\ AtRest(k) /\ restores < MaxRestores
    /\ pkg[k] # NoPkg /\ copy[k] # pkg[k]
    /\ copy' = [copy EXCEPT ![k] = pkg[k]]
    /\ UNCHANGED <<pkg, holder, anchors, pc, job, made, restores, broke, lapses>>

Restore(k) ==
    /\ AtRest(k) /\ restores < MaxRestores
    /\ copy[k] \notin {NoPkg, pkg[k]}
    /\ restores' = restores + 1
    /\ pkg' = [pkg EXCEPT ![k] = copy[k]]
    /\ Lapse(k, "replaced")
    /\ UNCHANGED <<holder, anchors, pc, job, made, copy, broke>>

\* Every package has had its seals.
Stopped ==
    /\ \A p \in Procs : pc[p] = "out"
    /\ \A k \in Pkgs : made[k] = MaxSeals[k]
    /\ UNCHANGED vars

Finish(p) ==
    \/ SignRead(p) \/ SignWrite(p) \/ Digest(p) \/ LookForLog(p)
    \/ CreateLog(p) \/ ContinueLog(p) \/ AppendAnchor(p)
    \/ AppendPart(p) \/ Unanchored(p)

Next ==
    \/ \E p \in Procs :
          \/ \E k \in Works[p], sign \in BOOLEAN : Open(p, k, sign)
          \/ CheckSignature(p) \/ CheckAnchor(p) \/ Abandon(p) \/ Seal(p)
          \/ Finish(p) \/ Crash(p)
    \/ \E k \in Pkgs : Copy(k) \/ Restore(k)
    \/ Stopped

Spec == Init /\ [][Next]_vars
-----------------------------------------------------------------------------
SealsOf(k) == {pkg[k].rounds[i].seal : i \in DOMAIN pkg[k].rounds}

AllSigned(k) == \A i \in DOMAIN pkg[k].rounds : pkg[k].rounds[i].signer
SaysFailed(k) == \E i \in DOMAIN pkg[k].rounds : pkg[k].rounds[i].prior = "FAILED"

\* A case that lost an anchored round, by being replaced by an earlier copy,
\* cannot come to pass the anchor check again without a round of it saying
\* FAILED: "a case restored from an older copy verifies internally, but not
\* against the anchor" (integrity_test.go:129), and sealing on top of it, with
\* crashes, anchors not recorded and further restores, must not launder it.  It
\* can when a run locked the case while another still finished a round of it.
LossRecorded ==
    \A k \in Pkgs :
        "shared" \notin lapses[k] /\ AtRest(k) /\ ~AnchorFails(k) =>
            \/ \A i \in AnchorsOf(k) : anchors.recs[i].digest \in SealsOf(k)
            \/ SaysFailed(k)

\* A round that says the rounds before it verified can be held to it later: the
\* signature it relied on is archived, and is over the seal it says it is; unless a
\* run locked the case while another, past the lock, still signed a round of it.
VerifiedIsProvable ==
    \A k \in Pkgs : "shared" \notin lapses[k] =>
        \A i \in DOMAIN pkg[k].rounds :
            pkg[k].rounds[i].prior = "verified" =>
                <<i - 1, pkg[k].rounds[i - 1].seal>> \in pkg[k].sigs

\* integrity.go:91 says of a check that fails that "the case was changed or rolled back
\* since".  So it was, when each run of the case signed its round and recorded its anchor,
\* before the next took the lock, and the machine's log was written by one run at a time
\* and in full; whatever befell the other cases that share the log.
FailedMeansChanged ==
    broke = {} =>
        \A k \in Pkgs : lapses[k] = {} /\ AllSigned(k) => ~SaysFailed(k)

\* keys.go:136, "the anchor log, a hash chain of its own": runs that record their anchors
\* one after the other, each in full or not at all, never break it, wherever they die and
\* whatever is restored.
AnchorsChained == broke = {} => Chained(anchors.recs)
=============================================================================
