-------------------------- MODULE RoundSigningProofs --------------------------
(***************************************************************************)
(* What the signatures and the anchor log promise, proved of RoundSigning  *)
(* for any number of processes, packages, seals, crashes and restores.     *)
(***************************************************************************)
EXTENDS RoundSigning, SequenceTheorems, WellFoundedInduction, TLAPS

Checking == {"check_sig", "check_anchor", "collect"}
Steps    == {"out"} \cup Checking \cup Finishing
Names    == Pkgs \cup {None}
Ids      == Names \X Nat
Anchors  == [id : Ids, digest : Nat, prev : Ids]
Lapses   == {"unanchored", "shared", "replaced"}
Jobs     == [pkg : Names, round : Nat, seal : Nat, sign : BOOLEAN, prior : Status,
             at : Nat, create : BOOLEAN, prev : Ids]

TypeInv ==
    /\ pkg \in [Pkgs -> Pkg] /\ copy \in [Pkgs -> Pkg]
    /\ made \in [Pkgs -> Nat]
    /\ anchors \in [exists : BOOLEAN, recs : Seq(Anchors)]
    /\ pc \in [Procs -> Steps]
    /\ job \in [Procs -> Jobs]
    /\ lapses \in [Pkgs -> SUBSET Lapses]

\* A process that collects has a package and a round, and one that has not yet
\* opened the anchor log has no anchor to link to.
Working ==
    \A p \in Procs :
        /\ pc[p] # "out" => job[p].pkg \in Works[p] /\ job[p].round # 0
        /\ pc[p] # "anchor_append" => job[p].prev = Genesis

SigningInv == TypeInv /\ Working
-----------------------------------------------------------------------------
LEMMA LastIn == ASSUME NEW S, NEW s \in Seq(S), s # <<>> PROVE Last(s) \in S
<1>1. Len(s) \in 1 .. Len(s)
  OBVIOUS
<1> QED BY <1>1 DEF Last

LEMMA CurrentNat == ASSUME NEW k \in Pkgs, pkg \in [Pkgs -> Pkg] PROVE Current(k) \in Nat
<1> DEFINE s == pkg[k].rounds
<1>1. s \in Seq([seal : Nat, signer : BOOLEAN, prior : Status])
  BY DEF Pkg, Rounds
<1>2. Current(k) = IF s = <<>> THEN 0 ELSE Last(s).seal
  BY DEF Current
<1> HIDE DEF s
<1>3. ASSUME s # <<>> PROVE Last(s) \in [seal : Nat, signer : BOOLEAN, prior : Status]
  BY <1>1, <1>3, LastIn
<1>4. ASSUME s # <<>> PROVE Last(s).seal \in Nat
  BY <1>3, <1>4
<1> QED BY <1>2, <1>4

LEMMA AnchorTyped ==
    ASSUME NEW k \in Names, NEW r \in Nat, NEW d \in Nat, NEW prev \in Ids
    PROVE  Anchor(k, r, d, prev) \in Anchors
BY DEF Anchor, Anchors, Ids

LEMMA LastId ==
    ASSUME NEW s \in Seq(Anchors), s # <<>> PROVE Last(s).id \in Ids
<1>1. Last(s) \in Anchors
  BY LastIn
<1> QED BY <1>1 DEF Anchors

LEMMA GenesisId == Genesis \in Ids
BY DEF Genesis, Ids, Names

LEMMA NoPkgTyped == NoPkg \in Pkg
BY DEF NoPkg, Pkg, Rounds

LEMMA NoJobTyped == NoJob \in Jobs /\ NoJob.prev = Genesis
BY GenesisId DEF NoJob, Jobs, Names, Status

LEMMA SigningInit == Init => SigningInv
<1> SUFFICES ASSUME Init PROVE SigningInv
  OBVIOUS
<1>1. "out" \in Steps /\ "out" # "anchor_append"
  BY DEF Steps
<1>2. TypeInv
  BY <1>1, NoPkgTyped, NoJobTyped DEF Init, TypeInv
<1>3. Working
  BY <1>1, NoJobTyped DEF Init, Working
<1> QED BY <1>2, <1>3 DEF SigningInv
-----------------------------------------------------------------------------
\* A step that moves one process on: what it owes the types.
LEMMA Moved ==
    ASSUME SigningInv, NEW p \in Procs, NEW s \in Steps, NEW j \in Jobs,
           s # "out" => j.pkg \in Works[p] /\ j.round # 0,
           s # "anchor_append" => j.prev = Genesis,
           Goto(p, s), Work(p, j)
    PROVE  pc' \in [Procs -> Steps] /\ job' \in [Procs -> Jobs] /\ Working'
<1>1. pc' \in [Procs -> Steps] /\ job' \in [Procs -> Jobs]
  BY DEF SigningInv, TypeInv, Goto, Work
<1>2. ASSUME NEW q \in Procs
      PROVE  /\ pc'[q] # "out" => job'[q].pkg \in Works[q] /\ job'[q].round # 0
             /\ pc'[q] # "anchor_append" => job'[q].prev = Genesis
  <2>1. CASE q = p
    <3>1. pc'[q] = s /\ job'[q] = j
      BY <2>1 DEF SigningInv, TypeInv, Goto, Work
    <3> QED BY <2>1, <3>1
  <2>2. CASE q # p
    <3>1. pc'[q] = pc[q] /\ job'[q] = job[q]
      BY <2>2 DEF SigningInv, TypeInv, Goto, Work
    <3> QED BY <3>1 DEF SigningInv, Working
  <2> QED BY <2>1, <2>2
<1> QED BY <1>1, <1>2 DEF Working

LEMMA JobOf ==
    ASSUME SigningInv, NEW p \in Procs
    PROVE  /\ job[p] \in Jobs
           /\ pc[p] # "out" => job[p].pkg \in Works[p] /\ job[p].pkg \in Pkgs /\ job[p].round # 0
           /\ pc[p] # "anchor_append" => job[p].prev = Genesis
BY DEF SigningInv, TypeInv, Working, Pkgs

LEMMA SealKeepsPkg ==
    ASSUME NEW k \in Pkgs, NEW n \in Nat \ {0}, pkg \in [Pkgs -> Pkg],
           NEW r \in [seal : Nat, signer : BOOLEAN, prior : Status]
    PROVE  /\ Archived(k, n) \in SUBSET (Nat \X Nat)
           /\ [pkg EXCEPT ![k].rounds = Append(@, r), ![k].sigs = Archived(k, n)]
                 \in [Pkgs -> Pkg]
<1>1. pkg[k] \in Pkg
  OBVIOUS
<1>2. n - 1 \in Nat
  OBVIOUS
<1>3. Archived(k, n) \in SUBSET (Nat \X Nat)
  BY <1>1, <1>2 DEF Archived, Pkg
<1>4. Append(pkg[k].rounds, r) \in Rounds
  BY <1>1 DEF Pkg, Rounds
<1>5. [[pkg[k] EXCEPT !.rounds = Append(@, r)] EXCEPT !.sigs = Archived(k, n)] \in Pkg
  BY <1>1, <1>3, <1>4 DEF Pkg
<1> QED BY <1>3, <1>5

LEMMA AppendTyped ==
    ASSUME SigningInv, NEW p \in Procs, AppendAnchor(p)
    PROVE  anchors' \in [exists : BOOLEAN, recs : Seq(Anchors)]
<1> DEFINE new == Anchor(job[p].pkg, job[p].round, job[p].seal, job[p].prev)
           old == anchors.recs
<1>1. new \in Anchors
  BY JobOf, AnchorTyped DEF Jobs
<1>2. Torn \in Anchors
  BY AnchorTyped DEF Torn, Names, Ids
<1>3. old \in Seq(Anchors) /\ anchors \in [exists : BOOLEAN, recs : Seq(Anchors)]
  BY DEF SigningInv, TypeInv
<1> HIDE DEF new, old
<1>4. Append(old, new) \in Seq(Anchors)
  BY <1>1, <1>3
<1>5. ASSUME old # <<>> PROVE [old EXCEPT ![1] = new] \in Seq(Anchors)
  BY <1>1, <1>3, <1>5, ExceptSeq
<1>6. ASSUME old # <<>> PROVE <<new, Torn>> \o Tail(old) \in Seq(Anchors)
  <2>1. Tail(old) \in Seq(Anchors)
    BY <1>3, <1>6
  <2>2. <<new, Torn>> \in Seq(Anchors)
    BY <1>1, <1>2
  <2> QED BY <2>1, <2>2
<1>7. \/ anchors' = [anchors EXCEPT !.recs = Append(old, new)]
      \/ old # <<>> /\ anchors' = [anchors EXCEPT !.recs[1] = new]
      \/ old # <<>> /\ anchors' = [anchors EXCEPT !.recs = <<new, Torn>> \o Tail(old)]
  BY DEF AppendAnchor, new, old
<1>8. CASE anchors' = [anchors EXCEPT !.recs = Append(old, new)]
  BY <1>3, <1>4, <1>8
<1>9. CASE old # <<>> /\ anchors' = [anchors EXCEPT !.recs[1] = new]
  <2>1. anchors' = [anchors EXCEPT !.recs = [old EXCEPT ![1] = new]]
    BY <1>3, <1>9 DEF old
  <2> QED BY <1>3, <1>5, <1>9, <2>1
<1>10. CASE old # <<>> /\ anchors' = [anchors EXCEPT !.recs = <<new, Torn>> \o Tail(old)]
  BY <1>3, <1>6, <1>10
<1> QED BY <1>7, <1>8, <1>9, <1>10
-----------------------------------------------------------------------------
\* What befell a package is never forgotten.
LEMMA LapsesStep ==
    ASSUME lapses \in [Pkgs -> SUBSET Lapses], [Next]_vars
    PROVE  /\ lapses' \in [Pkgs -> SUBSET Lapses]
           /\ \A k \in Pkgs : lapses[k] \subseteq lapses'[k]
<1>1. UNCHANGED lapses \/ \E k, what : what \in Lapses /\ Lapse(k, what)
  <2>1. ASSUME NEW p \in Procs, NEW k \in Works[p], NEW sign \in BOOLEAN, Open(p, k, sign)
        PROVE  UNCHANGED lapses \/ \E l, what : what \in Lapses /\ Lapse(l, what)
    BY <2>1 DEF Open, Lapses
  <2>2. ASSUME NEW p \in Procs, CheckSignature(p) \/ CheckAnchor(p) \/ Abandon(p) \/ Seal(p)
                 \/ SignRead(p) \/ SignWrite(p) \/ Digest(p) \/ LookForLog(p) \/ CreateLog(p)
                 \/ AppendAnchor(p)
        PROVE  UNCHANGED lapses
    BY <2>2 DEF CheckSignature, CheckAnchor, Abandon, Seal, SignRead, SignWrite, Digest,
                LookForLog, CreateLog, AppendAnchor
  <2>3. ASSUME NEW p \in Procs, ContinueLog(p) \/ AppendPart(p) \/ Unanchored(p) \/ Crash(p)
        PROVE  UNCHANGED lapses \/ \E k, what : what \in Lapses /\ Lapse(k, what)
    <3>1. UNCHANGED lapses \/ Lapse(job[p].pkg, "unanchored")
      BY <2>3 DEF ContinueLog, AppendPart, Unanchored, Crash
    <3> QED BY <3>1 DEF Lapses
  <2>4. ASSUME NEW k \in Pkgs, Copy(k) \/ Restore(k)
        PROVE  UNCHANGED lapses \/ \E l, what : what \in Lapses /\ Lapse(l, what)
    BY <2>4 DEF Copy, Restore, Lapses
  <2>5. CASE UNCHANGED vars
    BY <2>5 DEF vars
  <2> QED BY <2>1, <2>2, <2>3, <2>4, <2>5 DEF Next, Finish, Stopped
<1>2. CASE UNCHANGED lapses
  BY <1>2
<1>3. ASSUME NEW k, NEW what \in Lapses, Lapse(k, what)
      PROVE  /\ lapses' \in [Pkgs -> SUBSET Lapses]
             /\ \A l \in Pkgs : lapses[l] \subseteq lapses'[l]
  BY <1>3 DEF Lapse
<1> QED BY <1>1, <1>2, <1>3

LEMMA PartTyped ==
    ASSUME SigningInv, NEW p \in Procs, AppendPart(p)
    PROVE  anchors' \in [exists : BOOLEAN, recs : Seq(Anchors)]
<1> DEFINE old == anchors.recs
<1>1. Torn \in Anchors
  BY AnchorTyped DEF Torn, Names, Ids
<1>2. old \in Seq(Anchors) /\ anchors \in [exists : BOOLEAN, recs : Seq(Anchors)]
  BY DEF SigningInv, TypeInv
<1> HIDE DEF old
<1>3. Append(old, Torn) \in Seq(Anchors)
  BY <1>1, <1>2
<1>4. ASSUME old # <<>> PROVE <<Torn>> \o Tail(old) \in Seq(Anchors)
  <2>1. Tail(old) \in Seq(Anchors)
    BY <1>2, <1>4
  <2>2. <<Torn>> \in Seq(Anchors)
    BY <1>1
  <2> QED BY <2>1, <2>2
<1>5. \/ anchors' = [anchors EXCEPT !.recs = Append(old, Torn)]
      \/ old # <<>> /\ anchors' = [anchors EXCEPT !.recs = <<Torn>> \o Tail(old)]
  BY DEF AppendPart, old
<1> QED BY <1>2, <1>3, <1>4, <1>5

LEMMA SigningStep == SigningInv /\ [Next]_vars => SigningInv'
<1> SUFFICES ASSUME SigningInv, [Next]_vars PROVE SigningInv'
  OBVIOUS
<1>t. TypeInv
  BY DEF SigningInv
<1> DEFINE Data == /\ pkg' \in [Pkgs -> Pkg] /\ copy' \in [Pkgs -> Pkg]
                   /\ made' \in [Pkgs -> Nat]
                   /\ anchors' \in [exists : BOOLEAN, recs : Seq(Anchors)]
<1>l. lapses' \in [Pkgs -> SUBSET Lapses]
  BY <1>t, LapsesStep DEF TypeInv
<1>s. "anchor_append" # "anchor_open"
  OBVIOUS
\* What is left of a step that keeps the data, or is known to keep their types.
<1>f. ASSUME UNCHANGED <<pkg, copy, made, anchors>> PROVE Data
  BY <1>f, <1>t DEF TypeInv
<1>m. ASSUME Data, NEW p \in Procs, NEW s \in Steps, NEW j \in Jobs,
             s # "out" => j.pkg \in Works[p] /\ j.round # 0,
             s # "anchor_append" => j.prev = Genesis,
             Goto(p, s), Work(p, j)
      PROVE  SigningInv'
  <2>1. pc' \in [Procs -> Steps] /\ job' \in [Procs -> Jobs] /\ Working'
    BY <1>m, Moved
  <2> QED BY <1>l, <1>m, <2>1 DEF SigningInv, TypeInv
<1>g. ASSUME Data, NEW p \in Procs, NEW s \in Steps, s # "anchor_append" \/ job[p].prev = Genesis,
             pc[p] # "out", pc[p] # "anchor_append", Goto(p, s), UNCHANGED job
      PROVE  SigningInv'
  <2>1. Work(p, job[p])
    BY <1>g, <1>t DEF TypeInv, Work
  <2> QED BY <1>g, <1>m, <2>1, JobOf
<1> HIDE DEF Data
<1>n. \A p \in Procs : NoJob \in Jobs /\ NoJob.prev = Genesis
  BY NoJobTyped
<1>0. \A s \in Steps : s = s
  OBVIOUS
<1>st. /\ {"out", "check_sig", "check_anchor", "collect", "sign", "sign_write",
           "digest", "anchor", "anchor_open", "anchor_append"} \subseteq Steps
  BY DEF Steps, Checking, Finishing, Recording
<1>out. ASSUME Data, NEW p \in Procs, Goto(p, "out"), Work(p, NoJob) PROVE SigningInv'
  BY <1>out, <1>m, <1>st, NoJobTyped
<1>1. ASSUME NEW p \in Procs, NEW k \in Works[p], NEW sign \in BOOLEAN, Open(p, k, sign)
      PROVE  SigningInv'
  <2> DEFINE j == [NoJob EXCEPT !.pkg = k, !.sign = sign, !.round = Len(pkg[k].rounds) + 1]
             s == IF pkg[k] = NoPkg THEN "collect" ELSE "check_sig"
  <2>1. k \in Pkgs
    BY DEF Pkgs
  <2>2. Len(pkg[k].rounds) + 1 \in Nat \ {0}
    BY <2>1, <1>t DEF TypeInv, Pkg, Rounds
  <2>3. j \in Jobs /\ j.pkg = k /\ j.round # 0 /\ j.prev = Genesis
    BY <2>1, <2>2, NoJobTyped DEF Jobs, Names
  <2>4. s \in Steps
    BY <1>st
  <2>5. Goto(p, s) /\ Work(p, j) /\ Data
    BY <1>1, <1>f DEF Open
  <2> HIDE DEF j, s
  <2> QED BY <1>m, <2>3, <2>4, <2>5
<1>2. ASSUME NEW p \in Procs, CheckSignature(p) PROVE SigningInv'
  <2> DEFINE k == job[p].pkg
             v == IF SignatureFails(k) THEN "FAILED"
                  ELSE IF pkg[k].sig = Current(k) THEN "verified" ELSE "unsigned"
             j == [job[p] EXCEPT !.prior = v]
  <2>1. job[p] \in Jobs /\ job[p].pkg \in Works[p] /\ job[p].round # 0 /\ job[p].prev = Genesis
    BY <1>2, JobOf DEF CheckSignature
  <2>2. v \in Status
    BY DEF Status
  <2>3. Goto(p, "check_anchor") /\ Work(p, j) /\ Data
    BY <1>2, <1>f DEF CheckSignature
  <2> HIDE DEF v
  <2>4. j \in Jobs /\ j.pkg \in Works[p] /\ j.round # 0 /\ j.prev = Genesis
    BY <2>1, <2>2 DEF Jobs
  <2> HIDE DEF j
  <2> QED BY <1>m, <1>st, <2>3, <2>4
<1>3. ASSUME NEW p \in Procs, CheckAnchor(p) PROVE SigningInv'
  <2> DEFINE v == IF AnchorFails(job[p].pkg) THEN "FAILED" ELSE job[p].prior
             j == [job[p] EXCEPT !.prior = v]
  <2>1. job[p] \in Jobs /\ job[p].pkg \in Works[p] /\ job[p].round # 0 /\ job[p].prev = Genesis
    BY <1>3, JobOf DEF CheckAnchor
  <2>2. v \in Status
    BY <2>1 DEF Status, Jobs
  <2>3. Goto(p, "collect") /\ Work(p, j) /\ Data
    BY <1>3, <1>f DEF CheckAnchor
  <2> HIDE DEF v
  <2>4. j \in Jobs /\ j.pkg \in Works[p] /\ j.round # 0 /\ j.prev = Genesis
    BY <2>1, <2>2 DEF Jobs
  <2> HIDE DEF j
  <2> QED BY <1>m, <1>st, <2>3, <2>4
<1>4. ASSUME NEW p \in Procs, Abandon(p) PROVE SigningInv'
  BY <1>4, <1>f, <1>out DEF Abandon
<1>5. ASSUME NEW p \in Procs, Seal(p) PROVE SigningInv'
  <2> DEFINE k == job[p].pkg
             r == [seal |-> made'[k], signer |-> job[p].sign, prior |-> job[p].prior]
  <2>1. job[p] \in Jobs /\ k \in Pkgs
    BY <1>5, JobOf DEF Seal
  <2>2. made' \in [Pkgs -> Nat] /\ made'[k] \in Nat
    BY <1>5, <1>t, <2>1 DEF Seal, TypeInv
  <2>3. r \in [seal : Nat, signer : BOOLEAN, prior : Status]
    BY <2>1, <2>2 DEF Jobs
  <2>4. pkg' \in [Pkgs -> Pkg]
    <3>1. job[p].round \in Nat \ {0}
      BY <1>5, <2>1, JobOf DEF Seal, Jobs
    <3>2. pkg' = [pkg EXCEPT ![k].rounds = Append(@, r), ![k].sigs = Archived(k, job[p].round)]
      BY <1>5 DEF Seal
    <3> HIDE DEF r
    <3> QED BY <1>t, <2>1, <2>3, <3>1, <3>2, SealKeepsPkg DEF TypeInv
  <2>5. Data
    BY <1>5, <1>t, <2>2, <2>4 DEF Seal, TypeInv, Data
  <2>6. pc[p] = "collect" /\ UNCHANGED job
    BY <1>5 DEF Seal
  <2>7. Goto(p, "sign") \/ Goto(p, "digest")
    BY <1>5 DEF Seal
  <2> QED BY <1>g, <1>st, <2>5, <2>6, <2>7
<1>6. ASSUME NEW p \in Procs, SignRead(p) PROVE SigningInv'
  <2> DEFINE j == [job[p] EXCEPT !.at = Current(job[p].pkg)]
  <2>1. /\ job[p] \in Jobs /\ job[p].pkg \in Pkgs
        /\ job[p].pkg \in Works[p] /\ job[p].round # 0 /\ job[p].prev = Genesis
    BY <1>6, JobOf DEF SignRead
  <2>2. Current(job[p].pkg) \in Nat
    BY <1>t, <2>1, CurrentNat DEF TypeInv
  <2>3. Goto(p, "sign_write") /\ Work(p, j) /\ Data
    BY <1>6, <1>f DEF SignRead
  <2>4. j \in Jobs /\ j.pkg \in Works[p] /\ j.round # 0 /\ j.prev = Genesis
    BY <2>1, <2>2 DEF Jobs
  <2> HIDE DEF j
  <2> QED BY <1>m, <1>st, <2>3, <2>4
<1>7. ASSUME NEW p \in Procs, SignWrite(p) PROVE SigningInv'
  <2>1. job[p] \in Jobs /\ job[p].pkg \in Pkgs
    BY <1>7, JobOf DEF SignWrite
  <2>2. pkg' = [pkg EXCEPT ![job[p].pkg].sig = job[p].at]
    BY <1>7 DEF SignWrite
  <2>3. pkg' \in [Pkgs -> Pkg]
    <3>1. job[p].at \in Nat /\ pkg[job[p].pkg] \in Pkg
      BY <1>t, <2>1 DEF TypeInv, Jobs
    <3>2. [pkg[job[p].pkg] EXCEPT !.sig = job[p].at] \in Pkg
      BY <3>1 DEF Pkg
    <3> QED BY <1>t, <2>1, <2>2, <3>2 DEF TypeInv
  <2>4. Data
    BY <1>7, <1>t, <2>3 DEF SignWrite, TypeInv, Data
  <2>5. pc[p] = "sign_write" /\ Goto(p, "digest") /\ UNCHANGED job
    BY <1>7 DEF SignWrite
  <2> QED BY <1>g, <1>st, <2>4, <2>5
<1>8. ASSUME NEW p \in Procs, Digest(p) PROVE SigningInv'
  <2> DEFINE j == [job[p] EXCEPT !.seal = Current(job[p].pkg)]
  <2>1. /\ job[p] \in Jobs /\ job[p].pkg \in Pkgs
        /\ job[p].pkg \in Works[p] /\ job[p].round # 0 /\ job[p].prev = Genesis
    BY <1>8, JobOf DEF Digest
  <2>2. Current(job[p].pkg) \in Nat
    BY <1>t, <2>1, CurrentNat DEF TypeInv
  <2>3. Goto(p, "anchor") /\ Work(p, j) /\ Data
    BY <1>8, <1>f DEF Digest
  <2>4. j \in Jobs /\ j.pkg \in Works[p] /\ j.round # 0 /\ j.prev = Genesis
    BY <2>1, <2>2 DEF Jobs
  <2> HIDE DEF j
  <2> QED BY <1>m, <1>st, <2>3, <2>4
<1>9. ASSUME NEW p \in Procs, LookForLog(p) PROVE SigningInv'
  <2> DEFINE j == [job[p] EXCEPT !.create = ~anchors.exists]
  <2>1. job[p] \in Jobs /\ job[p].pkg \in Works[p] /\ job[p].round # 0 /\ job[p].prev = Genesis
    BY <1>9, JobOf DEF LookForLog
  <2>2. (~anchors.exists) \in BOOLEAN
    OBVIOUS
  <2>3. Goto(p, "anchor_open") /\ Work(p, j) /\ Data
    BY <1>9, <1>f DEF LookForLog
  <2>4. j \in Jobs /\ j.pkg \in Works[p] /\ j.round # 0 /\ j.prev = Genesis
    BY <2>1, <2>2 DEF Jobs
  <2> HIDE DEF j
  <2> QED BY <1>m, <1>s, <1>st, <2>3, <2>4
<1>10. ASSUME NEW p \in Procs, CreateLog(p) PROVE SigningInv'
  <2>1. pc[p] = "anchor_open" /\ Goto(p, "anchor_append") /\ UNCHANGED job
    BY <1>10 DEF CreateLog
  <2>2. Data
    BY <1>10, <1>t DEF CreateLog, TypeInv, Data
  <2>3. job[p].prev = Genesis
    BY <2>1, JobOf
  <2> QED BY <1>g, <1>st, <2>1, <2>2, <2>3
<1>11. ASSUME NEW p \in Procs, ContinueLog(p) PROVE SigningInv'
  <2> DEFINE prev == IF anchors.recs = <<>> THEN Genesis ELSE Last(anchors.recs).id
             j == [job[p] EXCEPT !.prev = prev]
  <2>1. job[p] \in Jobs /\ job[p].pkg \in Works[p] /\ job[p].round # 0
    BY <1>11, JobOf DEF ContinueLog
  <2>2. prev \in Ids
    BY <1>t, LastId, GenesisId DEF TypeInv
  <2>3. Data /\ \/ Goto(p, "anchor_append") /\ Work(p, j)
                \/ Goto(p, "out") /\ Work(p, NoJob)
    BY <1>11, <1>f DEF ContinueLog
  <2> HIDE DEF prev
  <2>4. j \in Jobs /\ j.pkg \in Works[p] /\ j.round # 0
    BY <2>1, <2>2 DEF Jobs
  <2> HIDE DEF j
  <2> QED BY <1>m, <1>out, <1>st, <2>3, <2>4
<1>12. ASSUME NEW p \in Procs, AppendAnchor(p) PROVE SigningInv'
  <2>1. Data
    BY <1>12, <1>t, AppendTyped DEF AppendAnchor, TypeInv, Data
  <2> QED BY <1>12, <1>out, <2>1 DEF AppendAnchor
<1>13. ASSUME NEW p \in Procs, Crash(p) \/ Unanchored(p) PROVE SigningInv'
  BY <1>13, <1>f, <1>out DEF Crash, Unanchored
<1>16. ASSUME NEW p \in Procs, AppendPart(p) PROVE SigningInv'
  <2>1. Data
    BY <1>16, <1>t, PartTyped DEF AppendPart, TypeInv, Data
  <2> QED BY <1>16, <1>out, <2>1 DEF AppendPart
<1>14. ASSUME NEW k \in Pkgs, Copy(k) \/ Restore(k) PROVE SigningInv'
  <2>1. Data /\ UNCHANGED <<pc, job>>
    BY <1>14, <1>t DEF Copy, Restore, TypeInv, Data
  <2> QED BY <1>l, <1>t, <2>1 DEF SigningInv, TypeInv, Working, Data
<1>15. CASE UNCHANGED vars
  BY <1>t, <1>15 DEF vars, SigningInv, TypeInv, Working
<1> QED BY <1>1, <1>2, <1>3, <1>4, <1>5, <1>6, <1>7, <1>8, <1>9, <1>10, <1>11, <1>12,
           <1>13, <1>14, <1>15, <1>16 DEF Next, Finish, Stopped

LEMMA SigningAlways == Spec => []SigningInv
<1> QED BY SigningInit, SigningStep, PTL DEF Spec
-----------------------------------------------------------------------------
(***************************************************************************)
(* The anchor log.                                                         *)
(***************************************************************************)
NextPrev(recs) == IF recs = <<>> THEN Genesis ELSE Last(recs).id

\* Until two processes record at once, or a record is written in part: the one that
\* records knows how the log stands.
ChainInv ==
    broke = {} =>
        /\ Chained(anchors.recs)
        /\ anchors.exists \/ anchors.recs = <<>>
        /\ \A p, q \in Procs : pc[p] \in Recording /\ pc[q] \in Recording => p = q
        /\ \A p \in Procs :
              /\ pc[p] = "anchor_open" => (job[p].create <=> ~anchors.exists)
              /\ pc[p] = "anchor_append" =>
                    /\ anchors.exists /\ job[p].prev = NextPrev(anchors.recs)
                    /\ job[p].create => anchors.recs = <<>>

\* An anchor that names the last one leaves the log chained.
LEMMA ChainGrows ==
    ASSUME NEW recs \in Seq(Anchors), Chained(recs),
           NEW new \in Anchors, new.prev = NextPrev(recs)
    PROVE  Chained(Append(recs, new))
<1>1. \A i \in 1 .. Len(recs) : Append(recs, new)[i] = recs[i]
  BY AppendProperties
<1>2. Append(recs, new)[Len(recs) + 1] = new
  BY AppendProperties
<1>3. DOMAIN Append(recs, new) = 1 .. Len(recs) + 1
  BY AppendProperties
<1>4. DOMAIN recs = 1 .. Len(recs) /\ Len(recs) \in Nat
  OBVIOUS
<1> DEFINE app == Append(recs, new)
<1> SUFFICES ASSUME NEW i \in 1 .. Len(recs) + 1
             PROVE  app[i].prev = IF i = 1 THEN Genesis ELSE app[i - 1].id
  BY <1>3 DEF Chained
<1>5. CASE i = Len(recs) + 1 /\ recs = <<>>
  BY <1>2, <1>4, <1>5 DEF NextPrev
<1>6. CASE i = Len(recs) + 1 /\ recs # <<>>
  <2>1. i - 1 = Len(recs) /\ i - 1 \in 1 .. Len(recs) /\ i # 1
    BY <1>4, <1>6
  <2>2. app[i - 1] = Last(recs)
    BY <1>1, <2>1 DEF Last
  <2> QED BY <1>2, <1>6, <2>1, <2>2 DEF NextPrev
<1>7. CASE i # Len(recs) + 1
  <2>1. i \in 1 .. Len(recs)
    BY <1>4, <1>7
  <2>2. recs[i].prev = IF i = 1 THEN Genesis ELSE recs[i - 1].id
    BY <1>4, <2>1 DEF Chained
  <2>3. i # 1 => i - 1 \in 1 .. Len(recs)
    BY <1>4, <2>1
  <2>4. app[i] = recs[i] /\ (i # 1 => app[i - 1] = recs[i - 1])
    BY <1>1, <2>1, <2>3
  <2> QED BY <2>2, <2>4
<1> QED BY <1>5, <1>6, <1>7

LEMMA ChainStep == SigningInv /\ ChainInv /\ [Next]_vars => ChainInv'
<1> SUFFICES ASSUME SigningInv, ChainInv, [Next]_vars PROVE ChainInv'
  OBVIOUS
<1>t. pc \in [Procs -> Steps] /\ job \in [Procs -> Jobs]
  BY DEF SigningInv, TypeInv
<1>a. anchors \in [exists : BOOLEAN, recs : Seq(Anchors)]
  BY DEF SigningInv, TypeInv
\* Nobody is newly recording, and the log is left alone.
<1>f. ASSUME UNCHANGED anchors, broke \subseteq broke',
             \A p \in Procs : pc'[p] \in Recording => pc'[p] = pc[p] /\ job'[p] = job[p]
      PROVE  ChainInv'
  <2> SUFFICES ASSUME broke' = {} PROVE ChainInv!2'
    BY DEF ChainInv
  <2>1. ChainInv!2
    BY <1>f DEF ChainInv
  <2>2. \A p \in Procs : pc'[p] \in {"anchor_open", "anchor_append"} => pc'[p] \in Recording
    BY DEF Recording
  <2> QED BY <1>f, <2>1, <2>2
\* One process moves to a step outside Recording, the others stand still.
<1>g. ASSUME UNCHANGED <<anchors, broke>>, NEW p \in Procs, NEW s, s \notin Recording,
             Goto(p, s), UNCHANGED job \/ \E j : Work(p, j)
      PROVE  ChainInv'
  <2>1. \A q \in Procs : pc'[q] \in Recording => q # p
    BY <1>g, <1>t DEF Goto
  <2>2. \A q \in Procs : q # p => pc'[q] = pc[q] /\ job'[q] = job[q]
    BY <1>g, <1>t DEF Goto, Work
  <2> QED BY <1>f, <1>g, <2>1, <2>2
<1>r. /\ "out" \notin Recording /\ "check_sig" \notin Recording
      /\ "check_anchor" \notin Recording /\ "collect" \notin Recording
      /\ "sign" \notin Recording /\ "sign_write" \notin Recording
      /\ "digest" \notin Recording /\ "anchor" \notin Recording
  BY DEF Recording
<1>1. ASSUME NEW p \in Procs, NEW k \in Works[p], NEW sign \in BOOLEAN, Open(p, k, sign)
      PROVE  ChainInv'
  <2> DEFINE s == IF pkg[k] = NoPkg THEN "collect" ELSE "check_sig"
  <2>1. Goto(p, s) /\ (\E j : Work(p, j)) /\ UNCHANGED <<anchors, broke>>
    BY <1>1 DEF Open
  <2>2. s \notin Recording
    BY <1>r
  <2> HIDE DEF s
  <2> QED BY <1>g, <2>1, <2>2
<1>2. ASSUME NEW p \in Procs, CheckSignature(p) PROVE ChainInv'
  <2>1. Goto(p, "check_anchor") /\ (\E j : Work(p, j)) /\ UNCHANGED <<anchors, broke>>
    BY <1>2 DEF CheckSignature
  <2> QED BY <1>g, <1>r, <2>1
<1>3. ASSUME NEW p \in Procs, CheckAnchor(p) PROVE ChainInv'
  <2>1. Goto(p, "collect") /\ (\E j : Work(p, j)) /\ UNCHANGED <<anchors, broke>>
    BY <1>3 DEF CheckAnchor
  <2> QED BY <1>g, <1>r, <2>1
<1>4. ASSUME NEW p \in Procs, Abandon(p) PROVE ChainInv'
  BY <1>4, <1>g, <1>r DEF Abandon
<1>5. ASSUME NEW p \in Procs, Seal(p) PROVE ChainInv'
  <2>1. Goto(p, "sign") \/ Goto(p, "digest")
    BY <1>5 DEF Seal
  <2>2. UNCHANGED <<anchors, broke, job>>
    BY <1>5 DEF Seal
  <2> QED BY <1>g, <1>r, <2>1, <2>2
<1>6. ASSUME NEW p \in Procs, SignRead(p) PROVE ChainInv'
  <2>1. Goto(p, "sign_write") /\ (\E j : Work(p, j)) /\ UNCHANGED <<anchors, broke>>
    BY <1>6 DEF SignRead
  <2> QED BY <1>g, <1>r, <2>1
<1>7. ASSUME NEW p \in Procs, SignWrite(p) PROVE ChainInv'
  <2>1. Goto(p, "digest") /\ UNCHANGED <<anchors, broke, job>>
    BY <1>7 DEF SignWrite
  <2> QED BY <1>g, <1>r, <2>1
<1>8. ASSUME NEW p \in Procs, Digest(p) PROVE ChainInv'
  <2>1. Goto(p, "anchor") /\ (\E j : Work(p, j)) /\ UNCHANGED <<anchors, broke>>
    BY <1>8 DEF Digest
  <2> QED BY <1>g, <1>r, <2>1
<1>9. ASSUME NEW p \in Procs, LookForLog(p) PROVE ChainInv'
  <2> SUFFICES ASSUME broke' = {} PROVE ChainInv!2'
    BY DEF ChainInv
  <2>1. broke = {} /\ \A q \in Procs : pc[q] \notin Recording
    BY <1>9 DEF LookForLog
  <2>2. ChainInv!2 /\ UNCHANGED anchors
    BY <1>9, <2>1 DEF ChainInv, LookForLog
  <2>3. pc'[p] = "anchor_open" /\ \A q \in Procs : q # p => pc'[q] = pc[q]
    BY <1>9, <1>t DEF LookForLog, Goto
  <2>4. job'[p].create = ~anchors.exists
    <3>1. job' = [job EXCEPT ![p] = [job[p] EXCEPT !.create = ~anchors.exists]]
      BY <1>9 DEF LookForLog, Work
    <3>2. job[p] \in Jobs /\ job'[p] = [job[p] EXCEPT !.create = ~anchors.exists]
      BY <1>t, <3>1
    <3> QED BY <3>2 DEF Jobs
  <2>5. \A q \in Procs : pc'[q] \in Recording => q = p
    BY <2>1, <2>3
  <2>6. "anchor_append" \in Recording /\ "anchor_open" \in Recording
    BY DEF Recording
  <2>7. \A q \in Procs : pc'[q] = "anchor_open" => (job'[q].create <=> ~anchors.exists)
    BY <2>4, <2>5, <2>6
  <2>8. \A q \in Procs : pc'[q] # "anchor_append"
    BY <2>3, <2>5, <2>6
  <2> QED BY <2>2, <2>5, <2>7, <2>8
<1>10. ASSUME NEW p \in Procs, CreateLog(p) PROVE ChainInv'
  <2> SUFFICES ASSUME broke' = {} PROVE ChainInv!2'
    BY DEF ChainInv
  <2>1. ChainInv!2 /\ UNCHANGED <<job, broke>>
    BY <1>10 DEF ChainInv, CreateLog
  <2>2. anchors'.exists = TRUE /\ anchors'.recs = <<>>
    BY <1>10 DEF CreateLog
  <2>3. pc[p] = "anchor_open" /\ pc'[p] = "anchor_append"
    BY <1>10, <1>t DEF CreateLog, Goto
  <2>4. \A q \in Procs : q # p => pc'[q] = pc[q]
    BY <1>10, <1>t DEF CreateLog, Goto
  <2>5. "anchor_append" \in Recording /\ "anchor_open" \in Recording
    BY DEF Recording
  <2>6. \A q \in Procs : pc'[q] \in Recording => q = p
    BY <2>1, <2>3, <2>4, <2>5
  <2>7. job[p].prev = Genesis
    BY <2>3 DEF SigningInv, Working
  <2>8. NextPrev(anchors'.recs) = Genesis /\ Chained(anchors'.recs)
    BY <2>2 DEF NextPrev, Chained
  <2>9. \A q \in Procs : pc'[q] # "anchor_open"
    BY <2>3, <2>5, <2>6
  <2>10. \A q \in Procs : pc'[q] = "anchor_append" => q = p
    BY <2>5, <2>6
  <2> QED BY <2>1, <2>2, <2>6, <2>7, <2>8, <2>9, <2>10
<1>11. ASSUME NEW p \in Procs, ContinueLog(p) PROVE ChainInv'
  <2>1. CASE ~Chained(anchors.recs)
    <3>1. Goto(p, "out") /\ Work(p, NoJob) /\ UNCHANGED <<anchors, broke>>
      BY <1>11, <2>1 DEF ContinueLog
    <3> QED BY <1>g, <1>r, <3>1
  <2>2. CASE Chained(anchors.recs)
    <3> SUFFICES ASSUME broke' = {} PROVE ChainInv!2'
      BY DEF ChainInv
    <3>1. ChainInv!2 /\ UNCHANGED <<anchors, broke>>
      BY <1>11 DEF ChainInv, ContinueLog
    <3>2. pc[p] = "anchor_open" /\ pc'[p] = "anchor_append"
      BY <1>11, <1>t, <2>2 DEF ContinueLog, Goto
    <3>3. \A q \in Procs : q # p => pc'[q] = pc[q]
      BY <1>11, <1>t, <2>2 DEF ContinueLog, Goto
    <3>4. job'[p].prev = NextPrev(anchors.recs) /\ job'[p].create = job[p].create
      <4>1. Work(p, [job[p] EXCEPT !.prev = NextPrev(anchors.recs)])
        BY <1>11, <2>2 DEF ContinueLog, NextPrev
      <4>2. job[p] \in Jobs /\ job'[p] = [job[p] EXCEPT !.prev = NextPrev(anchors.recs)]
        BY <1>t, <4>1 DEF Work
      <4> QED BY <4>2 DEF Jobs
    <3>5. "anchor_append" \in Recording /\ "anchor_open" \in Recording
      BY DEF Recording
    <3>6. \A q \in Procs : pc'[q] \in Recording => q = p
      BY <3>1, <3>2, <3>3, <3>5
    <3>7. ~job[p].create
      BY <1>11 DEF ContinueLog
    <3>8. \A q \in Procs : pc'[q] # "anchor_open"
      BY <3>2, <3>5, <3>6
    <3>9. \A q \in Procs : pc'[q] = "anchor_append" => q = p
      BY <3>5, <3>6
    <3>10. anchors.exists
      BY <3>1, <3>2, <3>7
    <3> QED BY <3>1, <3>4, <3>6, <3>7, <3>8, <3>9, <3>10
  <2> QED BY <2>1, <2>2
<1>12. ASSUME NEW p \in Procs, AppendAnchor(p) PROVE ChainInv'
  <2> SUFFICES ASSUME broke' = {} PROVE ChainInv!2'
    BY DEF ChainInv
  <2> DEFINE new == Anchor(job[p].pkg, job[p].round, job[p].seal, job[p].prev)
  <2>1. ChainInv!2 /\ UNCHANGED broke /\ pc[p] = "anchor_append"
    BY <1>12 DEF ChainInv, AppendAnchor
  <2>2. new.prev = NextPrev(anchors.recs) /\ (job[p].create => anchors.recs = <<>>)
    BY <2>1 DEF Anchor
  <2>3. new \in Anchors
    BY JobOf, AnchorTyped DEF Jobs
  <2>4. anchors' = [anchors EXCEPT !.recs = Append(anchors.recs, new)]
    BY <1>12, <2>2 DEF AppendAnchor
  <2> HIDE DEF new
  <2>5. anchors'.recs = Append(anchors.recs, new) /\ anchors'.exists = anchors.exists
    BY <1>a, <2>4
  <2>6. Chained(anchors'.recs)
    BY <1>a, <2>1, <2>2, <2>3, <2>5, ChainGrows
  <2>7. "anchor_append" \in Recording /\ "anchor_open" \in Recording
    BY DEF Recording
  <2>8. \A q \in Procs : pc'[q] \notin Recording
    <3>1. pc'[p] = "out" /\ \A q \in Procs : q # p => pc'[q] = pc[q]
      BY <1>12, <1>t DEF AppendAnchor, Goto
    <3> QED BY <1>r, <2>1, <2>7, <3>1
  <2>9. anchors.exists
    BY <2>1
  <2> QED BY <2>5, <2>6, <2>7, <2>8, <2>9
<1>13. ASSUME NEW p \in Procs, Crash(p) \/ Unanchored(p) PROVE ChainInv'
  <2>1. UNCHANGED anchors /\ broke \subseteq broke'
    BY <1>13 DEF Crash, Unanchored
  <2>2. \A q \in Procs : pc'[q] \in Recording => pc'[q] = pc[q] /\ job'[q] = job[q]
    BY <1>13, <1>t, <1>r DEF Crash, Unanchored, Goto, Work
  <2> QED BY <1>f, <2>1, <2>2
<1>14. ASSUME NEW k \in Pkgs, Copy(k) \/ Restore(k) PROVE ChainInv'
  <2>1. UNCHANGED <<anchors, broke, pc, job>>
    BY <1>14 DEF Copy, Restore
  <2> QED BY <1>f, <2>1
<1>15. CASE UNCHANGED vars
  <2>1. UNCHANGED <<anchors, broke, pc, job>>
    BY <1>15 DEF vars
  <2> QED BY <1>f, <2>1
<1>16. ASSUME NEW p \in Procs, AppendPart(p) PROVE ChainInv'
  BY <1>16 DEF AppendPart, ChainInv
<1> QED BY <1>1, <1>2, <1>3, <1>4, <1>5, <1>6, <1>7, <1>8, <1>9, <1>10, <1>11, <1>12,
           <1>13, <1>14, <1>15, <1>16 DEF Next, Finish, Stopped

LEMMA ChainInit == Init => ChainInv
BY DEF Init, ChainInv, Chained, Recording

\* The machine's anchor log is one hash chain as long as no two processes recorded an
\* anchor at once and none wrote its record in part, whatever number of packages, crashes,
\* failures and restores there are: each record names the one before it (NewWriter,
\* NewAppender of internal/hashchain as keys.go RecordAnchor calls them).
THEOREM AnchorLogChained == Spec => []AnchorsChained
<1>1. Init => ChainInv
  BY ChainInit
<1>2. ChainInv => AnchorsChained
  BY DEF ChainInv, AnchorsChained
<1> QED BY <1>1, <1>2, SigningAlways, ChainStep, PTL DEF Spec
-----------------------------------------------------------------------------
(***************************************************************************)
(* The archived signatures.                                                *)
(***************************************************************************)
Round == [seal : Nat, signer : BOOLEAN, prior : Status]

SealIn(r) == IF r.rounds = <<>> THEN 0 ELSE Last(r.rounds).seal

\* A package whose rounds can be held to what they say of the ones before.  A
\* signature is archived only under a round with another after it.
Provable(r) ==
    /\ \A i \in DOMAIN r.rounds : r.rounds[i].seal # 0
    /\ \A s \in r.sigs : s[1] < Len(r.rounds)
    /\ r.rounds = <<>> => r = NoPkg
    /\ \A i \in DOMAIN r.rounds :
          r.rounds[i].prior = "verified" =>
              i # 1 /\ <<i - 1, r.rounds[i - 1].seal>> \in r.sigs

\* What a process at step st of collection j relies on: its package is as it was
\* when the process checked it.
Relies(st, j, r) ==
    /\ st \in Checking => j.round = Len(r.rounds) + 1
    /\ st = "check_sig" => r.rounds # <<>> /\ j.prior # "verified"
    /\ st \in Checking /\ j.prior = "verified" => r.rounds # <<>> /\ r.sig = SealIn(r)
    /\ st \in {"sign", "sign_write"} => r.rounds # <<>>

\* No process took the lock of k while another still finished a round of it.
Unshared(k) == "shared" \notin lapses[k]

\* Two processes are at work on one package only when one took its lock before the
\* other had finished.
SharedInv ==
    \A p, q \in Procs :
        p # q /\ pc[p] # "out" /\ pc[q] # "out" /\ job[p].pkg = job[q].pkg =>
            ~Unshared(job[p].pkg)

ProvableInv ==
    /\ SharedInv
    /\ \A k \in Pkgs : Unshared(k) => Provable(pkg[k]) /\ Provable(copy[k])
    /\ \A p \in Procs :
          pc[p] # "out" /\ Unshared(job[p].pkg) => Relies(pc[p], job[p], pkg[job[p].pkg])

\* A process at work keeps its package, and only Open sets one to work.
LEMMA KeepsPkg ==
    ASSUME SigningInv, [Next]_vars,
           \A p \in Procs : \A k \in Works[p], sign \in BOOLEAN : ~Open(p, k, sign),
           NEW q \in Procs, pc'[q] # "out"
    PROVE  pc[q] # "out" /\ job'[q].pkg = job[q].pkg
<1>t. pc \in [Procs -> Steps] /\ job \in [Procs -> Jobs]
  BY DEF SigningInv, TypeInv
<1>m. ASSUME NEW p \in Procs, NEW s, NEW j, Goto(p, s), Work(p, j),
             s # "out" => pc[p] # "out" /\ j.pkg = job[p].pkg
      PROVE  pc[q] # "out" /\ job'[q].pkg = job[q].pkg
  <2>1. CASE q = p
    <3>1. pc'[q] = s /\ job'[q] = j
      BY <1>m, <1>t, <2>1 DEF Goto, Work
    <3> QED BY <1>m, <2>1, <3>1
  <2>2. CASE q # p
    <3>1. pc'[q] = pc[q] /\ job'[q] = job[q]
      BY <1>m, <1>t, <2>2 DEF Goto, Work
    <3> QED BY <3>1
  <2> QED BY <2>1, <2>2
<1>k. ASSUME NEW p \in Procs, NEW s, Goto(p, s), UNCHANGED job, pc[p] # "out"
      PROVE  pc[q] # "out" /\ job'[q].pkg = job[q].pkg
  BY <1>k, <1>t DEF Goto
<1>1. ASSUME NEW p \in Procs, CheckSignature(p) \/ CheckAnchor(p)
      PROVE  pc[q] # "out" /\ job'[q].pkg = job[q].pkg
  <2>1. PICK v : Work(p, [job[p] EXCEPT !.prior = v])
    BY <1>1 DEF CheckSignature, CheckAnchor
  <2>2. pc[p] # "out" /\ \E s : Goto(p, s)
    BY <1>1 DEF CheckSignature, CheckAnchor
  <2>3. job[p] \in Jobs
    BY <1>t
  <2>4. [job[p] EXCEPT !.prior = v].pkg = job[p].pkg
    BY <2>3 DEF Jobs
  <2> QED BY <1>m, <2>1, <2>2, <2>4
<1>2. ASSUME NEW p \in Procs, Seal(p) \/ SignWrite(p) \/ CreateLog(p)
      PROVE  pc[q] # "out" /\ job'[q].pkg = job[q].pkg
  <2>1. pc[p] # "out" /\ UNCHANGED job
    BY <1>2 DEF Seal, SignWrite, CreateLog
  <2>2. \E s : Goto(p, s)
    BY <1>2 DEF Seal, SignWrite, CreateLog
  <2> QED BY <1>k, <2>1, <2>2
<1>3. ASSUME NEW p \in Procs, SignRead(p) \/ Digest(p) \/ LookForLog(p)
      PROVE  pc[q] # "out" /\ job'[q].pkg = job[q].pkg
  <2>1. job[p] \in Jobs
    BY <1>t
  <2>2. PICK c : \/ Work(p, [job[p] EXCEPT !.at = c])
                 \/ Work(p, [job[p] EXCEPT !.seal = c])
                 \/ Work(p, [job[p] EXCEPT !.create = c])
    BY <1>3 DEF SignRead, Digest, LookForLog
  <2>3. /\ [job[p] EXCEPT !.at = c].pkg = job[p].pkg
        /\ [job[p] EXCEPT !.seal = c].pkg = job[p].pkg
        /\ [job[p] EXCEPT !.create = c].pkg = job[p].pkg
    BY <2>1 DEF Jobs
  <2>4. pc[p] # "out" /\ \E s : Goto(p, s)
    BY <1>3 DEF SignRead, Digest, LookForLog
  <2> QED BY <1>m, <2>2, <2>3, <2>4
<1>4. ASSUME NEW p \in Procs, ContinueLog(p)
      PROVE  pc[q] # "out" /\ job'[q].pkg = job[q].pkg
  <2>1. job[p] \in Jobs /\ pc[p] # "out"
    BY <1>4, <1>t DEF ContinueLog
  <2>2. CASE Goto(p, "out") /\ Work(p, NoJob)
    BY <1>m, <2>2
  <2>3. CASE ~(Goto(p, "out") /\ Work(p, NoJob))
    <3>1. Goto(p, "anchor_append") /\ \E c : Work(p, [job[p] EXCEPT !.prev = c])
      BY <1>4, <2>3 DEF ContinueLog
    <3>2. \A c : [job[p] EXCEPT !.prev = c].pkg = job[p].pkg
      BY <2>1 DEF Jobs
    <3> QED BY <1>m, <2>1, <3>1, <3>2
  <2> QED BY <2>2, <2>3
<1>5. ASSUME NEW p \in Procs,
             Abandon(p) \/ AppendAnchor(p) \/ AppendPart(p) \/ Unanchored(p) \/ Crash(p)
      PROVE  pc[q] # "out" /\ job'[q].pkg = job[q].pkg
  <2>1. Goto(p, "out") /\ Work(p, NoJob)
    BY <1>5 DEF Abandon, AppendAnchor, AppendPart, Unanchored, Crash
  <2> QED BY <1>m, <2>1
<1>6. ASSUME NEW k \in Pkgs, Copy(k) \/ Restore(k)
      PROVE  pc[q] # "out" /\ job'[q].pkg = job[q].pkg
  BY <1>6 DEF Copy, Restore
<1>7. CASE UNCHANGED vars
  BY <1>7 DEF vars
<1> QED BY <1>1, <1>2, <1>3, <1>4, <1>5, <1>6, <1>7 DEF Next, Finish, Stopped

LEMMA SharedStep ==
    ASSUME SigningInv, SharedInv, [Next]_vars
    PROVE  SharedInv' /\ \A k \in Pkgs : Unshared(k)' => Unshared(k)
<1>l. \A k \in Pkgs : Unshared(k)' => Unshared(k)
  BY LapsesStep DEF SigningInv, TypeInv, Unshared
<1>t. pc \in [Procs -> Steps] /\ job \in [Procs -> Jobs] /\ lapses \in [Pkgs -> SUBSET Lapses]
  BY DEF SigningInv, TypeInv
<1>1. CASE \A p \in Procs : \A k \in Works[p], sign \in BOOLEAN : ~Open(p, k, sign)
  <2> SUFFICES ASSUME NEW p \in Procs, NEW q \in Procs, p # q, pc'[p] # "out", pc'[q] # "out",
                      job'[p].pkg = job'[q].pkg
               PROVE  ~("shared" \notin lapses'[job'[p].pkg])
    BY <1>l DEF SharedInv, Unshared
  <2>1. /\ pc[p] # "out" /\ job'[p].pkg = job[p].pkg
        /\ pc[q] # "out" /\ job'[q].pkg = job[q].pkg
    BY <1>1, KeepsPkg
  <2>2. job[p].pkg \in Pkgs
    BY <2>1, JobOf
  <2>3. ~Unshared(job[p].pkg)
    BY <2>1 DEF SharedInv
  <2> QED BY <1>l, <2>1, <2>2, <2>3 DEF Unshared
<1>2. ASSUME NEW p \in Procs, NEW k \in Works[p], NEW sign \in BOOLEAN, Open(p, k, sign)
      PROVE  SharedInv'
  <2>1. k \in Pkgs
    BY DEF Pkgs
  <2>2. pc[p] = "out" /\ \A q \in Procs : q # p => pc'[q] = pc[q] /\ job'[q] = job[q]
    BY <1>2, <1>t DEF Open, Goto, Work
  <2>3. job'[p].pkg = k
    BY <1>2, <1>t DEF Open, Work, NoJob
  <2>4. ASSUME NEW q \in Procs, q # p, pc'[q] # "out", job'[q].pkg = k PROVE ~Unshared(k)'
    <3>1. job[q].pkg = k
      BY <2>2, <2>4
    <3>2. Lapse(k, "shared")
      BY <1>2, <3>1 DEF Open
    <3> QED BY <1>t, <2>1, <3>2 DEF Lapse, Unshared
  <2> SUFFICES ASSUME NEW a \in Procs, NEW b \in Procs, a # b, pc'[a] # "out", pc'[b] # "out",
                      job'[a].pkg = job'[b].pkg
               PROVE  ~("shared" \notin lapses'[job'[a].pkg])
    BY DEF SharedInv, Unshared
  <2>5. CASE a = p \/ b = p
    BY <2>3, <2>4, <2>5 DEF Unshared
  <2>6. CASE a # p /\ b # p
    <3>1. job[a].pkg \in Pkgs /\ ~Unshared(job[a].pkg)
      BY <2>2, <2>6, JobOf DEF SharedInv
    <3> QED BY <1>l, <2>2, <2>6, <3>1 DEF Unshared
  <2> QED BY <2>5, <2>6
<1> QED BY <1>l, <1>1, <1>2

LEMMA SealProvable ==
    ASSUME NEW r \in Pkg, Provable(r), NEW x \in Round, x.seal # 0,
           x.prior = "verified" => r.rounds # <<>> /\ r.sig = SealIn(r),
           NEW new \in Pkg, new.rounds = Append(r.rounds, x),
           NEW n, n = Len(r.rounds),
           new.sigs = IF r.sig = 0 \/ \E s \in r.sigs : s[1] = n THEN r.sigs
                      ELSE r.sigs \cup {<<n, r.sig>>}
    PROVE  Provable(new)
<1>1. r.rounds \in Seq(Round) /\ r.sig \in Nat /\ r.sigs \in SUBSET (Nat \X Nat)
  BY DEF Pkg, Rounds, Round
<1>2. n \in Nat /\ DOMAIN r.rounds = 1 .. n
  BY <1>1
<1>3. Len(new.rounds) = n + 1 /\ DOMAIN new.rounds = 1 .. n + 1
  BY <1>1, AppendProperties
<1>4. \A i \in 1 .. n : new.rounds[i] = r.rounds[i]
  BY <1>1, AppendProperties
<1>5. new.rounds[n + 1] = x
  BY <1>1, AppendProperties
<1>6. \A s \in r.sigs : s[1] \in Nat /\ s[1] < n
  BY <1>1 DEF Provable
<1>7. new.sigs = IF r.sig = 0 THEN r.sigs ELSE r.sigs \cup {<<n, r.sig>>}
  BY <1>2, <1>6
<1>8. \A i \in DOMAIN new.rounds : new.rounds[i].seal # 0
  BY <1>2, <1>3, <1>4, <1>5 DEF Provable
<1>9. \A s \in new.sigs : s[1] < Len(new.rounds)
  BY <1>2, <1>3, <1>6, <1>7
<1>10. new.rounds # <<>>
  BY <1>1, AppendProperties
<1>11. ASSUME NEW i \in DOMAIN new.rounds, new.rounds[i].prior = "verified"
       PROVE  i # 1 /\ <<i - 1, new.rounds[i - 1].seal>> \in new.sigs
  <2>1. CASE i \in 1 .. n
    <3>1. i # 1 /\ <<i - 1, r.rounds[i - 1].seal>> \in r.sigs
      BY <1>2, <1>4, <1>11, <2>1 DEF Provable
    <3>2. i - 1 \in 1 .. n
      BY <1>2, <2>1, <3>1
    <3> QED BY <1>4, <1>7, <3>1, <3>2
  <2>2. CASE i = n + 1
    <3>1. r.rounds # <<>> /\ r.sig = SealIn(r)
      BY <1>5, <1>11, <2>2
    <3>2. n # 0 /\ n \in 1 .. n /\ i - 1 = n /\ i # 1
      BY <1>1, <1>2, <2>2, <3>1
    <3>3. r.sig = r.rounds[n].seal /\ r.sig # 0
      BY <1>2, <3>1, <3>2 DEF SealIn, Last, Provable
    <3> QED BY <1>4, <1>7, <3>2, <3>3
  <2>3. i \in 1 .. n + 1
    BY <1>3, <1>11
  <2>4. i \in 1 .. n \/ i = n + 1
    BY <1>2, <2>3
  <2> QED BY <2>1, <2>2, <2>4
<1> QED BY <1>8, <1>9, <1>10, <1>11 DEF Provable

LEMMA CurrentIs == ASSUME NEW k PROVE Current(k) = SealIn(pkg[k])
BY DEF Current, SealIn

LEMMA ProvableStep == SigningInv /\ ProvableInv /\ [Next]_vars => ProvableInv'
<1> SUFFICES ASSUME SigningInv, ProvableInv, [Next]_vars PROVE ProvableInv'
  OBVIOUS
<1>t. pc \in [Procs -> Steps] /\ job \in [Procs -> Jobs]
  BY DEF SigningInv, TypeInv
<1>k. pkg \in [Pkgs -> Pkg] /\ copy \in [Pkgs -> Pkg] /\ made \in [Pkgs -> Nat]
  BY DEF SigningInv, TypeInv
<1>u. SharedInv' /\ \A k \in Pkgs : Unshared(k)' => Unshared(k)
  BY SharedStep DEF ProvableInv
<1>w. \A p \in Procs : pc[p] # "out" => job[p].pkg \in Pkgs
  BY JobOf
\* One process moves on and the packages stay as they are.
<1>g. ASSUME UNCHANGED <<pkg, copy>>, NEW p \in Procs, NEW s, NEW j,
             s # "out" => /\ j.pkg \in Pkgs
                          /\ Unshared(j.pkg) => Relies(s, j, pkg[j.pkg]),
             Goto(p, s), Work(p, j)
      PROVE  ProvableInv'
  <2>1. pc'[p] = s /\ job'[p] = j
    BY <1>g, <1>t DEF Goto, Work
  <2>2. \A q \in Procs : q # p => pc'[q] = pc[q] /\ job'[q] = job[q]
    BY <1>g, <1>t DEF Goto, Work
  <2>3. \A q \in Procs : pc'[q] # "out" =>
            /\ job'[q].pkg \in Pkgs
            /\ Unshared(job'[q].pkg) => Relies(pc'[q], job'[q], pkg[job'[q].pkg])
    BY <1>g, <1>w, <2>1, <2>2 DEF ProvableInv
  <2> QED BY <1>g, <1>u, <2>3 DEF ProvableInv, Unshared
\* One process changes the package it collects into.
<1>h. ASSUME UNCHANGED <<copy, job>>, NEW p \in Procs, pc[p] # "out", NEW s, NEW r,
             pkg' = [pkg EXCEPT ![job[p].pkg] = r],
             Unshared(job[p].pkg) => Provable(r) /\ Relies(s, job[p], r), Goto(p, s)
      PROVE  ProvableInv'
  <2>1. job[p].pkg \in Works[p] /\ job[p].pkg \in Pkgs
    BY <1>h, JobOf
  <2>2. pkg'[job[p].pkg] = r /\ \A k \in Pkgs : k # job[p].pkg => pkg'[k] = pkg[k]
    BY <1>h, <1>k, <2>1
  <2>3. pc'[p] = s /\ \A q \in Procs : q # p => pc'[q] = pc[q]
    BY <1>h, <1>t DEF Goto
  <2>4. \A k \in Pkgs : Unshared(k) => Provable(pkg'[k]) /\ Provable(copy'[k])
    BY <1>h, <2>2 DEF ProvableInv
  <2>5. ASSUME NEW q \in Procs, pc'[q] # "out", Unshared(job[q].pkg)
        PROVE  Relies(pc'[q], job'[q], pkg'[job'[q].pkg])
    <3>1. CASE q = p
      BY <1>h, <2>2, <2>3, <2>5, <3>1
    <3>2. CASE q # p
      <4>1. pc[q] # "out" /\ pc'[q] = pc[q]
        BY <2>3, <2>5, <3>2
      <4>2. job[q].pkg \in Works[q] /\ job[q].pkg \in Pkgs
        BY <4>1, JobOf
      <4>3. job[q].pkg # job[p].pkg
        BY <1>h, <2>5, <3>2, <4>1 DEF ProvableInv, SharedInv
      <4>4. pkg'[job[q].pkg] = pkg[job[q].pkg]
        BY <2>2, <4>2, <4>3
      <4> QED BY <1>h, <2>5, <4>1, <4>4 DEF ProvableInv
    <3> QED BY <3>1, <3>2
  <2>6. \A q \in Procs : pc'[q] # "out" => job[q].pkg \in Pkgs /\ job'[q] = job[q]
    BY <1>h, <1>w, <2>1, <2>3
  <2> QED BY <1>u, <2>4, <2>5, <2>6 DEF ProvableInv, Unshared
<1>o. ASSUME UNCHANGED <<pkg, copy>>, NEW p \in Procs, Goto(p, "out"), Work(p, NoJob)
      PROVE  ProvableInv'
  BY <1>g, <1>o
\* Once the round is sealed only its package having rounds matters.
<1>r. ASSUME NEW s \in {"digest", "anchor", "anchor_open", "anchor_append"}, NEW j, NEW r
      PROVE  Relies(s, j, r)
  BY DEF Relies, Checking
<1>1. ASSUME NEW p \in Procs, NEW k \in Works[p], NEW sign \in BOOLEAN, Open(p, k, sign)
      PROVE  ProvableInv'
  <2> DEFINE j == [NoJob EXCEPT !.pkg = k, !.sign = sign, !.round = Len(pkg[k].rounds) + 1]
             s == IF pkg[k] = NoPkg THEN "collect" ELSE "check_sig"
  <2>1. k \in Pkgs
    BY DEF Pkgs
  <2>2. j.pkg = k /\ j.round = Len(pkg[k].rounds) + 1 /\ j.prior = None
    BY DEF NoJob
  <2>3. None # "verified" /\ (Unshared(k) /\ pkg[k] # NoPkg => pkg[k].rounds # <<>>)
    BY <2>1 DEF None, ProvableInv, Provable
  <2>4. Goto(p, s) /\ Work(p, j) /\ UNCHANGED <<pkg, copy>>
    BY <1>1 DEF Open
  <2> HIDE DEF j
  <2>5. Unshared(k) => Relies(s, j, pkg[j.pkg])
    BY <2>2, <2>3 DEF Relies
  <2> HIDE DEF s
  <2> QED BY <1>g, <2>1, <2>2, <2>4, <2>5
<1>2. ASSUME NEW p \in Procs, CheckSignature(p) PROVE ProvableInv'
  <2> DEFINE k == job[p].pkg
             v == IF SignatureFails(k) THEN "FAILED"
                  ELSE IF pkg[k].sig = Current(k) THEN "verified" ELSE "unsigned"
             j == [job[p] EXCEPT !.prior = v]
  <2>1. job[p] \in Jobs /\ k \in Pkgs /\ pc[p] = "check_sig"
    BY <1>2, JobOf DEF CheckSignature
  <2>2. Unshared(k) => Relies(pc[p], job[p], pkg[k])
    BY <2>1 DEF ProvableInv
  <2>3. Goto(p, "check_anchor") /\ Work(p, j) /\ UNCHANGED <<pkg, copy>>
    BY <1>2 DEF CheckSignature
  <2>4. v = "verified" => pkg[k].sig = SealIn(pkg[k])
    BY CurrentIs
  <2> HIDE DEF v
  <2>5. j.pkg = k /\ j.round = job[p].round /\ j.prior = v
    BY <2>1 DEF Jobs
  <2> HIDE DEF j
  <2>6. Unshared(k) => Relies("check_anchor", j, pkg[k])
    BY <2>1, <2>2, <2>4, <2>5 DEF Relies, Checking
  <2> QED BY <1>g, <2>1, <2>3, <2>5, <2>6
<1>3. ASSUME NEW p \in Procs, CheckAnchor(p) PROVE ProvableInv'
  <2> DEFINE k == job[p].pkg
             v == IF AnchorFails(k) THEN "FAILED" ELSE job[p].prior
             j == [job[p] EXCEPT !.prior = v]
  <2>1. job[p] \in Jobs /\ k \in Pkgs /\ pc[p] = "check_anchor"
    BY <1>3, JobOf DEF CheckAnchor
  <2>2. Unshared(k) => Relies(pc[p], job[p], pkg[k])
    BY <2>1 DEF ProvableInv
  <2>3. Goto(p, "collect") /\ Work(p, j) /\ UNCHANGED <<pkg, copy>>
    BY <1>3 DEF CheckAnchor
  <2>4. v = "verified" => job[p].prior = "verified"
    OBVIOUS
  <2> HIDE DEF v
  <2>5. j.pkg = k /\ j.round = job[p].round /\ j.prior = v
    BY <2>1 DEF Jobs
  <2> HIDE DEF j
  <2>6. Unshared(k) => Relies("collect", j, pkg[k])
    BY <2>1, <2>2, <2>4, <2>5 DEF Relies, Checking
  <2> QED BY <1>g, <2>1, <2>3, <2>5, <2>6
<1>4. ASSUME NEW p \in Procs, Abandon(p) PROVE ProvableInv'
  BY <1>4, <1>o DEF Abandon
<1>5. ASSUME NEW p \in Procs, Seal(p) PROVE ProvableInv'
  <2> DEFINE k == job[p].pkg
             x == [seal |-> made'[k], signer |-> job[p].sign, prior |-> job[p].prior]
             new == [pkg[k] EXCEPT !.rounds = Append(@, x), !.sigs = Archived(k, job[p].round)]
  <2>1. job[p] \in Jobs /\ k \in Pkgs /\ job[p].round # 0 /\ pc[p] = "collect"
    BY <1>5, JobOf DEF Seal
  <2>2. made'[k] = made[k] + 1 /\ made[k] \in Nat
    BY <1>5, <1>k, <2>1 DEF Seal
  <2>3. x \in Round /\ x.seal # 0 /\ x.prior = job[p].prior
    BY <2>1, <2>2 DEF Round, Jobs
  <2>4. pkg' = [pkg EXCEPT ![k].rounds = Append(@, x), ![k].sigs = Archived(k, job[p].round)]
    BY <1>5 DEF Seal
  <2>18. (Goto(p, "sign") \/ Goto(p, "digest")) /\ UNCHANGED <<copy, job>>
    BY <1>5 DEF Seal
  <2>19. pc[p] # "out"
    BY <2>1
  <2>20. pkg' = [pkg EXCEPT ![k] = new]
    BY <2>4
  <2>a. CASE ~Unshared(k)
    <3> HIDE DEF new
    <3> QED BY <1>h, <2>a, <2>18, <2>19, <2>20
  <2> SUFFICES ASSUME Unshared(k) PROVE ProvableInv'
    BY <2>a
  <2>5. Relies("collect", job[p], pkg[k])
    BY <2>1 DEF ProvableInv
  <2>6. job[p].round = Len(pkg[k].rounds) + 1
    BY <2>5 DEF Relies, Checking
  <2>7. x.prior = "verified" => pkg[k].rounds # <<>> /\ pkg[k].sig = SealIn(pkg[k])
    BY <2>3, <2>5 DEF Relies, Checking
  <2> HIDE DEF x
  <2>8. pkg[k] \in Pkg /\ pkg[k].rounds \in Seq(Round) /\ Len(pkg[k].rounds) \in Nat
    <3>1. pkg[k] \in Pkg
      BY <1>k, <2>1
    <3>2. pkg[k].rounds \in Seq(Round)
      BY <3>1 DEF Pkg, Rounds, Round
    <3>3. Len(pkg[k].rounds) \in Nat
      BY <3>2
    <3> QED BY <3>1, <3>2, <3>3
  <2>9. Archived(k, job[p].round) \in SUBSET (Nat \X Nat)
    <3>1. job[p].round \in Nat \ {0}
      BY <2>6, <2>8
    <3> QED BY <1>k, <2>1, <2>3, <3>1, SealKeepsPkg DEF Round
  <2>10. Append(pkg[k].rounds, x) \in Seq(Round)
    BY <2>3, <2>8, AppendProperties
  <2>11. new \in Pkg /\ new.rounds = Append(pkg[k].rounds, x) /\ new.sigs = Archived(k, job[p].round)
    BY <2>8, <2>9, <2>10 DEF Pkg, Rounds, Round
  <2>12. job[p].round - 1 = Len(pkg[k].rounds)
    BY <2>6, <2>8
  <2>13. Provable(pkg[k])
    BY <2>1 DEF ProvableInv
  <2>14. pkg' = [pkg EXCEPT ![k] = new]
    BY <2>4
  <2> HIDE DEF new
  <2>15. Provable(new)
    <3> DEFINE n == Len(pkg[k].rounds)
    <3>1. new.sigs = IF pkg[k].sig = 0 \/ \E s \in pkg[k].sigs : s[1] = n THEN pkg[k].sigs
                     ELSE pkg[k].sigs \cup {<<n, pkg[k].sig>>}
      BY <2>11, <2>12 DEF Archived
    <3>2. n = Len(pkg[k].rounds)
      OBVIOUS
    <3> HIDE DEF n
    <3> QED BY <2>3, <2>7, <2>8, <2>11, <2>13, <3>1, <3>2, SealProvable
  <2>16. new.rounds # <<>>
    BY <2>3, <2>8, <2>11, AppendProperties
  <2>17. Relies("sign", job[p], new) /\ Relies("digest", job[p], new)
    BY <2>16 DEF Relies, Checking
  <2> QED BY <1>h, <2>14, <2>15, <2>17, <2>18, <2>19
<1>6. ASSUME NEW p \in Procs, SignRead(p) PROVE ProvableInv'
  <2> DEFINE c == Current(job[p].pkg)
             j == [job[p] EXCEPT !.at = c]
  <2>1. job[p] \in Jobs /\ pc[p] = "sign"
    BY <1>6, JobOf DEF SignRead
  <2>2. Unshared(job[p].pkg) => Relies("sign", job[p], pkg[job[p].pkg])
    BY <2>1 DEF ProvableInv
  <2>3. Goto(p, "sign_write") /\ Work(p, j) /\ UNCHANGED <<pkg, copy>>
    BY <1>6 DEF SignRead
  <2> HIDE DEF c
  <2>4. j.pkg = job[p].pkg
    BY <2>1 DEF Jobs
  <2> HIDE DEF j
  <2>5. Unshared(j.pkg) => Relies("sign_write", j, pkg[j.pkg])
    BY <2>2, <2>4 DEF Relies, Checking
  <2> QED BY <1>g, <1>w, <2>1, <2>3, <2>4, <2>5
<1>7. ASSUME NEW p \in Procs, SignWrite(p) PROVE ProvableInv'
  <2> DEFINE k == job[p].pkg
             new == [pkg[k] EXCEPT !.sig = job[p].at]
  <2>1. job[p] \in Jobs /\ k \in Pkgs /\ pc[p] = "sign_write"
    BY <1>7, JobOf DEF SignWrite
  <2>2. pkg' = [pkg EXCEPT ![k] = new]
    BY <1>7 DEF SignWrite
  <2>7. Goto(p, "digest") /\ UNCHANGED <<copy, job>> /\ pc[p] # "out"
    BY <1>7, <2>1 DEF SignWrite
  <2>a. CASE ~Unshared(k)
    <3> HIDE DEF new
    <3> QED BY <1>h, <2>a, <2>2, <2>7
  <2> SUFFICES ASSUME Unshared(k) PROVE ProvableInv'
    BY <2>a
  <2>3. pkg[k] \in Pkg /\ Provable(pkg[k]) /\ Relies("sign_write", job[p], pkg[k])
    BY <1>k, <2>1 DEF ProvableInv
  <2>4. new.rounds = pkg[k].rounds /\ new.sigs = pkg[k].sigs
    BY <2>3 DEF Pkg
  <2> HIDE DEF new
  <2>5. pkg[k].rounds # <<>>
    BY <2>3 DEF Relies
  <2>6. Provable(new)
    BY <2>3, <2>4, <2>5 DEF Provable
  <2>8. Relies("digest", job[p], new)
    BY <1>r
  <2> QED BY <1>h, <2>2, <2>6, <2>7, <2>8
<1>8. ASSUME NEW p \in Procs,
             Digest(p) \/ LookForLog(p) \/ CreateLog(p) \/ ContinueLog(p)
      PROVE  ProvableInv'
  <2>1. UNCHANGED <<pkg, copy>> /\ pc[p] # "out"
    BY <1>8 DEF Digest, LookForLog, CreateLog, ContinueLog
  <2>2. \A q \in Procs : q # p => pc'[q] = pc[q] /\ job'[q] = job[q]
    BY <1>8, <1>t DEF Digest, LookForLog, CreateLog, ContinueLog, Goto, Work
  <2>3. pc'[p] \in {"out", "digest", "anchor", "anchor_open", "anchor_append"}
    BY <1>8, <1>t DEF Digest, LookForLog, CreateLog, ContinueLog, Goto
  <2>4. \A p_1 \in Procs : \A k \in Works[p_1], sign \in BOOLEAN : ~Open(p_1, k, sign)
    <3>1. \A p_1 \in Procs : pc[p_1] = "out" => pc'[p_1] = "out"
      BY <2>1, <2>2
    <3>2. \A p_1 \in Procs : \A k \in Works[p_1], sign \in BOOLEAN :
              Open(p_1, k, sign) => pc[p_1] = "out" /\ pc'[p_1] \in {"collect", "check_sig"}
      BY <1>t DEF Open, Goto
    <3> QED BY <3>1, <3>2
  <2>5. \A q \in Procs : pc'[q] # "out" => job'[q].pkg = job[q].pkg /\ job[q].pkg \in Pkgs
    BY <1>w, <2>4, KeepsPkg
  <2>6. ASSUME NEW q \in Procs, pc'[q] # "out", Unshared(job'[q].pkg)
        PROVE  Relies(pc'[q], job'[q], pkg[job'[q].pkg])
    <3>1. CASE q = p
      BY <1>r, <2>3, <2>6, <3>1
    <3>2. CASE q # p
      <4>1. Unshared(job[q].pkg)
        BY <2>2, <2>6, <3>2
      <4> QED BY <2>2, <2>6, <3>2, <4>1 DEF ProvableInv
    <3> QED BY <3>1, <3>2
  <2> QED BY <1>u, <2>1, <2>5, <2>6 DEF ProvableInv, Unshared
<1>10. ASSUME NEW p \in Procs,
              AppendAnchor(p) \/ AppendPart(p) \/ Unanchored(p) \/ Crash(p)
       PROVE  ProvableInv'
  BY <1>10, <1>o DEF AppendAnchor, AppendPart, Unanchored, Crash
<1>11. ASSUME NEW k \in Pkgs, Copy(k) PROVE ProvableInv'
  <2>1. UNCHANGED <<pkg, pc, job>> /\ copy' = [copy EXCEPT ![k] = pkg[k]]
    BY <1>11 DEF Copy
  <2>2. \A l \in Pkgs : copy'[l] = copy[l] \/ copy'[l] = pkg[l]
    BY <1>k, <2>1
  <2>3. \A q \in Procs : pc'[q] # "out" => job'[q].pkg \in Pkgs /\ job'[q] = job[q]
    BY <1>w, <2>1
  <2> QED BY <1>u, <2>1, <2>2, <2>3 DEF ProvableInv, Unshared
<1>12. ASSUME NEW k \in Pkgs, Restore(k) PROVE ProvableInv'
  <2>1. UNCHANGED <<copy, pc, job>> /\ pkg' = [pkg EXCEPT ![k] = copy[k]]
    BY <1>12 DEF Restore
  <2>2. \A q \in Procs : job[q].pkg # k
    BY <1>12 DEF Restore, AtRest
  <2>3. \A l \in Pkgs : (l # k => pkg'[l] = pkg[l]) /\ (l = k => pkg'[l] = copy[l])
    BY <1>k, <2>1
  <2>4. \A q \in Procs : pc[q] # "out" => pkg'[job[q].pkg] = pkg[job[q].pkg]
    BY <2>2, <2>3, JobOf
  <2>5. \A q \in Procs : pc'[q] # "out" => job'[q].pkg \in Pkgs /\ job'[q] = job[q]
    BY <1>w, <2>1
  <2> QED BY <1>u, <2>1, <2>3, <2>4, <2>5 DEF ProvableInv, Unshared
<1>13. CASE UNCHANGED vars
  BY <1>13 DEF vars, ProvableInv, SharedInv, Unshared
<1> QED BY <1>1, <1>2, <1>3, <1>4, <1>5, <1>6, <1>7, <1>8, <1>10, <1>11, <1>12,
           <1>13 DEF Next, Finish, Stopped

LEMMA ProvableInit == Init => ProvableInv
<1>1. Provable(NoPkg)
  BY DEF Provable, NoPkg
<1> QED BY <1>1 DEF Init, ProvableInv, SharedInv

\* A round that recorded the earlier ones as verified can be held to it: the signature
\* that was then in place is archived (archivePreviousSeal) under the round before it and
\* is over the seal that round has, through any crashes, failures and restores and for any
\* number of collectors of a case, unless one took the lock while another, past it, had
\* not finished a round of the same case.
THEOREM VerifiedRoundsProvable == Spec => []VerifiedIsProvable
<1>1. Init => ProvableInv
  BY ProvableInit
<1>2. ProvableInv => VerifiedIsProvable
  BY DEF ProvableInv, Provable, VerifiedIsProvable, Unshared
<1> QED BY <1>1, <1>2, ProvableStep, SigningAlways, PTL DEF Spec
-----------------------------------------------------------------------------
(***************************************************************************)
(* Rounds lost.                                                            *)
(***************************************************************************)
SealsIn(r) == {r.rounds[i].seal : i \in DOMAIN r.rounds}
Failed(r)  == \E i \in DOMAIN r.rounds : r.rounds[i].prior = "FAILED"

Of(recs, k) == {i \in DOMAIN recs : recs[i].id[1] = k}

\* A package has all the rounds anchored of it; or all that were anchored
\* before one that it has.
Known(recs, k, r) == \A i \in Of(recs, k) : recs[i].digest \in SealsIn(r)
Descends(recs, k, r) ==
    \A i, j \in Of(recs, k) :
        j < i /\ recs[i].digest \in SealsIn(r) => recs[j].digest \in SealsIn(r)

\* What a copy of a package, kept or in use, owes the log.
Past(recs, k, r, n) ==
    /\ Failed(r) \/ Descends(recs, k, r)
    /\ \A i \in DOMAIN r.rounds : r.rounds[i].seal <= n

\* What a process at step st of collection j owes the log; r is the package and
\* c the copy of it kept elsewhere.
Owes(st, j, recs, r, c) ==
    /\ st = "collect" => j.prior = "FAILED" \/ Failed(r) \/ Known(recs, j.pkg, r)
    /\ st \in Finishing =>
          /\ r.rounds # <<>>
          /\ Failed(r) \/ Known(recs, j.pkg, r)
          /\ SealIn(r) \notin SealsIn(c)
    /\ st \in {"anchor"} \cup Recording => j.seal = SealIn(r)
    /\ st = "anchor_append" /\ j.create => Of(recs, j.pkg) = {}

LossInv ==
    /\ \A k \in Pkgs :
          Unshared(k) => /\ Past(anchors.recs, k, pkg[k], made[k])
                         /\ Past(anchors.recs, k, copy[k], made[k])
                         /\ pkg[k] = NoPkg => Of(anchors.recs, k) = {}
    /\ \A p \in Procs :
          pc[p] # "out" /\ Unshared(job[p].pkg) =>
              Owes(pc[p], job[p], anchors.recs, pkg[job[p].pkg], copy[job[p].pkg])

\* The log of another package's recording, for a package k: some of its anchors
\* gone, the others in their order.
Fewer(new, recs, k) ==
    \E d \in {0, 1} : \A i \in Of(new, k) :
        i \in Int /\ i - d \in Of(recs, k) /\ new[i].digest = recs[i - d].digest

\* The log of k's own recording: what is not of before is the last.
Grows(new, recs, k, d) ==
    \A i \in Of(new, k) :
        \/ i \in Of(recs, k) /\ new[i].digest = recs[i].digest
        \/ new[i].digest = d /\ \A j \in Of(new, k) : j <= i

LEMMA HasLast ==
    ASSUME NEW n \in Nat, NEW S \in SUBSET (1 .. n), S # {}
    PROVE  \E i \in S : \A j \in S : j <= i
<1> DEFINE T == {n - i : i \in S}
           R == OpToRel(<, Nat)
<1>0. \A i \in S : i \in Int /\ n - i \in Nat
  OBVIOUS
<1>1. T \subseteq Nat /\ T # {}
  <2>1. PICK i \in S : TRUE
    OBVIOUS
  <2>2. n - i \in T
    BY <2>1
  <2> QED BY <1>0, <2>2
<1>2. IsWellFoundedOn(R, Nat)
  BY NatLessThanWellFounded
<1>3. \A x, y \in Nat : <<x, y>> \in R <=> x < y
  BY DEF OpToRel
<1> HIDE DEF R
<1>4. PICK x \in T : \A y \in T : ~ (<<y, x>> \in R)
  <2> HIDE DEF T
  <2> QED BY <1>1, <1>2, WFMin
<1>5. PICK i \in S : x = n - i
  BY <1>4
<1>6. ASSUME NEW j \in S PROVE j <= i
  <2>1. n - j \in T /\ n - j \in Nat /\ x \in Nat
    BY <1>1, <1>4
  <2>2. ~ (n - j < x)
    BY <1>3, <1>4, <2>1
  <2> QED BY <1>0, <1>5, <2>1, <2>2
<1> QED BY <1>6

LEMMA FewerKeeps ==
    ASSUME NEW recs, NEW new, NEW k, Fewer(new, recs, k)
    PROVE  /\ \A r : Known(recs, k, r) => Known(new, k, r)
           /\ \A r : Descends(recs, k, r) => Descends(new, k, r)
           /\ Of(recs, k) = {} => Of(new, k) = {}
<1>1. PICK d \in {0, 1} : \A i \in Of(new, k) :
          i \in Int /\ i - d \in Of(recs, k) /\ new[i].digest = recs[i - d].digest
  BY DEF Fewer
<1>2. ASSUME NEW r, Known(recs, k, r) PROVE Known(new, k, r)
  BY <1>1, <1>2 DEF Known
<1>3. ASSUME NEW r, Descends(recs, k, r) PROVE Descends(new, k, r)
  <2> SUFFICES ASSUME NEW i \in Of(new, k), NEW j \in Of(new, k), j < i,
                      new[i].digest \in SealsIn(r)
               PROVE  new[j].digest \in SealsIn(r)
    BY DEF Descends
  <2>1. i \in Int /\ j \in Int /\ d \in Int /\ j - d < i - d
    BY <1>1
  <2>2. i - d \in Of(recs, k) /\ j - d \in Of(recs, k)
    BY <1>1
  <2>3. recs[i - d].digest \in SealsIn(r)
    BY <1>1
  <2>4. recs[j - d].digest \in SealsIn(r)
    BY <1>3, <2>1, <2>2, <2>3 DEF Descends
  <2> QED BY <1>1, <2>4
<1>4. ASSUME Of(recs, k) = {} PROVE Of(new, k) = {}
  BY <1>1, <1>4
<1> QED BY <1>2, <1>3, <1>4

LEMMA GrowsKeeps ==
    ASSUME NEW recs \in Seq(Anchors), NEW new \in Seq(Anchors), NEW k, NEW d,
           Grows(new, recs, k, d)
    PROVE  /\ \A r : d \in SealsIn(r) /\ Known(recs, k, r) => Known(new, k, r)
           /\ \A r : d \notin SealsIn(r) /\ Descends(recs, k, r) => Descends(new, k, r)
<1>1. ASSUME NEW r, d \in SealsIn(r), Known(recs, k, r) PROVE Known(new, k, r)
  BY <1>1 DEF Known, Grows
<1>2. ASSUME NEW r, d \notin SealsIn(r), Descends(recs, k, r) PROVE Descends(new, k, r)
  <2> SUFFICES ASSUME NEW i \in Of(new, k), NEW j \in Of(new, k), j < i,
                      new[i].digest \in SealsIn(r)
               PROVE  new[j].digest \in SealsIn(r)
    BY DEF Descends
  <2>1. i \in Int /\ j \in Int
    BY DEF Of
  <2>2. i \in Of(recs, k) /\ new[i].digest = recs[i].digest
    BY <1>2 DEF Grows
  <2>3. ~(i <= j)
    BY <2>1
  <2>4. j \in Of(recs, k) /\ new[j].digest = recs[j].digest
    BY <2>3 DEF Grows
  <2> QED BY <1>2, <2>2, <2>4 DEF Descends
<1> QED BY <1>1, <1>2

LEMMA KnownDescends ==
    ASSUME NEW recs, NEW k, NEW r, Known(recs, k, r) PROVE Descends(recs, k, r)
BY DEF Known, Descends

LEMMA RoundsTyped ==
    ASSUME NEW r \in Pkg
    PROVE  /\ r.rounds \in Seq(Round)
           /\ \A i \in DOMAIN r.rounds : r.rounds[i] \in Round /\ r.rounds[i].seal \in Nat
<1>1. r.rounds \in Seq(Round)
  BY DEF Pkg, Rounds, Round
<1>2. \A i \in DOMAIN r.rounds : r.rounds[i] \in Round
  BY <1>1
<1>3. \A x \in Round : x.seal \in Nat
  BY DEF Round
<1> QED BY <1>1, <1>2, <1>3

LEMMA LastSeal ==
    ASSUME NEW r \in Pkg, r.rounds # <<>> PROVE SealIn(r) \in SealsIn(r)
<1>1. r.rounds \in Seq(Round)
  BY DEF Pkg, Rounds, Round
<1>2. Len(r.rounds) \in DOMAIN r.rounds
  BY <1>1
<1> QED BY <1>2 DEF SealIn, SealsIn, Last

\* A package that passes the check of its anchors has every anchored round, or
\* a round that says FAILED.
LEMMA AnchorChecked ==
    ASSUME NEW k \in Pkgs, pkg[k] \in Pkg, anchors.recs \in Seq(Anchors),
           Past(anchors.recs, k, pkg[k], made[k]),
           pkg[k].rounds # <<>> \/ Of(anchors.recs, k) = {}, ~AnchorFails(k)
    PROVE  Failed(pkg[k]) \/ Known(anchors.recs, k, pkg[k])
<1> DEFINE recs == anchors.recs
           n == Len(recs)
<1>1. CASE Of(recs, k) = {}
  BY <1>1 DEF Known
<1>2. CASE Of(recs, k) # {}
  <2>1. n \in Nat /\ Of(recs, k) \in SUBSET (1 .. n)
    BY DEF Of
  <2>2. PICK i \in Of(recs, k) : \A j \in Of(recs, k) : j <= i
    <3> HIDE DEF n
    <3> QED BY <1>2, <2>1, HasLast
  <2>3. recs[i].digest = SealIn(pkg[k])
    BY <2>2, CurrentIs DEF AnchorFails, AnchorsOf, Of
  <2>4. recs[i].digest \in SealsIn(pkg[k])
    BY <1>2, <2>3, LastSeal
  <2>5. ASSUME Descends(recs, k, pkg[k]), NEW j \in Of(recs, k)
        PROVE  recs[j].digest \in SealsIn(pkg[k])
    <3>1. j = i \/ j < i
      BY <2>1, <2>2
    <3> QED BY <2>4, <2>5, <3>1 DEF Descends
  <2> QED BY <2>5 DEF Past, Known
<1> QED BY <1>1, <1>2

\* How a recorded anchor changes the log, for its own package and for another.
LEMMA Recorded ==
    ASSUME SigningInv, LossInv, None \notin Pkgs, NEW p \in Procs, AppendAnchor(p)
    PROVE  /\ anchors'.recs \in Seq(Anchors)
           /\ Unshared(job[p].pkg) =>
                 Grows(anchors'.recs, anchors.recs, job[p].pkg, job[p].seal)
           /\ \A k \in Pkgs \ {job[p].pkg} : Fewer(anchors'.recs, anchors.recs, k)
<1> DEFINE own == job[p].pkg
           d == job[p].seal
           new == Anchor(own, job[p].round, d, job[p].prev)
           recs == anchors.recs
           n == Len(recs)
<1>1. anchors' \in [exists : BOOLEAN, recs : Seq(Anchors)]
  BY AppendTyped
<1>2. anchors'.recs \in Seq(Anchors)
  BY <1>1
<1>3. anchors \in [exists : BOOLEAN, recs : Seq(Anchors)]
  BY DEF SigningInv, TypeInv
<1>4. recs \in Seq(Anchors) /\ n \in Nat /\ DOMAIN recs = 1 .. n
  BY <1>3
<1>5. new \in Anchors /\ Torn \in Anchors
  BY JobOf, AnchorTyped DEF Jobs, Torn, Names, Ids
<1>6. new.id[1] = own /\ new.digest = d /\ Torn.id[1] = None
  BY DEF Anchor, Torn
<1>7. own \in Pkgs /\ own # None
  BY JobOf DEF AppendAnchor
<1>8. Unshared(own) /\ job[p].create => Of(recs, own) = {}
  BY JobOf DEF LossInv, Owes, AppendAnchor
<1>9. \/ anchors' = [anchors EXCEPT !.recs = Append(recs, new)]
      \/ /\ job[p].create /\ recs # <<>>
         /\ \/ anchors' = [anchors EXCEPT !.recs[1] = new]
            \/ anchors' = [anchors EXCEPT !.recs = <<new, Torn>> \o Tail(recs)]
  BY DEF AppendAnchor
<1>10. CASE anchors' = [anchors EXCEPT !.recs = Append(recs, new)]
  <2> DEFINE app == Append(recs, new)
  <2> HIDE DEF new
  <2>1. anchors'.recs = app
    BY <1>3, <1>10
  <2>2. /\ DOMAIN app = 1 .. n + 1 /\ app[n + 1] = new
        /\ \A i \in 1 .. n : app[i] = recs[i]
    BY <1>4, <1>5, AppendProperties
  <2> HIDE DEF app, recs, n
  <2>3. ASSUME NEW i, NEW k, i \in Of(app, k)
        PROVE  \/ i \in 1 .. n /\ i \in Of(recs, k) /\ app[i].digest = recs[i].digest
               \/ i = n + 1 /\ k = own
    <3>1. i \in 1 .. n + 1 /\ app[i].id[1] = k
      BY <2>2, <2>3 DEF Of
    <3>2. i \in 1 .. n \/ i = n + 1
      BY <1>4, <3>1
    <3> QED BY <1>4, <1>6, <2>2, <3>1, <3>2 DEF Of
  <2>4. Grows(app, recs, own, d)
    <3>1. ASSUME NEW i \in Of(app, own), i = n + 1
          PROVE  app[i].digest = d /\ \A j \in Of(app, own) : j <= i
      <4>1. \A j \in Of(app, own) : j \in 1 .. n + 1
        BY <2>2 DEF Of
      <4> QED BY <1>4, <1>6, <2>2, <3>1, <4>1
    <3> QED BY <2>3, <3>1 DEF Grows
  <2>5. ASSUME NEW k \in Pkgs \ {own} PROVE Fewer(app, recs, k)
    <3>1. \A i \in Of(app, k) : i \in Int /\ i - 0 \in Of(recs, k)
                               /\ app[i].digest = recs[i - 0].digest
      BY <1>4, <2>3, <2>5
    <3> QED BY <3>1 DEF Fewer
  <2> QED BY <1>2, <2>1, <2>4, <2>5 DEF recs
<1>11. CASE job[p].create /\ recs # <<>> /\ anchors' = [anchors EXCEPT !.recs[1] = new]
  <2> DEFINE put == [recs EXCEPT ![1] = new]
  <2>1. anchors'.recs = put
    BY <1>3, <1>11
  <2> HIDE DEF new
  <2>2. 1 \in 1 .. n
    BY <1>4, <1>11
  <2>3. /\ DOMAIN put = 1 .. n /\ put[1] = new
        /\ \A i \in 1 .. n : i # 1 => put[i] = recs[i]
    BY <1>4, <2>2
  <2> HIDE DEF put, recs, n
  <2>4. ASSUME NEW i, NEW k, i \in Of(put, k)
        PROVE  \/ i \in 1 .. n /\ i # 1 /\ i \in Of(recs, k) /\ put[i].digest = recs[i].digest
               \/ i = 1 /\ k = own
    BY <1>4, <1>6, <2>3, <2>4 DEF Of
  <2>5. Unshared(own) => Grows(put, recs, own, d)
    <3>1. Unshared(own) => \A i \in Of(put, own) : i = 1
      BY <1>8, <1>11, <2>4
    <3>2. put[1].digest = d
      BY <1>6, <2>3
    <3>3. 1 <= 1
      OBVIOUS
    <3> QED BY <3>1, <3>2, <3>3 DEF Grows
  <2>6. ASSUME NEW k \in Pkgs \ {own} PROVE Fewer(put, recs, k)
    <3>1. \A i \in Of(put, k) : i \in Int /\ i - 0 \in Of(recs, k)
                               /\ put[i].digest = recs[i - 0].digest
      BY <1>4, <2>4, <2>6
    <3> QED BY <3>1 DEF Fewer
  <2> QED BY <1>2, <2>1, <2>5, <2>6 DEF recs
<1>12. CASE /\ job[p].create /\ recs # <<>>
            /\ anchors' = [anchors EXCEPT !.recs = <<new, Torn>> \o Tail(recs)]
  <2> DEFINE cut == <<new, Torn>> \o Tail(recs)
  <2>1. anchors'.recs = cut
    BY <1>3, <1>12
  <2> HIDE DEF new
  <2>2. Tail(recs) \in Seq(Anchors) /\ Len(Tail(recs)) = n - 1
        /\ \A i \in 1 .. n - 1 : Tail(recs)[i] = recs[i + 1]
    BY <1>4, <1>12, HeadTailProperties
  <2>3. n # 0 /\ n - 1 \in Nat
    BY <1>4, <1>12
  <2>4. <<new, Torn>> \in Seq(Anchors) /\ Len(<<new, Torn>>) = 2
    BY <1>5
  <2>5. /\ DOMAIN cut = 1 .. n + 1 /\ cut[1] = new /\ cut[2] = Torn
        /\ \A i \in 3 .. n + 1 : cut[i] = recs[i - 1]
    <3> DEFINE rest == Tail(recs)
    <3>1. rest \in Seq(Anchors) /\ Len(rest) = n - 1 /\ \A i \in 1 .. n - 1 : rest[i] = recs[i + 1]
      BY <2>2
    <3> HIDE DEF rest
    <3>2. \A i \in 3 .. n + 1 : (<<new, Torn>> \o rest)[i] = rest[i - 2] /\ i - 2 \in 1 .. n - 1
      BY <1>4, <2>3, <2>4, <3>1
    <3>3. \A i \in 3 .. n + 1 : i - 2 + 1 = i - 1
      BY <1>4
    <3>4. \A i \in 3 .. n + 1 : (<<new, Torn>> \o rest)[i] = recs[i - 1]
      BY <3>1, <3>2, <3>3
    <3>5. /\ DOMAIN (<<new, Torn>> \o rest) = 1 .. n + 1
          /\ (<<new, Torn>> \o rest)[1] = new /\ (<<new, Torn>> \o rest)[2] = Torn
      BY <1>4, <2>3, <2>4, <3>1
    <3> QED BY <3>4, <3>5 DEF rest
  <2> HIDE DEF cut, recs, n
  <2>6. ASSUME NEW i, NEW k \in Pkgs, i \in Of(cut, k)
        PROVE  \/ /\ i \in Int /\ i - 1 \in Of(recs, k)
                  /\ cut[i].digest = recs[i - 1].digest
               \/ i = 1 /\ k = own
    <3>1. i \in 1 .. n + 1 /\ cut[i].id[1] = k
      BY <2>5, <2>6 DEF Of
    <3>2. i = 1 \/ i = 2 \/ i \in 3 .. n + 1
      BY <1>4, <3>1
    <3>3. CASE i = 1
      BY <1>6, <2>5, <3>1, <3>3
    <3>4. CASE i = 2
      BY <1>6, <2>5, <3>1, <3>4
    <3>5. CASE i \in 3 .. n + 1
      <4>1. i \in Int /\ i - 1 \in 1 .. n
        BY <1>4, <3>5
      <4> QED BY <1>4, <2>5, <3>1, <3>5, <4>1 DEF Of
    <3> QED BY <3>2, <3>3, <3>4, <3>5
  <2>7. Unshared(own) => Grows(cut, recs, own, d)
    <3>1. Unshared(own) => \A i \in Of(cut, own) : i = 1
      BY <1>7, <1>8, <1>12, <2>6
    <3>2. cut[1].digest = d
      BY <1>6, <2>5
    <3>3. 1 <= 1
      OBVIOUS
    <3> QED BY <3>1, <3>2, <3>3 DEF Grows
  <2>8. ASSUME NEW k \in Pkgs \ {own} PROVE Fewer(cut, recs, k)
    BY <2>6, <2>8 DEF Fewer
  <2> QED BY <1>2, <2>1, <2>7, <2>8 DEF recs
<1> QED BY <1>9, <1>10, <1>11, <1>12

\* What is left of a record written in part is no anchor of any package.
LEMMA RecordedInPart ==
    ASSUME SigningInv, None \notin Pkgs, NEW p \in Procs, AppendPart(p), NEW k \in Pkgs
    PROVE  Fewer(anchors'.recs, anchors.recs, k)
<1> DEFINE recs == anchors.recs
           n == Len(recs)
<1>1. anchors \in [exists : BOOLEAN, recs : Seq(Anchors)]
  BY DEF SigningInv, TypeInv
<1>2. recs \in Seq(Anchors) /\ n \in Nat /\ DOMAIN recs = 1 .. n
  BY <1>1
<1>3. Torn \in Anchors /\ Torn.id[1] # k
  BY AnchorTyped DEF Torn, Names, Ids, Anchor
<1>4. CASE anchors' = [anchors EXCEPT !.recs = Append(recs, Torn)]
  <2> DEFINE app == Append(recs, Torn)
  <2>1. anchors'.recs = app
    BY <1>1, <1>4
  <2>2. /\ DOMAIN app = 1 .. n + 1 /\ app[n + 1] = Torn
        /\ \A i \in 1 .. n : app[i] = recs[i]
    BY <1>2, <1>3, AppendProperties
  <2> HIDE DEF app, recs, n
  <2>3. \A i \in 1 .. n + 1 : i \in 1 .. n \/ i = n + 1
    BY <1>2
  <2>4. \A i \in Of(app, k) : i \in 1 .. n /\ i \in Of(recs, k) /\ app[i] = recs[i]
    BY <1>2, <1>3, <2>2, <2>3 DEF Of
  <2>5. \A i \in 1 .. n : i \in Int /\ i - 0 = i
    BY <1>2
  <2>6. \A i \in Of(app, k) : i \in Int /\ i - 0 \in Of(recs, k)
                               /\ app[i].digest = recs[i - 0].digest
    BY <2>4, <2>5
  <2> QED BY <2>1, <2>6 DEF Fewer, recs
<1>5. CASE recs # <<>> /\ anchors' = [anchors EXCEPT !.recs = <<Torn>> \o Tail(recs)]
  <2> DEFINE rest == Tail(recs)
             cut == <<Torn>> \o rest
  <2>1. anchors'.recs = cut
    BY <1>1, <1>5
  <2>2. rest \in Seq(Anchors) /\ Len(rest) = n - 1
        /\ \A i \in 1 .. n - 1 : rest[i] = recs[i + 1]
    BY <1>2, <1>5, HeadTailProperties
  <2>3. n # 0 /\ n - 1 \in Nat
    BY <1>2, <1>5
  <2> HIDE DEF rest, n
  <2>4. /\ DOMAIN cut = 1 .. n /\ cut[1] = Torn
        /\ \A i \in 2 .. n : cut[i] = rest[i - 1] /\ i - 1 \in 1 .. n - 1
    BY <1>2, <1>3, <2>2, <2>3
  <2> HIDE DEF cut, recs
  <2>5. \A i \in 1 .. n : i = 1 \/ i \in 2 .. n
    BY <1>2
  <2>6. \A i \in 2 .. n : i - 1 + 1 = i /\ i - 0 = i /\ i \in Int /\ i \in 1 .. n
    BY <1>2
  <2>7. \A i \in 2 .. n : cut[i] = recs[i]
    BY <2>2, <2>4, <2>6
  <2>8. \A i \in Of(cut, k) : i \in 2 .. n /\ i \in Of(recs, k)
    BY <1>2, <1>3, <2>4, <2>5, <2>6, <2>7 DEF Of
  <2>9. \A i \in Of(cut, k) : i \in Int /\ i - 0 \in Of(recs, k)
                               /\ cut[i].digest = recs[i - 0].digest
    BY <2>6, <2>7, <2>8
  <2> QED BY <2>1, <2>9 DEF Fewer, recs
<1> QED BY <1>4, <1>5 DEF AppendPart

LEMMA LossStep ==
    ASSUME None \notin Pkgs
    PROVE  SigningInv /\ ProvableInv /\ LossInv /\ [Next]_vars => LossInv'
<1> SUFFICES ASSUME SigningInv, ProvableInv, LossInv, [Next]_vars PROVE LossInv'
  OBVIOUS
<1>t. pc \in [Procs -> Steps] /\ job \in [Procs -> Jobs]
  BY DEF SigningInv, TypeInv
<1>k. /\ pkg \in [Pkgs -> Pkg] /\ copy \in [Pkgs -> Pkg] /\ made \in [Pkgs -> Nat]
      /\ anchors \in [exists : BOOLEAN, recs : Seq(Anchors)]
  BY DEF SigningInv, TypeInv
<1>u. \A k \in Pkgs : Unshared(k)' => Unshared(k)
  BY SharedStep DEF ProvableInv
<1>w. \A p \in Procs : pc[p] # "out" => job[p].pkg \in Pkgs
  BY JobOf
\* One process moves on, and the packages and the log stay as they are.
<1>g. ASSUME UNCHANGED <<pkg, copy, made, anchors>>, NEW p \in Procs, NEW s, NEW j,
             s # "out" => /\ j.pkg \in Pkgs
                          /\ Unshared(j.pkg) => Owes(s, j, anchors.recs, pkg[j.pkg], copy[j.pkg]),
             Goto(p, s), Work(p, j)
      PROVE  LossInv'
  <2>1. pc'[p] = s /\ job'[p] = j
    BY <1>g, <1>t DEF Goto, Work
  <2>2. \A q \in Procs : q # p => pc'[q] = pc[q] /\ job'[q] = job[q]
    BY <1>g, <1>t DEF Goto, Work
  <2>3. \A q \in Procs : pc'[q] # "out" =>
            /\ job'[q].pkg \in Pkgs
            /\ Unshared(job'[q].pkg) =>
                  Owes(pc'[q], job'[q], anchors.recs, pkg[job'[q].pkg], copy[job'[q].pkg])
    BY <1>g, <1>w, <2>1, <2>2 DEF LossInv
  <2> QED BY <1>g, <1>u, <2>3 DEF LossInv, Unshared
<1>o. ASSUME UNCHANGED <<pkg, copy, made, anchors>>, NEW p \in Procs, Goto(p, "out"), Work(p, NoJob)
      PROVE  LossInv'
  BY <1>g, <1>o
\* One process changes the package it collects into.
<1>h. ASSUME UNCHANGED <<copy, job, anchors>>, NEW p \in Procs, pc[p] # "out", NEW s, NEW r,
             pkg' = [pkg EXCEPT ![job[p].pkg] = r],
             \A k \in Pkgs : made[k] <= made'[k], made' \in [Pkgs -> Nat],
             Unshared(job[p].pkg) =>
                 /\ r # NoPkg /\ \A i \in DOMAIN r.rounds : r.rounds[i].seal \in Nat
                 /\ Past(anchors.recs, job[p].pkg, r, made'[job[p].pkg])
                 /\ Owes(s, job[p], anchors.recs, r, copy[job[p].pkg]),
             Goto(p, s)
      PROVE  LossInv'
  <2>1. job[p].pkg \in Works[p] /\ job[p].pkg \in Pkgs
    BY <1>h, JobOf
  <2>2. pkg'[job[p].pkg] = r /\ \A k \in Pkgs : k # job[p].pkg => pkg'[k] = pkg[k]
    BY <1>h, <1>k, <2>1
  <2>3. pc'[p] = s /\ \A q \in Procs : q # p => pc'[q] = pc[q]
    BY <1>h, <1>t DEF Goto
  <2>4. ASSUME NEW k \in Pkgs, NEW c \in Pkg, Past(anchors.recs, k, c, made[k])
        PROVE  Past(anchors.recs, k, c, made'[k])
    <3>1. \A i \in DOMAIN c.rounds : c.rounds[i].seal \in Nat
      BY RoundsTyped
    <3>2. made[k] \in Nat /\ made'[k] \in Nat /\ made[k] <= made'[k]
      BY <1>h, <1>k
    <3> QED BY <2>4, <3>1, <3>2 DEF Past
  <2>5. ASSUME NEW k \in Pkgs, Unshared(k)
        PROVE  /\ Past(anchors.recs, k, pkg'[k], made'[k])
               /\ Past(anchors.recs, k, copy[k], made'[k])
               /\ pkg'[k] = NoPkg => Of(anchors.recs, k) = {}
    <3>1. /\ Past(anchors.recs, k, pkg[k], made[k])
          /\ Past(anchors.recs, k, copy[k], made[k])
          /\ pkg[k] = NoPkg => Of(anchors.recs, k) = {}
      BY <2>5 DEF LossInv
    <3>2. Past(anchors.recs, k, copy[k], made'[k]) /\ Past(anchors.recs, k, pkg[k], made'[k])
      BY <1>k, <2>4, <3>1
    <3> QED BY <1>h, <2>2, <2>5, <3>1, <3>2
  <2>6. ASSUME NEW q \in Procs, pc'[q] # "out", Unshared(job[q].pkg)
        PROVE  Owes(pc'[q], job'[q], anchors.recs, pkg'[job'[q].pkg], copy[job'[q].pkg])
    <3>1. CASE q = p
      BY <1>h, <2>2, <2>3, <2>6, <3>1
    <3>2. CASE q # p
      <4>1. pc[q] # "out" /\ pc'[q] = pc[q]
        BY <2>3, <2>6, <3>2
      <4>2. job[q].pkg \in Works[q] /\ job[q].pkg \in Pkgs
        BY <4>1, JobOf
      <4>3. job[q].pkg # job[p].pkg
        BY <1>h, <2>6, <3>2, <4>1 DEF ProvableInv, SharedInv
      <4>4. pkg'[job[q].pkg] = pkg[job[q].pkg]
        BY <2>2, <4>2, <4>3
      <4> QED BY <1>h, <2>6, <4>1, <4>4 DEF LossInv
    <3> QED BY <3>1, <3>2
  <2>7. \A q \in Procs : pc'[q] # "out" => job[q].pkg \in Pkgs /\ job'[q] = job[q]
    BY <1>h, <1>w, <2>1, <2>3
  <2> QED BY <1>h, <1>u, <2>5, <2>6, <2>7 DEF LossInv, Unshared
\* The log changes for the package of one process, and that process is done; or
\* nothing is left of it.
<1>a. ASSUME UNCHANGED <<pkg, copy, made>>, NEW p \in Procs, pc[p] # "out",
             \A k \in Pkgs \ {job[p].pkg} : Fewer(anchors'.recs, anchors.recs, k),
             \A q \in Procs : q # p => pc'[q] = pc[q] /\ job'[q] = job[q],
             Unshared(job[p].pkg) =>
                 /\ Past(anchors'.recs, job[p].pkg, pkg[job[p].pkg], made[job[p].pkg])
                 /\ Past(anchors'.recs, job[p].pkg, copy[job[p].pkg], made[job[p].pkg])
                 /\ pkg[job[p].pkg] # NoPkg,
             pc'[p] # "out" =>
                 /\ job'[p] = job[p]
                 /\ Unshared(job[p].pkg) =>
                       Owes(pc'[p], job[p], anchors'.recs, pkg[job[p].pkg], copy[job[p].pkg])
      PROVE  LossInv'
  <2>1. job[p].pkg \in Works[p] /\ job[p].pkg \in Pkgs
    BY <1>a, JobOf
  <2>2. ASSUME NEW k \in Pkgs, Unshared(k)
        PROVE  /\ Past(anchors'.recs, k, pkg[k], made[k])
               /\ Past(anchors'.recs, k, copy[k], made[k])
               /\ pkg[k] = NoPkg => Of(anchors'.recs, k) = {}
    <3>1. CASE k = job[p].pkg
      BY <1>a, <2>2, <3>1
    <3>2. CASE k # job[p].pkg
      <4>1. Fewer(anchors'.recs, anchors.recs, k)
        BY <1>a, <3>2
      <4>2. /\ Past(anchors.recs, k, pkg[k], made[k])
            /\ Past(anchors.recs, k, copy[k], made[k])
            /\ pkg[k] = NoPkg => Of(anchors.recs, k) = {}
        BY <2>2 DEF LossInv
      <4> QED BY <4>1, <4>2, FewerKeeps DEF Past
    <3> QED BY <3>1, <3>2
  <2>3. ASSUME NEW q \in Procs, pc'[q] # "out", Unshared(job[q].pkg)
        PROVE  Owes(pc'[q], job'[q], anchors'.recs, pkg[job'[q].pkg], copy[job'[q].pkg])
    <3>1. CASE q = p
      BY <1>a, <2>3, <3>1
    <3>2. CASE q # p
      <4>1. pc[q] # "out" /\ pc'[q] = pc[q] /\ job'[q] = job[q]
        BY <1>a, <2>3, <3>2
      <4>2. job[q].pkg \in Works[q] /\ job[q].pkg \in Pkgs
        BY <4>1, JobOf
      <4>3. job[q].pkg # job[p].pkg
        BY <1>a, <2>3, <3>2, <4>1 DEF ProvableInv, SharedInv
      <4>4. Fewer(anchors'.recs, anchors.recs, job[q].pkg)
        BY <1>a, <4>2, <4>3
      <4>5. Owes(pc[q], job[q], anchors.recs, pkg[job[q].pkg], copy[job[q].pkg])
        BY <2>3, <4>1 DEF LossInv
      <4>6. Owes(pc[q], job[q], anchors'.recs, pkg[job[q].pkg], copy[job[q].pkg])
        BY <4>4, <4>5, FewerKeeps DEF Owes
      <4> QED BY <4>1, <4>6
    <3> QED BY <3>1, <3>2
  <2>4. \A q \in Procs : pc'[q] # "out" => job[q].pkg \in Pkgs /\ job'[q] = job[q]
    BY <1>a, <1>w
  <2> QED BY <1>a, <1>u, <2>2, <2>3, <2>4 DEF LossInv, Unshared
<1>f. \A s \in Finishing : s \notin {"out", "check_sig", "check_anchor", "collect"}
  BY DEF Finishing, Recording
<1>n. ASSUME NEW s \in {"check_sig", "check_anchor"}, NEW j, NEW recs, NEW r, NEW c
      PROVE  Owes(s, j, recs, r, c)
  BY <1>f DEF Owes, Recording
<1>1. ASSUME NEW p \in Procs, NEW k \in Works[p], NEW sign \in BOOLEAN, Open(p, k, sign)
      PROVE  LossInv'
  <2> DEFINE j == [NoJob EXCEPT !.pkg = k, !.sign = sign, !.round = Len(pkg[k].rounds) + 1]
  <2>1. k \in Pkgs /\ j.pkg = k
    BY DEF Pkgs, NoJob
  <2>2. Work(p, j) /\ UNCHANGED <<pkg, copy, made, anchors>>
    BY <1>1 DEF Open
  <2>3. \/ pkg[k] = NoPkg /\ Goto(p, "collect")
        \/ Goto(p, "check_sig")
    BY <1>1 DEF Open
  <2> HIDE DEF j
  <2>4. CASE pkg[k] = NoPkg /\ Goto(p, "collect")
    <3>1. Unshared(k) => Known(anchors.recs, k, pkg[k])
      BY <2>1, <2>4 DEF LossInv, Known
    <3>2. Unshared(k) => Owes("collect", j, anchors.recs, pkg[j.pkg], copy[j.pkg])
      BY <1>f, <2>1, <3>1 DEF Owes, Recording
    <3> QED BY <1>g, <2>1, <2>2, <2>4, <3>2
  <2>5. CASE Goto(p, "check_sig")
    BY <1>g, <1>n, <2>1, <2>2, <2>5
  <2> QED BY <2>3, <2>4, <2>5
<1>2. ASSUME NEW p \in Procs, CheckSignature(p) PROVE LossInv'
  <2>1. UNCHANGED <<pkg, copy, made, anchors>> /\ Goto(p, "check_anchor")
    BY <1>2 DEF CheckSignature
  <2>2. PICK v : Work(p, [job[p] EXCEPT !.prior = v])
    BY <1>2 DEF CheckSignature
  <2>3. job[p] \in Jobs /\ job[p].pkg \in Pkgs
    BY <1>2, JobOf DEF CheckSignature
  <2>4. [job[p] EXCEPT !.prior = v].pkg = job[p].pkg
    BY <2>3 DEF Jobs
  <2> QED BY <1>g, <1>n, <2>1, <2>2, <2>3, <2>4
<1>3. ASSUME NEW p \in Procs, CheckAnchor(p) PROVE LossInv'
  <2> DEFINE k == job[p].pkg
             v == IF AnchorFails(k) THEN "FAILED" ELSE job[p].prior
             j == [job[p] EXCEPT !.prior = v]
  <2>1. job[p] \in Jobs /\ k \in Pkgs
    BY <1>3, JobOf DEF CheckAnchor
  <2>2. Goto(p, "collect") /\ Work(p, j) /\ UNCHANGED <<pkg, copy, made, anchors>>
    BY <1>3 DEF CheckAnchor
  <2>3. ASSUME Unshared(k), ~AnchorFails(k)
        PROVE  Failed(pkg[k]) \/ Known(anchors.recs, k, pkg[k])
    <3>1. Past(anchors.recs, k, pkg[k], made[k]) /\ pkg[k] \in Pkg
      BY <1>k, <2>1, <2>3 DEF LossInv
    <3>2. pkg[k].rounds # <<>> \/ Of(anchors.recs, k) = {}
      BY <2>1, <2>3 DEF LossInv, ProvableInv, Provable
    <3>3. anchors.recs \in Seq(Anchors)
      BY <1>k
    <3> QED BY <2>1, <2>3, <3>1, <3>2, <3>3, AnchorChecked
  <2>4. v = "FAILED" \/ ~AnchorFails(k)
    OBVIOUS
  <2> HIDE DEF v
  <2>5. j.pkg = k /\ j.prior = v
    BY <2>1 DEF Jobs
  <2> HIDE DEF j
  <2>6. Unshared(k) => Owes("collect", j, anchors.recs, pkg[j.pkg], copy[j.pkg])
    BY <1>f, <2>3, <2>4, <2>5 DEF Owes, Recording
  <2> QED BY <1>g, <2>1, <2>2, <2>5, <2>6
<1>4. ASSUME NEW p \in Procs, Abandon(p) PROVE LossInv'
  BY <1>4, <1>o DEF Abandon
<1>5. ASSUME NEW p \in Procs, Seal(p) PROVE LossInv'
  <2> DEFINE k == job[p].pkg
             x == [seal |-> made'[k], signer |-> job[p].sign, prior |-> job[p].prior]
             new == [pkg[k] EXCEPT !.rounds = Append(@, x), !.sigs = Archived(k, job[p].round)]
             n == Len(pkg[k].rounds)
             recs == anchors.recs
  <2>1. job[p] \in Jobs /\ k \in Pkgs /\ pc[p] = "collect"
    BY <1>5, JobOf DEF Seal
  <2>2. made' = [made EXCEPT ![k] = @ + 1] /\ UNCHANGED <<anchors, copy, job>>
    BY <1>5 DEF Seal
  <2>3. made'[k] = made[k] + 1 /\ made[k] \in Nat /\ made' \in [Pkgs -> Nat]
    BY <1>k, <2>1, <2>2
  <2>4. \A l \in Pkgs : made[l] <= made'[l]
    BY <1>k, <2>1, <2>2
  <2>5. x \in Round /\ x.seal = made'[k] /\ x.prior = job[p].prior
    BY <2>1, <2>3 DEF Round, Jobs
  <2>22. pkg' = [pkg EXCEPT ![k].rounds = Append(@, x), ![k].sigs = Archived(k, job[p].round)]
    BY <1>5 DEF Seal
  <2> HIDE DEF x
  <2>6. pkg' = [pkg EXCEPT ![k] = new]
    BY <2>22
  <2>7. pkg[k] \in Pkg
    BY <1>k, <2>1
  <2>8. pkg[k].rounds \in Seq(Round) /\ n \in Nat /\ DOMAIN pkg[k].rounds = 1 .. n
    <3>1. pkg[k].rounds \in Seq(Round)
      BY <2>7 DEF Pkg, Rounds, Round
    <3> QED BY <3>1
  <2>9. new.rounds = Append(pkg[k].rounds, x)
    BY <2>7 DEF Pkg
  <2> HIDE DEF new
  <2>10. /\ DOMAIN new.rounds = 1 .. n + 1 /\ new.rounds # <<>> /\ Len(new.rounds) = n + 1
         /\ new.rounds[n + 1] = x /\ \A i \in 1 .. n : new.rounds[i] = pkg[k].rounds[i]
    <3> DEFINE old == pkg[k].rounds
    <3>1. old \in Seq(Round) /\ n = Len(old) /\ DOMAIN old = 1 .. n
      BY <2>8
    <3> HIDE DEF old, n
    <3>2. /\ Append(old, x) \in Seq(Round) /\ Append(old, x) # <<>>
          /\ Len(Append(old, x)) = n + 1 /\ Append(old, x)[n + 1] = x
          /\ \A i \in 1 .. n : Append(old, x)[i] = old[i]
      BY <2>5, <3>1, AppendProperties
    <3>3. DOMAIN Append(old, x) = 1 .. n + 1
      BY <3>2
    <3> QED BY <2>9, <3>2, <3>3 DEF old
  <2> HIDE DEF n
  <2>11. SealsIn(new) = SealsIn(pkg[k]) \cup {made'[k]}
    <3>1. \A i \in 1 .. n + 1 : i \in 1 .. n \/ i = n + 1
      BY <2>8
    <3>2. n + 1 \in 1 .. n + 1 /\ \A i \in 1 .. n : i \in 1 .. n + 1
      BY <2>8
    <3>3. ASSUME NEW d \in SealsIn(new) PROVE d \in SealsIn(pkg[k]) \cup {made'[k]}
      BY <2>5, <2>8, <2>10, <3>1, <3>3 DEF SealsIn
    <3>4. ASSUME NEW d \in SealsIn(pkg[k]) \cup {made'[k]} PROVE d \in SealsIn(new)
      BY <2>5, <2>8, <2>10, <3>2, <3>4 DEF SealsIn
    <3> QED BY <3>3, <3>4
  <2>12. SealIn(new) = made'[k]
    BY <2>5, <2>10 DEF SealIn, Last
  <2>13. Failed(pkg[k]) \/ job[p].prior = "FAILED" => Failed(new)
    <3>1. n + 1 \in 1 .. n + 1 /\ \A i \in 1 .. n : i \in 1 .. n + 1
      BY <2>8
    <3> QED BY <2>5, <2>8, <2>10, <3>1 DEF Failed
  <2>14. Unshared(k) => Owes("collect", job[p], recs, pkg[k], copy[k])
    BY <2>1 DEF LossInv
  <2>15. Unshared(k) => Failed(new) \/ Known(recs, k, new)
    BY <2>11, <2>13, <2>14 DEF Owes, Known
  <2>16. ASSUME Unshared(k)
         PROVE  \A i \in DOMAIN new.rounds :
                   new.rounds[i].seal \in Nat /\ new.rounds[i].seal <= made'[k]
    <3>1. \A i \in 1 .. n : pkg[k].rounds[i].seal \in Nat /\ pkg[k].rounds[i].seal <= made[k]
      BY <2>1, <2>7, <2>8, <2>16, RoundsTyped DEF LossInv, Past
    <3>2. \A i \in 1 .. n : pkg[k].rounds[i].seal <= made'[k]
      BY <2>3, <3>1
    <3>3. \A i \in 1 .. n + 1 : i \in 1 .. n \/ i = n + 1
      BY <2>8
    <3>4. x.seal \in Nat /\ x.seal <= made'[k]
      BY <2>3, <2>5
    <3> QED BY <2>10, <3>1, <3>2, <3>3, <3>4
  <2>17. Unshared(k) => Past(recs, k, new, made'[k])
    BY <2>15, <2>16, KnownDescends DEF Past
  <2>18. ASSUME Unshared(k) PROVE made'[k] \notin SealsIn(copy[k])
    <3>1. \A i \in DOMAIN copy[k].rounds : copy[k].rounds[i].seal <= made[k]
      BY <2>1, <2>18 DEF LossInv, Past
    <3>2. \A i \in DOMAIN copy[k].rounds : copy[k].rounds[i].seal # made'[k]
      BY <2>3, <3>1
    <3> QED BY <3>2 DEF SealsIn
  <2>19. Unshared(k) => /\ Owes("sign", job[p], recs, new, copy[k])
                        /\ Owes("digest", job[p], recs, new, copy[k])
    BY <2>10, <2>12, <2>15, <2>18 DEF Owes, Recording
  <2>20. Goto(p, "sign") \/ Goto(p, "digest")
    BY <1>5 DEF Seal
  <2>21. new # NoPkg
    BY <2>10 DEF NoPkg
  <2> QED BY <1>h, <2>1, <2>2, <2>3, <2>4, <2>6, <2>16, <2>17, <2>19, <2>20, <2>21
<1>6. ASSUME NEW p \in Procs, SignRead(p) PROVE LossInv'
  <2> DEFINE c == Current(job[p].pkg)
             j == [job[p] EXCEPT !.at = c]
  <2>1. job[p] \in Jobs /\ pc[p] = "sign"
    BY <1>6, JobOf DEF SignRead
  <2>2. Goto(p, "sign_write") /\ Work(p, j) /\ UNCHANGED <<pkg, copy, made, anchors>>
    BY <1>6 DEF SignRead
  <2> HIDE DEF c
  <2>3. j.pkg = job[p].pkg
    BY <2>1 DEF Jobs
  <2> HIDE DEF j
  <2>4. Unshared(j.pkg) => Owes("sign", job[p], anchors.recs, pkg[j.pkg], copy[j.pkg])
    BY <2>1, <2>3 DEF LossInv
  <2>5. Unshared(j.pkg) => Owes("sign_write", j, anchors.recs, pkg[j.pkg], copy[j.pkg])
    BY <2>3, <2>4 DEF Owes, Finishing, Recording
  <2> QED BY <1>g, <1>w, <2>1, <2>2, <2>3, <2>5
<1>7. ASSUME NEW p \in Procs, SignWrite(p) PROVE LossInv'
  <2> DEFINE k == job[p].pkg
             new == [pkg[k] EXCEPT !.sig = job[p].at]
  <2>1. job[p] \in Jobs /\ k \in Pkgs /\ pc[p] = "sign_write" /\ pkg[k] \in Pkg
    BY <1>7, <1>k, JobOf DEF SignWrite
  <2>2. pkg' = [pkg EXCEPT ![k] = new] /\ UNCHANGED <<copy, job, anchors, made>>
    BY <1>7 DEF SignWrite
  <2>3. new.rounds = pkg[k].rounds
    BY <2>1 DEF Pkg
  <2> HIDE DEF new
  <2>4. Unshared(k) => /\ Past(anchors.recs, k, pkg[k], made[k])
                       /\ Owes("sign_write", job[p], anchors.recs, pkg[k], copy[k])
    BY <2>1 DEF LossInv
  <2>5. SealsIn(new) = SealsIn(pkg[k]) /\ (Failed(new) <=> Failed(pkg[k])) /\ SealIn(new) = SealIn(pkg[k])
    BY <2>3 DEF SealsIn, Failed, SealIn
  <2>6. Unshared(k) => Past(anchors.recs, k, new, made'[k])
    BY <2>2, <2>3, <2>4, <2>5 DEF Past, Descends
  <2>7. Unshared(k) => Owes("digest", job[p], anchors.recs, new, copy[k])
    BY <2>3, <2>4, <2>5 DEF Owes, Finishing, Recording, Known
  <2>8. \A l \in Pkgs : made[l] <= made'[l]
    BY <1>k, <2>2
  <2>9. \A i \in DOMAIN new.rounds : new.rounds[i].seal \in Nat
    BY <2>1, <2>3, RoundsTyped
  <2>10. Unshared(k) => new # NoPkg
    BY <2>3, <2>4 DEF NoPkg, Owes, Finishing
  <2>11. Goto(p, "digest") /\ pc[p] # "out" /\ made' \in [Pkgs -> Nat]
    BY <1>7, <1>k, <2>1, <2>2 DEF SignWrite
  <2> QED BY <1>h, <2>2, <2>6, <2>7, <2>8, <2>9, <2>10, <2>11
<1>8. ASSUME NEW p \in Procs, Digest(p) PROVE LossInv'
  <2> DEFINE c == Current(job[p].pkg)
             j == [job[p] EXCEPT !.seal = c]
  <2>1. job[p] \in Jobs /\ pc[p] = "digest" /\ c = SealIn(pkg[job[p].pkg])
    BY <1>8, JobOf, CurrentIs DEF Digest
  <2>2. Goto(p, "anchor") /\ Work(p, j) /\ UNCHANGED <<pkg, copy, made, anchors>>
    BY <1>8 DEF Digest
  <2> HIDE DEF c
  <2>3. j.pkg = job[p].pkg /\ j.seal = c
    BY <2>1 DEF Jobs
  <2> HIDE DEF j
  <2>4. Unshared(j.pkg) => Owes("digest", job[p], anchors.recs, pkg[j.pkg], copy[j.pkg])
    BY <2>1, <2>3 DEF LossInv
  <2>5. Unshared(j.pkg) => Owes("anchor", j, anchors.recs, pkg[j.pkg], copy[j.pkg])
    BY <2>1, <2>3, <2>4 DEF Owes, Finishing, Recording
  <2> QED BY <1>g, <1>w, <2>1, <2>2, <2>3, <2>5
<1>9. ASSUME NEW p \in Procs, LookForLog(p) PROVE LossInv'
  <2> DEFINE c == ~anchors.exists
             j == [job[p] EXCEPT !.create = c]
  <2>1. job[p] \in Jobs /\ pc[p] = "anchor"
    BY <1>9, JobOf DEF LookForLog
  <2>2. Goto(p, "anchor_open") /\ Work(p, j) /\ UNCHANGED <<pkg, copy, made, anchors>>
    BY <1>9 DEF LookForLog
  <2> HIDE DEF c
  <2>3. j.pkg = job[p].pkg /\ j.seal = job[p].seal
    BY <2>1 DEF Jobs
  <2> HIDE DEF j
  <2>4. Unshared(j.pkg) => Owes("anchor", job[p], anchors.recs, pkg[j.pkg], copy[j.pkg])
    BY <2>1, <2>3 DEF LossInv
  <2>5. Unshared(j.pkg) => Owes("anchor_open", j, anchors.recs, pkg[j.pkg], copy[j.pkg])
    BY <2>3, <2>4 DEF Owes, Finishing, Recording
  <2> QED BY <1>g, <1>w, <2>1, <2>2, <2>3, <2>5
<1>10. ASSUME NEW p \in Procs, ContinueLog(p) PROVE LossInv'
  <2> DEFINE prev == IF anchors.recs = <<>> THEN Genesis ELSE Last(anchors.recs).id
             j == [job[p] EXCEPT !.prev = prev]
  <2>1. job[p] \in Jobs /\ pc[p] = "anchor_open" /\ ~job[p].create
    BY <1>10, JobOf DEF ContinueLog
  <2>2. UNCHANGED <<pkg, copy, made, anchors>>
    BY <1>10 DEF ContinueLog
  <2>3. \/ Goto(p, "anchor_append") /\ Work(p, j)
        \/ Goto(p, "out") /\ Work(p, NoJob)
    BY <1>10 DEF ContinueLog
  <2> HIDE DEF prev
  <2>4. j.pkg = job[p].pkg /\ j.seal = job[p].seal /\ j.create = job[p].create
    BY <2>1 DEF Jobs
  <2> HIDE DEF j
  <2>5. Unshared(j.pkg) => Owes("anchor_open", job[p], anchors.recs, pkg[j.pkg], copy[j.pkg])
    BY <2>1, <2>4 DEF LossInv
  <2>6. Unshared(j.pkg) => Owes("anchor_append", j, anchors.recs, pkg[j.pkg], copy[j.pkg])
    BY <2>1, <2>4, <2>5 DEF Owes, Finishing, Recording
  <2> QED BY <1>g, <1>o, <1>w, <2>1, <2>2, <2>3, <2>4, <2>6
<1>11. ASSUME NEW p \in Procs, CreateLog(p) \/ AppendAnchor(p) PROVE LossInv'
  <2> DEFINE k == job[p].pkg
             d == job[p].seal
  <2>1. job[p] \in Jobs /\ k \in Pkgs /\ pc[p] \in Recording
    BY <1>11, JobOf DEF CreateLog, AppendAnchor, Recording
  <2>2. UNCHANGED <<pkg, copy, made>> /\ pc[p] # "out" /\ pc[p] \in Finishing
    BY <1>11, <2>1 DEF CreateLog, AppendAnchor, Finishing, Recording
  <2>3. Unshared(k) => /\ Past(anchors.recs, k, pkg[k], made[k])
                       /\ Past(anchors.recs, k, copy[k], made[k])
                       /\ Owes(pc[p], job[p], anchors.recs, pkg[k], copy[k])
    BY <2>1, <2>2 DEF LossInv
  <2>4. Unshared(k) => pkg[k].rounds # <<>> /\ pkg[k] # NoPkg
    BY <2>2, <2>3 DEF Owes, NoPkg
  <2>5. CASE CreateLog(p)
    <3>1. anchors'.recs = <<>> /\ UNCHANGED job
      BY <2>5 DEF CreateLog
    <3>2. \A l : Of(anchors'.recs, l) = {}
      BY <3>1 DEF Of
    <3>3. \A l : Fewer(anchors'.recs, anchors.recs, l)
      BY <3>2 DEF Fewer
    <3>4. pc'[p] = "anchor_append" /\ \A q \in Procs : q # p => pc'[q] = pc[q]
      BY <1>t, <2>5 DEF CreateLog, Goto
    <3>5. Unshared(k) => /\ Past(anchors'.recs, k, pkg[k], made[k])
                         /\ Past(anchors'.recs, k, copy[k], made[k])
      BY <2>3, <3>3, FewerKeeps DEF Past
    <3>6. Unshared(k) => Owes("anchor_append", job[p], anchors'.recs, pkg[k], copy[k])
      BY <2>1, <2>2, <2>3, <3>2 DEF Owes, Known, Recording
    <3> QED BY <1>a, <2>2, <2>4, <3>1, <3>3, <3>4, <3>5, <3>6
  <2>6. CASE AppendAnchor(p)
    <3>1. /\ anchors'.recs \in Seq(Anchors)
          /\ Unshared(k) => Grows(anchors'.recs, anchors.recs, k, d)
          /\ \A l \in Pkgs \ {k} : Fewer(anchors'.recs, anchors.recs, l)
      BY <2>6, Recorded
    <3>2. anchors.recs \in Seq(Anchors)
      BY <1>k
    <3>3. Unshared(k) => d = SealIn(pkg[k]) /\ d \in SealsIn(pkg[k])
      BY <1>k, <2>1, <2>3, <2>4, LastSeal DEF Owes
    <3>4. Unshared(k) => d \notin SealsIn(copy[k])
      BY <2>2, <2>3, <3>3 DEF Owes
    <3>5. Unshared(k) => Failed(pkg[k]) \/ Known(anchors'.recs, k, pkg[k])
      BY <2>2, <2>3, <3>1, <3>2, <3>3, GrowsKeeps DEF Owes
    <3>6. Unshared(k) => Past(anchors'.recs, k, pkg[k], made[k])
      BY <2>3, <3>5, KnownDescends DEF Past
    <3>7. Unshared(k) => Past(anchors'.recs, k, copy[k], made[k])
      BY <2>3, <3>1, <3>2, <3>4, GrowsKeeps DEF Past
    <3>8. pc'[p] = "out" /\ \A q \in Procs : q # p => pc'[q] = pc[q] /\ job'[q] = job[q]
      BY <1>t, <2>6 DEF AppendAnchor, Goto, Work
    <3> QED BY <1>a, <2>2, <2>4, <3>1, <3>6, <3>7, <3>8
  <2> QED BY <1>11, <2>5, <2>6
<1>12. ASSUME NEW p \in Procs, Crash(p) \/ Unanchored(p) PROVE LossInv'
  BY <1>12, <1>o DEF Crash, Unanchored
<1>16. ASSUME NEW p \in Procs, AppendPart(p) PROVE LossInv'
  <2> DEFINE k == job[p].pkg
  <2>1. k \in Pkgs /\ pc[p] = "anchor_append" /\ UNCHANGED <<pkg, copy, made>>
    BY <1>16, <1>w DEF AppendPart
  <2>2. \A l \in Pkgs : Fewer(anchors'.recs, anchors.recs, l)
    BY <1>16, RecordedInPart
  <2>3. Unshared(k) => /\ Past(anchors.recs, k, pkg[k], made[k])
                       /\ Past(anchors.recs, k, copy[k], made[k])
                       /\ Owes("anchor_append", job[p], anchors.recs, pkg[k], copy[k])
    BY <2>1 DEF LossInv
  <2>4. Unshared(k) => pkg[k] # NoPkg
    BY <2>3 DEF Owes, NoPkg, Finishing, Recording
  <2>5. Unshared(k) => /\ Past(anchors'.recs, k, pkg[k], made[k])
                       /\ Past(anchors'.recs, k, copy[k], made[k])
    BY <2>1, <2>2, <2>3, FewerKeeps DEF Past
  <2>6. pc'[p] = "out" /\ \A q \in Procs : q # p => pc'[q] = pc[q] /\ job'[q] = job[q]
    BY <1>16, <1>t DEF AppendPart, Goto, Work
  <2> QED BY <1>a, <2>1, <2>2, <2>4, <2>5, <2>6
<1>13. ASSUME NEW k \in Pkgs, Copy(k) PROVE LossInv'
  <2>1. UNCHANGED <<pkg, pc, job, anchors, made>> /\ copy' = [copy EXCEPT ![k] = pkg[k]]
    BY <1>13 DEF Copy
  <2>2. \A q \in Procs : job[q].pkg # k
    BY <1>13 DEF Copy, AtRest
  <2>3. \A l \in Pkgs : (l # k => copy'[l] = copy[l]) /\ (l = k => copy'[l] = pkg[l])
    BY <1>k, <2>1
  <2>4. \A q \in Procs : pc[q] # "out" => copy'[job[q].pkg] = copy[job[q].pkg]
    BY <2>2, <2>3, JobOf
  <2> QED BY <1>u, <1>w, <2>1, <2>3, <2>4 DEF LossInv, Unshared
<1>14. ASSUME NEW k \in Pkgs, Restore(k) PROVE LossInv'
  <2>1. UNCHANGED <<copy, pc, job, anchors, made>> /\ pkg' = [pkg EXCEPT ![k] = copy[k]]
    BY <1>14 DEF Restore
  <2>2. \A q \in Procs : job[q].pkg # k
    BY <1>14 DEF Restore, AtRest
  <2>3. \A l \in Pkgs : (l # k => pkg'[l] = pkg[l]) /\ (l = k => pkg'[l] = copy[l])
    BY <1>k, <2>1
  <2>4. \A q \in Procs : pc[q] # "out" => pkg'[job[q].pkg] = pkg[job[q].pkg]
    BY <2>2, <2>3, JobOf
  <2>5. copy[k] # NoPkg
    BY <1>14 DEF Restore
  <2> QED BY <1>u, <1>w, <2>1, <2>3, <2>4, <2>5 DEF LossInv, Unshared
<1>15. CASE UNCHANGED vars
  BY <1>15 DEF vars, LossInv, Unshared
<1> QED BY <1>1, <1>2, <1>3, <1>4, <1>5, <1>6, <1>7, <1>8, <1>9, <1>10, <1>11, <1>12,
           <1>13, <1>14, <1>15, <1>16 DEF Next, Finish, Stopped

LEMMA LossInit == Init => LossInv
<1> SUFFICES ASSUME Init PROVE LossInv
  OBVIOUS
<1>1. anchors.recs = <<>> /\ \A k : Of(anchors.recs, k) = {}
  BY DEF Init, Of
<1>2. \A k \in Pkgs : pkg[k] = NoPkg /\ copy[k] = NoPkg
  BY DEF Init
<1>3. \A n : Past(anchors.recs, n, NoPkg, 0)
  BY <1>1 DEF Past, Descends, NoPkg
<1>4. \A k \in Pkgs : made[k] = 0
  BY DEF Init
<1>5. \A p \in Procs : pc[p] = "out"
  BY DEF Init
<1> QED BY <1>1, <1>2, <1>3, <1>4, <1>5 DEF LossInv

\* A case that lost an anchored round, by an earlier copy of it taking its place, and
\* that passes CheckPrior's comparison with the last anchor (integrity.go) has a round
\* saying FAILED: no sequence of crashes, further rounds and further restores launders
\* the loss, of a case whose rounds were finished before the next took its lock; any
\* other may have been shared.
THEOREM LostRoundsRecorded ==
    ASSUME None \notin Pkgs PROVE Spec => []LossRecorded
<1>1. SigningInv /\ ProvableInv /\ LossInv => LossRecorded
  <2> SUFFICES ASSUME SigningInv, ProvableInv, LossInv, NEW k \in Pkgs, Unshared(k),
                      ~AnchorFails(k)
               PROVE  \/ \A i \in AnchorsOf(k) : anchors.recs[i].digest \in SealsOf(k)
                      \/ SaysFailed(k)
    BY DEF LossRecorded, Unshared
  <2>1. pkg[k] \in Pkg /\ anchors.recs \in Seq(Anchors)
    BY DEF SigningInv, TypeInv
  <2>2. Past(anchors.recs, k, pkg[k], made[k])
    BY DEF LossInv
  <2>3. pkg[k].rounds # <<>> \/ Of(anchors.recs, k) = {}
    BY DEF LossInv, ProvableInv, Provable
  <2>4. Failed(pkg[k]) \/ Known(anchors.recs, k, pkg[k])
    BY <2>1, <2>2, <2>3, AnchorChecked
  <2> QED BY <2>4 DEF Failed, Known, Of, AnchorsOf, SealsIn, SealsOf, SaysFailed
<1>2. Init => ProvableInv
  BY ProvableInit
<1>3. SigningInv /\ ProvableInv /\ [Next]_vars => ProvableInv'
  BY ProvableStep
<1>4. SigningInv /\ ProvableInv /\ LossInv /\ [Next]_vars => LossInv'
  BY LossStep
<1> QED BY <1>1, <1>2, <1>3, <1>4, LossInit, SigningAlways, PTL DEF Spec
-----------------------------------------------------------------------------
(***************************************************************************)
(* No false alarm.                                                         *)
(***************************************************************************)
Signed(r) == \A i \in DOMAIN r.rounds : r.rounds[i].signer

EndsWith(recs, k, d) ==
    \E i \in Of(recs, k) : recs[i].digest = d /\ \A j \in Of(recs, k) : j <= i

Idle(k) == \A p \in Procs : job[p].pkg = k => pc[p] \notin Finishing

\* A signed package is as its last round left it, unless that round is not finished.
Clean(k) ==
    Signed(pkg[k]) =>
        /\ ~Failed(pkg[k])
        /\ pkg[k].rounds # <<>> /\ Idle(k) =>
              /\ pkg[k].sig = SealIn(pkg[k])
              /\ EndsWith(anchors.recs, k, SealIn(pkg[k]))

\* What a process knows of its package while nothing has gone wrong.
Stands(st, j, r) ==
    /\ j.prior = "FAILED" => ~Signed(r)
    /\ st = "sign_write" => j.at = SealIn(r)
    /\ st \in {"digest", "anchor"} \cup Recording /\ Signed(r) => r.sig = SealIn(r)

\* Of a package whose every round was anchored, one run after the other.
Kept(k) == lapses[k] = {}

CleanInv ==
    broke = {} =>
        /\ \A k \in Pkgs : Kept(k) => Clean(k)
        /\ \A p \in Procs :
              pc[p] # "out" /\ Kept(job[p].pkg) => Stands(pc[p], job[p], pkg[job[p].pkg])

\* The one who checks a package is the only one at work on it.
LEMMA CheckerAlone ==
    ASSUME SharedInv, NEW p \in Procs, pc[p] \in Checking, Kept(job[p].pkg)
    PROVE  Idle(job[p].pkg)
<1>1. pc[p] # "out" /\ pc[p] \notin Finishing
  BY DEF Checking, Finishing, Recording
<1> SUFFICES ASSUME NEW q \in Procs, job[q].pkg = job[p].pkg, pc[q] \in Finishing
             PROVE  FALSE
  BY DEF Idle
<1>2. pc[q] # "out"
  BY DEF Finishing, Recording
<1>3. Unshared(job[p].pkg)
  BY DEF Kept, Unshared
<1> QED BY <1>1, <1>2, <1>3 DEF SharedInv

LEMMA CleanStep ==
    SigningInv /\ ProvableInv /\ LossInv /\ ChainInv /\ CleanInv /\ [Next]_vars => CleanInv'
<1> SUFFICES ASSUME SigningInv, ProvableInv, LossInv, ChainInv, CleanInv, [Next]_vars
             PROVE  CleanInv'
  OBVIOUS
<1>b. broke' = {} => broke = {}
  BY DEF Next, Stopped, vars, Open, CheckSignature, CheckAnchor, Abandon, Seal, Finish,
         SignRead, SignWrite, Digest, LookForLog, CreateLog, ContinueLog, AppendAnchor,
         AppendPart, Unanchored, Crash, Copy, Restore
<1> DEFINE Good == /\ \A k \in Pkgs : Kept(k) => Clean(k)
                   /\ \A p \in Procs : pc[p] # "out" /\ Kept(job[p].pkg) =>
                                          Stands(pc[p], job[p], pkg[job[p].pkg])
<1> SUFFICES ASSUME broke' = {} PROVE Good'
  BY DEF CleanInv
<1>c. Good /\ broke = {} /\ broke' = {}
  BY <1>b DEF CleanInv
<1> HIDE DEF Good
<1>l. /\ lapses \in [Pkgs -> SUBSET Lapses] /\ lapses' \in [Pkgs -> SUBSET Lapses]
      /\ \A k \in Pkgs : Kept(k)' => Kept(k)
  BY LapsesStep DEF SigningInv, TypeInv, Kept
<1>u. \A k : Kept(k) => Unshared(k)
  BY DEF Kept, Unshared
<1>w. \A p \in Procs : pc[p] # "out" => job[p].pkg \in Pkgs
  BY JobOf
<1>v. ASSUME NEW k \in Pkgs, NEW what, Lapse(k, what) PROVE lapses'[k] # {}
  BY <1>l, <1>v DEF Lapse
<1>t. pc \in [Procs -> Steps] /\ job \in [Procs -> Jobs]
  BY DEF SigningInv, TypeInv
<1>k. /\ pkg \in [Pkgs -> Pkg] /\ anchors \in [exists : BOOLEAN, recs : Seq(Anchors)]
      /\ anchors.recs \in Seq(Anchors)
  BY DEF SigningInv, TypeInv
<1>h. ChainInv!2
  BY <1>c DEF ChainInv
<1>s. ASSUME NEW p \in Procs, NEW q \in Procs, q # p, pc[p] # "out", pc[q] # "out",
             Kept(job[p].pkg)
      PROVE  job[q].pkg # job[p].pkg
  BY <1>s, <1>u DEF ProvableInv, SharedInv
\* One process moves on, and packages and log stay; one that leaves Finishing leaves its
\* package with a lapse.
<1>g. ASSUME UNCHANGED pkg, anchors'.recs = anchors.recs, NEW p \in Procs, NEW s, NEW j,
             \/ pc[p] \in Finishing => s \in Finishing /\ j.pkg = job[p].pkg
             \/ lapses'[job[p].pkg] # {},
             s # "out" => j.pkg \in Pkgs /\ (Kept(j.pkg) => Stands(s, j, pkg[j.pkg])),
             Goto(p, s), Work(p, j)
      PROVE  Good'
  <2>1. pc'[p] = s /\ job'[p] = j
    BY <1>g, <1>t DEF Goto, Work
  <2>2. \A q \in Procs : q # p => pc'[q] = pc[q] /\ job'[q] = job[q]
    BY <1>g, <1>t DEF Goto, Work
  <2>3. \A q \in Procs : pc'[q] # "out" =>
            /\ job'[q].pkg \in Pkgs
            /\ Kept(job'[q].pkg) => Stands(pc'[q], job'[q], pkg[job'[q].pkg])
    BY <1>c, <1>g, <1>w, <2>1, <2>2 DEF Good
  <2>4. ASSUME NEW k \in Pkgs, Kept(k)', Idle(k)' PROVE Idle(k)
    <3>1. job[p].pkg = k => pc[p] \notin Finishing \/ (s \in Finishing /\ j.pkg = k)
      BY <1>g, <2>4 DEF Kept
    <3> QED BY <2>1, <2>2, <2>4, <3>1 DEF Idle
  <2>5. \A k \in Pkgs : Kept(k)' => Clean(k)'
    BY <1>c, <1>g, <1>l, <2>4 DEF Good, Clean
  <2>6. \A q \in Procs : pc'[q] # "out" /\ lapses'[job'[q].pkg] = {} =>
                            Stands(pc'[q], job'[q], pkg[job'[q].pkg])
    <3> SUFFICES ASSUME NEW q \in Procs, pc'[q] # "out", NEW k, k = job'[q].pkg,
                        lapses'[k] = {}
                 PROVE  Stands(pc'[q], job'[q], pkg[k])
      OBVIOUS
    <3>1. k \in Pkgs /\ Kept(k)
      BY <1>l, <2>3 DEF Kept
    <3> QED BY <2>3, <3>1
  <2> QED BY <1>g, <2>5, <2>6 DEF Good, Kept
\* One process in Checking or Finishing changes its package and is in Finishing.
<1>p. ASSUME UNCHANGED <<job, anchors, lapses>>, NEW p \in Procs, pc[p] # "out",
             NEW s \in Finishing, NEW r, pkg' = [pkg EXCEPT ![job[p].pkg] = r],
             Kept(job[p].pkg) => (Signed(r) => ~Failed(r)) /\ Stands(s, job[p], r), Goto(p, s)
      PROVE  Good'
  <2>1. job[p].pkg \in Works[p] /\ job[p].pkg \in Pkgs
    BY <1>p, JobOf
  <2>2. pkg'[job[p].pkg] = r /\ \A k \in Pkgs : k # job[p].pkg => pkg'[k] = pkg[k]
    BY <1>p, <1>k, <2>1
  <2>3. pc'[p] = s /\ \A q \in Procs : q # p => pc'[q] = pc[q]
    BY <1>p, <1>t DEF Goto
  <2>4. ASSUME NEW k \in Pkgs, Kept(k) PROVE Clean(k)'
    <3>1. CASE k = job[p].pkg
      <4>1. ~Idle(k)'
        BY <1>p, <2>3, <3>1 DEF Idle
      <4> QED BY <1>p, <2>2, <2>4, <3>1, <4>1 DEF Clean
    <3>2. CASE k # job[p].pkg
      <4>1. Idle(k)' => Idle(k)
        BY <1>p, <2>3, <3>2 DEF Idle
      <4>2. Clean(k) /\ pkg'[k] = pkg[k]
        BY <1>c, <2>2, <2>4, <3>2 DEF Good
      <4> QED BY <1>p, <4>1, <4>2 DEF Clean
    <3> QED BY <3>1, <3>2
  <2>5. ASSUME NEW q \in Procs, pc'[q] # "out", Kept(job[q].pkg)
        PROVE  Stands(pc'[q], job'[q], pkg'[job'[q].pkg])
    <3>1. CASE q = p
      BY <1>p, <2>2, <2>3, <2>5, <3>1
    <3>2. CASE q # p
      <4>1. pc[q] # "out" /\ pc'[q] = pc[q]
        BY <2>3, <2>5, <3>2
      <4>2. job[q].pkg \in Pkgs /\ job[q].pkg # job[p].pkg
        BY <1>p, <1>s, <2>5, <3>2, <4>1, JobOf
      <4> QED BY <1>c, <1>p, <2>2, <2>5, <4>1, <4>2 DEF Good
    <3> QED BY <3>1, <3>2
  <2> QED BY <1>p, <2>4, <2>5 DEF Good, Kept
<1>o. ASSUME UNCHANGED pkg, anchors'.recs = anchors.recs, NEW p \in Procs,
             pc[p] \notin Finishing \/ lapses'[job[p].pkg] # {},
             Goto(p, "out"), Work(p, NoJob)
      PROVE  Good'
  BY <1>g, <1>o
<1>f. /\ \A s \in Finishing : s \notin {"out", "check_sig", "check_anchor", "collect"}
      /\ {"sign", "sign_write", "digest", "anchor", "anchor_open", "anchor_append"} \subseteq Finishing
  BY DEF Finishing, Recording
<1>1. ASSUME NEW p \in Procs, NEW k \in Works[p], NEW sign \in BOOLEAN, Open(p, k, sign)
      PROVE  Good'
  <2> DEFINE j == [NoJob EXCEPT !.pkg = k, !.sign = sign, !.round = Len(pkg[k].rounds) + 1]
             s == IF pkg[k] = NoPkg THEN "collect" ELSE "check_sig"
  <2>1. j.prior = None /\ None # "FAILED" /\ j.pkg \in Pkgs
    BY DEF NoJob, None, Pkgs
  <2>2. Work(p, j) /\ Goto(p, s) /\ pc[p] = "out" /\ UNCHANGED <<pkg, anchors>>
    BY <1>1 DEF Open
  <2> HIDE DEF j
  <2>3. Stands(s, j, pkg[j.pkg])
    BY <2>1 DEF Stands, Recording
  <2> HIDE DEF s
  <2> QED BY <1>f, <1>g, <2>1, <2>2, <2>3
<1>2. ASSUME NEW p \in Procs, CheckSignature(p) PROVE Good'
  <2> DEFINE k == job[p].pkg
             v == IF SignatureFails(k) THEN "FAILED"
                  ELSE IF pkg[k].sig = Current(k) THEN "verified" ELSE "unsigned"
             j == [job[p] EXCEPT !.prior = v]
  <2>1. job[p] \in Jobs /\ k \in Pkgs /\ pc[p] = "check_sig"
    BY <1>2, JobOf DEF CheckSignature
  <2>2. Goto(p, "check_anchor") /\ Work(p, j) /\ UNCHANGED <<pkg, anchors>>
    BY <1>2 DEF CheckSignature
  <2>3. Kept(k) => Idle(k)
    BY <2>1, CheckerAlone DEF Checking, ProvableInv
  <2>4. Kept(k) /\ SignatureFails(k) => ~Signed(pkg[k])
    <3>1. SignatureFails(k) => pkg[k].sig # SealIn(pkg[k]) /\ \E i \in DOMAIN pkg[k].rounds : TRUE
      BY CurrentIs DEF SignatureFails
    <3>2. Kept(k) => pkg[k].rounds # <<>>
      BY <1>u, <2>1 DEF ProvableInv, Relies
    <3>3. Kept(k) => Clean(k)
      BY <1>c, <2>1 DEF Good
    <3> QED BY <2>3, <3>1, <3>2, <3>3 DEF Clean
  <2>5. v = "FAILED" => SignatureFails(k)
    OBVIOUS
  <2> HIDE DEF v
  <2>6. j.pkg = k /\ j.prior = v
    BY <2>1 DEF Jobs
  <2> HIDE DEF j
  <2>7. Kept(k) => Stands("check_anchor", j, pkg[j.pkg])
    BY <2>4, <2>5, <2>6 DEF Stands, Recording
  <2> QED BY <1>f, <1>g, <2>1, <2>2, <2>6, <2>7
<1>3. ASSUME NEW p \in Procs, CheckAnchor(p) PROVE Good'
  <2> DEFINE k == job[p].pkg
             v == IF AnchorFails(k) THEN "FAILED" ELSE job[p].prior
             j == [job[p] EXCEPT !.prior = v]
  <2>1. job[p] \in Jobs /\ k \in Pkgs /\ pc[p] = "check_anchor"
    BY <1>3, JobOf DEF CheckAnchor
  <2>2. Goto(p, "collect") /\ Work(p, j) /\ UNCHANGED <<pkg, anchors>>
    BY <1>3 DEF CheckAnchor
  <2>3. Kept(k) => Idle(k)
    BY <2>1, CheckerAlone DEF Checking, ProvableInv
  <2>4. ASSUME Kept(k), AnchorFails(k), Signed(pkg[k]) PROVE FALSE
    <3>1. Chained(anchors.recs)
      BY <1>h
    <3>2. PICK i \in Of(anchors.recs, k) :
             /\ \A l \in Of(anchors.recs, k) : l <= i
             /\ anchors.recs[i].digest # SealIn(pkg[k])
      BY <2>4, <3>1, CurrentIs DEF AnchorFails, AnchorsOf, Of
    <3>3. pkg[k].rounds # <<>>
      BY <1>u, <2>1, <2>4, <3>2 DEF LossInv, ProvableInv, Provable
    <3>4. Clean(k)
      BY <1>c, <2>1, <2>4 DEF Good
    <3>5. EndsWith(anchors.recs, k, SealIn(pkg[k]))
      BY <2>3, <2>4, <3>3, <3>4 DEF Clean
    <3>6. PICK e \in Of(anchors.recs, k) :
             /\ \A l \in Of(anchors.recs, k) : l <= e
             /\ anchors.recs[e].digest = SealIn(pkg[k])
      BY <3>5 DEF EndsWith
    <3>7. e \in Nat /\ i \in Nat
      BY <1>k DEF Of
    <3>8. e <= i /\ i <= e
      BY <3>2, <3>6
    <3>9. e = i
      BY <3>7, <3>8
    <3> QED BY <3>2, <3>6, <3>9
  <2>5. Kept(k) => Stands("check_anchor", job[p], pkg[k])
    BY <1>c, <2>1 DEF Good
  <2>6. v = "FAILED" => AnchorFails(k) \/ job[p].prior = "FAILED"
    OBVIOUS
  <2> HIDE DEF v
  <2>7. j.pkg = k /\ j.prior = v
    BY <2>1 DEF Jobs
  <2> HIDE DEF j
  <2>8. Kept(k) => Stands("collect", j, pkg[j.pkg])
    BY <2>4, <2>5, <2>6, <2>7 DEF Stands, Recording
  <2> QED BY <1>f, <1>g, <2>1, <2>2, <2>7, <2>8
<1>4. ASSUME NEW p \in Procs, Abandon(p) PROVE Good'
  BY <1>4, <1>f, <1>o DEF Abandon
<1>5. ASSUME NEW p \in Procs, Seal(p) PROVE Good'
  <2> DEFINE k == job[p].pkg
             x == [seal |-> made'[k], signer |-> job[p].sign, prior |-> job[p].prior]
             new == [pkg[k] EXCEPT !.rounds = Append(@, x), !.sigs = Archived(k, job[p].round)]
             s == IF job[p].sign THEN "sign" ELSE "digest"
  <2>1. job[p] \in Jobs /\ k \in Pkgs /\ pc[p] = "collect" /\ pkg[k] \in Pkg
    BY <1>5, <1>k, JobOf DEF Seal
  <2>2. pkg' = [pkg EXCEPT ![k].rounds = Append(@, x), ![k].sigs = Archived(k, job[p].round)]
    BY <1>5 DEF Seal
  <2>3. UNCHANGED <<anchors, job, lapses>> /\ Goto(p, s)
    BY <1>5 DEF Seal
  <2>4. x.signer = job[p].sign /\ x.prior = job[p].prior /\ x \in Round
    <3>1. made' = [made EXCEPT ![k] = @ + 1] /\ made \in [Pkgs -> Nat]
      BY <1>5 DEF Seal, SigningInv, TypeInv
    <3>2. made'[k] \in Nat
      BY <2>1, <3>1
    <3> QED BY <2>1, <3>2 DEF Round, Jobs
  <2> HIDE DEF x
  <2>5. pkg' = [pkg EXCEPT ![k] = new]
    BY <2>2
  <2>6. new.rounds = Append(pkg[k].rounds, x)
    BY <2>1 DEF Pkg
  <2> HIDE DEF new
  <2>7. /\ Signed(new) => Signed(pkg[k]) /\ job[p].sign
        /\ Failed(new) => Failed(pkg[k]) \/ job[p].prior = "FAILED"
    <3> DEFINE old == pkg[k].rounds
               n == Len(old)
    <3>1. old \in Seq(Round) /\ n \in Nat /\ DOMAIN old = 1 .. n
      <4>1. old \in Seq(Round)
        BY <2>1, RoundsTyped
      <4> QED BY <4>1
    <3> HIDE DEF old
    <3>2. /\ Append(old, x)[n + 1] = x
          /\ \A i \in 1 .. n : Append(old, x)[i] = old[i]
      BY <2>4, <3>1, AppendProperties
    <3>3. DOMAIN Append(old, x) = 1 .. n + 1
      BY <2>4, <3>1, AppendProperties
    <3> HIDE DEF n
    <3>4. n + 1 \in 1 .. n + 1 /\ \A i \in 1 .. n : i \in 1 .. n + 1
      BY <3>1
    <3>5. \A i \in 1 .. n + 1 : i \in 1 .. n \/ i = n + 1
      BY <3>1
    <3>6. new.rounds = Append(old, x)
      BY <2>6 DEF old
    <3>7. Signed(new) => (\A i \in 1 .. n : old[i].signer) /\ x.signer
      BY <3>2, <3>3, <3>4, <3>6 DEF Signed
    <3>8. Failed(new) => (\E i \in 1 .. n : old[i].prior = "FAILED") \/ x.prior = "FAILED"
      BY <3>2, <3>3, <3>5, <3>6 DEF Failed
    <3> QED BY <2>4, <3>1, <3>7, <3>8 DEF Signed, Failed, old
  <2>8. Kept(k) => Stands("collect", job[p], pkg[k]) /\ (Signed(pkg[k]) => ~Failed(pkg[k]))
    BY <1>c, <2>1 DEF Good, Clean
  <2>9. Kept(k) /\ Signed(new) => ~Failed(new) /\ job[p].prior # "FAILED"
    BY <2>7, <2>8 DEF Stands
  <2>10. Signed(new) => s = "sign"
    BY <2>7
  <2>11. s = "sign" \/ s = "digest"
    OBVIOUS
  <2> HIDE DEF s
  <2>12. Kept(k) => Stands(s, job[p], new)
    BY <2>9, <2>10, <2>11 DEF Stands, Recording
  <2>13. s \in Finishing /\ pc[p] # "out"
    BY <1>f, <2>1, <2>11
  <2> QED BY <1>p, <2>3, <2>5, <2>9, <2>12, <2>13
<1>6. ASSUME NEW p \in Procs, SignRead(p) PROVE Good'
  <2> DEFINE c == Current(job[p].pkg)
             j == [job[p] EXCEPT !.at = c]
  <2>1. job[p] \in Jobs /\ pc[p] = "sign" /\ c = SealIn(pkg[job[p].pkg])
    BY <1>6, JobOf, CurrentIs DEF SignRead
  <2>2. Goto(p, "sign_write") /\ Work(p, j) /\ UNCHANGED <<pkg, anchors>>
    BY <1>6 DEF SignRead
  <2> HIDE DEF c
  <2>3. j.pkg = job[p].pkg /\ j.at = c /\ j.prior = job[p].prior
    BY <2>1 DEF Jobs
  <2> HIDE DEF j
  <2>4. Kept(j.pkg) => Stands("sign", job[p], pkg[j.pkg])
    BY <1>c, <2>1, <2>3 DEF Good
  <2>5. Kept(j.pkg) => Stands("sign_write", j, pkg[j.pkg])
    BY <2>1, <2>3, <2>4 DEF Stands, Recording
  <2> QED BY <1>f, <1>g, <1>w, <2>1, <2>2, <2>3, <2>5
<1>7. ASSUME NEW p \in Procs, SignWrite(p) PROVE Good'
  <2> DEFINE k == job[p].pkg
             new == [pkg[k] EXCEPT !.sig = job[p].at]
  <2>1. job[p] \in Jobs /\ k \in Pkgs /\ pc[p] = "sign_write" /\ pkg[k] \in Pkg
    BY <1>7, <1>k, JobOf DEF SignWrite
  <2>2. /\ pkg' = [pkg EXCEPT ![k] = new]
        /\ UNCHANGED <<job, anchors, lapses>> /\ Goto(p, "digest")
    BY <1>7 DEF SignWrite
  <2>3. new.rounds = pkg[k].rounds /\ new.sig = job[p].at
    BY <2>1 DEF Pkg
  <2> HIDE DEF new
  <2>4. Kept(k) => Stands("sign_write", job[p], pkg[k]) /\ (Signed(pkg[k]) => ~Failed(pkg[k]))
    BY <1>c, <2>1 DEF Good, Clean
  <2>5. /\ Signed(new) <=> Signed(pkg[k])
        /\ Failed(new) <=> Failed(pkg[k])
        /\ SealIn(new) = SealIn(pkg[k])
    BY <2>3 DEF Signed, Failed, SealIn
  <2>6. Kept(k) => Stands("digest", job[p], new) /\ (Signed(new) => ~Failed(new))
    BY <2>3, <2>4, <2>5 DEF Stands, Recording
  <2>7. "digest" \in Finishing /\ pc[p] # "out"
    BY <1>f, <2>1
  <2> QED BY <1>p, <2>2, <2>6, <2>7
<1>8. ASSUME NEW p \in Procs, Digest(p) PROVE Good'
  <2> DEFINE j == [job[p] EXCEPT !.seal = Current(job[p].pkg)]
  <2>1. job[p] \in Jobs /\ pc[p] = "digest"
    BY <1>8, JobOf DEF Digest
  <2>2. Goto(p, "anchor") /\ Work(p, j) /\ UNCHANGED <<pkg, anchors>>
    BY <1>8 DEF Digest
  <2>3. j.pkg = job[p].pkg /\ j.prior = job[p].prior
    BY <2>1 DEF Jobs
  <2> HIDE DEF j
  <2>4. Kept(j.pkg) => Stands("digest", job[p], pkg[j.pkg])
    BY <1>c, <2>1, <2>3 DEF Good
  <2>5. Kept(j.pkg) => Stands("anchor", j, pkg[j.pkg])
    BY <2>3, <2>4 DEF Stands, Recording
  <2> QED BY <1>f, <1>g, <1>w, <2>1, <2>2, <2>3, <2>5
<1>9. ASSUME NEW p \in Procs, LookForLog(p) PROVE Good'
  <2> DEFINE j == [job[p] EXCEPT !.create = ~anchors.exists]
  <2>1. job[p] \in Jobs /\ pc[p] = "anchor"
    BY <1>9, JobOf DEF LookForLog
  <2>2. Goto(p, "anchor_open") /\ Work(p, j) /\ UNCHANGED <<pkg, anchors>>
    BY <1>9 DEF LookForLog
  <2>3. j.pkg = job[p].pkg /\ j.prior = job[p].prior
    BY <2>1 DEF Jobs
  <2> HIDE DEF j
  <2>4. Kept(j.pkg) => Stands("anchor", job[p], pkg[j.pkg])
    BY <1>c, <2>1, <2>3 DEF Good
  <2>5. Kept(j.pkg) => Stands("anchor_open", j, pkg[j.pkg])
    BY <2>3, <2>4 DEF Stands, Recording
  <2> QED BY <1>f, <1>g, <1>w, <2>1, <2>2, <2>3, <2>5
<1>10. ASSUME NEW p \in Procs, CreateLog(p) PROVE Good'
  <2>1. pc[p] = "anchor_open" /\ job[p].create
    BY <1>10 DEF CreateLog
  <2>2. Goto(p, "anchor_append") /\ Work(p, job[p]) /\ UNCHANGED pkg /\ anchors'.recs = <<>>
    BY <1>10, <1>t DEF CreateLog, Work
  <2>3. anchors.recs = <<>>
    BY <1>h, <2>1
  <2>4. Kept(job[p].pkg) => Stands("anchor_open", job[p], pkg[job[p].pkg])
    BY <1>c, <2>1 DEF Good
  <2>5. Kept(job[p].pkg) => Stands("anchor_append", job[p], pkg[job[p].pkg])
    BY <2>4 DEF Stands, Recording
  <2> QED BY <1>f, <1>g, <1>w, <2>1, <2>2, <2>3, <2>5
<1>11. ASSUME NEW p \in Procs, ContinueLog(p) PROVE Good'
  <2> DEFINE prev == IF anchors.recs = <<>> THEN Genesis ELSE Last(anchors.recs).id
             j == [job[p] EXCEPT !.prev = prev]
  <2>1. job[p] \in Jobs /\ pc[p] = "anchor_open"
    BY <1>11, JobOf DEF ContinueLog
  <2>2. Goto(p, "anchor_append") /\ Work(p, j) /\ UNCHANGED <<pkg, anchors>>
    BY <1>11, <1>h DEF ContinueLog
  <2> HIDE DEF prev
  <2>3. j.pkg = job[p].pkg /\ j.prior = job[p].prior
    BY <2>1 DEF Jobs
  <2> HIDE DEF j
  <2>4. Kept(j.pkg) => Stands("anchor_open", job[p], pkg[j.pkg])
    BY <1>c, <2>1, <2>3 DEF Good
  <2>5. Kept(j.pkg) => Stands("anchor_append", j, pkg[j.pkg])
    BY <2>3, <2>4 DEF Stands, Recording
  <2> QED BY <1>f, <1>g, <1>w, <2>1, <2>2, <2>3, <2>5
<1>12. ASSUME NEW p \in Procs, AppendAnchor(p) PROVE Good'
  <2> DEFINE k == job[p].pkg
             d == job[p].seal
             new == Anchor(k, job[p].round, d, job[p].prev)
             recs == anchors.recs
             n == Len(recs)
             app == Append(recs, new)
  <2>1. job[p] \in Jobs /\ k \in Pkgs /\ pc[p] = "anchor_append"
    BY <1>12, JobOf DEF AppendAnchor
  <2>2. new \in Anchors /\ new.id[1] = k /\ new.digest = d
    BY <2>1, AnchorTyped DEF Jobs, Anchor
  <2>3. job[p].create => recs = <<>>
    BY <1>h, <2>1
  <2>4. anchors' = [anchors EXCEPT !.recs = app]
    BY <1>12, <2>3 DEF AppendAnchor
  <2> HIDE DEF new
  <2>5. recs \in Seq(Anchors) /\ n \in Nat /\ DOMAIN recs = 1 .. n
    BY <1>k
  <2>6. /\ app[n + 1] = new /\ DOMAIN app = 1 .. n + 1
        /\ \A i \in 1 .. n : app[i] = recs[i]
    BY <2>2, <2>5, AppendProperties
  <2>7. anchors'.recs = app
    BY <1>k, <2>4
  <2> HIDE DEF app, n, recs
  <2>8. \A i \in 1 .. n + 1 : i \in 1 .. n \/ i = n + 1
    BY <2>5
  <2>9. n + 1 \in 1 .. n + 1 /\ \A i \in 1 .. n : i \in 1 .. n + 1
    BY <2>5
  <2>10. EndsWith(app, k, d)
    <3>1. n + 1 \in Of(app, k)
      BY <2>2, <2>6, <2>9 DEF Of
    <3>2. \A j \in Of(app, k) : j \in 1 .. n + 1
      BY <2>6 DEF Of
    <3>3. \A j \in Of(app, k) : j <= n + 1
      BY <2>5, <3>2
    <3> QED BY <2>2, <2>6, <3>1, <3>3 DEF EndsWith
  <2>11. ASSUME NEW l, l # k, NEW e, EndsWith(recs, l, e) PROVE EndsWith(app, l, e)
    <3>1. Of(app, l) = Of(recs, l)
      BY <2>2, <2>5, <2>6, <2>8, <2>9, <2>11 DEF Of
    <3>2. \A i \in Of(recs, l) : app[i] = recs[i]
      BY <2>5, <2>6 DEF Of
    <3> QED BY <2>11, <3>1, <3>2 DEF EndsWith
  <2>12. UNCHANGED <<pkg, lapses>>
    BY <1>12 DEF AppendAnchor
  <2>13. /\ pc'[p] = "out"
         /\ \A q \in Procs : q # p => pc'[q] = pc[q] /\ job'[q] = job[q]
    BY <1>12, <1>t DEF AppendAnchor, Goto, Work
  <2>14. ASSUME NEW l \in Pkgs, Kept(l) PROVE Clean(l)'
    <3>1. Clean(l)
      BY <1>c, <2>14 DEF Good
    <3>2. CASE l = k
      <4>1. d = SealIn(pkg[k])
        BY <1>u, <2>1, <2>14, <3>2 DEF LossInv, Owes, Recording
      <4>2. Signed(pkg[k]) => pkg[k].sig = SealIn(pkg[k])
        BY <1>c, <2>1, <2>14, <3>2 DEF Good, Stands, Recording
      <4> QED BY <2>7, <2>10, <2>12, <3>1, <3>2, <4>1, <4>2 DEF Clean
    <3>3. CASE l # k
      <4>1. Idle(l)' => Idle(l)
        BY <2>13, <3>3 DEF Idle
      <4> QED BY <2>7, <2>11, <2>12, <3>1, <3>3, <4>1 DEF Clean, recs
    <3> QED BY <3>2, <3>3
  <2>15. \A q \in Procs : pc'[q] # "out" /\ Kept(job'[q].pkg) => Stands(pc'[q], job'[q], pkg'[job'[q].pkg])
    BY <1>c, <2>12, <2>13 DEF Good
  <2> QED BY <2>12, <2>14, <2>15 DEF Good, Kept
<1>13. ASSUME NEW p \in Procs, Crash(p) \/ Unanchored(p) PROVE Good'
  <2>1. pc[p] \notin Finishing \/ Lapse(job[p].pkg, "unanchored")
    BY <1>13 DEF Crash, Unanchored
  <2>2. pc[p] # "out" /\ job[p].pkg \in Pkgs
    BY <1>13, <1>f, <1>w DEF Crash, Unanchored
  <2>3. pc[p] \notin Finishing \/ lapses'[job[p].pkg] # {}
    BY <1>v, <2>1, <2>2
  <2> QED BY <1>13, <1>o, <2>3 DEF Crash, Unanchored
<1>17. ASSUME NEW p \in Procs, AppendPart(p) PROVE Good'
  BY <1>17, <1>c DEF AppendPart
<1>14. ASSUME NEW k \in Pkgs, Copy(k) PROVE Good'
  <2>1. UNCHANGED <<pkg, pc, job, anchors, lapses>>
    BY <1>14 DEF Copy
  <2> QED BY <1>c, <2>1 DEF Good, Clean, Idle, Kept
<1>15. ASSUME NEW k \in Pkgs, Restore(k) PROVE Good'
  <2>1. lapses'[k] # {} /\ UNCHANGED <<pc, job, anchors>>
    BY <1>15, <1>v DEF Restore
  <2>2. \A l \in Pkgs : l # k => pkg'[l] = pkg[l]
    BY <1>15, <1>k DEF Restore
  <2>3. ASSUME NEW l \in Pkgs, lapses'[l] = {} PROVE Kept(l) /\ pkg'[l] = pkg[l]
    <3>1. l # k
      BY <2>1, <2>3
    <3> QED BY <1>l, <2>2, <2>3, <3>1 DEF Kept
  <2>4. \A l \in Pkgs : Kept(l)' => Clean(l)'
    BY <1>c, <2>1, <2>3 DEF Good, Kept, Clean, Idle
  <2>5. \A q \in Procs : pc[q] # "out" /\ lapses'[job[q].pkg] = {} =>
                            Stands(pc[q], job[q], pkg'[job[q].pkg])
    BY <1>c, <1>w, <2>3 DEF Good
  <2> QED BY <2>1, <2>4, <2>5 DEF Good, Kept
<1>16. CASE UNCHANGED vars
  <2>1. UNCHANGED <<pkg, pc, job, anchors, lapses>>
    BY <1>16 DEF vars
  <2> QED BY <1>c, <2>1 DEF Good, Clean, Idle, Kept
<1> QED BY <1>1, <1>2, <1>3, <1>4, <1>5, <1>6, <1>7, <1>8, <1>9, <1>10, <1>11, <1>12,
           <1>13, <1>14, <1>15, <1>16, <1>17 DEF Next, Finish, Stopped

\* A check of the earlier rounds does not cry wolf (CheckPrior of integrity.go): a case
\* says FAILED of none, if every run of it signed its round and recorded its anchor before
\* the next took its lock, it was not replaced, and the anchors of all cases were recorded
\* one after the other and whole; whatever became of the other cases and their runs.
THEOREM NoFalseAlarm ==
    ASSUME None \notin Pkgs PROVE Spec => []FailedMeansChanged
<1>1. Init => CleanInv
  <2> SUFFICES ASSUME Init PROVE CleanInv
    OBVIOUS
  <2>1. \A k \in Pkgs : ~Failed(pkg[k]) /\ pkg[k].rounds = <<>>
    BY DEF Init, NoPkg, Failed
  <2> QED BY <2>1 DEF Init, CleanInv, Clean
<1>2. CleanInv => FailedMeansChanged
  BY DEF CleanInv, Clean, Kept, Signed, Failed, FailedMeansChanged, AllSigned, SaysFailed
<1>3. Init => ProvableInv /\ ChainInv
  BY ProvableInit, ChainInit
<1>4. SigningInv /\ ProvableInv /\ [Next]_vars => ProvableInv'
  BY ProvableStep
<1>5. SigningInv /\ ProvableInv /\ LossInv /\ [Next]_vars => LossInv'
  BY LossStep
<1>6. SigningInv /\ ProvableInv /\ LossInv /\ ChainInv /\ CleanInv /\ [Next]_vars => CleanInv'
  BY CleanStep
<1> QED BY <1>1, <1>2, <1>3, <1>4, <1>5, <1>6, LossInit, SigningAlways, ChainStep, PTL DEF Spec
=============================================================================
