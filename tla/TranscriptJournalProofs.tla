----------------------- MODULE TranscriptJournalProofs -----------------------
(***************************************************************************)
(* Proofs about TranscriptJournal, for any bytes, any length of the        *)
(* transcript and any number of edits, restarts, polls and failures: the   *)
(* journal mirrors a transcript that is only appended to, the check then   *)
(* reports nothing, and whatever is no longer as journaled it reports.     *)
(***************************************************************************)
EXTENDS TranscriptJournal, SequenceTheorems, TLAPS

Files == [there : BOOLEAN, id : Nat, data : Seq(Data)]
Kinds == {"baseline", "append", "truncate", "replaced", "deleted"}
\* A record that is not of a range is of none.
Records ==
    {r \in [kind : Kinds, off : Nat, bytes : Seq(Data), prefix : Seq(Data)] :
        r.kind \in {"baseline", "append"} \/ r = Mark(r.kind)}

FilesOK == file \in Files /\ edits \in Nat /\ faults \in Nat
WatchOK ==
    /\ offset \in [known : BOOLEAN, at : Nat] /\ to \in Nat
    /\ state \in [known : BOOLEAN, id : Nat, prefix : Seq(Data)]
RecordsOK ==
    /\ journal \in Seq(Records)
    /\ case \in [got : SUBSET Parts, copy : Files, journal : Seq(Records), seen : Nat]
Typed == FilesOK /\ WatchOK /\ RecordsOK

\* p is the beginning of s; the range of r lies in s, with the bytes hashed.
Begins(p, s) == Len(p) <= Len(s) /\ \A k \in 1 .. Len(p) : p[k] = s[k]
Lies(r, s) ==
    /\ r.off + Len(r.bytes) <= Len(s)
    /\ \A k \in 1 .. Len(r.bytes) : s[r.off + k] = r.bytes[k]
-----------------------------------------------------------------------------
LEMMA TakeIs ==
    ASSUME NEW s \in Seq(Data), NEW n \in Nat
    PROVE  /\ Take(s, n) \in Seq(Data) /\ Len(Take(s, n)) <= Len(s) /\ Len(Take(s, n)) <= n
           /\ n <= Len(s) => Len(Take(s, n)) = n
           /\ \A k \in 1 .. Len(Take(s, n)) : Take(s, n)[k] = s[k]
<1> DEFINE m == IF n < Len(s) THEN n ELSE Len(s)
<1>1. m \in Nat /\ m <= Len(s) /\ m <= n /\ (n <= Len(s) => m = n)
  OBVIOUS
<1> HIDE DEF m
<1>2. /\ SubSeq(s, 1, m) \in Seq(Data) /\ Len(SubSeq(s, 1, m)) = m
      /\ \A k \in 1 .. m : SubSeq(s, 1, m)[k] = s[k]
  BY <1>1
<1>3. Take(s, n) = SubSeq(s, 1, m)
  BY DEF Take, m
<1> QED BY <1>1, <1>2, <1>3

\* What Grow reads of a range.
LEMMA ChunkIs ==
    ASSUME NEW s \in Seq(Data), NEW n \in Nat, NEW m \in Nat
    PROVE  LET c == Drop(Take(s, n), m)
           IN  /\ c \in Seq(Data)
               /\ c # <<>> => m + Len(c) <= Len(s)
               /\ \A k \in 1 .. Len(c) : c[k] = s[m + k]
<1> DEFINE t == Take(s, n)
           c == Drop(t, m)
<1>1. t \in Seq(Data) /\ Len(t) <= Len(s) /\ \A k \in 1 .. Len(t) : t[k] = s[k]
  BY TakeIs
<1> HIDE DEF t
<1>2. /\ c \in Seq(Data)
      /\ c # <<>> => m + Len(c) <= Len(t)
      /\ \A k \in 1 .. Len(c) : c[k] = t[m + k]
  <2>1. CASE m >= Len(t)
    <3>1. c = <<>> /\ c \in Seq(Data) /\ Len(c) = 0
      BY <1>1, <2>1 DEF Drop
    <3> QED BY <3>1
  <2>2. CASE ~(m >= Len(t))
    BY <1>1, <2>2 DEF Drop
  <2> QED BY <2>1, <2>2
<1> HIDE DEF c
<1>3. ASSUME NEW k \in 1 .. Len(c) PROVE m + k \in 1 .. Len(t) /\ c # <<>>
  <2>1. c # <<>>
    BY <1>3, EmptySeq
  <2> QED BY <1>1, <1>2, <1>3, <2>1
<1> QED BY <1>1, <1>2, <1>3 DEF t, c

LEMMA BeginsTake ==
    ASSUME NEW p \in Seq(Data), NEW s \in Seq(Data), Begins(p, s)
    PROVE  p = Take(s, Len(p))
<1>0. Len(p) \in Nat /\ Len(p) <= Len(s)
  BY DEF Begins
<1>1. /\ Take(s, Len(p)) \in Seq(Data) /\ Len(Take(s, Len(p))) = Len(p)
      /\ \A k \in 1 .. Len(p) : Take(s, Len(p))[k] = s[k]
  BY <1>0, TakeIs
<1> QED BY <1>1, SeqEqual DEF Begins

LEMMA LiesHolds ==
    ASSUME NEW r \in Records, NEW s \in Seq(Data), Lies(r, s)
    PROVE  Holds(r, s)
<1> DEFINE b == r.bytes
           o == r.off
           t == SubSeq(s, o + 1, o + Len(b))
<1>1. b \in Seq(Data) /\ o \in Nat /\ o + Len(b) <= Len(s)
      /\ \A k \in 1 .. Len(b) : s[o + k] = b[k]
  BY DEF Records, Lies
<1> HIDE DEF b, o
<1>2. /\ t \in Seq(Data) /\ Len(t) = Len(b)
      /\ \A k \in 1 .. Len(b) : t[k] = s[o + k]
  BY <1>1
<1>3. t = b
  BY <1>1, <1>2, SeqEqual
<1> QED BY <1>1, <1>3 DEF Holds, b, o

\* A record appended to the journal is a record there, and the only new one.
LEMMA Recorded ==
    ASSUME journal \in Seq(Records), NEW r \in Records, Journal(r)
    PROVE  /\ journal' \in Seq(Records) /\ journal' # <<>>
           /\ \A i \in DOMAIN journal' :
                 (i \in DOMAIN journal /\ journal'[i] = journal[i]) \/ journal'[i] = r
  BY DEF Journal

\* A record is appended, or the journal is as it was.
LEMMA RecordIs ==
    ASSUME NEW r, Record(r), faults \in Nat
    PROVE  (Journal(r) \/ UNCHANGED journal) /\ faults' \in Nat
  BY DEF Record, Fault

\* Hashing gives a beginning of what was to be hashed.
LEMMA OutcomeIs ==
    ASSUME NEW s \in Seq(Data), NEW o \in Outcomes(s), faults \in Nat, Hashed(s, o)
    PROVE  o.bytes \in Seq(Data) /\ Begins(o.bytes, s) /\ faults' \in Nat
<1>1. faults' \in Nat
  BY DEF Hashed
<1>2. CASE o = Whole(s)
  BY <1>1, <1>2 DEF Whole, Begins
<1>3. CASE o # Whole(s)
  <2>1. PICK n \in 0 .. Len(s) : o.bytes = Take(s, n)
    BY <1>3 DEF Outcomes
  <2> QED BY <1>1, <2>1, TakeIs DEF Begins
<1> QED BY <1>2, <1>3

LEMMA RecIs ==
    /\ \A k \in Kinds : Mark(k) \in Records
    /\ \A k \in {"baseline", "append"}, n \in Nat, b \in Seq(Data), p \in Seq(Data) :
          Rec(k, n, b, p) \in Records
<1>1. <<>> \in Seq(Data) /\ 0 \in Nat
  OBVIOUS
<1>2. ASSUME NEW k \in Kinds PROVE Mark(k) \in Records
  <2>1. Mark(k) = [kind |-> k, off |-> 0, bytes |-> <<>>, prefix |-> <<>>]
    BY DEF Mark, Rec
  <2>2. Mark(k).kind = k
    BY <2>1
  <2> QED BY <1>1, <2>1, <2>2 DEF Records
<1>3. ASSUME NEW k \in {"baseline", "append"}, NEW n \in Nat, NEW b \in Seq(Data), NEW p \in Seq(Data)
      PROVE  Rec(k, n, b, p) \in Records
  BY DEF Records, Rec, Kinds
<1> QED BY <1>2, <1>3
-----------------------------------------------------------------------------
LEMMA TypedInit == Init => Typed
  BY DEF Init, Typed, FilesOK, WatchOK, RecordsOK, Files, NoFile, NoOffset, NoState, Parts

LEMMA TypedStep ==
    ASSUME Typed, [Next]_vars
    PROVE  Typed'
<1> USE DEF Typed
<1>0. /\ file \in Files /\ file.data \in Seq(Data) /\ file.id \in Nat /\ Size \in Nat
      /\ state.prefix \in Seq(Data) /\ From \in Nat
  BY DEF FilesOK, WatchOK, Files, Size, From
<1>a. faults' \in Nat
  <2>0. faults \in Nat
    BY DEF FilesOK
  <2>1. CASE Baseline
    <3>1. Take(file.data, MaxBaseline) \in Seq(Data)
      BY <1>0, TakeIs, BaselineAssumption
    <3>2. CASE \E o \in Outcomes(Take(file.data, MaxBaseline)) : Hashed(Take(file.data, MaxBaseline), o)
      BY <2>0, <3>1, <3>2, OutcomeIs
    <3> QED BY <2>0, <2>1, <3>2 DEF Baseline, Fault
  <2>2. CASE GrowRead
    <3> DEFINE chunk == Drop(Take(file.data, to), From)
    <3>1. chunk \in Seq(Data)
      BY <1>0, ChunkIs DEF WatchOK
    <3>2. CASE \E o \in Outcomes(chunk) : Hashed(chunk, o)
      BY <2>0, <3>1, <3>2, OutcomeIs
    <3> QED BY <2>0, <2>2, <3>2 DEF GrowRead
  <2>3. CASE PollShrunk \/ PollGone \/ GrowStat
    BY <2>0, <2>3, RecordIs DEF PollShrunk, PollGone, GrowStat, Fault
  <2>4. CASE UNCHANGED faults
    BY <2>0, <2>4
  <2> QED BY <2>1, <2>2, <2>3, <2>4 DEF Next, AgentWrites, Edit, Start, Monitor, BaselineScan,
       PollGrown, Stop, CollectTranscript, CollectJournal, vars
<1>1. FilesOK'
  <2>1. ASSUME NEW d \in Data, AgentWrites(d) PROVE FilesOK'
    <3>1. CASE file' = [file EXCEPT !.data = Append(@, d)]
      <4>1. Append(file.data, d) \in Seq(Data)
        BY <1>0
      <4>2. file' \in Files
        BY <1>0, <3>1, <4>1 DEF Files
      <4> QED BY <1>a, <2>1, <4>2 DEF AgentWrites, FilesOK
    <3>2. CASE \E id \in Inodes : file' = [there |-> TRUE, id |-> id, data |-> <<d>>]
      BY <1>a, <2>1, <3>2 DEF AgentWrites, FilesOK, Files, Inodes
    <3> QED BY <1>a, <2>1, <3>1, <3>2 DEF AgentWrites
  <2>2. CASE Edit
    <3>0. edits' \in Nat
      BY <2>2 DEF Edit, FilesOK
    <3>1. ASSUME NEW i \in 1 .. Size, NEW d \in Data, file' = [file EXCEPT !.data[i] = d]
          PROVE  file' \in Files
      <4> DEFINE s == [file.data EXCEPT ![i] = d]
      <4>1. s \in Seq(Data)
        BY <1>0, <3>1, ExceptSeq DEF Size
      <4>2. file' = [file EXCEPT !.data = s]
        BY <3>1
      <4> QED BY <1>0, <4>1, <4>2 DEF Files
    <3>2. ASSUME NEW n \in 0 .. Size - 1, file' = [file EXCEPT !.data = Take(@, n)]
          PROVE  file' \in Files
      <4>1. Take(file.data, n) \in Seq(Data)
        <5>1. n \in Nat
          BY <1>0
        <5> QED BY <1>0, <5>1, TakeIs
      <4> QED BY <1>0, <3>2, <4>1 DEF Files
    <3>3. ASSUME NEW id \in Inodes, NEW d \in Data, NEW n \in 0 .. Size,
                 file' = [there |-> TRUE, id |-> id, data |-> <<d>> \o SubSeq(file.data, 2, n)]
          PROVE  file' \in Files
      <4>1. SubSeq(file.data, 2, n) \in Seq(Data) /\ <<d>> \in Seq(Data)
        BY <1>0 DEF Size
      <4>2. <<d>> \o SubSeq(file.data, 2, n) \in Seq(Data)
        BY <4>1
      <4> QED BY <3>3, <4>2 DEF Files, Inodes
    <3>4. ASSUME file' = NoFile PROVE file' \in Files
      BY <3>4 DEF Files, NoFile
    <3> QED BY <1>a, <2>2, <3>0, <3>1, <3>2, <3>3, <3>4 DEF Edit, FilesOK
  <2>3. CASE UNCHANGED <<file, edits>>
    BY <1>a, <2>3 DEF FilesOK
  <2> QED BY <2>1, <2>2, <2>3, WrittenAssumption DEF Next, Start, Monitor, BaselineScan, Baseline, PollGrown, PollShrunk,
       PollGone, GrowStat, GrowRead, Stop, CollectTranscript, CollectJournal, vars
<1>2. WatchOK' /\ RecordsOK'
  <2> USE DEF WatchOK, RecordsOK
  <2>0. /\ \A k \in Kinds : Mark(k) \in Records
        /\ "truncate" \in Kinds /\ "deleted" \in Kinds /\ "replaced" \in Kinds
    BY RecIs DEF Kinds
  <2>1. ASSUME NEW d \in Data, AgentWrites(d) PROVE WatchOK' /\ RecordsOK'
    BY <2>1 DEF AgentWrites
  <2>2. CASE Edit \/ Start \/ UNCHANGED vars
    BY <2>2 DEF Edit, Start, vars
  <2>3. CASE BaselineScan
    <3>1. Known(Size) \in [known : BOOLEAN, at : Nat]
      BY <1>0 DEF Known
    <3> QED BY <2>3, <3>1 DEF BaselineScan
  <2>4. CASE Baseline
    <3> DEFINE start == Take(file.data, MaxBaseline)
    <3>0. start \in Seq(Data) /\ faults \in Nat
      BY <1>0, TakeIs, BaselineAssumption DEF FilesOK
    <3>1. CASE UNCHANGED <<state, journal>>
      BY <2>4, <3>1 DEF Baseline
    <3>2. ASSUME NEW o \in Outcomes(start), Hashed(start, o),
                 state' = [known |-> TRUE, id |-> file.id, prefix |-> o.bytes],
                 IF o.kept THEN Journal(Rec("baseline", 0, o.bytes, o.bytes)) ELSE UNCHANGED journal
          PROVE  WatchOK' /\ RecordsOK'
      <4>1. o.bytes \in Seq(Data)
        BY <3>0, <3>2, OutcomeIs
      <4>2. Rec("baseline", 0, o.bytes, o.bytes) \in Records
        BY <4>1, RecIs
      <4>3. journal' \in Seq(Records)
        BY <3>2, <4>2, Recorded
      <4>4. state' \in [known : BOOLEAN, id : Nat, prefix : Seq(Data)]
        BY <1>0, <3>2, <4>1
      <4> QED BY <2>4, <4>3, <4>4 DEF Baseline
    <3> QED BY <2>4, <3>1, <3>2 DEF Baseline
  <2>5. CASE PollGrown
    BY <1>0, <2>5 DEF PollGrown
  <2>6. CASE PollShrunk
    <3>1. journal' \in Seq(Records)
      BY <2>0, <2>6, Recorded, RecordIs DEF PollShrunk, FilesOK
    <3> QED BY <1>0, <2>6, <3>1 DEF PollShrunk, Known, NoState
  <2>7. CASE PollGone
    <3>1. journal' \in Seq(Records)
      BY <2>0, <2>7, Recorded, RecordIs DEF PollGone, FilesOK
    <3> QED BY <2>7, <3>1 DEF PollGone, NoOffset, NoState
  <2>8. CASE GrowStat
    <3>1. journal' \in Seq(Records)
      BY <2>0, <2>8, Recorded, RecordIs DEF GrowStat, FilesOK
    <3>2. /\ Known(to) \in [known : BOOLEAN, at : Nat]
          /\ [known |-> TRUE, id |-> file.id, prefix |-> <<>>] \in
               [known : BOOLEAN, id : Nat, prefix : Seq(Data)]
      BY <1>0, EmptySeq DEF Known
    <3>3. to' \in Nat /\ UNCHANGED case
      BY <2>8 DEF GrowStat
    <3>4. offset' \in {offset, Known(to)} /\ state' \in {state, [known |-> TRUE, id |-> file.id, prefix |-> <<>>]}
      BY <2>8 DEF GrowStat
    <3> QED BY <3>1, <3>2, <3>3, <3>4
  <2>9. CASE GrowRead
    <3> DEFINE chunk == Drop(Take(file.data, to), From)
    <3>1. chunk \in Seq(Data)
      BY <1>0, ChunkIs
    <3> HIDE DEF chunk
    <3>2. offset' = Known(to) /\ to' = 0 /\ UNCHANGED case /\ faults \in Nat
      BY <2>9 DEF GrowRead, FilesOK
    <3>3. CASE UNCHANGED <<state, journal>>
      BY <3>2, <3>3 DEF Known
    <3>4. ASSUME NEW o \in Outcomes(chunk), Hashed(chunk, o),
                 state' = [state EXCEPT !.prefix = state.prefix \o o.bytes],
                 IF o.kept /\ o.bytes # <<>>
                 THEN Journal(Rec("append", From, o.bytes, state.prefix \o o.bytes))
                 ELSE UNCHANGED journal
          PROVE  WatchOK' /\ RecordsOK'
      <4>1. o.bytes \in Seq(Data)
        BY <3>1, <3>2, <3>4, OutcomeIs
      <4>2. state.prefix \o o.bytes \in Seq(Data)
        BY <1>0, <4>1
      <4>3. Rec("append", From, o.bytes, state.prefix \o o.bytes) \in Records
        BY <1>0, <4>1, <4>2, RecIs
      <4>4. journal' \in Seq(Records)
        BY <3>4, <4>3, Recorded
      <4> QED BY <3>2, <3>4, <4>2, <4>4 DEF Known
    <3> QED BY <2>9, <3>3, <3>4 DEF GrowRead, chunk
  <2>10. CASE Stop
    BY <2>10 DEF Stop, NoOffset, NoState
  <2>11. CASE CollectTranscript
    <3>1. Len(journal) \in Nat
      OBVIOUS
    <3> QED BY <1>0, <2>11, <3>1 DEF CollectTranscript, Parts
  <2>12. CASE CollectJournal
    BY <2>12 DEF CollectJournal, Parts
  <2> QED BY <2>1, <2>2, <2>3, <2>4, <2>5, <2>6, <2>7, <2>8, <2>9, <2>10, <2>11, <2>12, WrittenAssumption
     DEF Next, Monitor
<1> QED BY <1>1, <1>2

\* Only an edit counts as one.
LEMMA NoEdits ==
    ASSUME Typed, [Next]_vars, edits' = 0
    PROVE  edits = 0 /\ ~Edit
<1>1. CASE Edit
  BY <1>1 DEF Edit, Typed, FilesOK
<1>2. CASE ~Edit
  <2>1. UNCHANGED edits
    BY <1>2 DEF Next, AgentWrites, Start, Monitor, BaselineScan, Baseline, PollGrown, PollShrunk,
       PollGone, GrowStat, GrowRead, Stop, CollectTranscript, CollectJournal, vars
  <2> QED BY <1>2, <2>1
<1> QED BY <1>1, <1>2
-----------------------------------------------------------------------------
\* While nothing edits the transcript: every record is of a range of it as it is
\* now, and what the monitor knows of it is not ahead of it.
Ranged(r) ==
    /\ r.kind \in {"baseline", "append"}
    /\ Begins(r.prefix, file.data) /\ Lies(r, r.prefix)
    /\ Len(r.prefix) = r.off + Len(r.bytes)
Mirrors ==
    /\ \A i \in DOMAIN journal : Ranged(journal[i])
    /\ journal # <<>> => file.there
WatchesIt ==
    /\ state.known => file.there /\ state.id = file.id
    /\ ~state.known => state.prefix = <<>>
    /\ Begins(state.prefix, file.data)
    /\ offset.known => file.there /\ offset.at <= Size
    /\ pc \in {"baseline", "stat", "read"} => file.there
    /\ pc \in {"stat", "read"} => to <= Size
    /\ pc = "read" => state.known
MirrorInv == edits = 0 => Mirrors /\ WatchesIt

LEMMA BeginsEmpty ==
    ASSUME NEW s \in Seq(Data)
    PROVE  Begins(<<>>, s) /\ Begins(s, s)
  BY EmptySeq DEF Begins

LEMMA BeginsOn ==
    ASSUME NEW p \in Seq(Data), NEW s \in Seq(Data), NEW t \in Seq(Data), Begins(p, s), Begins(s, t)
    PROVE  Begins(p, t)
  BY DEF Begins

LEMMA LiesOn ==
    ASSUME NEW r \in Records, NEW s \in Seq(Data), NEW t \in Seq(Data), Lies(r, s), Begins(s, t)
    PROVE  Lies(r, t)
<1>1. r.off \in Nat /\ Len(r.bytes) \in Nat
  BY DEF Records
<1>2. Len(s) \in Nat /\ Len(t) \in Nat /\ Len(s) <= Len(t) /\ r.off + Len(r.bytes) <= Len(s)
  BY DEF Lies, Begins
<1>3. \A k \in 1 .. Len(r.bytes) : r.off + k \in 1 .. Len(s)
  BY <1>1, <1>2
<1>4. \A k \in 1 .. Len(r.bytes) : t[r.off + k] = r.bytes[k]
  BY <1>3 DEF Lies, Begins
<1> QED BY <1>1, <1>2, <1>4 DEF Lies

\* The agent's own writes leave what was there.
LEMMA OnlyGrows ==
    ASSUME Typed, NEW d \in Data, AgentWrites(d), file.there
    PROVE  file'.there /\ file'.id = file.id /\ Begins(file.data, file'.data)
<1>1. file.data \in Seq(Data)
  BY DEF Typed, FilesOK, Files
<1>2. Begins(file.data, Append(file.data, d))
  BY <1>1 DEF Begins
<1>3. file' = [file EXCEPT !.data = Append(file.data, d)]
  BY DEF AgentWrites
<1> QED BY <1>2, <1>3 DEF Typed, FilesOK, Files

LEMMA MirrorInit == Init => MirrorInv
<1> SUFFICES ASSUME Init PROVE MirrorInv
  OBVIOUS
<1>1. /\ journal = <<>> /\ ~state.known /\ state.prefix = <<>> /\ ~offset.known /\ pc = "down"
      /\ file.data = <<>>
  BY DEF Init, NoState, NoOffset, NoFile
<1>2. Begins(<<>>, <<>>)
  BY BeginsEmpty, EmptySeq
<1> QED BY <1>1, <1>2 DEF MirrorInv, Mirrors, WatchesIt

LEMMA MirrorStep ==
    ASSUME Typed, Typed', MirrorInv, [Next]_vars
    PROVE  MirrorInv'
<1> SUFFICES ASSUME edits' = 0 PROVE Mirrors' /\ WatchesIt'
  BY DEF MirrorInv
<1>0. /\ edits = 0 /\ ~Edit /\ Mirrors /\ WatchesIt
      /\ file.data \in Seq(Data) /\ Size \in Nat /\ file'.data \in Seq(Data)
      /\ state.prefix \in Seq(Data) /\ From \in Nat /\ to \in Nat /\ offset.at \in Nat
      /\ \A i \in DOMAIN journal : journal[i] \in Records
      /\ journal \in Seq(Records)
  <2>1. edits = 0 /\ ~Edit
    BY NoEdits
  <2>2. Mirrors /\ WatchesIt
    BY <2>1 DEF MirrorInv
  <2>3. file.data \in Seq(Data) /\ file'.data \in Seq(Data) /\ Size \in Nat
    BY DEF Typed, FilesOK, Files, Size
  <2>4. state.prefix \in Seq(Data) /\ From \in Nat /\ to \in Nat /\ offset.at \in Nat
    BY DEF Typed, WatchOK, From
  <2>5. journal \in Seq(Records)
    BY DEF Typed, RecordsOK
  <2>6. \A i \in DOMAIN journal : journal[i] \in Records
    BY <2>5
  <2> QED BY <2>1, <2>2, <2>3, <2>4, <2>5, <2>6
<1>1. \A i \in DOMAIN journal : journal[i].prefix \in Seq(Data)
  BY <1>0 DEF Records
\* The journal keeps its records, and gets one that is of a range.
<1>2. ASSUME UNCHANGED file, UNCHANGED journal PROVE Mirrors'
  BY <1>0, <1>2 DEF Mirrors, Ranged
<1>3. ASSUME UNCHANGED file, file.there, NEW r \in Records, Ranged(r), Journal(r)
      PROVE  Mirrors'
  <2>1. \A i \in DOMAIN journal' : Ranged(journal'[i])
    BY <1>0, <1>3, Recorded DEF Mirrors
  <2> QED BY <1>3, <2>1 DEF Mirrors, Ranged
<1>4. ASSUME NEW d \in Data, AgentWrites(d) PROVE Mirrors' /\ WatchesIt'
  <2>1. UNCHANGED <<offset, state, journal, pc, to>>
    BY <1>4 DEF AgentWrites
  <2>2. CASE file.there
    <3>1. file'.there /\ file'.id = file.id /\ Begins(file.data, file'.data)
      BY <1>4, <2>2, OnlyGrows
    <3>2. ASSUME NEW p \in Seq(Data), Begins(p, file.data) PROVE Begins(p, file'.data)
      BY <1>0, <3>1, <3>2, BeginsOn
    <3>3. Mirrors'
      BY <1>0, <1>1, <2>1, <3>1, <3>2 DEF Mirrors, Ranged
    <3>4. Begins(state.prefix, file'.data)
      BY <1>0, <3>2 DEF WatchesIt
    <3>5. Size' \in Nat /\ Size <= Size'
      BY <1>0, <3>1 DEF Begins, Size
    <3> QED BY <1>0, <2>1, <3>1, <3>3, <3>4, <3>5 DEF WatchesIt
  <2>3. CASE ~file.there
    <3>1. /\ journal = <<>> /\ ~state.known /\ ~offset.known /\ state.prefix = <<>>
          /\ pc \notin {"baseline", "stat", "read"}
      BY <1>0, <2>3 DEF Mirrors, WatchesIt
    <3>2. Begins(<<>>, file'.data)
      BY <1>0, BeginsEmpty
    <3> QED BY <2>1, <3>1, <3>2 DEF Mirrors, WatchesIt
  <2> QED BY <2>2, <2>3
<1>5. CASE Start \/ UNCHANGED vars \/ CollectTranscript \/ CollectJournal
  <2>1. UNCHANGED <<file, offset, state, journal, to>> /\ pc' \in {pc, "scan"}
    BY <1>5 DEF Start, Goto, vars, CollectTranscript, CollectJournal
  <2> QED BY <1>0, <1>2, <2>1 DEF WatchesIt, Size
<1>6. CASE BaselineScan
  <2>1. UNCHANGED <<file, state, journal, to>>
    BY <1>6 DEF BaselineScan
  <2>2. \/ file.there /\ offset' = Known(Size) /\ pc' = "baseline"
        \/ UNCHANGED offset /\ pc' = "poll"
    BY <1>6 DEF BaselineScan, Goto
  <2> QED BY <1>0, <1>2, <2>1, <2>2 DEF WatchesIt, Size, Known
<1>7. CASE Baseline
  <2> DEFINE start == Take(file.data, MaxBaseline)
  <2>1. file.there /\ UNCHANGED <<file, offset, to>> /\ pc' = "poll"
    BY <1>0, <1>7 DEF Baseline, Goto, WatchesIt
  <2>2. start \in Seq(Data) /\ Begins(start, file.data) /\ faults \in Nat
    <3>1. faults \in Nat /\ MaxBaseline \in Nat
      BY BaselineAssumption DEF Typed, FilesOK
    <3> QED BY <1>0, <3>1, TakeIs DEF Begins
  <2> HIDE DEF start
  <2>3. CASE UNCHANGED <<state, journal>>
    BY <1>0, <1>2, <2>1, <2>3 DEF WatchesIt, Size
  <2>4. ASSUME NEW o \in Outcomes(start), Hashed(start, o),
               state' = [known |-> TRUE, id |-> file.id, prefix |-> o.bytes],
               IF o.kept THEN Journal(Rec("baseline", 0, o.bytes, o.bytes)) ELSE UNCHANGED journal
        PROVE  Mirrors' /\ WatchesIt'
    <3>1. o.bytes \in Seq(Data) /\ Begins(o.bytes, start)
      BY <2>2, <2>4, OutcomeIs
    <3>2. Begins(o.bytes, file.data)
      BY <1>0, <2>2, <3>1, BeginsOn
    <3>3. Rec("baseline", 0, o.bytes, o.bytes) \in Records
      BY <3>1, RecIs
    <3>4. Ranged(Rec("baseline", 0, o.bytes, o.bytes))
      BY <3>1, <3>2 DEF Ranged, Rec, Lies
    <3>5. Mirrors'
      BY <1>2, <1>3, <2>1, <2>4, <3>3, <3>4
    <3> QED BY <1>0, <2>1, <2>4, <3>2, <3>5 DEF WatchesIt, Size
  <2> QED BY <1>7, <2>1, <2>3, <2>4 DEF Baseline, start
<1>8. CASE PollGrown
  <2>1. file.there /\ UNCHANGED <<file, offset, state, journal>> /\ pc' = "stat" /\ to' = Size
    BY <1>8 DEF PollGrown, Goto
  <2> QED BY <1>0, <1>2, <2>1 DEF WatchesIt, Size
\* Nothing shrinks, and nothing goes.
<1>9. CASE PollShrunk \/ PollGone
  BY <1>0, <1>9 DEF PollShrunk, PollGone, WatchesIt
<1>10. CASE GrowStat
  <2>1. file.there /\ to <= Size /\ UNCHANGED file /\ pc = "stat"
    BY <1>0, <1>10 DEF GrowStat, WatchesIt
  <2>2. UNCHANGED journal
    BY <1>0, <1>10, <2>1 DEF GrowStat, WatchesIt
  <2>3. CASE pc' = "poll"
    <3>1. UNCHANGED state /\ offset' = Known(to) /\ to' = 0
      BY <1>10, <2>3 DEF GrowStat, Goto
    <3> QED BY <1>0, <1>2, <2>1, <2>2, <2>3, <3>1 DEF WatchesIt, Size, Known
  <2>4. CASE pc' = "read"
    <3>1. /\ UNCHANGED <<offset, to>>
          /\ \/ state.known /\ UNCHANGED state
             \/ state' = [known |-> TRUE, id |-> file.id, prefix |-> <<>>]
      BY <1>10, <2>4 DEF GrowStat, Goto
    <3>2. Begins(<<>>, file.data)
      BY <1>0, BeginsEmpty
    <3> QED BY <1>0, <1>2, <2>1, <2>2, <2>4, <3>1, <3>2 DEF WatchesIt, Size
  <2> QED BY <1>10, <2>3, <2>4 DEF GrowStat, Goto
<1>11. CASE GrowRead
  <2> DEFINE chunk == Drop(Take(file.data, to), From)
  <2>1. /\ pc = "read" /\ UNCHANGED file /\ offset' = Known(to) /\ to' = 0 /\ pc' = "poll"
        /\ \/ UNCHANGED <<state, journal>>
           \/ /\ chunk # <<>>
              /\ \E o \in Outcomes(chunk) :
                    /\ state' = [state EXCEPT !.prefix = state.prefix \o o.bytes]
                    /\ IF o.kept /\ o.bytes # <<>>
                       THEN Journal(Rec("append", From, o.bytes, state.prefix \o o.bytes))
                       ELSE UNCHANGED journal
                    /\ Hashed(chunk, o)
    BY <1>11 DEF GrowRead, Goto
  <2>2. /\ chunk \in Seq(Data)
        /\ chunk # <<>> => From + Len(chunk) <= Len(file.data)
        /\ \A k \in 1 .. Len(chunk) : chunk[k] = file.data[From + k]
    BY <1>0, ChunkIs
  <2> HIDE DEF chunk
  <2>3. file.there /\ to <= Size /\ Begins(state.prefix, file.data)
    BY <1>0, <2>1 DEF WatchesIt
  <2>4. CASE UNCHANGED <<state, journal>>
    BY <1>0, <1>2, <2>1, <2>3, <2>4 DEF WatchesIt, Known, Size
  <2>5. ASSUME chunk # <<>>, NEW o \in Outcomes(chunk), Hashed(chunk, o),
               state' = [state EXCEPT !.prefix = state.prefix \o o.bytes],
               IF o.kept /\ o.bytes # <<>>
               THEN Journal(Rec("append", From, o.bytes, state.prefix \o o.bytes))
               ELSE UNCHANGED journal
        PROVE  Mirrors' /\ WatchesIt'
    <3> DEFINE b   == o.bytes
               all == state.prefix \o b
    <3>1. b \in Seq(Data) /\ Begins(b, chunk)
      BY <2>2, <2>5, OutcomeIs DEF Typed, FilesOK
    <3>2. /\ state' = [state EXCEPT !.prefix = all]
          /\ Journal(Rec("append", From, b, all)) \/ UNCHANGED journal
      BY <2>5
    <3> HIDE DEF b
    <3>3. /\ all \in Seq(Data) /\ Len(all) = From + Len(b)
          /\ \A k \in 1 .. Len(all) : IF k <= From THEN all[k] = state.prefix[k] ELSE all[k] = b[k - From]
      BY <1>0, <3>1 DEF From
    <3> HIDE DEF all
    <3>4. /\ From + Len(b) <= Len(file.data)
          /\ \A k \in 1 .. Len(b) : b[k] = file.data[From + k]
      BY <1>0, <2>2, <2>5, <3>1 DEF Begins
    <3>5. Begins(all, file.data)
      <4>1. Len(all) <= Len(file.data)
        BY <3>3, <3>4
      <4>2. ASSUME NEW k \in 1 .. Len(all) PROVE all[k] = file.data[k]
        <5>1. CASE k <= From
          BY <1>0, <2>3, <3>3, <5>1 DEF Begins, From
        <5>2. CASE ~(k <= From)
          <6>1. k - From \in 1 .. Len(b) /\ From + (k - From) = k
            BY <1>0, <3>1, <3>3, <5>2
          <6> QED BY <3>3, <3>4, <5>2, <6>1
        <5> QED BY <5>1, <5>2
      <4> QED BY <4>1, <4>2 DEF Begins
    <3>6. WatchesIt'
      <4>1. state'.known = state.known /\ state'.id = state.id /\ state'.prefix = all
        BY <3>2 DEF Typed, WatchOK
      <4> QED BY <1>0, <2>1, <2>3, <3>5, <4>1 DEF WatchesIt, Known, Size
    <3>7. CASE UNCHANGED journal
      BY <1>2, <2>1, <3>6, <3>7
    <3>8. CASE Journal(Rec("append", From, b, all))
      <4>1. Rec("append", From, b, all) \in Records
        BY <1>0, <3>1, <3>3, RecIs
      <4>2. Lies(Rec("append", From, b, all), all)
        <5>1. ASSUME NEW k \in 1 .. Len(b) PROVE all[From + k] = b[k]
          <6>1. From + k \in 1 .. Len(all) /\ ~(From + k <= From) /\ (From + k) - From = k
            BY <1>0, <3>1, <3>3
          <6> QED BY <3>3, <6>1
        <5> QED BY <1>0, <3>1, <3>3, <5>1 DEF Lies, Rec
      <4>3. Ranged(Rec("append", From, b, all))
        BY <3>3, <3>5, <4>2 DEF Ranged, Rec
      <4> QED BY <1>3, <2>1, <2>3, <3>6, <3>8, <4>1, <4>3
    <3> QED BY <3>2, <3>7, <3>8
  <2> QED BY <2>1, <2>4, <2>5
<1>12. CASE Stop
  <2>1. UNCHANGED <<file, journal>> /\ offset' = NoOffset /\ state' = NoState /\ pc' = "down"
    BY <1>12 DEF Stop, Goto
  <2>2. Begins(<<>>, file.data)
    BY <1>0, BeginsEmpty
  <2> QED BY <1>2, <2>1, <2>2 DEF WatchesIt, NoOffset, NoState
<1> QED BY <1>0, <1>4, <1>5, <1>6, <1>7, <1>8, <1>9, <1>10, <1>11, <1>12, WrittenAssumption
     DEF Next, Monitor

\* The running hash of an append-only transcript is that of its own prefix, and
\* the ranges leave no gap (journal.Grow), however large the file has become
\* between the watcher's look and the journal's.
THEOREM GrowthMirrored == Spec => []JournalMirrors
<1>1. Init => Typed /\ MirrorInv
  BY TypedInit, MirrorInit
<1>2. Typed /\ MirrorInv /\ [Next]_vars => (Typed /\ MirrorInv)'
  BY TypedStep, MirrorStep
<1>3. Typed /\ MirrorInv => JournalMirrors
  <2> SUFFICES ASSUME Typed, MirrorInv, edits = 0, NEW i \in DOMAIN journal
               PROVE  /\ journal[i].prefix = Take(file.data, Len(journal[i].prefix))
                      /\ Len(journal[i].prefix) = journal[i].off + Len(journal[i].bytes)
    BY DEF JournalMirrors
  <2>1. journal[i] \in Records /\ Ranged(journal[i]) /\ file.data \in Seq(Data)
    BY DEF MirrorInv, Mirrors, Typed, RecordsOK, FilesOK, Files
  <2>2. journal[i].prefix \in Seq(Data)
    BY <2>1 DEF Records
  <2> QED BY <2>1, <2>2, BeginsTake DEF Ranged
<1> QED BY <1>1, <1>2, <1>3, PTL DEF Spec
-----------------------------------------------------------------------------
\* The copies, while nothing edits the transcript: that of the journal is what
\* the journal was, and that of the transcript holds all that was recorded before
\* it was taken.
Copied ==
    /\ "journal" \in case.got =>
          \A i \in DOMAIN case.journal : i \in DOMAIN journal /\ case.journal[i] = journal[i]
    /\ "transcript" \in case.got =>
          \A i \in 1 .. case.seen :
              i \in DOMAIN journal /\ Lies(journal[i], case.copy.data) /\ case.copy.there
CopyInv == edits = 0 => Copied

LEMMA CopyInit == Init => CopyInv
  BY DEF Init, CopyInv, Copied

\* The journal only grows.
LEMMA JournalGrows ==
    ASSUME Typed, [Next]_vars
    PROVE  \A i \in DOMAIN journal : i \in DOMAIN journal' /\ journal'[i] = journal[i]
<1>1. UNCHANGED journal \/ \E r : Journal(r)
  BY DEF Next, AgentWrites, Edit, Start, Monitor, BaselineScan, Baseline, PollGrown, PollShrunk,
     PollGone, GrowStat, GrowRead, Stop, CollectTranscript, CollectJournal, vars, Record
<1>2. ASSUME NEW r, Journal(r), NEW i \in DOMAIN journal
      PROVE  i \in DOMAIN journal' /\ journal'[i] = journal[i]
  BY <1>2 DEF Journal, Typed, RecordsOK
<1> QED BY <1>1, <1>2

LEMMA CopyStep ==
    ASSUME Typed, Typed', MirrorInv, CopyInv, [Next]_vars
    PROVE  CopyInv'
<1> SUFFICES ASSUME edits' = 0 PROVE Copied'
  BY DEF CopyInv
<1>0. edits = 0 /\ Copied /\ Mirrors
  <2>1. edits = 0
    BY NoEdits
  <2> QED BY <2>1 DEF CopyInv, MirrorInv
<1>1. \A i \in DOMAIN journal : i \in DOMAIN journal' /\ journal'[i] = journal[i]
  BY JournalGrows
<1>2. CASE UNCHANGED case
  BY <1>0, <1>1, <1>2 DEF Copied
<1>3. CASE CollectTranscript
  <2>1. /\ case' = [case EXCEPT !.got = @ \cup {"transcript"}, !.copy = file, !.seen = Len(journal)]
        /\ UNCHANGED journal
    BY <1>3 DEF CollectTranscript
  <2>2. /\ case'.copy = file /\ case'.journal = case.journal /\ case'.seen = Len(journal)
        /\ "journal" \in case'.got => "journal" \in case.got
    BY <2>1 DEF Typed, RecordsOK
  <2>3. ASSUME NEW i \in 1 .. Len(journal)
        PROVE  i \in DOMAIN journal /\ Lies(journal[i], file.data) /\ file.there
    <3>0. i \in DOMAIN journal /\ journal # <<>>
      BY <2>3 DEF Typed, RecordsOK
    <3>1. journal[i] \in Records /\ Ranged(journal[i]) /\ file.data \in Seq(Data)
      BY <1>0, <3>0 DEF Mirrors, Typed, RecordsOK, FilesOK, Files
    <3>2. journal[i].prefix \in Seq(Data)
      BY <3>1 DEF Records
    <3> QED BY <1>0, <3>0, <3>1, <3>2, LiesOn DEF Ranged, Mirrors
  <2> QED BY <1>0, <2>1, <2>2, <2>3 DEF Copied
<1>4. CASE CollectJournal
  <2>1. /\ case' = [case EXCEPT !.got = @ \cup {"journal"}, !.journal = journal]
        /\ UNCHANGED journal
    BY <1>4 DEF CollectJournal
  <2>2. /\ case'.copy = case.copy /\ case'.journal = journal /\ case'.seen = case.seen
        /\ "transcript" \in case'.got => "transcript" \in case.got
    BY <2>1 DEF Typed, RecordsOK
  <2> QED BY <1>0, <2>1, <2>2 DEF Copied
<1> QED BY <1>2, <1>3, <1>4 DEF Next, AgentWrites, Edit, Start, Monitor, BaselineScan, Baseline,
     PollGrown, PollShrunk, PollGone, GrowStat, GrowRead, Stop, vars

\* Without a record that resets the file, every range is checked.
LEMMA NoReset ==
    ASSUME NEW rs \in Seq(Records), \A i \in DOMAIN rs : ~Resets(rs[i].kind)
    PROVE  LastReset(rs) = 0
<1>1. 0 \in 0 .. Len(rs) /\ \A i \in 0 .. Len(rs) : i # 0 => i \in DOMAIN rs
  OBVIOUS
<1> DEFINE P(i) == /\ i = 0 \/ Resets(rs[i].kind)
                   /\ \A j \in DOMAIN rs : Resets(rs[j].kind) => j <= i
<1>2. P(0)
  OBVIOUS
<1>3. \A i \in 0 .. Len(rs) : P(i) => i = 0
  BY <1>1
<1>4. LastReset(rs) = CHOOSE i \in 0 .. Len(rs) : P(i)
  BY DEF LastReset
<1> HIDE DEF P
<1> QED BY <1>1, <1>2, <1>3, <1>4

\* The check reports nothing of a transcript that was only appended to
\* (check.go:146), however the appends fell between the monitor's steps, its
\* restarts, its failures and the collection, unless the journal was copied with
\* a record made after the transcript was.
THEOREM NothingReported == Spec => []AppendOnlyClean
<1>1. Init => Typed /\ MirrorInv /\ CopyInv
  BY TypedInit, MirrorInit, CopyInit
<1>2. Typed /\ MirrorInv /\ CopyInv /\ [Next]_vars => (Typed /\ MirrorInv /\ CopyInv)'
  BY TypedStep, MirrorStep, CopyStep
<1>3. Typed /\ MirrorInv /\ CopyInv => AppendOnlyClean
  <2> SUFFICES ASSUME Typed, MirrorInv, CopyInv, Collected, edits = 0, JournalNotNewer
               PROVE  Reported = {}
    BY DEF AppendOnlyClean
  <2> DEFINE rs == case.journal
  <2>1. /\ Mirrors /\ Copied /\ journal \in Seq(Records) /\ rs \in Seq(Records)
        /\ "journal" \in case.got /\ "transcript" \in case.got
        /\ case.copy.data \in Seq(Data) /\ case.seen \in Nat /\ Len(rs) <= case.seen
    BY DEF Collected, Parts, CopyInv, MirrorInv, Typed, RecordsOK, Files, JournalNotNewer
  <2>2. ASSUME NEW i \in DOMAIN rs
        PROVE  /\ rs[i].kind \in {"baseline", "append"} /\ Holds(rs[i], case.copy.data)
               /\ case.copy.there
    <3>1. i \in DOMAIN journal /\ rs[i] = journal[i] /\ rs[i] \in Records
      BY <2>1, <2>2 DEF Copied
    <3>2. i \in 1 .. case.seen
      BY <2>1, <2>2
    <3>3. Lies(rs[i], case.copy.data) /\ case.copy.there
      BY <2>1, <3>1, <3>2 DEF Copied
    <3>4. rs[i].kind \in {"baseline", "append"}
      BY <2>1, <3>1 DEF Mirrors, Ranged
    <3> QED BY <2>1, <3>1, <3>3, <3>4, LiesHolds
  <2> HIDE DEF rs
  <2>3. LastReset(rs) = 0
    BY <2>1, <2>2, NoReset DEF Resets
  <2>4. \A i \in Checked(rs) : Holds(rs[i], case.copy.data)
    BY <2>2 DEF Checked
  <2>5. ~case.copy.there => (LastReset(rs) + 1) .. Len(rs) = {}
    BY <2>1, <2>2, <2>3
  <2>6. Findings(rs, case.copy) = {}
    BY <2>2, <2>4, <2>5 DEF Findings
  <2> QED BY <2>6 DEF Reported, rs
<1> QED BY <1>1, <1>2, <1>3, PTL DEF Spec

\* Whatever the case no longer holds as it was journaled is reported, after any
\* edits, restarts and appends: "every range is checked" (check.go:152).  A record
\* that resets the file is reported itself, and without one all are checked.
THEOREM EveryEditReported == Spec => []EditsReported
<1>1. Init => Typed
  BY TypedInit
<1>2. Typed /\ [Next]_vars => Typed'
  BY TypedStep
<1>3. Typed => EditsReported
  <2> SUFFICES ASSUME Typed, NEW i \in DOMAIN case.journal, ~Holds(case.journal[i], case.copy.data)
               PROVE  Reported # {}
    BY DEF EditsReported
  <2> DEFINE rs == case.journal
  <2>1. rs \in Seq(Records) /\ rs[i] \in Records /\ i \in 1 .. Len(rs) /\ case.copy.data \in Seq(Data)
    BY DEF Typed, RecordsOK, Files
  <2> HIDE DEF rs
  <2>2. CASE \E j \in DOMAIN rs : Resets(rs[j].kind)
    <3>1. PICK j \in DOMAIN rs : rs[j].kind \in {"replaced", "truncate"}
      BY <2>2 DEF Resets
    <3>2. rs[j].kind \in Findings(rs, case.copy)
      BY <3>1 DEF Findings
    <3> QED BY <3>2 DEF Reported, rs
  <2>3. CASE \A j \in DOMAIN rs : ~Resets(rs[j].kind)
    <3>1. LastReset(rs) = 0
      BY <2>1, <2>3, NoReset
    <3>2. ~Holds(rs[i], case.copy.data)
      BY DEF rs
    <3>3. rs[i].kind \in {"baseline", "append"}
      <4>1. ASSUME rs[i] = Mark(rs[i].kind) PROVE Holds(rs[i], case.copy.data)
        <5>1. rs[i].off = 0 /\ rs[i].bytes = <<>>
          BY <4>1 DEF Mark, Rec
        <5>2. Lies(rs[i], case.copy.data)
          BY <2>1, <5>1, EmptySeq DEF Lies
        <5> QED BY <2>1, <5>2, LiesHolds
      <4> QED BY <2>1, <3>2, <4>1 DEF Records
    <3>4. CASE case.copy.there
      <4>1. i \in Checked(rs)
        BY <2>1, <3>1, <3>3 DEF Checked
      <4>2. "differs" \in Findings(rs, case.copy)
        BY <3>2, <3>4, <4>1 DEF Findings
      <4> QED BY <4>2 DEF Reported, rs
    <3>5. CASE ~case.copy.there
      <4>1. i \in (LastReset(rs) + 1) .. Len(rs)
        BY <2>1, <3>1
      <4>2. "missing" \in Findings(rs, case.copy)
        BY <3>5, <4>1 DEF Findings
      <4> QED BY <4>2 DEF Reported, rs
    <3> QED BY <3>4, <3>5
  <2> QED BY <2>2, <2>3
<1> QED BY <1>1, <1>2, <1>3, PTL DEF Spec
=============================================================================
