--------------------------- MODULE BlackBoxProofs ---------------------------
(***************************************************************************)
(* Proofs about the black-box recorder.                                    *)
(*                                                                         *)
(* About LogTail, for any window and number of missing numbers waited for, *)
(* any buffer and poll size, and whatever numbers the lines of the log     *)
(* have: the ranges a source waits for stay consistent and bounded, a file *)
(* the tailer is done with was captured whole, what is captured is in the  *)
(* order it was written, each line apart from the next, and the losses     *)
(* reported are those of the lines that are missing.                       *)
(*                                                                         *)
(* About Recorder, for any size and number of captures and any number of   *)
(* mishaps and sessions: a pruned capture is accounted for, a capture      *)
(* altered after it was journaled is reported, and an orderly stop leaves  *)
(* nothing unjournaled.                                                    *)
(***************************************************************************)
EXTENDS LogTail, Recorder, FiniteSetTheorems, SequenceTheorems,
        WellFoundedInduction, TLAPS

\* A source is a record of its fields; its ranges are small, and its numbers finitely many.
Shape(s) ==
    s = Source(s.known, s.max, s.pending, s.ranges, s.gaps, s.missing, s.resets)
SmallRange(r) ==
    /\ r = GapRange(r.from, r.to, r.left)
    /\ r.from \in Nat /\ r.to \in Nat /\ r.to - r.from < MaxPending
SourceOK(s) ==
    /\ Shape(s) /\ s.max \in Nat /\ IsFiniteSet(s.pending)
    /\ \A r \in s.ranges : SmallRange(r)
    /\ s.known \/ s.ranges = {}
    /\ RangesConsistent(s)

-----------------------------------------------------------------------------
LEMMA LFields ==
    ASSUME NEW k, NEW m, NEW p, NEW r, NEW g, NEW n, NEW z
    PROVE  /\ Source(k, m, p, r, g, n, z).known = k /\ Source(k, m, p, r, g, n, z).max = m
           /\ Source(k, m, p, r, g, n, z).pending = p /\ Source(k, m, p, r, g, n, z).ranges = r
           /\ Source(k, m, p, r, g, n, z).gaps = g /\ Source(k, m, p, r, g, n, z).missing = n
           /\ Source(k, m, p, r, g, n, z).resets = z
           /\ Shape(Source(k, m, p, r, g, n, z))
  BY DEF Source, Shape

LEMMA LRange ==
    ASSUME NEW a, NEW b, NEW c
    PROVE  /\ GapRange(a, b, c).from = a /\ GapRange(a, b, c).to = b /\ GapRange(a, b, c).left = c
  BY DEF GapRange

LEMMA LMax ==
    ASSUME NEW s, Shape(s), NEW v
    PROVE  [s EXCEPT !.max = v] = Source(s.known, v, s.pending, s.ranges, s.gaps, s.missing, s.resets)
  BY DEF Shape, Source

LEMMA LNew == SourceOK(NewSource)
<1> DEFINE s == NewSource
<1>1. Shape(s) /\ s.max = 0 /\ s.pending = {} /\ s.ranges = {}
  BY DEF NewSource, Shape, Source
<1> HIDE DEF s
<1>2. IsFiniteSet({}) /\ Cardinality({}) = 0
  BY FS_EmptySet
<1>3. PendingBounded(s)
  BY <1>1, <1>2, GapsAssumption DEF PendingBounded
<1>4. RangesApart(s) /\ RangesCount(s) /\ PendingInRanges(s)
  BY <1>1 DEF RangesApart, RangesCount, PendingInRanges
<1>5. SourceOK(s)
  BY <1>1, <1>2, <1>3, <1>4 DEF SourceOK, RangesConsistent
<1> QED BY <1>5 DEF s

\* A greater number changes nothing for the ranges.
LEMMA LGrow ==
    ASSUME NEW s, SourceOK(s), NEW v \in Nat, s.max <= v \/ s.ranges = {}, NEW t, Shape(t),
           t.max = v, t.pending = s.pending, t.ranges = s.ranges, t.known
    PROVE  SourceOK(t)
<1>1. RangesCount(t)
  <2> SUFFICES ASSUME NEW r \in s.ranges PROVE r.to < v
    BY DEF SourceOK, RangesConsistent, RangesCount
  <2>1. r.to \in Nat /\ s.max \in Nat /\ r.to < s.max
    BY DEF SourceOK, SmallRange, RangesConsistent, RangesCount
  <2> QED BY <2>1, SMT
<1> QED BY <1>1 DEF SourceOK, RangesConsistent, RangesApart, PendingInRanges, PendingBounded

\* What is settled leaves the other ranges alone.
LEMMA LSettle ==
    ASSUME NEW s, SourceOK(s), NEW old \in SUBSET s.ranges
    PROVE  /\ SourceOK(Settle(s, old))
           /\ Settle(s, old).max = s.max /\ Settle(s, old).known = s.known
           /\ Settle(s, old).ranges = s.ranges \ old
<1> DEFINE t == Settle(s, old)
           gone == UNION {Span(r) : r \in old}
<1>1. /\ Shape(t) /\ t.max = s.max /\ t.known = s.known /\ t.ranges = s.ranges \ old /\ t.pending = s.pending \ gone
  <2>1. {q \in old : q.to - q.from < MaxPending} = old
    BY DEF SourceOK, SmallRange
  <2> QED BY <2>1, LFields DEF Settle
<1> HIDE DEF t
<1>2. ASSUME NEW r \in s.ranges \ old PROVE gone \cap Span(r) = {}
  <2> SUFFICES ASSUME NEW q \in old PROVE Span(q) \cap Span(r) = {}
    OBVIOUS
  <2>1. r.to < q.from \/ q.to < r.from
    BY DEF SourceOK, RangesConsistent, RangesApart
  <2>2. r.from \in Nat /\ r.to \in Nat /\ q.from \in Nat /\ q.to \in Nat
    BY DEF SourceOK, SmallRange
  <2> QED BY <2>1, <2>2, SMT DEF Span
<1>3. RangesCount(t)
  <2> SUFFICES ASSUME NEW r \in s.ranges \ old
               PROVE  r.to < s.max /\ r.left = Cardinality(t.pending \cap Span(r))
    BY <1>1 DEF RangesCount
  <2>1. t.pending \cap Span(r) = s.pending \cap Span(r)
    BY <1>1, <1>2
  <2> QED BY <2>1 DEF SourceOK, RangesConsistent, RangesCount
<1>4. PendingInRanges(t)
  BY <1>1 DEF SourceOK, RangesConsistent, PendingInRanges
<1>5. IsFiniteSet(t.pending) /\ PendingBounded(t)
  <2>1. IsFiniteSet(s.pending) /\ t.pending \in SUBSET s.pending
    BY <1>1 DEF SourceOK
  <2>2. /\ IsFiniteSet(t.pending) /\ Cardinality(t.pending) <= Cardinality(s.pending)
        /\ Cardinality(t.pending) \in Nat /\ Cardinality(s.pending) \in Nat
    BY <2>1, FS_Subset, FS_CardinalityType
  <2>3. Cardinality(s.pending) <= MaxPending
    BY DEF SourceOK, RangesConsistent, PendingBounded
  <2> QED BY <2>2, <2>3, GapsAssumption, SMT DEF PendingBounded
<1>6. RangesApart(t)
  BY <1>1 DEF SourceOK, RangesConsistent, RangesApart
<1>7. t.max \in Nat /\ (t.known \/ t.ranges = {}) /\ \A r \in t.ranges : SmallRange(r)
  BY <1>1 DEF SourceOK
<1>8. SourceOK(t)
  BY <1>1, <1>3, <1>4, <1>5, <1>6, <1>7 DEF SourceOK, RangesConsistent
<1> QED BY <1>1, <1>8 DEF t
-----------------------------------------------------------------------------
\* A jump small enough to be waited for opens a range above all others.
LEMMA LJump ==
    ASSUME NEW s, SourceOK(s), s.known, NEW v \in Nat, v > s.max + 1
    PROVE  SourceOK(Jump(s, v)) /\ Jump(s, v).known
<1> DEFINE n == v - s.max - 1
           new == s.max + 1 .. v - 1
           R == GapRange(s.max + 1, v - 1, n)
           t == Jump(s, v)
<1>1. s.max \in Nat /\ n \in Nat
  BY DEF SourceOK
<1>2. CASE ~Waitable(s, n)
  <2>1. t = Source(s.known, v, s.pending, s.ranges, s.gaps + 1, s.missing + n, s.resets)
    BY <1>2 DEF Jump
  <2> HIDE DEF t, n
  <2>2. Shape(t) /\ t.max = v /\ t.known /\ t.pending = s.pending /\ t.ranges = s.ranges
    BY <2>1 DEF Shape, Source
  <2>3. s.max <= v
    BY <1>1
  <2>4. SourceOK(t)
    BY <2>2, <2>3, LGrow
  <2> QED BY <2>2, <2>4 DEF t
<1>3. CASE Waitable(s, n)
  <2>1. t = Source(s.known, v, s.pending \cup new, s.ranges \cup {R}, s.gaps, s.missing, s.resets)
    BY <1>3 DEF Jump
  <2>2. /\ Shape(t) /\ t.max = v /\ t.known
        /\ t.pending = s.pending \cup new /\ t.ranges = s.ranges \cup {R}
    BY <2>1 DEF Shape, Source
  <2>3. R.from = s.max + 1 /\ R.to = v - 1 /\ R.left = n
    BY LRange
  <2>4. n <= MaxPending /\ Cardinality(s.pending) + n <= MaxPending
    BY <1>3 DEF Waitable
  <2>5. SmallRange(R)
    <3>1. s.max + 1 \in Nat /\ v - 1 \in Nat /\ (v - 1) - (s.max + 1) < MaxPending
      BY <1>1, <2>4, GapsAssumption
    <3>2. R = GapRange(R.from, R.to, R.left)
      BY <2>3
    <3> HIDE DEF R
    <3> QED BY <2>3, <3>1, <3>2 DEF SmallRange
  <2>6. Span(R) = new
    BY <2>3 DEF Span
  <2>7. IsFiniteSet(new) /\ Cardinality(new) = n
    <3>1. s.max + 1 \in Int /\ v - 1 \in Int /\ ~(s.max + 1 > v - 1)
          /\ (v - 1) - (s.max + 1) + 1 = n
      BY <1>1
    <3> QED BY <3>1, FS_Interval
  <2>8. \A r \in s.ranges : /\ r.from \in Nat /\ r.to \in Nat /\ r.to < s.max
                            /\ r.left = Cardinality(s.pending \cap Span(r))
    BY DEF SourceOK, SmallRange, RangesConsistent, RangesCount
  <2>9. \A r \in s.ranges : Span(r) \cap new = {} /\ r.to < R.from /\ r.to < v
    <3> SUFFICES ASSUME NEW r \in s.ranges
                 PROVE  Span(r) \cap new = {} /\ r.to < R.from /\ r.to < v
      OBVIOUS
    <3>1. r.from \in Nat /\ r.to \in Nat /\ r.to < s.max
      BY <2>8
    <3>2. Span(r) \cap new = {}
      BY <3>1, <1>1 DEF Span
    <3>3. r.to < s.max + 1 /\ r.to < v
      BY <3>1, <1>1
    <3> QED BY <2>3, <3>2, <3>3
  <2>10. s.pending \cap new = {}
    BY <2>9 DEF SourceOK, RangesConsistent, PendingInRanges
  <2> HIDE DEF t, n, new, R
  <2>11. RangesApart(t)
    BY <2>2, <2>9 DEF SourceOK, RangesConsistent, RangesApart
  <2>12. RangesCount(t)
    <3>1. ASSUME NEW r \in s.ranges
          PROVE  r.to < t.max /\ r.left = Cardinality(t.pending \cap Span(r))
      <4>1. t.pending \cap Span(r) = s.pending \cap Span(r)
        BY <2>2, <2>9
      <4> QED BY <2>2, <2>8, <2>9, <4>1
    <3>2. R.to < t.max /\ R.left = Cardinality(t.pending \cap Span(R))
      <4>1. t.pending \cap Span(R) = new
        BY <2>2, <2>6
      <4>2. v - 1 < v
        OBVIOUS
      <4> QED BY <2>2, <2>3, <2>7, <4>1, <4>2
    <3> QED BY <2>2, <3>1, <3>2 DEF RangesCount
  <2>13. PendingInRanges(t)
    BY <2>2, <2>6 DEF SourceOK, RangesConsistent, PendingInRanges
  <2>14. IsFiniteSet(t.pending) /\ PendingBounded(t)
    <3>1. IsFiniteSet(s.pending) /\ Cardinality(s.pending) \in Nat
      BY FS_CardinalityType DEF SourceOK
    <3>2. /\ IsFiniteSet(t.pending)
          /\ Cardinality(t.pending) = Cardinality(s.pending) + n - Cardinality({})
      BY <2>2, <2>7, <2>10, <3>1, FS_Union
    <3>3. Cardinality(t.pending) <= MaxPending
      BY <1>1, <2>4, <3>1, <3>2, FS_EmptySet
    <3> QED BY <3>2, <3>3 DEF PendingBounded
  <2>15. \A r \in t.ranges : SmallRange(r)
    BY <2>2, <2>5 DEF SourceOK
  <2>16. SourceOK(t)
    BY <2>2, <2>11, <2>12, <2>13, <2>14, <2>15 DEF SourceOK, RangesConsistent
  <2> QED BY <2>2, <2>16 DEF t
<1> QED BY <1>2, <1>3

\* A late number that was waited for leaves its range one fewer.
LEMMA LLate ==
    ASSUME NEW s, SourceOK(s), s.known, NEW v \in Nat
    PROVE  SourceOK(Late(s, v)) /\ Late(s, v).known
<1>1. CASE v \notin s.pending
  BY <1>1 DEF Late
<1>2. CASE v \in s.pending
  <2> DEFINE t == Late(s, v)
  <2>1. t = Source(s.known, s.max, s.pending \ {v}, {Fill(r, v) : r \in s.ranges},
                   s.gaps, s.missing, s.resets)
    BY <1>2 DEF Late
  <2> HIDE DEF t
  <2>2. /\ Shape(t) /\ t.max = s.max /\ t.known
        /\ t.pending = s.pending \ {v} /\ t.ranges = {Fill(r, v) : r \in s.ranges}
    BY <2>1 DEF Shape, Source
  <2>3. IsFiniteSet(s.pending) /\ s.max \in Nat
    BY DEF SourceOK
  <2>4. ASSUME NEW r \in s.ranges
        PROVE  /\ Fill(r, v).from = r.from /\ Fill(r, v).to = r.to
               /\ Span(Fill(r, v)) = Span(r)
               /\ SmallRange(Fill(r, v))
               /\ Fill(r, v).to < t.max
               /\ Fill(r, v).left = Cardinality(t.pending \cap Span(r))
    <3>1. SmallRange(r) /\ r.to < s.max /\ r.left = Cardinality(s.pending \cap Span(r))
      BY DEF SourceOK, RangesConsistent, RangesCount
    <3>2. CASE v \notin Span(r)
      <4>1. Fill(r, v) = r
        BY <3>2 DEF Fill
      <4>2. t.pending \cap Span(r) = s.pending \cap Span(r)
        BY <2>2, <3>2
      <4> QED BY <2>2, <3>1, <4>1, <4>2
    <3>3. CASE v \in Span(r)
      <4>1. Fill(r, v) = GapRange(r.from, r.to, r.left - 1)
        BY <3>3 DEF Fill
      <4>2. Fill(r, v).from = r.from /\ Fill(r, v).to = r.to /\ Fill(r, v).left = r.left - 1
        BY <4>1, LRange
      <4>3. SmallRange(Fill(r, v))
        BY <3>1, <4>1, <4>2 DEF SmallRange
      <4> DEFINE P == s.pending \cap Span(r)
      <4>4. IsFiniteSet(P)
        <5>1. P \in SUBSET s.pending
          OBVIOUS
        <5> QED BY <2>3, <5>1, FS_Subset
      <4>5. v \in P /\ t.pending \cap Span(r) = P \ {v}
        BY <1>2, <2>2, <3>3
      <4> HIDE DEF P
      <4>6. Cardinality(P \ {v}) = Cardinality(P) - 1
        BY <4>4, <4>5, FS_RemoveElement
      <4>7. Span(Fill(r, v)) = Span(r)
        BY <4>2 DEF Span
      <4> QED BY <2>2, <3>1, <4>2, <4>3, <4>5, <4>6, <4>7 DEF P
    <3> QED BY <3>2, <3>3
  <2>5. RangesApart(t)
    <3> SUFFICES ASSUME NEW r \in s.ranges, NEW q \in s.ranges
                 PROVE  LET a == Fill(r, v)  b == Fill(q, v)
                        IN  a = b \/ a.to < b.from \/ b.to < a.from
      BY <2>2 DEF RangesApart
    <3>1. r = q \/ r.to < q.from \/ q.to < r.from
      BY DEF SourceOK, RangesConsistent, RangesApart
    <3> QED BY <2>4, <3>1
  <2>6. RangesCount(t)
    BY <2>2, <2>4 DEF RangesCount
  <2>7. PendingInRanges(t)
    <3>1. s.pending \subseteq UNION {Span(r) : r \in s.ranges}
      BY DEF SourceOK, RangesConsistent, PendingInRanges
    <3> SUFFICES ASSUME NEW p \in t.pending PROVE \E q \in t.ranges : p \in Span(q)
      BY DEF PendingInRanges
    <3>2. PICK r \in s.ranges : p \in Span(r)
      BY <2>2, <3>1
    <3>3. Fill(r, v) \in t.ranges /\ p \in Span(Fill(r, v))
      BY <2>2, <2>4, <3>2
    <3> QED BY <3>3
  <2>8. IsFiniteSet(t.pending) /\ PendingBounded(t)
    <3>1. t.pending \in SUBSET s.pending
      BY <2>2
    <3>2. /\ IsFiniteSet(t.pending) /\ Cardinality(t.pending) <= Cardinality(s.pending)
          /\ Cardinality(t.pending) \in Nat /\ Cardinality(s.pending) \in Nat
      BY <2>3, <3>1, FS_Subset, FS_CardinalityType
    <3>3. Cardinality(s.pending) <= MaxPending
      BY DEF SourceOK, RangesConsistent, PendingBounded
    <3> QED BY <3>2, <3>3, GapsAssumption, SMT DEF PendingBounded
  <2>9. \A r \in t.ranges : SmallRange(r)
    BY <2>2, <2>4
  <2>10. SourceOK(t)
    BY <2>2, <2>3, <2>5, <2>6, <2>7, <2>8, <2>9 DEF SourceOK, RangesConsistent
  <2> QED BY <2>2, <2>10 DEF t
<1> QED BY <1>1, <1>2

\* A restart settles every range, so that no number is waited for any more.
LEMMA LRestart ==
    ASSUME NEW s, SourceOK(s), s.known, NEW v \in Nat
    PROVE  SourceOK(Restart(s, v)) /\ Restart(s, v).known
<1> DEFINE u == Settle(s, s.ranges)
           t == Restart(s, v)
<1>1. SourceOK(u) /\ u.known /\ u.ranges = {}
  <2>1. s.ranges \in SUBSET s.ranges /\ s.ranges \ s.ranges = {}
    OBVIOUS
  <2> QED BY <2>1, LSettle
<1>2. t = Source(u.known, v, u.pending, u.ranges, u.gaps, u.missing, u.resets + 1)
  BY DEF Restart
<1> HIDE DEF u, t
<1>3. Shape(t) /\ t.max = v /\ t.known /\ t.pending = u.pending /\ t.ranges = u.ranges
  BY <1>1, <1>2 DEF Shape, Source
<1>4. SourceOK(t)
  BY <1>1, <1>3, LGrow
<1> QED BY <1>3, <1>4 DEF t

\* Whatever the number of the next line, the accounting stays consistent.
LEMMA LStep ==
    ASSUME NEW s, SourceOK(s), NEW v \in Nat
    PROVE  SourceOK(SeqStep(s, v))
<1>1. CASE ~s.known
  <2> DEFINE t == Source(TRUE, v, s.pending, s.ranges, s.gaps, s.missing, s.resets)
  <2>1. SeqStep(s, v) = t
    BY <1>1 DEF SeqStep, SourceOK, Shape, Source
  <2>2. Shape(t) /\ t.max = v /\ t.known /\ t.pending = s.pending /\ t.ranges = s.ranges
    BY DEF Shape, Source
  <2>3. s.ranges = {}
    BY <1>1 DEF SourceOK
  <2> HIDE DEF t
  <2> QED BY <2>1, <2>2, <2>3, LGrow
<1>2. CASE s.known
  <2> DEFINE t == Place(s, v)
  <2>1. s.max \in Nat
    BY DEF SourceOK
  <2>2. SourceOK(t) /\ t.known
    <3>1. CASE v = s.max
      BY <1>2, <2>1, <3>1 DEF Place
    <3>2. CASE v = s.max + 1
      <4> DEFINE g == [s EXCEPT !.max = v]
      <4>1. t = g
        BY <2>1, <3>2 DEF Place
      <4>2. g = Source(s.known, v, s.pending, s.ranges, s.gaps, s.missing, s.resets)
        BY LMax DEF SourceOK
      <4> HIDE DEF g
      <4>3. Shape(g) /\ g.max = v /\ g.known /\ g.pending = s.pending /\ g.ranges = s.ranges
        BY <1>2, <4>2 DEF Shape, Source
      <4>4. s.max <= v
        BY <2>1, <3>2
      <4>5. SourceOK(g)
        BY <4>3, <4>4, LGrow
      <4> QED BY <4>1, <4>3, <4>5
    <3>3. CASE v > s.max + 1
      <4>1. v # s.max /\ v # s.max + 1 /\ ~(v < s.max)
        BY <2>1, <3>3
      <4>2. t = Jump(s, v)
        BY <3>3, <4>1, Zenon DEF Place
      <4> QED BY <1>2, <3>3, <4>2, LJump
    <3>4. CASE v < s.max
      <4>1. v # s.max /\ v # s.max + 1 /\ ~(v > s.max + 1)
        BY <2>1, <3>4
      <4>2. (s.max - v <= PendingWindow) # (s.max - v > PendingWindow)
        BY <2>1, GapsAssumption
      <4>3. t = Late(s, v) \/ t = Restart(s, v)
        BY <3>4, <4>1, <4>2 DEF Place
      <4> QED BY <1>2, <4>3, LLate, LRestart
    <3> QED BY <2>1, <3>1, <3>2, <3>3, <3>4
  <2>3. SeqStep(s, v) = Settle(t, Expired(t))
    BY <1>2 DEF SeqStep, Finalize
  <2>4. Expired(t) \in SUBSET t.ranges
    BY DEF Expired
  <2> HIDE DEF t
  <2> QED BY <2>2, <2>3, <2>4, LSettle
<1> QED BY <1>1, <1>2

-----------------------------------------------------------------------------
\* What the tailer needs to know for the lines it hands to the source.
Units == 0 .. MaxLines
FilesOK ==
    /\ content \in Seq(Seq(Units)) /\ path \in 0 .. Len(content)
    /\ wfd \in 1 .. Len(content) /\ written \in Nat
PollOK ==
    /\ f \in 0 .. Len(content) /\ off \in Nat /\ buf \in Seq(Units)
    /\ pc \in Modes \cup {"idle", "stat", "close"}
    /\ (pc # "idle" => f # None) /\ (buf # <<>> => pc \in Modes)
ReadOK == read \in Nat
SinkOK ==
    /\ carry \in Seq(1 .. MaxLines) /\ num \in [1 .. MaxLines -> Numbers \cup {Unread}]
    /\ SourceOK(src)
TailInv == FilesOK /\ PollOK /\ ReadOK /\ SinkOK

LEMMA CarriedOnTyped ==
    ASSUME NEW line \in Seq(1 .. MaxLines), NEW u \in 1 .. MaxLines
    PROVE  CarriedOn(line, u) \in Seq(1 .. MaxLines)
<1>1. <<>> \in Seq(1 .. MaxLines) /\ Append(line, u) \in Seq(1 .. MaxLines)
  OBVIOUS
<1> QED BY <1>1 DEF CarriedOn

LEMMA TObserve ==
    ASSUME SinkOK, NEW u \in Units, Observe(u)
    PROVE  SinkOK'
<1>1. CASE u # NL
  <2>1. u \in 1 .. MaxLines
    BY <1>1, TailAssumption DEF Units, NL
  <2>2. carry' = CarriedOn(carry, u) /\ UNCHANGED <<src, num>>
    BY <1>1 DEF Observe
  <2> QED BY <2>1, <2>2, CarriedOnTyped DEF SinkOK
<1>2. CASE u = NL
  <2>1. carry' = <<>>
    BY <1>2 DEF Observe
  <2>2. carry' \in Seq(1 .. MaxLines)
    BY <2>1
  <2>3. CASE carry = <<>>
    <3>1. UNCHANGED <<src, num>>
      BY <1>2, <2>3 DEF Observe
    <3> QED BY <2>2, <3>1 DEF SinkOK
  <2>4. CASE carry # <<>>
    <3>1. PICK v \in NumberOf(Head(carry)) :
              /\ num' = [num EXCEPT ![Head(carry)] = v]
              /\ src' = SeqStep(src, v)
      BY <1>2, <2>4 DEF Observe
    <3>2. Head(carry) \in 1 .. MaxLines
      <4>1. carry \in Seq(1 .. MaxLines)
        BY DEF SinkOK
      <4> QED BY <2>4, <4>1, HeadTailProperties
    <3>3. v \in Numbers
      <4>1. num[Head(carry)] \in Numbers \cup {Unread}
        BY <3>2 DEF SinkOK
      <4> QED BY <4>1, TailAssumption DEF NumberOf
    <3>4. v \in Nat
      BY <3>3, TailAssumption
    <3>5. SourceOK(src')
      BY <3>1, <3>4, LStep DEF SinkOK
    <3>6. num' \in [1 .. MaxLines -> Numbers \cup {Unread}]
      BY <3>1, <3>3 DEF SinkOK
    <3> QED BY <2>2, <3>5, <3>6 DEF SinkOK
  <2> QED BY <2>3, <2>4
<1> QED BY <1>1, <1>2

LEMMA TSink ==
    ASSUME TailInv, [Next]_vars
    PROVE  SinkOK'
<1> USE DEF TailInv
<1>1. ASSUME UNCHANGED sinkVars PROVE SinkOK'
  BY <1>1 DEF sinkVars, SinkOK
<1>2. CASE Daemon
  BY <1>1, <1>2 DEF Daemon, WriteLine, WriteEnd, Reopen
<1>3. CASE Rotation
  BY <1>1, <1>3 DEF Rotation, Rename, Create, Truncate
<1>4. CASE PollOpens \/ Poll \/ Read \/ ReadNothing \/ StatMoved \/ StatSame
  BY <1>1, <1>4 DEF PollOpens, Poll, Read, ReadNothing, StatMoved, StatSame
<1>5. CASE Copy
  <2>1. buf # <<>> /\ Observe(Head(buf))
    BY <1>5 DEF Copy, Emit
  <2>2. Head(buf) \in Units
    BY <2>1 DEF PollOK
  <2> QED BY <2>1, <2>2, TObserve
<1>6. CASE StatCut \/ CloseOld
  <2>1. EndLine
    BY <1>6 DEF StatCut, CloseOld
  <2>2. NL \in Units
    BY TailAssumption DEF NL, Units
  <2>3. Observe(NL) \/ UNCHANGED sinkVars
    BY <2>1 DEF EndLine, Emit
  <2> QED BY <1>1, <2>2, <2>3, TObserve
<1>7. CASE CopyFails
  BY <1>1, <1>7 DEF CopyFails
<1>8. CASE UNCHANGED vars
  BY <1>1, <1>8 DEF vars
<1> QED BY <1>2, <1>3, <1>4, <1>5, <1>6, <1>7, <1>8 DEF Next, Tailer

LEMMA TFiles ==
    ASSUME TailInv, [Next]_vars
    PROVE  FilesOK' /\ Len(content) <= Len(content')
<1> USE DEF TailInv
<1>0. Len(content) \in Nat
  BY DEF FilesOK
<1>1. ASSUME UNCHANGED logVars PROVE FilesOK' /\ Len(content) <= Len(content')
  BY <1>0, <1>1 DEF logVars, FilesOK
<1>2. ASSUME NEW i \in 1 .. Len(content), NEW c \in Seq(Units),
             content' = [content EXCEPT ![i] = c]
      PROVE  content' \in Seq(Seq(Units)) /\ Len(content') = Len(content)
  BY <1>2 DEF FilesOK
<1>3. CASE WriteLine
  <2>1. /\ written' = written + 1 /\ written + 1 <= MaxLines /\ UNCHANGED <<path, wfd>>
        /\ content' = [content EXCEPT ![wfd] = Append(content[wfd], written + 1)]
    BY <1>3 DEF WriteLine
  <2>2. written + 1 \in Units
    BY <2>1, TailAssumption DEF Units, FilesOK
  <2>3. Append(content[wfd], written + 1) \in Seq(Units)
    BY <2>2 DEF FilesOK
  <2> QED BY <1>0, <1>2, <2>1, <2>3 DEF FilesOK
<1>4. CASE WriteEnd
  <2>1. /\ UNCHANGED <<path, wfd, written>>
        /\ content' = [content EXCEPT ![wfd] = Append(content[wfd], NL)]
    BY <1>4 DEF WriteEnd
  <2>2. NL \in Units
    BY TailAssumption DEF NL, Units
  <2>3. Append(content[wfd], NL) \in Seq(Units)
    BY <2>2 DEF FilesOK
  <2> QED BY <1>0, <1>2, <2>1, <2>3 DEF FilesOK
<1>5. CASE Create
  <2>1. /\ UNCHANGED <<wfd, written>> /\ path' = Len(content')
        /\ content' = Append(content, <<>>)
    BY <1>5 DEF Create
  <2>2. content' \in Seq(Seq(Units)) /\ Len(content') = Len(content) + 1
    BY <2>1 DEF FilesOK
  <2> QED BY <1>0, <2>1, <2>2 DEF FilesOK
<1>6. CASE Truncate
  <2>1. /\ UNCHANGED <<path, wfd, written>> /\ path # None
        /\ content' = [content EXCEPT ![path] = <<>>]
    BY <1>6 DEF Truncate
  <2>2. path \in 1 .. Len(content)
    BY <1>0, <2>1 DEF FilesOK, None
  <2>3. <<>> \in Seq(Units)
    OBVIOUS
  <2> QED BY <1>0, <1>2, <2>1, <2>2, <2>3 DEF FilesOK
<1>7. CASE Rename
  BY <1>0, <1>7 DEF Rename, FilesOK, None
<1>8. CASE Reopen
  BY <1>0, <1>8 DEF Reopen, FilesOK, None
<1>9. CASE Tailer
  BY <1>1, <1>9 DEF Tailer, PollOpens, Poll, Read, ReadNothing, Copy, StatMoved, StatCut,
     StatSame, CloseOld
<1>10. CASE CopyFails
  BY <1>1, <1>10 DEF CopyFails
<1>11. CASE UNCHANGED vars
  BY <1>1, <1>11 DEF vars
<1> QED BY <1>3, <1>4, <1>5, <1>6, <1>7, <1>8, <1>9, <1>10, <1>11 DEF Next, Daemon, Rotation

LEMMA TPoll ==
    ASSUME TailInv, [Next]_vars
    PROVE  PollOK' /\ ReadOK'
<1> USE DEF TailInv
<1>0. /\ Len(content) \in Nat /\ Len(content') \in Nat /\ Len(content) <= Len(content')
      /\ f \in 0 .. Len(content) /\ path \in 0 .. Len(content)
  <2>1. FilesOK' /\ Len(content) <= Len(content')
    BY TFiles
  <2> QED BY <2>1 DEF FilesOK, PollOK
<1>f. f \in 0 .. Len(content') /\ path \in 0 .. Len(content')
  BY <1>0
<1>e. <<>> \in Seq(Units)
  OBVIOUS
<1>1. ASSUME UNCHANGED tailVars PROVE PollOK' /\ ReadOK'
  BY <1>1, <1>f DEF tailVars, PollOK, ReadOK
<1>2. CASE Daemon \/ Rotation \/ UNCHANGED vars
  BY <1>1, <1>2 DEF Daemon, WriteLine, WriteEnd, Reopen, Rotation, Rename, Create, Truncate, vars
<1>3. CASE PollOpens
  <2>1. /\ path # None /\ f' = path /\ pc' = "drain" /\ buf' = <<>> /\ read' = 0
        /\ off' = IF opened \/ FromStart THEN 0 ELSE Len(content[path])
    BY <1>3 DEF PollOpens, Drain
  <2>2. content[path] \in Seq(Units)
    BY <1>0, <2>1 DEF FilesOK, None
  <2>3. off' \in Nat
    BY <2>1, <2>2
  <2> QED BY <1>f, <1>e, <2>1, <2>3 DEF PollOK, ReadOK, Modes
<1>4. CASE Poll
  <2>1. /\ f # None /\ pc' = "drain" /\ buf' = <<>> /\ read' = 0 /\ UNCHANGED <<f, off>>
    BY <1>4 DEF Poll, Drain
  <2> QED BY <1>f, <1>e, <2>1 DEF PollOK, ReadOK, Modes
<1>5. CASE Read
  <2>1. /\ pc \in Modes /\ off < Len(Followed)
        /\ read' = Lesser(BufSize, Len(Followed) - off)
        /\ buf' = SubSeq(Followed, off + 1, off + read')
        /\ UNCHANGED <<f, off, pc>>
    BY <1>5 DEF Read
  <2>2. f # None
    BY <2>1 DEF PollOK, Modes
  <2>3. Followed \in Seq(Units)
    BY <1>0, <2>2 DEF FilesOK, None, Followed
  <2>4. Len(Followed) \in Nat /\ off \in Nat /\ BufSize \in Nat
    BY <2>3, TailAssumption DEF PollOK
  <2>5. read' \in Nat /\ off + read' <= Len(Followed)
    BY <2>1, <2>4 DEF Lesser
  <2> DEFINE a == off + 1
             b == off + read'
  <2>6. a \in Nat /\ a >= 1 /\ b \in Nat /\ b <= Len(Followed)
    <3>1. ASSUME NEW x \in Nat, NEW y \in Nat, NEW z \in Nat, x + y <= z
          PROVE  x + 1 \in Nat /\ x + 1 >= 1 /\ x + y \in Nat
      OBVIOUS
    <3> QED BY <2>4, <2>5, <3>1
  <2> HIDE DEF a, b
  <2>7. SubSeq(Followed, a, b) \in Seq(Units)
    BY <2>3, <2>4, <2>6
  <2>8. buf' \in Seq(Units)
    BY <2>1, <2>7 DEF a, b
  <2> QED BY <1>f, <2>1, <2>2, <2>4, <2>5, <2>8 DEF PollOK, ReadOK
<1>6. ASSUME NEW e, Drained(e), UNCHANGED f, off' \in Nat, pc \in Modes
      PROVE  PollOK' /\ ReadOK'
  <2>1. buf' = <<>> /\ read' = 0
    BY <1>6 DEF Drained
  <2>2. pc' \in {"stat", "close", "rest", "idle"}
    BY <1>6 DEF Drained, Modes
  <2>3. f # None
    BY <1>6 DEF PollOK, Modes
  <2> QED BY <1>6, <1>f, <1>e, <2>1, <2>2, <2>3 DEF PollOK, ReadOK, Modes
<1>7. CASE ReadNothing
  <2>1. Drained(TRUE) /\ UNCHANGED <<f, off>> /\ pc \in Modes
    BY <1>7 DEF ReadNothing
  <2> QED BY <1>6, <2>1 DEF PollOK
<1>8. CASE Copy
  <2>1. buf # <<>> /\ pc \in Modes /\ UNCHANGED f
    BY <1>8 DEF Copy, PollOK
  <2>2. CASE Len(buf) > 1
    <3>1. buf' = Tail(buf) /\ UNCHANGED <<off, pc, read>>
      BY <1>8, <2>2 DEF Copy
    <3>2. buf' \in Seq(Units)
      BY <2>1, <3>1 DEF PollOK
    <3> QED BY <1>f, <2>1, <3>1, <3>2 DEF PollOK, ReadOK
  <2>3. CASE ~(Len(buf) > 1)
    <3>1. off' = off + read
      BY <1>8, <2>3 DEF Copy
    <3>2. off' \in Nat
      BY <3>1 DEF PollOK, ReadOK
    <3>3. \/ Drained(read < BufSize)
          \/ buf' = <<>> /\ read' = 0 /\ UNCHANGED pc
      BY <1>8, <2>3, Zenon DEF Copy
    <3>4. CASE Drained(read < BufSize)
      BY <1>6, <2>1, <3>2, <3>4
    <3>5. CASE buf' = <<>> /\ read' = 0 /\ UNCHANGED pc
      BY <1>f, <1>e, <2>1, <3>2, <3>5 DEF PollOK, ReadOK
    <3> QED BY <3>3, <3>4, <3>5
  <2> QED BY <2>2, <2>3
<1>9. CASE CopyFails
  <2>1. Drained(TRUE) /\ UNCHANGED <<f, off>> /\ pc \in Modes
    BY <1>9 DEF CopyFails, PollOK
  <2> QED BY <1>6, <2>1 DEF PollOK
<1>10. CASE StatMoved
  <2>1. /\ pc = "stat" /\ UNCHANGED <<f, off>>
        /\ \/ pc' = "close" /\ UNCHANGED <<buf, read>>
           \/ pc' = "rest" /\ buf' = <<>> /\ read' = 0
    BY <1>10 DEF StatMoved, Drain
  <2>2. f # None /\ buf = <<>> /\ off \in Nat /\ read \in Nat
    BY <2>1 DEF PollOK, ReadOK, Modes
  <2>3. buf' = <<>> /\ read' \in Nat /\ pc' \in {"close", "rest"} /\ f' = f /\ off' = off
    BY <2>1, <2>2
  <2> QED BY <1>f, <1>e, <2>2, <2>3 DEF PollOK, ReadOK, Modes
<1>11. CASE StatCut
  <2>1. /\ pc = "stat" /\ UNCHANGED f /\ off' = 0
        /\ pc' = "fresh" /\ buf' = <<>> /\ read' = 0
    BY <1>11 DEF StatCut, Drain
  <2>2. f # None
    BY <2>1 DEF PollOK
  <2> QED BY <1>f, <1>e, <2>1, <2>2 DEF PollOK, ReadOK, Modes
<1>12. CASE StatSame
  <2>1. pc = "stat" /\ pc' = "idle" /\ UNCHANGED <<f, off, buf, read>>
    BY <1>12 DEF StatSame
  <2>2. buf = <<>>
    BY <2>1 DEF PollOK, Modes
  <2> QED BY <1>f, <1>e, <2>1, <2>2 DEF PollOK, ReadOK, Modes
<1>13. CASE CloseOld
  <2>1. /\ pc = "close" /\ f' = path /\ off' = 0
        /\ \/ path = None /\ pc' = "idle" /\ UNCHANGED <<buf, read>>
           \/ path # None /\ pc' = "fresh" /\ buf' = <<>> /\ read' = 0
    BY <1>13 DEF CloseOld, Drain
  <2>2. buf = <<>> /\ read \in Nat
    BY <2>1 DEF PollOK, ReadOK, Modes
  <2>3. /\ buf' = <<>> /\ read' \in Nat /\ pc' \in {"idle", "fresh"}
        /\ (pc' # "idle" => f' # None)
    BY <2>1, <2>2
  <2> QED BY <1>f, <1>e, <2>1, <2>3 DEF PollOK, ReadOK, Modes
<1> QED BY <1>2, <1>3, <1>4, <1>5, <1>7, <1>8, <1>9, <1>10, <1>11, <1>12, <1>13 DEF Next, Tailer

LEMMA TailInvInit == Init => TailInv
<1> SUFFICES ASSUME Init PROVE TailInv
  OBVIOUS
<1>1. FilesOK
  BY DEF Init, FilesOK
<1>2. PollOK /\ ReadOK
  BY DEF Init, PollOK, ReadOK, FilesOK, None
<1>3. SinkOK
  BY LNew DEF Init, SinkOK
<1> QED BY <1>1, <1>2, <1>3 DEF TailInv

-----------------------------------------------------------------------------
\* The accounting of lost records (Source.seqStep, Source.finalize) stays
\* consistent and bounded: however the log is rotated and whatever numbers its
\* lines carry, the ranges waited for are apart and below the greatest number,
\* each counts exactly the numbers still missing in it, and no more than
\* MaxPending numbers are kept, so that a hostile jump cannot grow the set.
THEOREM AccountingConsistent == Spec => []RangesStayConsistent
<1>1. Init => TailInv
  BY TailInvInit
<1>2. TailInv /\ [Next]_vars => TailInv'
  BY TFiles, TPoll, TSink DEF TailInv
<1>3. TailInv => RangesStayConsistent
  BY DEF TailInv, SinkOK, SourceOK, RangesStayConsistent
<1> QED BY <1>1, <1>2, <1>3, PTL DEF Spec

-----------------------------------------------------------------------------
(***************************************************************************)
(* What the capture gets of a file before the tailer is done with it.      *)
(***************************************************************************)
OutOK == out \in Seq(Units) /\ bounds \in [renames : Nat, cuts : Nat, faults : Nat]

\* Every line is written to one place of one file.
UniqueLines ==
    /\ \A i \in DOMAIN content : \A k \in DOMAIN content[i] : content[i][k] <= written
    /\ \A i, j \in DOMAIN content : \A k \in DOMAIN content[i], l \in DOMAIN content[j] :
          content[i][k] = content[j][l] => content[i][k] = NL \/ (i = j /\ k = l)

\* The drain's buffer is a part of what it read, which the file still holds
\* unless it was truncated; only at the poll's end is a file left.
Ahead == off + read - Len(buf)
BufferOK ==
    /\ Len(buf) <= read /\ read <= BufSize
    /\ buf = <<>> => read = 0
    /\ pc \in {"rest", "close"} => path # f
    /\ blind => f # None
    /\ (f # None /\ ~blind) =>
          /\ off + read <= Len(content[f])
          /\ \A m \in 1 .. Len(buf) : buf[m] = content[f][Ahead + m]

\* What the file followed holds up to where the capture is, and all of it while
\* a truncation is not noticed.
Held == Captured \cup lost \cup {NL}
ReadAccounted ==
    f # None => \A k \in DOMAIN content[f] :
                    /\ k <= Ahead => content[f][k] \in Held
                    /\ blind => content[f][k] = NL \/ content[f][k] \in lost

\* The last read of a file that moved reached its end, but for the lines
\* written between that read and the rename, or after it.
LastRead ==
    \/ pc = "close"
    \/ pc = "stat" /\ eof
    \/ pc \in {"drain", "rest"} /\ buf # <<>> /\ read < BufSize
RestAccounted ==
    (bounds.faults = 0 /\ f # None /\ path # f /\ LastRead) =>
        \A k \in DOMAIN content[f] :
            k > off + read =>
                content[f][k] = NL \/ content[f][k] \in lost \/ content[f][k] \in raced

CaptureInv ==
    /\ OutOK /\ UniqueLines /\ BufferOK /\ ReadAccounted /\ RestAccounted /\ ClosedFilesCaptured

\* The ways a file changes: a unit is appended, it is emptied, one is created.
LEMMA FilesTyped ==
    ASSUME FilesOK
    PROVE  /\ DOMAIN content = 1 .. Len(content) /\ Len(content) \in Nat
           /\ wfd \in DOMAIN content
           /\ path # None => path \in DOMAIN content
           /\ \A i \in DOMAIN content :
                 /\ content[i] \in Seq(Units) /\ Len(content[i]) \in Nat
                 /\ DOMAIN content[i] = 1 .. Len(content[i])
                 /\ \A k \in DOMAIN content[i] : content[i][k] \in Units
<1>1. /\ DOMAIN content = 1 .. Len(content) /\ Len(content) \in Nat
      /\ wfd \in DOMAIN content
      /\ path # None => path \in DOMAIN content
      /\ \A i \in DOMAIN content : content[i] \in Seq(Units)
  BY DEF FilesOK, None
<1> QED BY <1>1

LEMMA Appended ==
    ASSUME FilesOK, NEW u \in Units, content' = [content EXCEPT ![wfd] = Append(content[wfd], u)]
    PROVE  /\ DOMAIN content' = DOMAIN content
           /\ \A i \in DOMAIN content : i # wfd => content'[i] = content[i]
           /\ DOMAIN content'[wfd] = 1 .. (Len(content[wfd]) + 1)
           /\ Len(content'[wfd]) = Len(content[wfd]) + 1
           /\ content'[wfd][Len(content[wfd]) + 1] = u
           /\ \A k \in DOMAIN content[wfd] : content'[wfd][k] = content[wfd][k]
<1>1. content \in Seq(Seq(Units)) /\ wfd \in DOMAIN content /\ content[wfd] \in Seq(Units)
  BY FilesTyped DEF FilesOK
<1> DEFINE c == Append(content[wfd], u)
<1>2. /\ DOMAIN c = 1 .. (Len(content[wfd]) + 1) /\ Len(c) = Len(content[wfd]) + 1
      /\ c[Len(content[wfd]) + 1] = u
      /\ \A k \in DOMAIN content[wfd] : c[k] = content[wfd][k]
  BY <1>1
<1>3. content' = [content EXCEPT ![wfd] = c]
  OBVIOUS
<1> HIDE DEF c
<1>4. /\ DOMAIN content' = DOMAIN content /\ content'[wfd] = c
      /\ \A i \in DOMAIN content : i # wfd => content'[i] = content[i]
  BY <1>1, <1>3
<1> QED BY <1>2, <1>4

LEMMA Emptied ==
    ASSUME FilesOK, path # None, content' = [content EXCEPT ![path] = <<>>]
    PROVE  /\ DOMAIN content' = DOMAIN content /\ content'[path] = <<>>
           /\ DOMAIN content'[path] = {} /\ Len(content'[path]) = 0
           /\ \A i \in DOMAIN content : i # path => content'[i] = content[i]
<1>1. content \in Seq(Seq(Units)) /\ path \in DOMAIN content
  BY FilesTyped DEF FilesOK
<1>2. /\ DOMAIN content' = DOMAIN content /\ content'[path] = <<>>
      /\ \A i \in DOMAIN content : i # path => content'[i] = content[i]
  BY <1>1
<1>3. DOMAIN <<>> = {} /\ Len(<<>>) = 0
  OBVIOUS
<1> QED BY <1>2, <1>3

LEMMA Created ==
    ASSUME FilesOK, content' = Append(content, <<>>)
    PROVE  /\ DOMAIN content' = DOMAIN content \cup {Len(content) + 1}
           /\ Len(content') = Len(content) + 1
           /\ content'[Len(content) + 1] = <<>> /\ DOMAIN content'[Len(content) + 1] = {}
           /\ \A i \in DOMAIN content : content'[i] = content[i]
<1>1. content \in Seq(Seq(Units))
  BY DEF FilesOK
<1>2. /\ DOMAIN content' = 1 .. (Len(content) + 1) /\ Len(content') = Len(content) + 1
      /\ content'[Len(content) + 1] = <<>> /\ Len(content) \in Nat
      /\ \A i \in DOMAIN content : content'[i] = content[i]
      /\ DOMAIN content = 1 .. Len(content)
  BY <1>1
<1>3. DOMAIN <<>> = {}
  OBVIOUS
<1> QED BY <1>2, <1>3

\* The daemon appends a line or its end; a line the tailer may never see is lost.
LEMMA TailWrites ==
    ASSUME TailInv, WriteLine \/ WriteEnd
    PROVE  \E u \in Units :
              /\ content' = [content EXCEPT ![wfd] = Append(content[wfd], u)]
              /\ u = NL \/ (wfd # path => u \in lost')
              /\ u = NL \/ (blind => u \in lost')
<1>1. CASE WriteLine
  <2>1. written + 1 \in Units
    BY <1>1, TailAssumption DEF WriteLine, Units, TailInv, FilesOK
  <2> QED BY <1>1, <2>1 DEF WriteLine
<1>2. CASE WriteEnd
  <2>1. NL \in Units
    BY TailAssumption DEF NL, Units
  <2> QED BY <1>2, <2>1 DEF WriteEnd
<1> QED BY <1>1, <1>2

LEMMA UniqueStep ==
    ASSUME TailInv, UniqueLines, [Next]_vars
    PROVE  UniqueLines'
<1>0. FilesOK /\ written \in Nat
  BY DEF TailInv, FilesOK
<1>1. ASSUME UNCHANGED <<content, written>> PROVE UniqueLines'
  BY <1>1 DEF UniqueLines
<1>2. CASE WriteLine
  <2>1. /\ written' = written + 1 /\ written + 1 <= MaxLines
        /\ content' = [content EXCEPT ![wfd] = Append(content[wfd], written + 1)]
    BY <1>2 DEF WriteLine
  <2>2. written + 1 \in Units
    BY <1>0, <2>1, TailAssumption DEF Units
  <2>3. \A i \in DOMAIN content' : \A k \in DOMAIN content'[i] :
           \/ i \in DOMAIN content /\ k \in DOMAIN content[i] /\ content'[i][k] = content[i][k]
           \/ i = wfd /\ k = Len(content[wfd]) + 1 /\ content'[i][k] = written + 1
    BY <1>0, <2>1, <2>2, Appended, FilesTyped
  <2>4. \A i \in DOMAIN content : \A k \in DOMAIN content[i] :
           content[i][k] <= written /\ content[i][k] \in Nat
    BY <1>0, FilesTyped DEF UniqueLines, Units
  <2> QED BY <1>0, <2>1, <2>3, <2>4 DEF UniqueLines
<1>3. CASE WriteEnd
  <2>1. content' = [content EXCEPT ![wfd] = Append(content[wfd], NL)] /\ UNCHANGED written
    BY <1>3 DEF WriteEnd
  <2>2. NL \in Units
    BY TailAssumption DEF NL, Units
  <2>3. \A i \in DOMAIN content' : \A k \in DOMAIN content'[i] :
           \/ i \in DOMAIN content /\ k \in DOMAIN content[i] /\ content'[i][k] = content[i][k]
           \/ content'[i][k] = NL
    BY <1>0, <2>1, <2>2, Appended, FilesTyped
  <2> QED BY <1>0, <2>1, <2>3 DEF UniqueLines, NL
<1>4. CASE Create \/ Truncate
  <2>1. UNCHANGED written
    BY <1>4 DEF Create, Truncate
  <2>2. \A i \in DOMAIN content' : \A k \in DOMAIN content'[i] :
           i \in DOMAIN content /\ k \in DOMAIN content[i] /\ content'[i][k] = content[i][k]
    <3>1. CASE Create
      BY <1>0, <3>1, Created, FilesTyped DEF Create
    <3>2. CASE Truncate
      BY <1>0, <3>2, Emptied, FilesTyped DEF Truncate
    <3> QED BY <1>4, <3>1, <3>2
  <2> QED BY <2>1, <2>2 DEF UniqueLines
<1>5. CASE Rename \/ Reopen \/ CopyFails \/ UNCHANGED vars
  BY <1>1, <1>5 DEF Rename, Reopen, CopyFails, vars, logVars
<1>6. CASE Tailer
  BY <1>1, <1>6 DEF Tailer, PollOpens, Poll, Read, ReadNothing, Copy, StatMoved, StatCut,
     StatSame, CloseOld, logVars
<1> QED BY <1>2, <1>3, <1>4, <1>5, <1>6 DEF Next, Daemon, Rotation

\* The capture only grows, by the unit copied or the end of a line.
LEMMA Emitted ==
    ASSUME out \in Seq(Units), NEW u \in Units, out' = Append(out, u)
    PROVE  /\ out' \in Seq(Units)
           /\ \A v : v \in Captured' <=> v \in Captured \/ (v = u /\ u # NL)
<1>1. /\ out' \in Seq(Units) /\ DOMAIN out' = 1 .. (Len(out) + 1) /\ Len(out) \in Nat
      /\ DOMAIN out = 1 .. Len(out)
      /\ out'[Len(out) + 1] = u /\ \A i \in DOMAIN out : out'[i] = out[i]
  OBVIOUS
<1>2. /\ \A i \in DOMAIN out' : (i \in DOMAIN out /\ out'[i] = out[i]) \/ out'[i] = u
      /\ \A i \in DOMAIN out : i \in DOMAIN out'
      /\ Len(out) + 1 \in DOMAIN out'
  BY <1>1
<1>3. ASSUME NEW v, v \in Captured' PROVE v \in Captured \/ (v = u /\ u # NL)
  <2>1. v # NL /\ \E i \in DOMAIN out' : out'[i] = v
    BY <1>3, Zenon DEF Captured, Lines
  <2> QED BY <1>2, <2>1 DEF Captured, Lines
<1>4. ASSUME NEW v, v \in Captured PROVE v \in Captured'
  BY <1>1, <1>2, <1>4 DEF Captured, Lines
<1>5. u # NL => u \in Captured'
  BY <1>1, <1>2 DEF Captured, Lines
<1> QED BY <1>1, <1>3, <1>4, <1>5

\* What a drain that returns leaves.
LEMMA BufferDropped ==
    ASSUME TailInv, BufferOK, buf' = <<>>, read' = 0, UNCHANGED <<path, f, content, blind>>,
           off' = off \/ off' = off + read, pc' \in {"rest", "close"} => path # f
    PROVE  BufferOK'
<1>1. /\ off \in Nat /\ read \in Nat /\ BufSize \in Nat /\ Len(<<>>) = 0
      /\ f # None => f \in DOMAIN content
  BY TailAssumption DEF TailInv, PollOK, ReadOK, FilesOK, None
<1>2. f # None => Len(content[f]) \in Nat
  BY <1>1, FilesTyped DEF TailInv
<1>3. (f # None /\ ~blind) => off + read <= Len(content[f])
  BY DEF BufferOK
<1>4. (f # None /\ ~blind) => off' + read' <= Len(content[f])
  BY <1>1, <1>2, <1>3
<1>5. 0 <= BufSize /\ (blind => f # None)
  BY <1>1 DEF BufferOK
<1>6. Len(buf') <= read' /\ read' <= BufSize /\ Len(buf') = 0
  BY <1>1, <1>5
<1> QED BY <1>4, <1>5, <1>6 DEF BufferOK

LEMMA BufferStep ==
    ASSUME TailInv, BufferOK, [Next]_vars
    PROVE  BufferOK'
<1>0. /\ FilesOK /\ off \in Nat /\ read \in Nat /\ BufSize \in Nat \ {0}
      /\ buf \in Seq(Units) /\ Len(buf) \in Nat
      /\ f # None => f \in DOMAIN content
      /\ pc # "idle" => f # None
      /\ buf # <<>> => pc \in Modes
  BY TailAssumption DEF TailInv, PollOK, ReadOK, FilesOK, None
<1>1. \A i \in DOMAIN content : Len(content[i]) \in Nat /\ DOMAIN content[i] = 1 .. Len(content[i])
  BY <1>0, FilesTyped
\* The buffer is still in the file, as long as the file only grows.
<1>2. ASSUME UNCHANGED <<off, read, buf, f, pc>>, blind' <=> blind,
             pc \in {"rest", "close"} => path' # f,
             (f # None /\ ~blind) =>
                /\ Len(content[f]) <= Len(content'[f])
                /\ \A k \in DOMAIN content[f] : content'[f][k] = content[f][k],
             f # None => Len(content'[f]) \in Nat
      PROVE  BufferOK'
  <2>1. ASSUME f # None, ~blind, NEW m \in 1 .. Len(buf)
        PROVE  Ahead + m \in DOMAIN content[f]
    <3>1. off + read <= Len(content[f]) /\ Len(buf) <= read
      BY <2>1 DEF BufferOK
    <3>2. Ahead + m >= 1 /\ Ahead + m <= off + read /\ Ahead + m \in Nat
      BY <1>0, <3>1 DEF Ahead
    <3> QED BY <1>0, <1>1, <2>1, <3>1, <3>2
  <2>2. Ahead' = Ahead
    BY <1>2 DEF Ahead
  <2>3. (f # None /\ ~blind) =>
          /\ off + read <= Len(content'[f])
          /\ \A m \in 1 .. Len(buf) : buf[m] = content'[f][Ahead + m]
    BY <1>0, <1>1, <1>2, <2>1 DEF BufferOK
  <2> QED BY <1>2, <2>2, <2>3 DEF BufferOK
<1>3. CASE WriteLine \/ WriteEnd
  <2>1. PICK u \in Units : content' = [content EXCEPT ![wfd] = Append(content[wfd], u)]
    BY <1>3, TailWrites
  <2>2. \A i \in DOMAIN content :
          /\ Len(content[i]) <= Len(content'[i]) /\ Len(content'[i]) \in Nat
          /\ \A k \in DOMAIN content[i] : content'[i][k] = content[i][k]
    BY <1>0, <1>1, <2>1, Appended, FilesTyped
  <2>3. UNCHANGED <<off, read, buf, f, blind, pc, path>>
    BY <1>3 DEF WriteLine, WriteEnd, tailVars, ghostVars
  <2> QED BY <1>0, <1>2, <2>2, <2>3 DEF BufferOK
<1>4. CASE Create
  <2>1. /\ content' = Append(content, <<>>) /\ path' = Len(content')
        /\ UNCHANGED <<off, read, buf, f, blind, pc>>
    BY <1>4 DEF Create, tailVars, ghostVars
  <2>2. \A i \in DOMAIN content : content'[i] = content[i] /\ path' # i
    BY <1>0, <2>1, Created, FilesTyped
  <2> QED BY <1>0, <1>1, <1>2, <2>1, <2>2
<1>5. CASE Truncate
  <2>1. /\ path # None /\ content' = [content EXCEPT ![path] = <<>>]
        /\ blind' = (blind \/ (path = f /\ (off > 0 \/ buf # <<>>)))
        /\ UNCHANGED <<off, read, buf, f, pc, path>>
    BY <1>5 DEF Truncate, tailVars
  <2>2. /\ \A i \in DOMAIN content : i # path => content'[i] = content[i]
        /\ Len(content'[path]) = 0
    BY <1>0, <2>1, Emptied
  <2>3. CASE path # f
    <3>1. blind' <=> blind
      BY <2>1, <2>3, Zenon
    <3> QED BY <1>0, <1>1, <1>2, <2>1, <2>2, <2>3, <3>1
  <2>4. CASE path = f /\ blind'
    BY <2>1, <2>4 DEF BufferOK
  <2>5. CASE path = f /\ ~blind'
    <3>0. ~(off > 0) /\ buf = <<>>
      BY <2>1, <2>5, Zenon
    <3>1. off = 0 /\ buf = <<>> /\ read = 0
      BY <1>0, <3>0 DEF BufferOK
    <3> QED BY <1>0, <2>1, <2>2, <2>5, <3>1 DEF BufferOK
  <2> QED BY <2>3, <2>4, <2>5
<1>6. CASE Rename
  <2>1. path' = None /\ UNCHANGED <<off, read, buf, f, blind, pc, content>>
    BY <1>6 DEF Rename, tailVars
  <2>2. pc \in {"rest", "close"} => path' # f
    BY <1>0, <2>1
  <2> QED BY <1>0, <1>1, <1>2, <2>1, <2>2
<1>7. CASE Reopen \/ UNCHANGED vars
  <2>1. UNCHANGED <<off, read, buf, f, blind, pc, content, path>>
    BY <1>7 DEF Reopen, vars, logVars, tailVars, ghostVars
  <2> QED BY <1>0, <1>1, <1>2, <2>1 DEF BufferOK
<1>8. CASE PollOpens
  <2>1. /\ f = None /\ path # None /\ f' = path /\ pc' = "drain" /\ buf' = <<>> /\ read' = 0
        /\ off' = IF opened \/ FromStart THEN 0 ELSE Len(content[path])
        /\ UNCHANGED <<content, blind, path>>
    BY <1>8 DEF PollOpens, Drain, logVars
  <2>2. path \in DOMAIN content
    BY <1>0, <2>1, FilesTyped
  <2>3. Len(content[path]) \in Nat
    BY <1>1, <2>2
  <2>4. off' + read' <= Len(content[path])
    BY <2>1, <2>3
  <2>5. /\ Len(buf') = 0 /\ 0 <= BufSize
    BY <1>0, <2>1
  <2> QED BY <2>1, <2>2, <2>3, <2>4, <2>5 DEF BufferOK
<1>9. CASE Poll
  <2>1. /\ pc' = "drain" /\ buf' = <<>> /\ read' = 0 /\ UNCHANGED <<f, off, path, content, blind>>
    BY <1>9 DEF Poll, Drain, logVars, ghostVars
  <2> QED BY <2>1, BufferDropped
<1>10. CASE Read
  <2>1. /\ pc \in Modes /\ off < Len(content[f])
        /\ read' = Lesser(BufSize, Len(content[f]) - off)
        /\ buf' = SubSeq(content[f], off + 1, off + read')
        /\ blind' = FALSE
        /\ UNCHANGED <<f, off, pc, path, content>>
    BY <1>10 DEF Read, Followed, logVars
  <2>2. f # None /\ f \in DOMAIN content
    BY <1>0, <2>1 DEF Modes
  <2>3. content[f] \in Seq(Units) /\ Len(content[f]) \in Nat
    BY <1>0, <2>2, FilesTyped
  <2>4. read' \in Nat /\ read' # 0 /\ read' <= BufSize /\ off + read' <= Len(content[f])
    BY <1>0, <2>1, <2>3 DEF Lesser
  <2>5. /\ Len(buf') = read'
        /\ \A m \in 1 .. read' : buf'[m] = content[f][off + m]
    <3> DEFINE c == content[f]
               r == read'
               b == SubSeq(c, off + 1, off + r)
    <3>1. c \in Seq(Units) /\ r \in Nat /\ r # 0 /\ off \in Nat /\ off + r <= Len(c)
      BY <1>0, <2>3, <2>4
    <3> HIDE DEF c, r
    <3>2. Len(b) = r /\ \A m \in 1 .. r : b[m] = c[off + m]
      BY <3>1
    <3>3. buf' = b
      BY <2>1 DEF c, r
    <3> QED BY <3>2, <3>3 DEF c, r
  <2>6. Ahead' = off
    BY <1>0, <2>1, <2>4, <2>5 DEF Ahead
  <2>7. pc' \in {"rest", "close"} => path' # f'
    BY <2>1 DEF BufferOK
  <2>8. Len(buf') <= read' /\ (buf' = <<>> => read' = 0)
    BY <2>4, <2>5
  <2>9. f' = f /\ content' = content /\ off' = off /\ Len(buf') = read'
    BY <2>1, <2>5
  <2>10. off' + read' <= Len(content'[f'])
    BY <2>4, <2>9
  <2>11. \A m \in 1 .. Len(buf') : buf'[m] = content'[f'][Ahead' + m]
    BY <2>5, <2>6, <2>9, Zenon
  <2>12. f' # None /\ ~blind'
    BY <2>1, <2>2
  <2> QED BY <2>4, <2>7, <2>8, <2>10, <2>11, <2>12 DEF BufferOK
\* A drain that stops.
<1>11. ASSUME NEW e, Drained(e), pc \in Modes, UNCHANGED <<f, path, content, blind>>,
              off' = off \/ off' = off + read
       PROVE  BufferOK'
  <2>1. buf' = <<>> /\ read' = 0
    BY <1>11 DEF Drained
  <2>2. pc' \in {"rest", "close"} => pc = "rest"
    BY <1>11 DEF Drained, Modes
  <2> QED BY <1>11, <2>1, <2>2, BufferDropped DEF BufferOK
<1>12. CASE ReadNothing
  <2>1. Drained(TRUE) /\ pc \in Modes /\ UNCHANGED <<f, path, content, blind, off>>
    BY <1>12 DEF ReadNothing, logVars, ghostVars
  <2> QED BY <1>11, <2>1
<1>13. CASE CopyFails
  <2>1. Drained(TRUE) /\ pc \in Modes /\ UNCHANGED <<f, path, content, blind, off>>
    BY <1>0, <1>13 DEF CopyFails, logVars
  <2> QED BY <1>11, <2>1
<1>14. CASE Copy
  <2>1. buf # <<>> /\ pc \in Modes /\ UNCHANGED <<f, path, content, blind>>
    BY <1>0, <1>14 DEF Copy, logVars, ghostVars
  <2>2. CASE Len(buf) > 1
    <3>1. buf' = Tail(buf) /\ UNCHANGED <<off, pc, read>>
      BY <1>14, <2>2 DEF Copy
    <3>2. Len(buf') = Len(buf) - 1 /\ \A m \in 1 .. Len(buf') : buf'[m] = buf[m + 1] /\ m + 1 \in 1 .. Len(buf)
      BY <1>0, <2>2, <3>1
    <3>3. Ahead' = Ahead + 1 /\ Ahead \in Int
      <4>1. ASSUME NEW x \in Nat, NEW y \in Nat, NEW z \in Nat
            PROVE  x + y - (z - 1) = (x + y - z) + 1 /\ x + y - z \in Int
        OBVIOUS
      <4>2. Ahead' = off + read - (Len(buf) - 1)
        BY <3>1, <3>2 DEF Ahead
      <4> QED BY <1>0, <4>1, <4>2 DEF Ahead
    <3>4. \A m \in 1 .. Len(buf') : m \in Nat /\ Ahead' + m = Ahead + (m + 1)
      BY <1>0, <3>2, <3>3
    <3>5. Len(buf') <= read' /\ read' <= BufSize /\ Len(buf') # 0
      BY <1>0, <2>2, <3>1, <3>2 DEF BufferOK
    <3>6. buf' # <<>>
      BY <3>5
    <3>7. (f # None /\ ~blind) =>
             /\ off + read <= Len(content[f])
             /\ \A m \in 1 .. Len(buf') : buf'[m] = content[f][Ahead' + m]
      BY <3>2, <3>4 DEF BufferOK
    <3> QED BY <2>1, <3>1, <3>5, <3>6, <3>7 DEF BufferOK
  <2>3. CASE ~(Len(buf) > 1)
    <3>1. off' = off + read
      BY <1>14, <2>3 DEF Copy
    <3>2. \/ Drained(read < BufSize)
          \/ buf' = <<>> /\ read' = 0 /\ UNCHANGED pc
      BY <1>14, <2>3, Zenon DEF Copy
    <3>3. CASE buf' = <<>> /\ read' = 0 /\ UNCHANGED pc
      BY <2>1, <3>1, <3>3, BufferDropped DEF BufferOK
    <3>4. CASE Drained(read < BufSize)
      BY <1>11, <2>1, <3>1, <3>4
    <3> QED BY <3>2, <3>3, <3>4
  <2> QED BY <2>2, <2>3
<1>15. CASE StatMoved
  <2>1. /\ pc = "stat" /\ path # f /\ UNCHANGED <<f, off, path, content, blind>>
        /\ \/ UNCHANGED <<buf, read>>
           \/ buf' = <<>> /\ read' = 0
    BY <1>15 DEF StatMoved, Drain, logVars, ghostVars
  <2>2. buf = <<>> /\ read = 0
    BY <1>0, <2>1 DEF Modes, BufferOK
  <2> QED BY <2>1, <2>2, BufferDropped
<1>16. CASE StatCut
  <2>1. /\ pc = "stat" /\ off' = 0 /\ pc' = "fresh" /\ buf' = <<>> /\ read' = 0
        /\ blind' = FALSE /\ UNCHANGED <<f, path, content>>
    BY <1>16 DEF StatCut, Drain, logVars
  <2>2. f # None /\ Len(content[f]) \in Nat
    BY <1>0, <1>1, <2>1
  <2> QED BY <1>0, <2>1, <2>2 DEF BufferOK
<1>17. CASE StatSame
  <2>1. /\ pc = "stat" /\ pc' = "idle" /\ UNCHANGED <<f, off, path, content, blind, buf, read>>
    BY <1>17 DEF StatSame, logVars, ghostVars
  <2>2. buf = <<>> /\ read = 0
    BY <1>0, <2>1 DEF Modes, BufferOK
  <2> QED BY <2>1, <2>2, BufferDropped
<1>18. CASE CloseOld
  <2>1. /\ pc = "close" /\ f' = path /\ off' = 0 /\ blind' = FALSE
        /\ \/ pc' = "idle" /\ UNCHANGED <<buf, read>>
           \/ pc' = "fresh" /\ buf' = <<>> /\ read' = 0
        /\ UNCHANGED <<path, content>>
    BY <1>18 DEF CloseOld, Drain, logVars
  <2>2. buf = <<>> /\ read = 0
    BY <1>0, <2>1 DEF Modes, BufferOK
  <2>3. path # None => Len(content[path]) \in Nat
    BY <1>0, <1>1, FilesTyped
  <2>4. buf' = <<>> /\ read' = 0 /\ pc' \in {"idle", "fresh"} /\ Len(buf') = 0
    BY <2>1, <2>2
  <2> QED BY <1>0, <2>1, <2>3, <2>4 DEF BufferOK
<1> QED BY <1>3, <1>4, <1>5, <1>6, <1>7, <1>8, <1>9, <1>10, <1>12, <1>13, <1>14, <1>15,
     <1>16, <1>17, <1>18 DEF Next, Daemon, Rotation, Tailer

\* What was captured stays captured; only a failing write counts as a fault.
LEMMA CaptureGrows ==
    ASSUME TailInv, OutOK, [Next]_vars
    PROVE  /\ OutOK'
           /\ \A v : v \in Captured => v \in Captured'
           /\ bounds.faults <= bounds'.faults
           /\ bounds'.faults # bounds.faults => CopyFails
<1> DEFINE Goal == /\ OutOK'
                   /\ \A v : v \in Captured => v \in Captured'
                   /\ bounds.faults <= bounds'.faults
                   /\ bounds'.faults # bounds.faults => CopyFails
<1>0. bounds.faults \in Nat /\ bounds.renames \in Nat /\ bounds.cuts \in Nat
  BY DEF OutOK
<1>1. UNCHANGED out => \A v : v \in Captured => v \in Captured'
  BY DEF Captured
<1>2. ASSUME UNCHANGED <<out, bounds>> PROVE Goal
  BY <1>0, <1>1, <1>2 DEF OutOK
<1>3. CASE Rename
  <2>1. UNCHANGED out /\ bounds' = [bounds EXCEPT !["renames"] = @ + 1]
    BY <1>3 DEF Rename, Count, sinkVars
  <2>2. bounds' \in [renames : Nat, cuts : Nat, faults : Nat] /\ bounds'.faults = bounds.faults
    BY <1>0, <2>1 DEF OutOK
  <2> QED BY <1>0, <1>1, <2>1, <2>2 DEF OutOK
<1>4. CASE Truncate
  <2>1. UNCHANGED out /\ bounds' = [bounds EXCEPT !["cuts"] = @ + 1]
    BY <1>4 DEF Truncate, Count, sinkVars
  <2>2. bounds' \in [renames : Nat, cuts : Nat, faults : Nat] /\ bounds'.faults = bounds.faults
    BY <1>0, <2>1 DEF OutOK
  <2> QED BY <1>0, <1>1, <2>1, <2>2 DEF OutOK
<1>5. CASE CopyFails
  <2>1. UNCHANGED out /\ bounds' = [bounds EXCEPT !["faults"] = @ + 1]
    BY <1>5 DEF CopyFails, Count, sinkVars
  <2>2. bounds' \in [renames : Nat, cuts : Nat, faults : Nat] /\ bounds'.faults = bounds.faults + 1
    BY <1>0, <2>1 DEF OutOK
  <2> QED BY <1>0, <1>1, <1>5, <2>1, <2>2 DEF OutOK
<1>6. ASSUME NEW u \in Units, out' = Append(out, u), UNCHANGED bounds PROVE Goal
  BY <1>0, <1>6, Emitted DEF OutOK
<1>7. CASE Copy
  <2>1. buf # <<>> /\ out' = Append(out, Head(buf)) /\ UNCHANGED bounds
    BY <1>7 DEF Copy, Emit, ghostVars
  <2>2. Head(buf) \in Units
    BY <2>1 DEF TailInv, PollOK
  <2> QED BY <1>6, <2>1, <2>2
<1>8. CASE StatCut \/ CloseOld
  <2>1. UNCHANGED bounds /\ (out' = Append(out, NL) \/ UNCHANGED out)
    BY <1>8 DEF StatCut, CloseOld, EndLine, Emit, sinkVars
  <2>2. NL \in Units
    BY TailAssumption DEF NL, Units
  <2> QED BY <1>2, <1>6, <2>1, <2>2
<1>9. CASE Daemon \/ Create
  BY <1>2, <1>9 DEF Daemon, WriteLine, WriteEnd, Reopen, Create, sinkVars, ghostVars
<1>10. CASE PollOpens \/ Poll \/ Read \/ ReadNothing \/ StatMoved \/ StatSame
  BY <1>2, <1>10 DEF PollOpens, Poll, Read, ReadNothing, StatMoved, StatSame, sinkVars, ghostVars
<1>11. CASE UNCHANGED vars
  BY <1>2, <1>11 DEF vars, sinkVars, ghostVars
<1> QED BY <1>3, <1>4, <1>5, <1>7, <1>8, <1>9, <1>10, <1>11 DEF Next, Rotation, Tailer

\* The lines of the file followed after a place in it.
LEMMA BeyondLines ==
    ASSUME TailInv, f # None, NEW n \in Nat
    PROVE  \A v : v \in Lines(Beyond(n)) <=>
                     v # NL /\ \E k \in DOMAIN content[f] : k > n /\ content[f][k] = v
<1> DEFINE c == content[f]
           b == SubSeq(c, n + 1, Len(c))
<1>1. f \in DOMAIN content
  BY DEF TailInv, PollOK, FilesOK, None
<1>2. c \in Seq(Units)
  BY <1>1, FilesTyped DEF TailInv
<1> HIDE DEF c
<1>3. /\ DOMAIN c = 1 .. Len(c) /\ Len(c) \in Nat
      /\ \A k \in DOMAIN c : k > n => k - n \in DOMAIN b /\ b[k - n] = c[k]
      /\ \A m \in DOMAIN b : n + m \in DOMAIN c /\ n + m > n /\ b[m] = c[n + m]
  BY <1>2
<1>4. Beyond(n) = b
  BY DEF Beyond, c
<1> HIDE DEF b
<1>5. ASSUME NEW v PROVE v \in Lines(b) <=> v # NL /\ \E k \in DOMAIN c : k > n /\ c[k] = v
  <2>1. ASSUME v \in Lines(b) PROVE v # NL /\ \E k \in DOMAIN c : k > n /\ c[k] = v
    <3>1. v # NL /\ \E m \in DOMAIN b : b[m] = v
      BY <2>1 DEF Lines
    <3> QED BY <1>3, <3>1
  <2>2. ASSUME v # NL, NEW k \in DOMAIN c, k > n, c[k] = v PROVE v \in Lines(b)
    BY <1>3, <2>2 DEF Lines
  <2> QED BY <2>1, <2>2
<1> QED BY <1>4, <1>5 DEF c

LEMMA ReadStep ==
    ASSUME TailInv, OutOK, UniqueLines, BufferOK, BufferOK', ReadAccounted, [Next]_vars
    PROVE  ReadAccounted'
<1>0. /\ FilesOK /\ off \in Nat /\ read \in Nat /\ buf \in Seq(Units) /\ Len(buf) \in Nat
      /\ f # None => f \in DOMAIN content
      /\ pc # "idle" => f # None
      /\ buf # <<>> => pc \in Modes
      /\ Len(buf) <= read
      /\ buf = <<>> => read = 0 /\ Len(buf) = 0
  BY DEF TailInv, PollOK, ReadOK, FilesOK, None, BufferOK
<1>1. /\ \A i \in DOMAIN content : Len(content[i]) \in Nat /\ DOMAIN content[i] = 1 .. Len(content[i])
      /\ off <= Ahead /\ Ahead <= off + read /\ Ahead \in Nat
      /\ buf = <<>> => Ahead = off
  <2>1. ASSUME NEW x \in Nat, NEW y \in Nat, NEW z \in Nat, z <= y
        PROVE  x <= x + y - z /\ x + y - z <= x + y /\ x + y - z \in Nat /\ x + 0 - 0 = x
    BY <2>1
  <2> QED BY <1>0, <2>1, FilesTyped DEF Ahead
<1>2. \A v : v \in Captured => v \in Captured'
  BY CaptureGrows
<1>3. ASSUME UNCHANGED f, blind' => blind, Ahead' <= Ahead, Ahead' \in Int, f # None => content'[f] = content[f],
             \A v : v \in lost => v \in lost'
      PROVE  ReadAccounted'
  BY <1>0, <1>1, <1>2, <1>3 DEF ReadAccounted, Held
\* What is done with a file, and what is read of a new one, starts at nothing.
<1>4. ASSUME Ahead' = 0, ~blind', f' # None => content'[f'] \in Seq(Units)
      PROVE  ReadAccounted'
  BY <1>4 DEF ReadAccounted
<1>5. CASE WriteLine \/ WriteEnd
  <2>1. PICK u \in Units :
          /\ content' = [content EXCEPT ![wfd] = Append(content[wfd], u)]
          /\ u = NL \/ (blind => u \in lost')
    BY <1>5, TailWrites
  <2>2. UNCHANGED <<f, off, read, buf, blind>> /\ \A v : v \in lost => v \in lost'
    BY <1>5 DEF WriteLine, WriteEnd, tailVars, ghostVars
  <2>3. Ahead' = Ahead
    BY <2>2 DEF Ahead
  <2>4. ASSUME f # None, NEW k \in DOMAIN content'[f]
        PROVE  /\ k <= Ahead => content'[f][k] \in Held'
               /\ blind => content'[f][k] = NL \/ content'[f][k] \in lost'
    <3>1. CASE k \in DOMAIN content[f] /\ content'[f][k] = content[f][k]
      BY <1>2, <2>2, <2>4, <3>1 DEF ReadAccounted, Held
    <3>2. CASE k = Len(content[f]) + 1 /\ content'[f][k] = u
      <4>1. ~blind => ~(k <= Ahead)
        <5>1. ~blind => off + read <= Len(content[f])
          BY <2>4 DEF BufferOK
        <5> QED BY <1>0, <1>1, <2>4, <3>2, <5>1
      <4> QED BY <2>1, <3>2, <4>1 DEF Held
    <3>3. \/ k \in DOMAIN content[f] /\ content'[f][k] = content[f][k]
          \/ k = Len(content[f]) + 1 /\ content'[f][k] = u
      BY <1>0, <1>1, <2>1, <2>4, Appended
    <3> QED BY <3>1, <3>2, <3>3
  <2> QED BY <2>2, <2>3, <2>4 DEF ReadAccounted
<1>6. CASE Create
  <2>1. /\ content' = Append(content, <<>>)
        /\ UNCHANGED <<f, off, read, buf, blind, lost>>
    BY <1>6 DEF Create, tailVars, ghostVars
  <2>2. Ahead' = Ahead
    BY <2>1 DEF Ahead
  <2>3. f # None => content'[f] = content[f]
    BY <1>0, <2>1, Created
  <2>4. Ahead' <= Ahead /\ Ahead' \in Int
    BY <1>1, <2>2
  <2> QED BY <1>3, <2>1, <2>3, <2>4
<1>7. CASE Truncate
  <2>1. /\ path # None /\ content' = [content EXCEPT ![path] = <<>>]
        /\ \A v : v \in lost => v \in lost'
        /\ blind' = (blind \/ (path = f /\ (off > 0 \/ buf # <<>>)))
        /\ UNCHANGED <<f, off, read, buf>>
    BY <1>7 DEF Truncate, tailVars
  <2>2. Ahead' = Ahead /\ Ahead' <= Ahead /\ Ahead' \in Int
    BY <1>1, <2>1 DEF Ahead
  <2>3. CASE path = f
    <3>1. DOMAIN content'[f'] = {}
      BY <1>0, <2>1, <2>3, Emptied
    <3> QED BY <3>1 DEF ReadAccounted
  <2>4. CASE path # f
    <3>1. f # None => content'[f] = content[f]
      BY <1>0, <2>1, <2>4, Emptied
    <3>2. blind' => blind
      BY <2>1, <2>4, Zenon
    <3> QED BY <1>3, <2>1, <2>2, <3>1, <3>2
  <2> QED BY <2>3, <2>4
<1>8. CASE Rename \/ Reopen \/ UNCHANGED vars
  <2>1. /\ UNCHANGED <<f, off, read, buf, blind, content>>
        /\ \A v : v \in lost => v \in lost'
    BY <1>8 DEF Rename, Reopen, vars, logVars, tailVars, ghostVars
  <2>2. Ahead' = Ahead /\ Ahead' <= Ahead /\ Ahead' \in Int
    BY <1>1, <2>1 DEF Ahead
  <2> QED BY <1>3, <2>1, <2>2
<1>9. CASE PollOpens
  <2>1. /\ f = None /\ path # None /\ f' = path /\ buf' = <<>> /\ read' = 0
        /\ off' = IF opened \/ FromStart THEN 0 ELSE Len(content[path])
        /\ lost' = IF opened \/ FromStart THEN lost ELSE lost \cup Lines(content[path])
        /\ UNCHANGED <<content, blind>>
    BY <1>9 DEF PollOpens, Drain, logVars
  <2>2. path \in DOMAIN content /\ ~blind /\ Len(buf') = 0
    BY <1>0, <2>1, FilesTyped DEF BufferOK
  <2>3. off' \in Nat
    BY <1>1, <2>1, <2>2
  <2>4. Ahead' = off'
    BY <2>1, <2>2, <2>3 DEF Ahead
  <2>5. ASSUME NEW k \in DOMAIN content[path], k <= Ahead'
        PROVE  content[path][k] \in Held'
    <3>1. ~(opened \/ FromStart)
      BY <1>1, <2>1, <2>2, <2>4, <2>5
    <3> QED BY <2>1, <3>1 DEF Held, Lines
  <2> QED BY <2>1, <2>2, <2>5 DEF ReadAccounted
<1>10. CASE Poll
  <2>1. /\ buf' = <<>> /\ read' = 0 /\ pc = "idle"
        /\ UNCHANGED <<f, off, blind, lost, content>>
    BY <1>10 DEF Poll, Drain, logVars, ghostVars
  <2>2. buf = <<>> /\ Len(buf') = 0
    BY <1>0, <2>1 DEF Modes
  <2>3. Ahead' <= Ahead /\ Ahead' \in Int
    BY <1>0, <1>1, <2>1, <2>2 DEF Ahead
  <2> QED BY <1>3, <2>1, <2>3
\* What is read past an unnoticed truncation is no longer lost.
<1>11. CASE Read
  <2>1. /\ f # None /\ buf = <<>> /\ off < Len(content[f])
        /\ read' = Lesser(BufSize, Len(content[f]) - off)
        /\ buf' = SubSeq(content[f], off + 1, off + read')
        /\ blind' = FALSE
        /\ lost' = IF blind THEN lost \ Lines(Beyond(off)) ELSE lost
        /\ UNCHANGED <<f, off, content, out>>
    BY <1>0, <1>11 DEF Read, Modes, Followed, logVars, sinkVars
  <2>2. Ahead' = off
    <3> DEFINE c == content[f]
               r == read'
    <3>0. c \in Seq(Units) /\ Len(c) \in Nat /\ BufSize \in Nat
      BY <1>0, <1>1, <2>1, FilesTyped, TailAssumption
    <3>1. c \in Seq(Units) /\ r \in Nat /\ off + r <= Len(c)
      BY <1>0, <2>1, <3>0 DEF Lesser
    <3>2. buf' = SubSeq(c, off + 1, off + r)
      BY <2>1
    <3> HIDE DEF c, r
    <3>3. Len(SubSeq(c, off + 1, off + r)) = r
      BY <1>0, <3>1
    <3>4. off + r - r = off
      BY <1>0, <3>1
    <3>5. Len(buf') = r
      BY <3>2, <3>3
    <3> QED BY <2>1, <3>4, <3>5 DEF Ahead, r
  <2>3. ASSUME NEW k \in DOMAIN content[f], k <= off
        PROVE  content[f][k] \in Held'
    <3>1. content[f][k] \in Held
      BY <1>1, <2>1, <2>3 DEF ReadAccounted
    <3>2. CASE ~blind
      BY <1>2, <2>1, <3>1, <3>2 DEF Held
    <3>3. CASE blind
      <4>1. CASE content[f][k] = NL
        BY <4>1 DEF Held
      <4>2. CASE content[f][k] # NL
        <5>1. content[f][k] \notin Lines(Beyond(off))
          <6>1. ASSUME NEW l \in DOMAIN content[f], l > off PROVE content[f][l] # content[f][k]
            <7>1. l # k
              BY <1>0, <1>1, <2>1, <2>3, <6>1
            <7> QED BY <1>0, <2>1, <4>2, <7>1 DEF UniqueLines
          <6> QED BY <1>0, <2>1, <6>1, BeyondLines
        <5>2. content[f][k] \in lost
          BY <2>1, <3>3, <4>2 DEF ReadAccounted
        <5> QED BY <2>1, <3>3, <5>1, <5>2 DEF Held
      <4> QED BY <4>1, <4>2
    <3> QED BY <3>2, <3>3
  <2> QED BY <2>1, <2>2, <2>3 DEF ReadAccounted
\* A drain that stops before it copied the buffer.
<1>12. ASSUME buf' = <<>>, read' = 0, UNCHANGED <<f, off, blind, lost, content>>
       PROVE  ReadAccounted'
  <2>1. Len(buf') = 0
    BY <1>12
  <2>2. Ahead' <= Ahead /\ Ahead' \in Int
    BY <1>0, <1>1, <1>12, <2>1 DEF Ahead
  <2> QED BY <1>3, <1>12, <2>2
<1>13. CASE ReadNothing \/ CopyFails
  <2>1. buf' = <<>> /\ read' = 0 /\ UNCHANGED <<f, off, blind, lost, content>>
    BY <1>13 DEF ReadNothing, CopyFails, Drained, logVars, ghostVars
  <2> QED BY <1>12, <2>1
\* The unit copied is the next of the file.
<1>14. CASE Copy
  <2>1. /\ buf # <<>> /\ out' = Append(out, Head(buf)) /\ f # None
        /\ UNCHANGED <<f, content, blind, lost>>
    BY <1>0, <1>14 DEF Copy, Emit, Modes, logVars, ghostVars
  <2>2. Head(buf) \in Units /\ Head(buf) = buf[1] /\ Len(buf) >= 1
    BY <1>0, <2>1
  <2>3. Ahead' = Ahead + 1
    <3>1. CASE Len(buf) > 1
      <4>1. buf' = Tail(buf) /\ UNCHANGED <<off, read>>
        BY <1>14, <3>1 DEF Copy
      <4>2. Len(buf') = Len(buf) - 1
        BY <1>0, <2>1, <4>1
      <4>3. ASSUME NEW x \in Nat, NEW y \in Nat, NEW z \in Nat
            PROVE  x + y - (z - 1) = (x + y - z) + 1
        OBVIOUS
      <4>4. Ahead' = off + read - (Len(buf) - 1)
        BY <4>1, <4>2 DEF Ahead
      <4> QED BY <1>0, <4>3, <4>4 DEF Ahead
    <3>2. CASE ~(Len(buf) > 1)
      <4>1. off' = off + read /\ buf' = <<>> /\ read' = 0
        BY <1>14, <3>2 DEF Copy, Drained
      <4>2. Len(buf) = 1
        <5>1. ASSUME NEW z \in Nat, z >= 1, ~(z > 1) PROVE z = 1
          BY <5>1
        <5>2. Len(buf) \in Nat /\ Len(buf) >= 1
          BY <1>0, <2>2
        <5> QED BY <3>2, <5>1, <5>2
      <4>3. Len(buf') = 0
        BY <4>1
      <4>4. ASSUME NEW x \in Nat, NEW y \in Nat
            PROVE  x + y + 0 - 0 = (x + y - 1) + 1
        OBVIOUS
      <4> QED BY <1>0, <4>1, <4>2, <4>3, <4>4 DEF Ahead
    <3> QED BY <3>1, <3>2
  <2>4. Head(buf) \in Held'
    BY <2>1, <2>2, Emitted DEF OutOK, Held
  <2>5. ~blind => content[f][Ahead + 1] = Head(buf)
    <3>1. 1 \in 1 .. Len(buf)
      BY <1>0, <2>2
    <3> QED BY <2>1, <2>2, <3>1 DEF BufferOK
  <2>6. ASSUME NEW k \in DOMAIN content[f], k <= Ahead + 1
        PROVE  content[f][k] \in Held'
    <3>1. CASE k <= Ahead
      BY <1>2, <2>1, <3>1 DEF ReadAccounted, Held
    <3>2. CASE ~(k <= Ahead)
      <4>1. k = Ahead + 1
        BY <1>0, <1>1, <2>1, <2>6, <3>2
      <4>2. CASE blind
        BY <2>1, <2>6, <4>2 DEF ReadAccounted, Held
      <4> QED BY <2>4, <2>5, <4>1, <4>2
    <3> QED BY <3>1, <3>2
  <2>7. ASSUME NEW k \in DOMAIN content[f], blind
        PROVE  content[f][k] = NL \/ content[f][k] \in lost
    BY <2>1, <2>7 DEF ReadAccounted
  <2> QED BY <2>1, <2>3, <2>6, <2>7 DEF ReadAccounted
<1>15. CASE StatMoved \/ StatSame
  <2>1. /\ pc = "stat" /\ UNCHANGED <<f, off, blind, lost, content>>
        /\ \/ UNCHANGED <<buf, read>>
           \/ buf' = <<>> /\ read' = 0
    BY <1>15 DEF StatMoved, StatSame, Drain, logVars, ghostVars
  <2>2. buf = <<>> /\ read = 0
    BY <1>0, <2>1 DEF Modes
  <2> QED BY <1>12, <2>1, <2>2
<1>16. CASE StatCut
  <2>1. off' = 0 /\ buf' = <<>> /\ read' = 0 /\ blind' = FALSE /\ UNCHANGED <<f, content>>
    BY <1>16 DEF StatCut, Drain, logVars
  <2>2. Len(buf') = 0
    BY <2>1
  <2>3. Ahead' = 0 /\ ~blind'
    <3>1. Ahead' = 0 + 0 - 0
      BY <2>1, <2>2 DEF Ahead
    <3> QED BY <2>1, <3>1
  <2>4. f' # None => content'[f'] \in Seq(Units)
    BY <1>0, <2>1, FilesTyped
  <2> QED BY <1>4, <2>3, <2>4
<1>17. CASE CloseOld
  <2>1. /\ pc = "close" /\ f' = path /\ off' = 0 /\ blind' = FALSE /\ UNCHANGED content
        /\ \/ UNCHANGED <<buf, read>>
           \/ buf' = <<>> /\ read' = 0
    BY <1>17 DEF CloseOld, Drain, logVars
  <2>2. buf' = <<>> /\ read' = 0
    BY <1>0, <2>1 DEF Modes
  <2>3. Len(buf') = 0
    BY <2>2
  <2>4. Ahead' = 0 /\ ~blind'
    <3>1. Ahead' = 0 + 0 - 0
      BY <2>1, <2>2, <2>3 DEF Ahead
    <3> QED BY <2>1, <3>1
  <2>5. f' # None => content'[f'] \in Seq(Units)
    BY <1>0, <2>1, FilesTyped
  <2> QED BY <1>4, <2>4, <2>5
<1> QED BY <1>5, <1>6, <1>7, <1>8, <1>9, <1>10, <1>11, <1>13, <1>14, <1>15, <1>16, <1>17
     DEF Next, Daemon, Rotation, Tailer

LEMMA RestStep ==
    ASSUME TailInv, OutOK, BufferOK, BufferOK', RestAccounted, [Next]_vars
    PROVE  RestAccounted'
<1>0. /\ FilesOK /\ off \in Nat /\ read \in Nat /\ buf \in Seq(Units) /\ Len(buf) \in Nat
      /\ f # None => f \in DOMAIN content
      /\ pc # "idle" => f # None
      /\ buf # <<>> => pc \in Modes
      /\ buf = <<>> => read = 0
  BY DEF TailInv, PollOK, ReadOK, FilesOK, None, BufferOK
<1>1. /\ \A i \in DOMAIN content : Len(content[i]) \in Nat /\ DOMAIN content[i] = 1 .. Len(content[i])
      /\ bounds.faults \in Nat
      /\ bounds'.faults = 0 => bounds.faults = 0
  <2>1. /\ \A i \in DOMAIN content : Len(content[i]) \in Nat /\ DOMAIN content[i] = 1 .. Len(content[i])
        /\ bounds.faults \in Nat /\ bounds'.faults \in Nat /\ bounds.faults <= bounds'.faults
    BY <1>0, CaptureGrows, FilesTyped DEF OutOK
  <2> QED BY <2>1
\* The last read stays what it was.
<1>2. ASSUME UNCHANGED f, off' + read' = off + read, LastRead' => LastRead,
             (f # None /\ path' # f) => path # f,
             (f # None /\ path' # f) => content'[f] = content[f],
             \A v : v \in lost => v \in lost', \A v : v \in raced => v \in raced'
      PROVE  RestAccounted'
  <2>1. ASSUME bounds'.faults = 0, f' # None, path' # f', LastRead',
               NEW k \in DOMAIN content'[f'], k > off' + read'
        PROVE  content'[f'][k] = NL \/ content'[f'][k] \in lost' \/ content'[f'][k] \in raced'
    <3>1. /\ bounds.faults = 0 /\ f # None /\ path # f /\ LastRead
          /\ content'[f'] = content[f] /\ k \in DOMAIN content[f] /\ k > off + read
      BY <1>1, <1>2, <2>1
    <3>2. content[f][k] = NL \/ content[f][k] \in lost \/ content[f][k] \in raced
      BY <3>1 DEF RestAccounted
    <3> QED BY <1>2, <3>1, <3>2
  <2> QED BY <2>1 DEF RestAccounted
<1>3. ASSUME ~LastRead' PROVE RestAccounted'
  BY <1>3 DEF RestAccounted
<1>4. ASSUME UNCHANGED <<pc, eof, buf, read>> PROVE LastRead' <=> LastRead
  BY <1>4 DEF LastRead
<1>5. CASE WriteLine \/ WriteEnd
  <2>1. PICK u \in Units :
          /\ content' = [content EXCEPT ![wfd] = Append(content[wfd], u)]
          /\ u = NL \/ (wfd # path => u \in lost')
    BY <1>5, TailWrites
  <2>2. /\ UNCHANGED <<f, off, read, buf, pc, eof, path, raced>>
        /\ \A v : v \in lost => v \in lost'
    BY <1>5 DEF WriteLine, WriteEnd, tailVars, ghostVars
  <2>3. ASSUME bounds.faults = 0, f # None, path # f, LastRead,
               NEW k \in DOMAIN content'[f], k > off + read
        PROVE  content'[f][k] = NL \/ content'[f][k] \in lost' \/ content'[f][k] \in raced'
    <3>1. CASE k \in DOMAIN content[f] /\ content'[f][k] = content[f][k]
      BY <2>2, <2>3, <3>1 DEF RestAccounted
    <3>2. CASE f = wfd /\ content'[f][k] = u
      BY <2>1, <2>3, <3>2
    <3>3. \/ k \in DOMAIN content[f] /\ content'[f][k] = content[f][k]
          \/ f = wfd /\ content'[f][k] = u
      <4>1. CASE f = wfd
        BY <1>0, <1>1, <2>1, <2>3, <4>1, Appended
      <4>2. CASE f # wfd
        BY <1>0, <2>1, <2>3, <4>2, Appended
      <4> QED BY <4>1, <4>2
    <3> QED BY <3>1, <3>2, <3>3
  <2> QED BY <1>1, <1>4, <2>2, <2>3 DEF RestAccounted
<1>6. CASE Create
  <2>1. /\ content' = Append(content, <<>>) /\ path = None
        /\ UNCHANGED <<f, off, read, buf, pc, eof, lost, raced>>
    BY <1>6 DEF Create, tailVars, ghostVars
  <2>2. f # None => content'[f] = content[f]
    BY <1>0, <2>1, Created
  <2>3. off' + read' = off + read /\ (f # None => path # f)
    BY <2>1
  <2> QED BY <1>2, <1>4, <2>1, <2>2, <2>3
<1>7. CASE Truncate
  <2>1. /\ path # None /\ content' = [content EXCEPT ![path] = <<>>]
        /\ \A v : v \in lost => v \in lost'
        /\ UNCHANGED <<f, off, read, buf, pc, eof, path, raced>>
    BY <1>7 DEF Truncate, tailVars
  <2>2. (f # None /\ path # f) => content'[f] = content[f]
    BY <1>0, <2>1, Emptied
  <2>3. off' + read' = off + read
    BY <2>1
  <2> QED BY <1>2, <1>4, <2>1, <2>2, <2>3
\* What was written after the last read and before the rename is raced.
<1>8. CASE Rename
  <2>1. /\ UNCHANGED <<f, off, read, buf, pc, eof, content>>
        /\ \A v : v \in lost => v \in lost'
        /\ raced' = IF path = f /\ AtEnd THEN raced \cup Lines(Beyond(off + read)) ELSE raced
    BY <1>8 DEF Rename, tailVars
  <2>2. off' + read' = off + read /\ \A v : v \in raced => v \in raced'
    BY <2>1
  <2>3. CASE path # f
    BY <1>2, <1>4, <2>1, <2>2, <2>3
  <2>4. CASE path = f
    <3>1. ASSUME LastRead PROVE AtEnd
      <4>1. pc \notin {"rest", "close"}
        BY <2>4 DEF BufferOK
      <4> QED BY <3>1, <4>1 DEF LastRead, AtEnd
    <3>2. ASSUME LastRead, f # None, NEW k \in DOMAIN content[f], k > off + read
          PROVE  content[f][k] = NL \/ content[f][k] \in raced'
      <4>1. off + read \in Nat
        BY <1>0
      <4>2. content[f][k] # NL => content[f][k] \in Lines(Beyond(off + read))
        BY <3>2, <4>1, BeyondLines
      <4> QED BY <2>1, <2>4, <3>1, <3>2, <4>2
    <3> QED BY <1>4, <2>1, <3>2 DEF RestAccounted
  <2> QED BY <2>3, <2>4
<1>9. CASE Reopen \/ UNCHANGED vars
  <2>1. UNCHANGED <<f, off, read, buf, pc, eof, content, path, lost, raced>>
    BY <1>9 DEF Reopen, vars, logVars, tailVars, ghostVars
  <2>2. off' + read' = off + read
    BY <2>1
  <2> QED BY <1>2, <1>4, <2>1, <2>2
\* A drain begins, or the poll is over.
<1>10. ASSUME \/ pc' \in {"idle", "fresh"}
              \/ pc' \in {"drain", "rest"} /\ buf' = <<>>
       PROVE  RestAccounted'
  BY <1>3, <1>10 DEF LastRead
<1>11. CASE PollOpens \/ Poll \/ StatCut
  <2>1. pc' \in {"drain", "fresh"} /\ buf' = <<>>
    BY <1>11 DEF PollOpens, Poll, StatCut, Drain
  <2> QED BY <1>10, <2>1
<1>12. CASE StatSame \/ CloseOld
  <2>1. pc' \in {"idle", "fresh"}
    BY <1>12 DEF StatSame, CloseOld, Drain
  <2> QED BY <1>10, <2>1
\* A read shorter than the buffer reached the end.
<1>13. CASE Read
  <2>1. /\ pc \in Modes /\ off < Len(content[f])
        /\ read' = Lesser(BufSize, Len(content[f]) - off)
        /\ UNCHANGED <<f, off, content, pc>>
    BY <1>13 DEF Read, Followed, logVars
  <2>2. f # None /\ f \in DOMAIN content
    BY <1>0, <2>1 DEF Modes
  <2>3. Len(content[f]) \in Nat /\ BufSize \in Nat /\ DOMAIN content[f] = 1 .. Len(content[f])
    BY <1>1, <2>2, TailAssumption
  <2>4. CASE read' < BufSize
    <3>1. off' + read' = Len(content[f])
      BY <1>0, <2>1, <2>3, <2>4 DEF Lesser
    <3>2. \A k \in DOMAIN content[f] : ~(k > off' + read')
      BY <2>3, <3>1
    <3> QED BY <2>1, <3>2 DEF RestAccounted
  <2>5. CASE ~(read' < BufSize)
    <3>1. ~LastRead'
      BY <2>1, <2>5 DEF LastRead, Modes
    <3> QED BY <1>3, <3>1
  <2> QED BY <2>4, <2>5
<1>14. CASE ReadNothing
  <2>1. /\ pc \in Modes /\ off >= Len(content[f]) /\ read' = 0
        /\ UNCHANGED <<f, off, content>>
    BY <1>14 DEF ReadNothing, Drained, Followed, logVars
  <2>2. f # None /\ f \in DOMAIN content
    BY <1>0, <2>1 DEF Modes
  <2>3. \A k \in DOMAIN content[f] : ~(k > off' + read')
    BY <1>0, <1>1, <2>1, <2>2
  <2> QED BY <2>1, <2>3 DEF RestAccounted
<1>15. CASE CopyFails
  <2>1. bounds' = [bounds EXCEPT !["faults"] = @ + 1]
    BY <1>15 DEF CopyFails, Count
  <2>2. bounds'.faults # 0
    BY <1>1, <2>1 DEF OutOK
  <2> QED BY <2>2 DEF RestAccounted
<1>16. CASE Copy
  <2>1. buf # <<>> /\ pc \in Modes /\ UNCHANGED <<f, path, content, lost, raced>>
    BY <1>0, <1>16 DEF Copy, logVars, ghostVars
  <2>2. CASE Len(buf) > 1
    <3>1. UNCHANGED <<off, read, pc, eof>>
      BY <1>16, <2>2 DEF Copy
    <3>2. LastRead' => LastRead
      BY <2>1, <3>1 DEF LastRead
    <3>3. off' + read' = off + read
      BY <3>1
    <3> QED BY <1>2, <2>1, <3>2, <3>3
  <2>3. CASE ~(Len(buf) > 1)
    <3>1. /\ off' = off + read /\ read' = 0
          /\ \/ Drained(read < BufSize)
             \/ buf' = <<>> /\ UNCHANGED pc
      BY <1>16, <2>3 DEF Copy, Drained
    <3>2. off' + read' = off + read
      BY <1>0, <3>1
    <3>3. CASE Drained(read < BufSize)
      <4>1. LastRead' => LastRead
        BY <2>1, <3>3 DEF LastRead, Drained, Modes
      <4> QED BY <1>2, <2>1, <3>2, <4>1
    <3>4. CASE buf' = <<>> /\ UNCHANGED pc
      BY <1>10, <2>1, <3>4 DEF Modes
    <3> QED BY <3>1, <3>3, <3>4
  <2> QED BY <2>2, <2>3
<1>17. CASE StatMoved
  <2>1. /\ pc = "stat" /\ UNCHANGED <<f, off, path, content, lost, raced>>
        /\ IF eof THEN pc' = "close" /\ UNCHANGED <<buf, read>> ELSE pc' = "rest" /\ buf' = <<>>
    BY <1>17 DEF StatMoved, Drain, logVars, ghostVars
  <2>2. CASE eof
    <3>1. LastRead /\ off' + read' = off + read
      BY <2>1, <2>2 DEF LastRead
    <3> QED BY <1>2, <2>1, <3>1
  <2>3. CASE ~eof
    BY <1>10, <2>1, <2>3
  <2> QED BY <2>2, <2>3
<1> QED BY <1>5, <1>6, <1>7, <1>8, <1>9, <1>11, <1>12, <1>13, <1>14, <1>15, <1>16, <1>17
     DEF Next, Daemon, Rotation, Tailer

\* The file a step leaves, or finds the path to have left, is accounted for.
LEMMA ClosedStep ==
    ASSUME TailInv, OutOK, UniqueLines, BufferOK, ReadAccounted, RestAccounted,
           ClosedFilesCaptured, [Next]_vars
    PROVE  ClosedFilesCaptured'
<1>0. /\ FilesOK /\ off \in Nat /\ read \in Nat
      /\ \A i \in DOMAIN content : i # None
      /\ f # None => f \in DOMAIN content
      /\ pc # "idle" => f # None
      /\ Len(content) \in Nat
  BY DEF TailInv, PollOK, ReadOK, FilesOK, None
<1>1. \A v : v \in Captured => v \in Captured'
  BY CaptureGrows
<1>2. ASSUME UNCHANGED raced, \A v : v \in lost => v \in lost',
             \A i \in DOMAIN content' : i \notin {f', path'} =>
                i \in DOMAIN content /\ i \notin {f, path} /\ content'[i] = content[i]
      PROVE  ClosedFilesCaptured'
  BY <1>1, <1>2 DEF ClosedFilesCaptured
<1>3. CASE WriteLine \/ WriteEnd
  <2>1. PICK u \in Units :
          /\ content' = [content EXCEPT ![wfd] = Append(content[wfd], u)]
          /\ u = NL \/ (wfd # path => u \in lost')
    BY <1>3, TailWrites
  <2>2. UNCHANGED <<f, path, raced>> /\ \A v : v \in lost => v \in lost'
    BY <1>3 DEF WriteLine, WriteEnd, tailVars, ghostVars
  <2>3. ASSUME NEW i \in DOMAIN content', i \notin {f, path}
        PROVE  Lines(content'[i]) \subseteq Captured' \cup lost' \cup raced'
    <3>1. i \in DOMAIN content
      BY <1>0, <2>1, <2>3, Appended
    <3>2. \A k \in DOMAIN content[i] :
             content[i][k] # NL => content[i][k] \in Captured' \cup lost' \cup raced'
      <4>1. Lines(content[i]) \subseteq Captured \cup lost \cup raced
        BY <2>3, <3>1 DEF ClosedFilesCaptured
      <4>2. \A k \in DOMAIN content[i] : content[i][k] # NL => content[i][k] \in Lines(content[i])
        BY DEF Lines
      <4> QED BY <1>1, <2>2, <4>1, <4>2
    <3>3. \A k \in DOMAIN content'[i] :
             \/ k \in DOMAIN content[i] /\ content'[i][k] = content[i][k]
             \/ i = wfd /\ content'[i][k] = u
      BY <1>0, <2>1, <3>1, Appended, FilesTyped
    <3>4. \A k \in DOMAIN content'[i] :
             content'[i][k] # NL => content'[i][k] \in Captured' \cup lost' \cup raced'
      BY <2>1, <2>3, <3>2, <3>3
    <3> QED BY <3>4 DEF Lines
  <2> QED BY <2>2, <2>3 DEF ClosedFilesCaptured
<1>4. CASE Create
  <2>1. /\ content' = Append(content, <<>>) /\ path = None /\ path' = Len(content')
        /\ UNCHANGED <<f, lost, raced>>
    BY <1>4 DEF Create, tailVars, ghostVars
  <2>2. \A i \in DOMAIN content' : i # path' => i \in DOMAIN content /\ content'[i] = content[i]
    BY <1>0, <2>1, Created
  <2>3. f' = f /\ \A i \in DOMAIN content : i # path
    BY <1>0, <2>1
  <2>4. UNCHANGED <<lost, raced>>
    BY <2>1
  <2> QED BY <1>2, <2>2, <2>3, <2>4
<1>5. CASE Truncate
  <2>1. /\ path # None /\ content' = [content EXCEPT ![path] = <<>>]
        /\ \A v : v \in lost => v \in lost'
        /\ UNCHANGED <<f, path, raced>>
    BY <1>5 DEF Truncate, tailVars
  <2>2. \A i \in DOMAIN content' : i # path => i \in DOMAIN content /\ content'[i] = content[i]
    BY <1>0, <2>1, Emptied
  <2> QED BY <1>2, <2>1, <2>2
<1>6. CASE Rename
  <2>1. /\ path' = None /\ UNCHANGED <<f, content>>
        /\ lost' = IF path = f THEN lost ELSE lost \cup Lines(content[path])
        /\ \A v : v \in raced => v \in raced'
    BY <1>6 DEF Rename, tailVars
  <2>2. ASSUME NEW i \in DOMAIN content, i # f
        PROVE  Lines(content[i]) \subseteq Captured' \cup lost' \cup raced'
    <3>1. CASE i = path
      BY <2>1, <2>2, <3>1
    <3>2. CASE i # path
      <4>1. Lines(content[i]) \subseteq Captured \cup lost \cup raced
        BY <2>2, <3>2 DEF ClosedFilesCaptured
      <4> QED BY <1>1, <2>1, <4>1
    <3> QED BY <3>1, <3>2
  <2> QED BY <2>1, <2>2 DEF ClosedFilesCaptured
<1>7. CASE PollOpens
  <2>1. /\ f = None /\ f' = path /\ UNCHANGED <<path, content, raced>>
        /\ \A v : v \in lost => v \in lost'
    BY <1>7 DEF PollOpens, logVars
  <2> QED BY <1>0, <1>2, <2>1
\* The lines of a file are in no other.
<1>8. ASSUME f # None, UNCHANGED <<f, path, content, raced>>, NEW gone,
             \A v \in gone : v # NL /\ \E l \in DOMAIN content[f] : content[f][l] = v,
             lost' = lost \ gone
      PROVE  ClosedFilesCaptured'
  <2>1. ASSUME NEW i \in DOMAIN content, i \notin {f, path}, NEW v \in Lines(content[i])
        PROVE  v \in Captured' \cup lost' \cup raced'
    <3>1. v \in Captured \cup lost \cup raced
      BY <2>1 DEF ClosedFilesCaptured
    <3>2. v # NL /\ \E k \in DOMAIN content[i] : content[i][k] = v
      BY <2>1 DEF Lines
    <3>3. v \notin gone
      BY <1>0, <1>8, <2>1, <3>2 DEF UniqueLines
    <3> QED BY <1>1, <1>8, <3>1, <3>3
  <2> QED BY <1>8, <2>1 DEF ClosedFilesCaptured
<1>9. CASE Read
  <2>1. /\ f # None /\ UNCHANGED <<f, path, content, raced>>
        /\ lost' = IF blind THEN lost \ Lines(Beyond(off)) ELSE lost
    BY <1>0, <1>9 DEF Read, Modes, logVars
  <2>2. \A v \in Lines(Beyond(off)) : v # NL /\ \E l \in DOMAIN content[f] : content[f][l] = v
    BY <1>0, <2>1, BeyondLines
  <2>3. CASE blind
    BY <1>8, <2>1, <2>2, <2>3
  <2>4. CASE ~blind
    BY <1>2, <2>1, <2>4
  <2> QED BY <2>3, <2>4
<1>10. CASE StatCut
  <2>1. /\ f # None /\ UNCHANGED <<f, path, content, raced>>
        /\ lost' = lost \ Lines(content[f])
    BY <1>0, <1>10 DEF StatCut, Followed, logVars
  <2>2. \A v \in Lines(content[f]) : v # NL /\ \E l \in DOMAIN content[f] : content[f][l] = v
    BY DEF Lines
  <2> QED BY <1>8, <2>1, <2>2
<1>11. CASE CloseOld
  <2>1. /\ pc = "close" /\ f # None /\ f' = path /\ UNCHANGED <<path, content, raced>>
        /\ lost' = IF bounds.faults > 0 THEN lost \cup Lines(Beyond(off)) ELSE lost
    BY <1>0, <1>11 DEF CloseOld, logVars
  <2>2. /\ path # f /\ Ahead = off /\ off + read = off
    <3>1. buf = <<>> /\ read = 0 /\ path # f
      BY <2>1 DEF TailInv, PollOK, Modes, BufferOK
    <3>2. Len(buf) = 0
      BY <3>1
    <3> QED BY <1>0, <3>1, <3>2 DEF Ahead
  <2>3. ASSUME NEW k \in DOMAIN content[f]
        PROVE  content[f][k] = NL \/ content[f][k] \in Captured' \cup lost' \cup raced'
    <3>1. CASE k <= off
      <4>1. content[f][k] \in Held
        BY <2>1, <2>2, <2>3, <3>1 DEF ReadAccounted
      <4> QED BY <1>1, <2>1, <4>1 DEF Held
    <3>2. CASE ~(k <= off)
      <4>0. k > off
        BY <1>0, <2>1, <2>3, <3>2, FilesTyped
      <4>1. CASE bounds.faults > 0
        BY <1>0, <2>1, <4>0, <4>1, BeyondLines
      <4>2. CASE ~(bounds.faults > 0)
        <5>1. bounds.faults = 0 /\ LastRead
          BY <2>1, <4>2 DEF OutOK, LastRead
        <5> QED BY <2>1, <2>2, <4>0, <5>1 DEF RestAccounted
      <4> QED BY <4>1, <4>2
    <3> QED BY <3>1, <3>2
  <2>4. ASSUME NEW i \in DOMAIN content, i # path
        PROVE  Lines(content[i]) \subseteq Captured' \cup lost' \cup raced'
    <3>1. CASE i = f
      BY <2>3, <3>1 DEF Lines
    <3>2. CASE i # f
      <4>1. Lines(content[i]) \subseteq Captured \cup lost \cup raced
        BY <2>4, <3>2 DEF ClosedFilesCaptured
      <4> QED BY <1>1, <2>1, <4>1
    <3> QED BY <3>1, <3>2
  <2> QED BY <2>1, <2>4 DEF ClosedFilesCaptured
<1>12. CASE Poll \/ ReadNothing \/ Copy \/ CopyFails \/ StatMoved \/ StatSame \/ Reopen
  <2>1. UNCHANGED <<f, path, content, lost, raced>>
    BY <1>12 DEF Poll, ReadNothing, Copy, CopyFails, StatMoved, StatSame, Reopen, logVars,
       tailVars, ghostVars
  <2> QED BY <1>2, <2>1
<1>13. CASE UNCHANGED vars
  <2>1. UNCHANGED <<f, path, content, lost, raced>>
    BY <1>13 DEF vars, logVars, tailVars, ghostVars
  <2> QED BY <1>2, <2>1
<1> QED BY <1>3, <1>4, <1>5, <1>6, <1>7, <1>9, <1>10, <1>11, <1>12, <1>13
     DEF Next, Daemon, Rotation, Tailer

LEMMA CaptureInit == Init => CaptureInv
<1> SUFFICES ASSUME Init PROVE CaptureInv
  OBVIOUS
<1>1. /\ content = << <<>> >> /\ path = 1 /\ f = None /\ buf = <<>> /\ read = 0 /\ ~blind
      /\ pc = "idle" /\ out = <<>> /\ bounds = [renames |-> 0, cuts |-> 0, faults |-> 0]
  BY DEF Init
<1>2. DOMAIN content = {1} /\ content[1] = <<>> /\ DOMAIN content[1] = {}
  BY <1>1
<1>3. OutOK
  BY <1>1 DEF OutOK
<1>4. UniqueLines
  BY <1>2 DEF UniqueLines
<1>5. BufferOK
  BY <1>1, TailAssumption DEF BufferOK
<1>6. ReadAccounted /\ RestAccounted
  BY <1>1 DEF ReadAccounted, RestAccounted
<1>7. ClosedFilesCaptured
  BY <1>1, <1>2 DEF ClosedFilesCaptured
<1> QED BY <1>3, <1>4, <1>5, <1>6, <1>7 DEF CaptureInv

\* A file the tailer is done with was captured whole (Tailer.Poll, drain), for
\* any buffer and poll size and however often the log is rotated: but for lines
\* truncated away, written to a renamed file, refused by the capture, or written
\* between the last read and the rename.
THEOREM RotatedFilesCaptured == Spec => []ClosedFilesCaptured
<1>1. Init => TailInv /\ CaptureInv
  BY TailInvInit, CaptureInit
<1>2. TailInv /\ CaptureInv /\ [Next]_vars => (TailInv /\ CaptureInv)'
  <2> SUFFICES ASSUME TailInv, CaptureInv, [Next]_vars PROVE (TailInv /\ CaptureInv)'
    OBVIOUS
  <2>1. TailInv'
    BY TFiles, TPoll, TSink DEF TailInv
  <2>2. OutOK'
    BY CaptureGrows DEF CaptureInv
  <2>3. UniqueLines' /\ BufferOK'
    BY UniqueStep, BufferStep DEF CaptureInv
  <2>4. ReadAccounted' /\ RestAccounted'
    BY <2>3, ReadStep, RestStep DEF CaptureInv
  <2>5. ClosedFilesCaptured'
    BY ClosedStep DEF CaptureInv
  <2> QED BY <2>1, <2>2, <2>3, <2>4, <2>5 DEF CaptureInv
<1>3. CaptureInv => ClosedFilesCaptured
  BY DEF CaptureInv
<1> QED BY <1>1, <1>2, <1>3, PTL DEF Spec

-----------------------------------------------------------------------------
(***************************************************************************)
(* The order of the lines in the capture, and that none runs into another. *)
(***************************************************************************)
\* The lines of the files rise, from one place to a later one and from one file
\* to a newer one; the path names the newest, and none newer than the daemon's
\* has a line yet.
FilesRise ==
    \A i, j \in DOMAIN content : \A k \in DOMAIN content[i], l \in DOMAIN content[j] :
        (i < j \/ (i = j /\ k < l)) =>
            content[i][k] = NL \/ content[j][l] = NL \/ content[i][k] < content[j][l]
NewestNamed == path = None \/ path = Len(content)
NewerEmpty == \A i \in DOMAIN content : i > wfd => Len(content[i]) = 0

\* Every line has an end of its own, but for the last one of a file.
LineEnds(s) == \A k \in DOMAIN s : k + 1 \in DOMAIN s => s[k] = NL \/ s[k + 1] = NL
FilesEnd ==
    /\ \A i \in DOMAIN content : LineEnds(content[i])
    /\ (~half /\ Len(content[wfd]) > 0) => content[wfd][Len(content[wfd])] = NL

FilesInv == FilesRise /\ NewestNamed /\ NewerEmpty /\ FilesEnd

LEMMA FilesInvStep ==
    ASSUME TailInv, UniqueLines, FilesInv, [Next]_vars
    PROVE  FilesInv'
<1>0. /\ FilesOK /\ written \in Nat /\ Len(content) \in Nat /\ DOMAIN content = 1 .. Len(content)
      /\ wfd \in DOMAIN content
      /\ \A i \in DOMAIN content : Len(content[i]) \in Nat /\ DOMAIN content[i] = 1 .. Len(content[i])
  BY FilesTyped DEF TailInv, FilesOK
<1>1. ASSUME UNCHANGED logVars PROVE FilesInv'
  BY <1>1 DEF logVars, FilesInv, FilesRise, NewestNamed, NewerEmpty, FilesEnd
<1>2. ASSUME NEW u \in Units, content' = [content EXCEPT ![wfd] = Append(content[wfd], u)],
             u = NL \/ (~half /\ u = written + 1), half' \/ u = NL,
             UNCHANGED <<path, wfd>>
      PROVE  FilesInv'
  <2> DEFINE top == Len(content[wfd]) + 1
  <2>1. /\ DOMAIN content' = DOMAIN content
        /\ \A i \in DOMAIN content : i # wfd => content'[i] = content[i]
        /\ DOMAIN content'[wfd] = 1 .. top /\ Len(content'[wfd]) = top
        /\ content'[wfd][top] = u
        /\ \A k \in DOMAIN content[wfd] : content'[wfd][k] = content[wfd][k]
    BY <1>0, <1>2, Appended
  <2>2. Len(content') = Len(content)
    BY <1>0, <1>2 DEF FilesOK
  <2>3. top \in Nat /\ DOMAIN content[wfd] = 1 .. top - 1
    BY <1>0
  <2> HIDE DEF top
  <2>4. \A i \in DOMAIN content' : \A k \in DOMAIN content'[i] :
           \/ i \in DOMAIN content /\ k \in DOMAIN content[i] /\ content'[i][k] = content[i][k]
           \/ i = wfd /\ k = top /\ content'[i][k] = u
    BY <2>1, <2>3
  <2>5. \A i \in DOMAIN content : \A k \in DOMAIN content[i] : content[i][k] <= written
    BY DEF UniqueLines
  <2>6. FilesRise'
    <3> SUFFICES ASSUME NEW i \in DOMAIN content', NEW j \in DOMAIN content',
                        NEW k \in DOMAIN content'[i], NEW l \in DOMAIN content'[j],
                        i < j \/ (i = j /\ k < l),
                        content'[i][k] # NL, content'[j][l] # NL
                 PROVE  content'[i][k] < content'[j][l]
      BY DEF FilesRise
    <3>1. ~(i = wfd /\ k = top)
      <4>1. SUFFICES ASSUME i = wfd, k = top PROVE FALSE
        OBVIOUS
      <4>2. CASE j > wfd
        BY <1>0, <2>1, <4>2 DEF FilesInv, NewerEmpty
      <4>3. CASE j = wfd
        BY <1>0, <2>1, <2>3, <4>1, <4>3
      <4> QED BY <1>0, <2>1, <4>1, <4>2, <4>3
    <3>2. i \in DOMAIN content /\ k \in DOMAIN content[i] /\ content'[i][k] = content[i][k]
      BY <2>4, <3>1
    <3>3. CASE j \in DOMAIN content /\ l \in DOMAIN content[j] /\ content'[j][l] = content[j][l]
      BY <3>2, <3>3 DEF FilesInv, FilesRise
    <3>4. CASE content'[j][l] = u
      <4>1. u = written + 1 /\ content[i][k] <= written /\ content[i][k] \in Nat
        BY <1>0, <1>2, <2>5, <3>2, <3>4, FilesTyped DEF Units
      <4> QED BY <1>0, <3>2, <3>4, <4>1
    <3> QED BY <2>4, <3>3, <3>4
  <2>7. NewestNamed' /\ NewerEmpty'
    BY <1>0, <1>2, <2>1, <2>2 DEF FilesInv, NewestNamed, NewerEmpty
  <2>8. FilesEnd'
    <3>1. content'[wfd'][Len(content'[wfd'])] = u
      BY <1>2, <2>1
    <3>2. LineEnds(content'[wfd])
      <4> SUFFICES ASSUME NEW k \in DOMAIN content'[wfd], k + 1 \in DOMAIN content'[wfd]
                   PROVE  content'[wfd][k] = NL \/ content'[wfd][k + 1] = NL
        BY DEF LineEnds
      <4>1. k \in 1 .. top - 1 /\ k \in Nat
        BY <2>1, <2>3
      <4>2. CASE k + 1 = top
        <5>1. CASE u = NL
          BY <2>1, <4>2, <5>1
        <5>2. CASE u # NL
          <6>1. Len(content[wfd]) = k /\ k > 0 /\ ~half
            BY <1>0, <1>2, <2>3, <4>1, <4>2, <5>2 DEF top
          <6>2. content[wfd][k] = NL
            BY <6>1 DEF FilesInv, FilesEnd
          <6> QED BY <2>1, <2>3, <4>1, <6>2
        <5> QED BY <5>1, <5>2
      <4>3. CASE k + 1 # top
        <5>1. k \in DOMAIN content[wfd] /\ k + 1 \in DOMAIN content[wfd]
          BY <2>1, <2>3, <4>1, <4>3
        <5>2. content[wfd][k] = NL \/ content[wfd][k + 1] = NL
          BY <1>0, <5>1 DEF FilesInv, FilesEnd, LineEnds
        <5> QED BY <2>1, <5>1, <5>2
      <4> QED BY <4>2, <4>3
    <3>3. \A i \in DOMAIN content' : LineEnds(content'[i])
      BY <2>1, <3>2 DEF FilesInv, FilesEnd
    <3> QED BY <1>2, <3>1, <3>3 DEF FilesEnd
  <2> QED BY <2>6, <2>7, <2>8 DEF FilesInv
<1>3. CASE WriteLine
  <2>1. written + 1 \in Units
    BY <1>0, <1>3, TailAssumption DEF WriteLine, Units
  <2> QED BY <1>2, <1>3, <2>1 DEF WriteLine
<1>4. CASE WriteEnd
  <2>1. NL \in Units
    BY TailAssumption DEF NL, Units
  <2> QED BY <1>2, <1>4, <2>1 DEF WriteEnd
<1>5. CASE Reopen
  <2>1. path # None /\ wfd # path /\ wfd' = path /\ UNCHANGED <<content, path, half>>
    BY <1>5 DEF Reopen
  <2>2. path = Len(content) /\ path \in DOMAIN content /\ path > wfd
    BY <1>0, <2>1, FilesTyped DEF FilesInv, NewestNamed
  <2>3. Len(content[path]) = 0 /\ \A i \in DOMAIN content : ~(i > path)
    BY <1>0, <2>2 DEF FilesInv, NewerEmpty
  <2>4. NewerEmpty' /\ FilesEnd'
    BY <2>1, <2>3 DEF FilesInv, NewerEmpty, FilesEnd
  <2> QED BY <2>1, <2>4 DEF FilesInv, FilesRise, NewestNamed
<1>6. CASE Rename
  BY <1>6 DEF Rename, FilesInv, FilesRise, NewestNamed, NewerEmpty, FilesEnd
<1>7. CASE Create
  <2>1. /\ content' = Append(content, <<>>) /\ path' = Len(content') /\ UNCHANGED <<wfd, half>>
    BY <1>7 DEF Create
  <2>2. /\ DOMAIN content' = DOMAIN content \cup {Len(content) + 1}
        /\ DOMAIN content'[Len(content) + 1] = {} /\ Len(content'[Len(content) + 1]) = 0
        /\ \A i \in DOMAIN content : content'[i] = content[i]
    BY <1>0, <2>1, Created
  <2>3. FilesRise'
    BY <2>2 DEF FilesInv, FilesRise
  <2>4. NewerEmpty'
    BY <2>1, <2>2 DEF FilesInv, NewerEmpty
  <2>5. FilesEnd'
    BY <1>0, <2>1, <2>2 DEF FilesInv, FilesEnd, LineEnds
  <2> QED BY <2>1, <2>3, <2>4, <2>5 DEF FilesInv, NewestNamed
<1>8. CASE Truncate
  <2>1. path # None /\ content' = [content EXCEPT ![path] = <<>>] /\ UNCHANGED <<path, wfd, half>>
    BY <1>8 DEF Truncate
  <2>2. /\ DOMAIN content' = DOMAIN content
        /\ DOMAIN content'[path] = {} /\ Len(content'[path]) = 0
        /\ \A i \in DOMAIN content : i # path => content'[i] = content[i]
    BY <1>0, <2>1, Emptied
  <2>3. Len(content') = Len(content)
    BY <1>0, <2>1 DEF FilesOK
  <2>4. FilesRise'
    BY <2>2 DEF FilesInv, FilesRise
  <2>5. FilesEnd'
    BY <1>0, <2>1, <2>2 DEF FilesInv, FilesEnd, LineEnds
  <2> QED BY <2>1, <2>2, <2>3, <2>4, <2>5 DEF FilesInv, NewestNamed, NewerEmpty
<1>9. CASE Tailer \/ CopyFails \/ UNCHANGED vars
  BY <1>1, <1>9 DEF Tailer, PollOpens, Poll, Read, ReadNothing, Copy, StatMoved, StatCut,
     StatSame, CloseOld, CopyFails, vars
<1> QED BY <1>3, <1>4, <1>5, <1>6, <1>7, <1>8, <1>9 DEF Next, Daemon, Rotation

\* The lines the tailer may still read: those of the file it follows past the
\* place it reads at, or all of them while a truncation is not noticed, and those
\* of newer files; with no file open, those of the one it would open.
MayRead(i, k) ==
    \/ f # None /\ i = f /\ (blind \/ k > off + read)
    \/ f # None /\ i > f
    \/ f = None /\ i = path
Coming ==
    {v \in Units \ {NL} : \E i \in DOMAIN content :
                              \E k \in DOMAIN content[i] : MayRead(i, k) /\ content[i][k] = v}

Before(A, B) == \A a \in A, b \in B : a < b
Rises(s) == \A i, j \in DOMAIN s : i < j => s[i] = NL \/ s[j] = NL \/ s[i] < s[j]

\* What is captured comes before what is being copied, and that before what may
\* still be read.
OrderInv ==
    bounds.faults = 0 =>
        /\ Rises(out) /\ Rises(buf)
        /\ Before(Captured, Lines(buf))
        /\ \A v \in Captured \cup Lines(buf) : v <= written
        /\ Before(Captured \cup Lines(buf), Coming)

LEMMA RisesAppend ==
    ASSUME NEW s \in Seq(Units), NEW u \in Units, Rises(s), u = NL \/ Before(Lines(s), {u})
    PROVE  Rises(Append(s, u))
<1> DEFINE t == Append(s, u)
<1>1. /\ DOMAIN t = 1 .. (Len(s) + 1) /\ DOMAIN s = 1 .. Len(s) /\ Len(s) \in Nat
      /\ t[Len(s) + 1] = u /\ \A i \in DOMAIN s : t[i] = s[i]
  OBVIOUS
<1> HIDE DEF t
<1> SUFFICES ASSUME NEW i \in DOMAIN t, NEW j \in DOMAIN t, i < j, t[i] # NL, t[j] # NL
             PROVE  t[i] < t[j]
  BY DEF Rises, t
<1>2. i \in DOMAIN s
  BY <1>1
<1>3. CASE j \in DOMAIN s
  BY <1>1, <1>2, <1>3 DEF Rises
<1>4. CASE j = Len(s) + 1
  <2>1. t[i] \in Lines(s)
    BY <1>1, <1>2 DEF Lines
  <2> QED BY <1>1, <1>4, <2>1 DEF Before
<1> QED BY <1>1, <1>3, <1>4

\* A step that copies no line, and after which no line may be read that could not
\* be before, keeps the order.
LEMMA OrderKept ==
    ASSUME TailInv, OutOK, OrderInv, bounds'.faults = 0 => bounds.faults = 0,
           UNCHANGED out \/ out' = Append(out, NL), UNCHANGED buf \/ buf' = <<>>,
           written' >= written, written' \in Nat, \A v \in Coming' : v \in Coming \/ v = written + 1
    PROVE  OrderInv'
<1> SUFFICES ASSUME bounds.faults = 0 PROVE
        /\ Rises(out') /\ Rises(buf')
        /\ Before(Captured', Lines(buf'))
        /\ \A v \in Captured' \cup Lines(buf') : v <= written'
        /\ Before(Captured' \cup Lines(buf'), Coming')
  BY DEF OrderInv
<1>0. /\ Rises(out) /\ Rises(buf)
      /\ Before(Captured, Lines(buf))
      /\ \A v \in Captured \cup Lines(buf) : v <= written
      /\ Before(Captured \cup Lines(buf), Coming)
  BY DEF OrderInv
<1>1. NL \in Units /\ written \in Nat
  BY TailAssumption DEF NL, Units, TailInv, FilesOK
<1>2. Rises(out') /\ Captured' = Captured
  <2>1. CASE UNCHANGED out
    BY <1>0, <2>1 DEF Captured
  <2>2. CASE out' = Append(out, NL)
    BY <1>0, <1>1, <2>2, RisesAppend, Emitted DEF OutOK
  <2> QED BY <2>1, <2>2
<1>3. Rises(buf') /\ Lines(buf') \subseteq Lines(buf)
  BY <1>0 DEF Rises, Lines
<1>4. \A v \in Captured \cup Lines(buf) : v \in Nat
  <2>1. out \in Seq(Units) /\ buf \in Seq(Units)
    BY DEF OutOK, TailInv, PollOK
  <2> QED BY <2>1, TailAssumption DEF Captured, Lines, Units
<1>5. \A v \in Captured' \cup Lines(buf') : v \in Captured \cup Lines(buf)
  BY <1>2, <1>3
<1>6. Before(Captured', Lines(buf'))
  BY <1>0, <1>2, <1>3 DEF Before
<1>7. \A v \in Captured' \cup Lines(buf') : v <= written'
  BY <1>0, <1>1, <1>4, <1>5
<1>8. Before(Captured' \cup Lines(buf'), Coming')
  BY <1>0, <1>1, <1>4, <1>5 DEF Before
<1> QED BY <1>2, <1>3, <1>6, <1>7, <1>8

\* A member of Coming, with the place it has.
LEMMA ComingAt ==
    ASSUME FilesOK
    PROVE  /\ \A v \in Coming : \E i \in DOMAIN content : \E k \in DOMAIN content[i] :
                 MayRead(i, k) /\ content[i][k] = v /\ v # NL
           /\ \A i \in DOMAIN content : \A k \in DOMAIN content[i] :
                 MayRead(i, k) => content[i][k] = NL \/ content[i][k] \in Coming
<1>1. \A i \in DOMAIN content : \A k \in DOMAIN content[i] : content[i][k] \in Units
  BY FilesTyped
<1> QED BY <1>1 DEF Coming

\* What the daemon and the rotation do to what may still be read.
LEMMA ComingOfLog ==
    ASSUME TailInv, FilesInv, BufferOK, Daemon \/ Rotation
    PROVE  \A v \in Coming' : v \in Coming \/ v = written + 1
<1>0. /\ FilesOK /\ Len(content) \in Nat /\ DOMAIN content = 1 .. Len(content)
      /\ wfd \in DOMAIN content /\ UNCHANGED <<f, off, read>>
  BY FilesTyped DEF TailInv, Daemon, WriteLine, WriteEnd, Reopen, Rotation, Rename, Create,
     Truncate, tailVars
<1>1. ASSUME \A i \in DOMAIN content' : \A k \in DOMAIN content'[i] :
                \/ i \in DOMAIN content /\ k \in DOMAIN content[i] /\ content'[i][k] = content[i][k]
                \/ content'[i][k] = NL \/ content'[i][k] = written + 1,
             \A i \in DOMAIN content' : \A k \in DOMAIN content'[i] : MayRead(i, k)' => MayRead(i, k)
      PROVE  \A v \in Coming' : v \in Coming \/ v = written + 1
  <2> TAKE v \in Coming'
  <2>1. v \in Units \ {NL}
    BY DEF Coming
  <2>2. PICK i \in DOMAIN content' : \E k \in DOMAIN content'[i] : MayRead(i, k)' /\ content'[i][k] = v
    BY DEF Coming
  <2>3. PICK k \in DOMAIN content'[i] : MayRead(i, k)' /\ content'[i][k] = v
    BY <2>2
  <2>4. MayRead(i, k)
    BY <1>1, <2>3
  <2>5. CASE i \in DOMAIN content /\ k \in DOMAIN content[i] /\ content'[i][k] = content[i][k]
    BY <2>1, <2>3, <2>4, <2>5 DEF Coming
  <2> QED BY <1>1, <2>1, <2>3, <2>5
<1>2. CASE WriteLine \/ WriteEnd
  <2>1. PICK u \in Units : /\ content' = [content EXCEPT ![wfd] = Append(content[wfd], u)]
                           /\ u = NL \/ u = written + 1
    <3>1. CASE WriteLine
      <4>1. written + 1 \in Units
        BY <1>0, <3>1, TailAssumption DEF WriteLine, Units, FilesOK
      <4> QED BY <3>1, <4>1 DEF WriteLine
    <3>2. CASE WriteEnd
      <4>1. NL \in Units
        BY TailAssumption DEF NL, Units
      <4> QED BY <3>2, <4>1 DEF WriteEnd
    <3> QED BY <1>2, <3>1, <3>2
  <2>2. \A i \in DOMAIN content' : \A k \in DOMAIN content'[i] :
           \/ i \in DOMAIN content /\ k \in DOMAIN content[i] /\ content'[i][k] = content[i][k]
           \/ content'[i][k] = u
    BY <1>0, <2>1, Appended, FilesTyped
  <2>3. UNCHANGED <<path, f, off, read, blind>>
    BY <1>2 DEF WriteLine, WriteEnd, tailVars, ghostVars
  <2>4. \A i, k : MayRead(i, k)' => MayRead(i, k)
    BY <2>3 DEF MayRead
  <2> QED BY <1>1, <2>1, <2>2, <2>4
<1>3. CASE Create
  <2>1. content' = Append(content, <<>>) /\ path' = Len(content') /\ UNCHANGED <<f, off, read, blind>>
    BY <1>3 DEF Create, tailVars, ghostVars
  <2>2. /\ DOMAIN content' = DOMAIN content \cup {Len(content) + 1}
        /\ DOMAIN content'[Len(content) + 1] = {} /\ Len(content') = Len(content) + 1
        /\ \A i \in DOMAIN content : content'[i] = content[i]
    BY <1>0, <2>1, Created
  <2>3. \A i \in DOMAIN content' : \A k \in DOMAIN content'[i] : MayRead(i, k)' => MayRead(i, k)
    BY <2>1, <2>2 DEF MayRead
  <2> QED BY <1>1, <2>2, <2>3
<1>4. CASE Truncate
  <2>1. /\ path # None /\ content' = [content EXCEPT ![path] = <<>>]
        /\ blind' = (blind \/ (path = f /\ (off > 0 \/ buf # <<>>)))
        /\ UNCHANGED <<f, off, read, path>>
    BY <1>4 DEF Truncate, tailVars
  <2>2. /\ DOMAIN content' = DOMAIN content /\ DOMAIN content'[path] = {}
        /\ \A i \in DOMAIN content : i # path => content'[i] = content[i]
    BY <1>0, <2>1, Emptied
  <2>3. \A i \in DOMAIN content' : \A k \in DOMAIN content'[i] : MayRead(i, k)' => MayRead(i, k)
    <3>1. path = f \/ (blind' <=> blind)
      BY <2>1, Zenon
    <3> QED BY <2>1, <2>2, <3>1 DEF MayRead
  <2>4. \A i \in DOMAIN content' : \A k \in DOMAIN content'[i] :
           i \in DOMAIN content /\ k \in DOMAIN content[i] /\ content'[i][k] = content[i][k]
    BY <2>2
  <2> QED BY <1>1, <2>3, <2>4
<1>5. CASE Rename \/ Reopen
  <2>1. /\ UNCHANGED <<f, off, read, blind, content>>
        /\ UNCHANGED path \/ path' = None
    BY <1>5 DEF Rename, Reopen, tailVars, ghostVars
  <2>2. \A i \in DOMAIN content' : \A k \in DOMAIN content'[i] : MayRead(i, k)' => MayRead(i, k)
    BY <1>0, <2>1 DEF MayRead, None
  <2> QED BY <1>1, <2>1, <2>2
<1> QED BY <1>2, <1>3, <1>4, <1>5 DEF Daemon, Rotation

\* The buffer read is the part of the file at the place it is read from, and what
\* may be read after it comes after it.
LEMMA BufferRead ==
    ASSUME TailInv, FilesInv, BufferOK, BufferOK', Read
    PROVE  /\ Rises(buf')
           /\ Lines(buf') \subseteq Coming
           /\ Before(Lines(buf'), Coming') /\ \A v \in Coming' : v \in Coming
<1>0. /\ FilesOK /\ f # None /\ f \in DOMAIN content /\ buf = <<>> /\ read = 0 /\ off \in Nat
      /\ DOMAIN content = 1 .. Len(content) /\ Len(content) \in Nat
  BY FilesTyped DEF TailInv, PollOK, FilesOK, BufferOK, Read, Modes, None
<1> DEFINE c == content[f]
<1>1. c \in Seq(Units) /\ DOMAIN c = 1 .. Len(c) /\ Len(c) \in Nat
  BY <1>0, FilesTyped
<1>2. /\ read' = Lesser(BufSize, Len(c) - off) /\ buf' = SubSeq(c, off + 1, off + read')
      /\ blind' = FALSE /\ UNCHANGED <<f, off, content, path>> /\ off < Len(c)
  BY DEF Read, Followed, logVars
<1> HIDE DEF c
<1>3. read' \in Nat /\ off + read' <= Len(c) /\ read' > 0
  BY <1>0, <1>1, <1>2, TailAssumption DEF Lesser
<1>4. /\ DOMAIN buf' = 1 .. read'
      /\ \A m \in DOMAIN buf' : off + m \in DOMAIN c /\ buf'[m] = c[off + m]
  <2>1. ASSUME NEW o \in Nat, NEW r \in Nat, o + r <= Len(c)
        PROVE  /\ DOMAIN SubSeq(c, o + 1, o + r) = 1 .. r
               /\ \A m \in 1 .. r : o + m \in DOMAIN c /\ SubSeq(c, o + 1, o + r)[m] = c[o + m]
    BY <1>1, <2>1
  <2> QED BY <1>0, <1>2, <1>3, <2>1
<1>5. \A i, j \in DOMAIN c : i < j => c[i] = NL \/ c[j] = NL \/ c[i] < c[j]
  BY <1>0 DEF FilesInv, FilesRise, c
<1>6. Rises(buf')
  BY <1>0, <1>3, <1>4, <1>5 DEF Rises
<1>7. \A k \in DOMAIN c : k > off => MayRead(f, k)
  BY <1>0 DEF MayRead
<1>8. Lines(buf') \subseteq Coming
  <2> SUFFICES ASSUME NEW v \in Lines(buf') PROVE v \in Coming
    OBVIOUS
  <2>1. PICK m \in DOMAIN buf' : buf'[m] = v
    BY DEF Lines
  <2>2. v # NL
    BY DEF Lines
  <2>3. off + m \in DOMAIN c /\ c[off + m] = v /\ off + m > off
    BY <1>0, <1>3, <1>4, <2>1
  <2>4. MayRead(f, off + m)
    BY <1>7, <2>3
  <2> QED BY <1>0, <2>2, <2>3, <2>4, ComingAt DEF c
<1>9. ASSUME NEW w \in Coming'
      PROVE  /\ w \in Coming
             /\ \A v \in Lines(buf') : v < w
  <2>1. PICK i \in DOMAIN content : \E k \in DOMAIN content[i] :
                 MayRead(i, k)' /\ content[i][k] = w /\ w # NL
    BY <1>2 DEF Coming
  <2>2. PICK k \in DOMAIN content[i] : MayRead(i, k)' /\ content[i][k] = w /\ w # NL
    BY <2>1
  <2>3. (i = f /\ k > off + read') \/ i > f
    BY <1>0, <1>2, <2>2 DEF MayRead
  <2>4. MayRead(i, k)
    <3>1. k \in Nat
      <4>1. DOMAIN content[i] = 1 .. Len(content[i]) /\ Len(content[i]) \in Nat
        BY <1>0, <2>1, FilesTyped
      <4> QED BY <2>2, <4>1
    <3>2. (i = f /\ k > off + read) \/ i > f
      <4>1. ASSUME NEW o \in Nat, NEW r \in Nat, k > o + r PROVE k > o + 0
        BY <3>1, <4>1
      <4> QED BY <1>0, <1>3, <2>3, <4>1
    <3> QED BY <1>0, <3>2 DEF MayRead
  <2>5. w \in Coming
    BY <1>0, <2>2, <2>4, ComingAt
  <2>6. ASSUME NEW v \in Lines(buf') PROVE v < w
    <3>1. PICK m \in DOMAIN buf' : buf'[m] = v
      BY DEF Lines
    <3>2. v # NL
      BY DEF Lines
    <3>3. off + m \in DOMAIN c /\ c[off + m] = v /\ off + m <= off + read'
      BY <1>0, <1>3, <1>4, <3>1
    <3>4. f < i \/ (f = i /\ off + m < k)
      <4>1. DOMAIN content[i] = 1 .. Len(content[i]) /\ Len(content[i]) \in Nat
        BY <1>0, <2>1, FilesTyped
      <4>2. k \in Nat /\ off + m \in Nat
        BY <1>1, <2>2, <3>3, <4>1
      <4>3. ASSUME NEW o \in Nat, NEW r \in Nat, o + m <= o + r, k > o + r, o + m \in Nat
            PROVE  o + m < k
        BY <4>2, <4>3
      <4> QED BY <1>0, <1>3, <2>3, <3>3, <4>2, <4>3
    <3> QED BY <1>0, <2>2, <3>2, <3>3, <3>4 DEF FilesInv, FilesRise, c
  <2> QED BY <2>5, <2>6
<1> QED BY <1>6, <1>8, <1>9 DEF Before

LEMMA OrderStep ==
    ASSUME TailInv, OutOK, UniqueLines, BufferOK, BufferOK', FilesInv, OrderInv, [Next]_vars
    PROVE  OrderInv'
<1>0. /\ FilesOK /\ written \in Nat /\ off \in Nat /\ read \in Nat
      /\ Len(content) \in Nat /\ DOMAIN content = 1 .. Len(content)
      /\ f # None => f \in DOMAIN content
      /\ \A i \in DOMAIN content :
            Len(content[i]) \in Nat /\ DOMAIN content[i] = 1 .. Len(content[i])
  BY FilesTyped DEF TailInv, PollOK, ReadOK, FilesOK, None
<1>1. bounds'.faults = 0 => bounds.faults = 0
  <2>1. bounds.faults \in Nat /\ bounds'.faults \in Nat /\ bounds.faults <= bounds'.faults
    BY CaptureGrows DEF OutOK
  <2> QED BY <2>1
<1>2. ASSUME UNCHANGED out \/ out' = Append(out, NL), UNCHANGED buf \/ buf' = <<>>,
             UNCHANGED <<written, content>>,
             \A i \in DOMAIN content : \A k \in DOMAIN content[i] : MayRead(i, k)' => MayRead(i, k)
      PROVE  OrderInv'
  <2>1. \A v \in Coming' : v \in Coming
    BY <1>2 DEF Coming
  <2>2. written' >= written /\ written' \in Nat
    BY <1>0, <1>2
  <2> QED BY <1>1, <1>2, <2>1, <2>2, OrderKept
<1>3. CASE Daemon \/ Rotation
  <2>1. written' >= written /\ written' \in Nat
    BY <1>0, <1>3 DEF Daemon, WriteLine, WriteEnd, Reopen, Rotation, Rename, Create, Truncate
  <2>2. UNCHANGED <<out, buf>>
    BY <1>3 DEF Daemon, WriteLine, WriteEnd, Reopen, Rotation, Rename, Create, Truncate,
       tailVars, sinkVars
  <2>3. \A v \in Coming' : v \in Coming \/ v = written + 1
    BY <1>3, ComingOfLog
  <2> QED BY <1>1, <2>1, <2>2, <2>3, OrderKept
<1>4. CASE PollOpens
  <2>1. /\ f = None /\ path # None /\ f' = path /\ buf' = <<>> /\ ~blind
        /\ UNCHANGED <<out, written, content, path, blind>>
    BY <1>4 DEF PollOpens, Drain, logVars, sinkVars, BufferOK
  <2>2. path = Len(content)
    BY <2>1 DEF FilesInv, NewestNamed
  <2>3. \A i \in DOMAIN content : ~(i > f')
    BY <1>0, <2>1, <2>2
  <2>4. \A i \in DOMAIN content : \A k \in DOMAIN content[i] : MayRead(i, k)' => MayRead(i, k)
    BY <2>1, <2>3 DEF MayRead
  <2> QED BY <1>2, <2>1, <2>4
<1>5. CASE Poll \/ ReadNothing \/ StatMoved \/ StatSame
  <2>1. UNCHANGED <<out, written, content, path, blind, f, off>>
    BY <1>5 DEF Poll, ReadNothing, StatMoved, StatSame, logVars, sinkVars, ghostVars
  <2>2. buf = <<>> /\ read = 0
    <3>1. pc \notin Modes \/ buf = <<>>
      BY <1>5 DEF Poll, ReadNothing, StatMoved, StatSame, Modes
    <3> QED BY <3>1 DEF TailInv, PollOK, BufferOK
  <2>3. buf' = <<>> /\ read' = 0
    BY <1>5, <2>2 DEF Poll, ReadNothing, StatMoved, StatSame, Drain, Drained
  <2>4. \A i, k : MayRead(i, k)' => MayRead(i, k)
    BY <2>1, <2>2, <2>3 DEF MayRead
  <2> QED BY <1>2, <2>1, <2>3, <2>4
<1>6. CASE Read
  <2>1. UNCHANGED <<out, written, bounds>> /\ buf = <<>>
    BY <1>6 DEF Read, logVars, sinkVars
  <2>2. /\ Rises(buf') /\ Lines(buf') \subseteq Coming
        /\ Before(Lines(buf'), Coming') /\ \A v \in Coming' : v \in Coming
    BY <1>6, BufferRead
  <2>3. \A v \in Coming : v <= written
    BY <1>0, ComingAt DEF UniqueLines
  <2>4. Captured' = Captured
    BY <2>1 DEF Captured
  <2>5. SUFFICES ASSUME bounds.faults = 0
                 PROVE  /\ Rises(out') /\ Before(Captured', Lines(buf'))
                        /\ \A v \in Captured' \cup Lines(buf') : v <= written'
                        /\ Before(Captured' \cup Lines(buf'), Coming')
    BY <2>1, <2>2 DEF OrderInv
  <2>6. Rises(out) /\ Before(Captured, Coming) /\ \A v \in Captured : v <= written
    BY <2>5 DEF OrderInv, Before
  <2> QED BY <2>1, <2>2, <2>3, <2>4, <2>6 DEF Before, Rises
<1>7. CASE Copy
  <2>1. /\ buf # <<>> /\ out' = Append(out, Head(buf))
        /\ UNCHANGED <<written, content, path, f, blind, bounds>>
        /\ \/ buf' = Tail(buf) /\ UNCHANGED <<off, read>>
           \/ buf' = <<>> /\ off' = off + read /\ read' = 0
    BY <1>7 DEF Copy, Emit, Drained, logVars, ghostVars
  <2>2. Coming' = Coming
    <3>1. \A i, k : MayRead(i, k)' <=> MayRead(i, k)
      <4>1. off' + read' = off + read
        BY <1>0, <2>1
      <4> QED BY <2>1, <4>1 DEF MayRead
    <3> QED BY <2>1, <3>1 DEF Coming
  <2> DEFINE h == Head(buf)
  <2>3. buf \in Seq(Units) /\ out \in Seq(Units)
    BY DEF TailInv, PollOK, OutOK
  <2>4. /\ h \in Units /\ (h # NL => h \in Lines(buf))
        /\ \A i \in DOMAIN buf' : i + 1 \in DOMAIN buf /\ i + 1 > 1 /\ buf'[i] = buf[i + 1]
        /\ h = buf[1] /\ 1 \in DOMAIN buf
    <3>1. h \in Units /\ h = buf[1] /\ 1 \in DOMAIN buf
      BY <2>1, <2>3
    <3>2. \A i \in DOMAIN Tail(buf) : i + 1 \in DOMAIN buf /\ i + 1 > 1 /\ Tail(buf)[i] = buf[i + 1]
      BY <2>1, <2>3
    <3>3. DOMAIN <<>> = {}
      OBVIOUS
    <3> QED BY <2>1, <3>1, <3>2, <3>3 DEF Lines
  <2> HIDE DEF h
  <2>5. \A v : v \in Captured' <=> v \in Captured \/ (v = h /\ h # NL)
    BY <2>1, <2>3, <2>4, Emitted DEF h
  <2>6. Lines(buf') \subseteq Lines(buf)
    BY <2>4 DEF Lines
  <2> SUFFICES ASSUME bounds.faults = 0
               PROVE  /\ Rises(out') /\ Rises(buf') /\ Before(Captured', Lines(buf'))
                      /\ \A v \in Captured' \cup Lines(buf') : v <= written'
                      /\ Before(Captured' \cup Lines(buf'), Coming')
    BY <2>1 DEF OrderInv
  <2>7. /\ Rises(out) /\ Rises(buf) /\ Before(Captured, Lines(buf))
        /\ \A v \in Captured \cup Lines(buf) : v <= written
        /\ Before(Captured \cup Lines(buf), Coming)
    BY DEF OrderInv
  <2>8. Rises(out')
    <3>1. h = NL \/ Before(Captured, {h})
      BY <2>4, <2>7 DEF Before
    <3> QED BY <2>1, <2>3, <2>4, <2>7, <3>1, RisesAppend DEF Captured, h
  <2>9. Rises(buf')
    <3>1. \A i \in DOMAIN buf' : i \in Nat
      BY <2>1, <2>3
    <3> QED BY <2>4, <2>7, <3>1 DEF Rises
  <2>10. \A v \in Lines(buf') : h # NL => h < v
    <3> TAKE v \in Lines(buf')
    <3>1. PICK i \in DOMAIN buf' : buf'[i] = v
      BY DEF Lines
    <3>2. v # NL /\ i + 1 \in DOMAIN buf /\ i + 1 > 1 /\ buf[i + 1] = v
      BY <2>4, <3>1 DEF Lines
    <3> QED BY <2>4, <2>7, <3>2 DEF Rises
  <2>11. \A v \in Captured' \cup Lines(buf') : v \in Captured \cup Lines(buf)
    BY <2>4, <2>5, <2>6
  <2>12. Before(Captured', Lines(buf'))
    BY <2>5, <2>6, <2>7, <2>10 DEF Before
  <2> QED BY <2>1, <2>2, <2>7, <2>8, <2>9, <2>11, <2>12 DEF Before
<1>8. CASE StatCut
  <2>1. /\ pc = "stat" /\ path = f /\ Len(content[f]) < off /\ buf' = <<>>
        /\ UNCHANGED <<written, content, path, f>>
        /\ UNCHANGED out \/ out' = Append(out, NL)
    BY <1>8 DEF StatCut, EndLine, Emit, Drain, logVars, sinkVars, Followed
  <2>2. f # None /\ blind
    <3>1. f # None
      BY <2>1 DEF TailInv, PollOK
    <3>2. ~blind => off + read <= Len(content[f])
      BY <3>1 DEF BufferOK
    <3> QED BY <1>0, <2>1, <3>1, <3>2
  <2>3. \A i \in DOMAIN content : \A k \in DOMAIN content[i] : MayRead(i, k)' => MayRead(i, k)
    BY <2>1, <2>2 DEF MayRead
  <2> QED BY <1>2, <2>1, <2>3
<1>9. CASE CloseOld
  <2>1. /\ pc = "close" /\ f' = path /\ blind' = FALSE /\ UNCHANGED <<written, content, path>>
        /\ UNCHANGED out \/ out' = Append(out, NL)
    BY <1>9 DEF CloseOld, EndLine, Emit, logVars, sinkVars
  <2>2. buf = <<>> /\ buf' = <<>> /\ path # f /\ f # None
    BY <1>9, <2>1 DEF CloseOld, Drain, TailInv, PollOK, BufferOK, Modes
  <2>3. path # None => path > f /\ \A i \in DOMAIN content : ~(i > path)
    <3>1. path # None => path = Len(content)
      BY DEF FilesInv, NewestNamed
    <3> QED BY <1>0, <2>2, <3>1
  <2>4. \A i \in DOMAIN content : \A k \in DOMAIN content[i] : MayRead(i, k)' => MayRead(i, k)
    BY <1>0, <2>1, <2>2, <2>3 DEF MayRead, None
  <2> QED BY <1>2, <2>1, <2>2, <2>4
<1>10. CASE CopyFails
  <2>1. bounds.faults \in Nat /\ bounds' = [bounds EXCEPT !["faults"] = @ + 1]
    BY <1>10 DEF CopyFails, Count, OutOK
  <2>2. bounds'.faults = bounds.faults + 1
    BY <2>1 DEF OutOK
  <2> QED BY <2>1, <2>2 DEF OrderInv
<1>11. CASE UNCHANGED vars
  <2>1. UNCHANGED <<out, buf, written, content, path, f, off, read, blind>>
    BY <1>11 DEF vars, logVars, tailVars, sinkVars, ghostVars
  <2>2. \A i, k : MayRead(i, k)' => MayRead(i, k)
    BY <2>1 DEF MayRead
  <2> QED BY <1>2, <2>1, <2>2
<1> QED BY <1>3, <1>4, <1>5, <1>6, <1>7, <1>8, <1>9, <1>10, <1>11 DEF Next, Tailer

\* The line begun goes on with its end, which is the next thing copied, or the
\* next in the file; and the tailer knows when it owes one.
ApartInv ==
    (bounds.faults = 0 /\ ~skipped) =>
        /\ Len(carry) <= 1 /\ LineEnds(buf)
        /\ carry # <<>> /\ buf # <<>> => Head(buf) = NL
        /\ buf = <<>> /\ carry # <<>> => partial
        /\ f = None => carry = <<>>
        /\ f # None /\ ~blind /\ buf = <<>> /\ carry # <<>> => off >= 1 /\ content[f][off] # NL

LEMMA HeadAt ==
    ASSUME NEW s, s \in Seq(Units), 1 \in DOMAIN s
    PROVE  s # <<>> /\ Head(s) = s[1]
<1>1. DOMAIN <<>> = {}
  OBVIOUS
<1> QED BY <1>1

LEMMA ApartStep ==
    ASSUME TailInv, OutOK, BufferOK, BufferOK', FilesInv, ApartInv, [Next]_vars
    PROVE  ApartInv'
<1>0. /\ FilesOK /\ off \in Nat /\ read \in Nat /\ buf \in Seq(Units)
      /\ f # None => f \in DOMAIN content
      /\ \A i \in DOMAIN content :
            Len(content[i]) \in Nat /\ DOMAIN content[i] = 1 .. Len(content[i])
  BY FilesTyped DEF TailInv, PollOK, ReadOK, FilesOK, None
<1>1. bounds'.faults = 0 => bounds.faults = 0
  <2>1. bounds.faults \in Nat /\ bounds'.faults \in Nat /\ bounds.faults <= bounds'.faults
    BY CaptureGrows DEF OutOK
  <2> QED BY <2>1
<1>2. ASSUME UNCHANGED <<carry, buf, partial, f, off, skipped>>,
             (f # None /\ ~blind') => ~blind \/ carry = <<>>,
             (f # None /\ ~blind' /\ buf = <<>> /\ off >= 1 /\ off \in DOMAIN content[f]) =>
                content'[f][off] = content[f][off]
      PROVE  ApartInv'
  <2> SUFFICES ASSUME bounds.faults = 0, ~skipped PROVE ApartInv'
    BY <1>1, <1>2 DEF ApartInv
  <2>1. /\ Len(carry) <= 1 /\ LineEnds(buf)
        /\ carry # <<>> /\ buf # <<>> => Head(buf) = NL
        /\ buf = <<>> /\ carry # <<>> => partial
        /\ f = None => carry = <<>>
    BY DEF ApartInv
  <2>2. ASSUME f # None, ~blind', buf = <<>>, carry # <<>>
        PROVE  off >= 1 /\ content'[f][off] # NL
    <3>1. ~blind
      BY <1>2, <2>2
    <3>2. off >= 1 /\ content[f][off] # NL
      BY <2>2, <3>1 DEF ApartInv
    <3>3. off + read <= Len(content[f])
      BY <2>2, <3>1 DEF BufferOK
    <3>4. off \in DOMAIN content[f]
      BY <1>0, <2>2, <3>2, <3>3
    <3> QED BY <1>2, <2>2, <3>2, <3>4
  <2> QED BY <1>2, <2>1, <2>2 DEF ApartInv, LineEnds
<1>3. CASE Daemon \/ Rename \/ Create
  <2>1. UNCHANGED <<carry, buf, partial, f, off, skipped, blind>>
    BY <1>3 DEF Daemon, WriteLine, WriteEnd, Reopen, Rename, Create, tailVars, sinkVars, ghostVars
  <2>2. \A i \in DOMAIN content : \A k \in DOMAIN content[i] : content'[i][k] = content[i][k]
    <3>1. CASE WriteLine \/ WriteEnd
      <4>1. PICK u \in Units : content' = [content EXCEPT ![wfd] = Append(content[wfd], u)]
        BY <3>1, TailWrites
      <4> QED BY <1>0, <4>1, Appended
    <3>2. CASE Create
      BY <1>0, <3>2, Created DEF Create
    <3>3. CASE Rename \/ Reopen
      BY <3>3 DEF Rename, Reopen
    <3> QED BY <1>3, <3>1, <3>2, <3>3 DEF Daemon
  <2> QED BY <1>0, <1>2, <2>1, <2>2
<1>4. CASE Truncate
  <2>1. /\ path # None /\ content' = [content EXCEPT ![path] = <<>>]
        /\ blind' = (blind \/ (path = f /\ (off > 0 \/ buf # <<>>)))
        /\ UNCHANGED <<carry, buf, partial, f, off, skipped>>
    BY <1>4 DEF Truncate, tailVars, sinkVars
  <2>2. \A i \in DOMAIN content : i # path => content'[i] = content[i]
    BY <1>0, <2>1, Emptied
  <2>3. ~blind' => ~blind /\ ~(path = f /\ off > 0)
    BY <2>1, Zenon
  <2>4. off >= 1 => off > 0
    BY <1>0
  <2> QED BY <1>0, <1>2, <2>1, <2>2, <2>3, <2>4
<1>5. CASE PollOpens
  <2>1. /\ f = None /\ buf' = <<>> /\ buf = <<>>
        /\ UNCHANGED <<carry, partial, skipped>>
    BY <1>5 DEF PollOpens, Drain, sinkVars, TailInv, PollOK, Modes
  <2> SUFFICES ASSUME bounds.faults = 0, ~skipped PROVE ApartInv'
    BY <1>1, <2>1 DEF ApartInv
  <2>2. carry = <<>> /\ LineEnds(buf) /\ Len(carry) <= 1
    BY <2>1 DEF ApartInv
  <2> QED BY <2>1, <2>2 DEF ApartInv, LineEnds
<1>6. CASE Poll \/ ReadNothing \/ StatMoved \/ StatSame
  <2>1. UNCHANGED <<carry, partial, f, off, skipped, blind, content>>
    BY <1>6 DEF Poll, ReadNothing, StatMoved, StatSame, logVars, sinkVars, ghostVars
  <2>2. buf = <<>>
    BY <1>6 DEF Poll, ReadNothing, StatMoved, StatSame, Modes, TailInv, PollOK
  <2>3. buf' = <<>>
    BY <1>6, <2>2 DEF Poll, ReadNothing, StatMoved, StatSame, Drain, Drained
  <2> QED BY <1>2, <2>1, <2>2, <2>3
<1>7. CASE Read
  <2>1. /\ buf = <<>> /\ skipped' = (skipped \/ blind) /\ blind' = FALSE /\ off < Len(content[f])
        /\ buf' = SubSeq(content[f], off + 1, off + read')
        /\ read' = Lesser(BufSize, Len(content[f]) - off)
        /\ UNCHANGED <<carry, partial, f, off, content, bounds>>
    BY <1>7 DEF Read, Followed, logVars, sinkVars
  <2>2. f # None
    BY <1>7 DEF Read, TailInv, PollOK, Modes
  <2> SUFFICES ASSUME bounds.faults = 0, ~skipped, ~blind PROVE ApartInv'
    BY <2>1, Zenon DEF ApartInv
  <2> DEFINE c == content[f]
  <2>3. c \in Seq(Units) /\ DOMAIN c = 1 .. Len(c) /\ Len(c) \in Nat
    BY <1>0, <2>2, FilesTyped
  <2> HIDE DEF c
  <2>4. read' \in Nat /\ read' > 0 /\ off + read' <= Len(c)
    <3>1. off < Len(c) /\ read' = Lesser(BufSize, Len(c) - off)
      BY <2>1 DEF c
    <3> QED BY <1>0, <2>3, <3>1, TailAssumption DEF Lesser
  <2>5. ASSUME NEW o \in Nat, NEW r \in Nat, r > 0, o + r <= Len(c)
        PROVE  /\ DOMAIN SubSeq(c, o + 1, o + r) = 1 .. r
               /\ \A m \in 1 .. r : o + m \in DOMAIN c /\ SubSeq(c, o + 1, o + r)[m] = c[o + m]
               /\ SubSeq(c, o + 1, o + r) \in Seq(Units)
    <3> DEFINE d == SubSeq(c, o + 1, o + r)
    <3>1. /\ o + 1 \in 1 .. Len(c) + 1 /\ o + r \in (o + 1) - 1 .. Len(c)
          /\ (o + r) - (o + 1) + 1 = r
      BY <2>3, <2>5
    <3>2. d \in Seq(Units) /\ Len(d) = r /\ \A m \in 1 .. r : d[m] = c[(o + 1) + m - 1]
      BY <2>3, <3>1, SubSeqProperties
    <3> HIDE DEF d
    <3>3. DOMAIN d = 1 .. r
      BY <3>2
    <3>4. \A m \in 1 .. r : o + m \in DOMAIN c /\ (o + 1) + m - 1 = o + m
      BY <2>3, <2>5
    <3>5. \A m \in 1 .. r : o + m \in DOMAIN c /\ d[m] = c[o + m]
      BY <3>2, <3>4
    <3> QED BY <3>2, <3>3, <3>5 DEF d
  <2>6. /\ DOMAIN buf' = 1 .. read' /\ buf' # <<>> /\ Head(buf') = c[off + 1]
        /\ \A m \in DOMAIN buf' : off + m \in DOMAIN c /\ buf'[m] = c[off + m]
    <3>1. buf' = SubSeq(c, off + 1, off + read')
      BY <2>1, Zenon DEF c
    <3>2. /\ DOMAIN buf' = 1 .. read' /\ buf' \in Seq(Units)
          /\ \A m \in DOMAIN buf' : off + m \in DOMAIN c /\ buf'[m] = c[off + m]
      <4> DEFINE r == read'
                 b == SubSeq(c, off + 1, off + r)
      <4>1. r \in Nat /\ r > 0 /\ off + r <= Len(c)
        BY <2>4
      <4>2. buf' = b
        BY <3>1
      <4> HIDE DEF r
      <4>3. /\ DOMAIN b = 1 .. r /\ b \in Seq(Units)
            /\ \A m \in 1 .. r : off + m \in DOMAIN c /\ b[m] = c[off + m]
        BY <1>0, <2>5, <4>1
      <4> HIDE DEF b
      <4> QED BY <4>2, <4>3 DEF r
    <3>3. 1 \in DOMAIN buf'
      BY <2>4, <3>2
    <3>4. buf' # <<>> /\ Head(buf') = buf'[1]
      BY <3>2, <3>3, HeadAt
    <3> QED BY <3>2, <3>3, <3>4
  <2>7. LineEnds(c)
    BY <1>0, <2>2 DEF FilesInv, FilesEnd, c
  <2>8. LineEnds(buf')
    <3> SUFFICES ASSUME NEW m \in DOMAIN buf', m + 1 \in DOMAIN buf'
                 PROVE  buf'[m] = NL \/ buf'[m + 1] = NL
      BY DEF LineEnds
    <3>1. off + (m + 1) = (off + m) + 1
      BY <1>0, <2>4, <2>6
    <3>2. off + m \in DOMAIN c /\ (off + m) + 1 \in DOMAIN c
      BY <2>6, <3>1
    <3>3. c[off + m] = NL \/ c[(off + m) + 1] = NL
      BY <2>7, <3>2 DEF LineEnds
    <3> QED BY <2>6, <3>1, <3>3
  <2>9. carry # <<>> => Head(buf') = NL
    <3> SUFFICES ASSUME carry # <<>> PROVE c[off + 1] = NL
      BY <2>6
    <3>1. off >= 1 /\ c[off] # NL
      BY <2>1, <2>2 DEF ApartInv, c
    <3>2. off \in DOMAIN c /\ off + 1 \in DOMAIN c
      <4>1. off < Len(c)
        BY <2>1 DEF c
      <4> QED BY <1>0, <2>3, <3>1, <4>1
    <3> QED BY <2>7, <3>1, <3>2 DEF LineEnds
  <2>10. Len(carry) <= 1
    BY DEF ApartInv
  <2> QED BY <2>1, <2>2, <2>6, <2>8, <2>9, <2>10 DEF ApartInv
<1>8. CASE Copy
  <2> DEFINE h == Head(buf)
  <2>1. /\ buf # <<>> /\ Observe(h) /\ f # None
        /\ UNCHANGED <<f, content, skipped, blind, bounds>>
        /\ \/ Len(buf) > 1 /\ buf' = Tail(buf)
           \/ ~(Len(buf) > 1) /\ buf' = <<>> /\ off' = off + read /\ partial' = (h # NL)
    BY <1>8 DEF Copy, Emit, Drained, logVars, ghostVars, TailInv, PollOK, Modes
  <2>2. /\ h = buf[1] /\ 1 \in DOMAIN buf /\ Len(buf) \in Nat \ {0} /\ DOMAIN buf = 1 .. Len(buf)
        /\ h \in Units
    BY <1>0, <2>1
  <2> HIDE DEF h
  <2> SUFFICES ASSUME bounds.faults = 0, ~skipped PROVE ApartInv'
    BY <2>1 DEF ApartInv
  <2>3. LineEnds(buf) /\ (carry # <<>> => h = NL)
    BY <2>1 DEF ApartInv, h
  <2>4. carry' = <<>> \/ (h # NL /\ carry' = <<h>>)
    <3>1. CASE h = NL
      BY <2>1, <3>1 DEF Observe
    <3>2. CASE h # NL
      <4>1. carry = <<>> /\ carry' = CarriedOn(carry, h)
        BY <2>1, <2>3, <3>2 DEF Observe
      <4> QED BY <3>2, <4>1 DEF CarriedOn
    <3> QED BY <3>1, <3>2
  <2>5. Len(carry') <= 1 /\ (carry' # <<>> => h # NL)
    <3>1. CASE carry' = <<>>
      BY <3>1
    <3>2. CASE h # NL /\ carry' = <<h>>
      BY <3>2
    <3> QED BY <2>4, <3>1, <3>2
  <2>6. CASE Len(buf) > 1 /\ buf' = Tail(buf)
    <3>0. ASSUME NEW s \in Seq(Units), Len(s) > 1
          PROVE  /\ \A m \in DOMAIN Tail(s) :
                        m \in Nat /\ m + 1 \in DOMAIN s /\ Tail(s)[m] = s[m + 1]
                 /\ Tail(s) # <<>> /\ Head(Tail(s)) = s[1 + 1] /\ 1 + 1 \in DOMAIN s
      <4>1. Tail(s) \in Seq(Units) /\ Len(Tail(s)) = Len(s) - 1 /\ Len(s) \in Nat
        BY <3>0
      <4>2. \A m \in 1 .. Len(s) - 1 : Tail(s)[m] = s[m + 1]
        BY <3>0
      <4>3. DOMAIN Tail(s) = 1 .. Len(s) - 1 /\ 1 \in 1 .. Len(s) - 1
        BY <3>0, <4>1
      <4>4. Tail(s) # <<>> /\ Head(Tail(s)) = Tail(s)[1]
        BY <4>1, <4>3, HeadAt, Zenon
      <4> QED BY <3>0, <4>1, <4>2, <4>3, <4>4
    <3>1. /\ \A m \in DOMAIN buf' : m \in Nat /\ m + 1 \in DOMAIN buf /\ buf'[m] = buf[m + 1]
          /\ buf' # <<>> /\ Head(buf') = buf[1 + 1] /\ 1 + 1 \in DOMAIN buf
      BY <1>0, <2>6, <3>0
    <3>2. h # NL => Head(buf') = NL
      BY <2>2, <2>3, <3>1 DEF LineEnds
    <3>3. LineEnds(buf')
      BY <2>3, <3>1 DEF LineEnds
    <3> QED BY <2>1, <2>5, <3>1, <3>2, <3>3 DEF ApartInv
  <2>7. CASE ~(Len(buf) > 1) /\ buf' = <<>> /\ off' = off + read /\ partial' = (h # NL)
    <3>1. Len(buf) = 1
      BY <2>2, <2>7
    <3>2. LineEnds(buf')
      <4>1. DOMAIN <<>> = {}
        OBVIOUS
      <4> QED BY <2>7, <4>1 DEF LineEnds
    <3>3. ~blind => off' >= 1 /\ content[f][off'] = h
      <4> SUFFICES ASSUME ~blind PROVE off' >= 1 /\ content[f][off'] = h
        OBVIOUS
      <4>1. read >= 1
        BY <1>0, <3>1 DEF BufferOK
      <4>2. Ahead + 1 = off + read
        BY <1>0, <3>1 DEF Ahead
      <4>3. 1 \in 1 .. Len(buf)
        BY <3>1
      <4>4. buf[1] = content[f][Ahead + 1]
        BY <2>1, <4>3 DEF BufferOK
      <4> QED BY <1>0, <2>2, <2>7, <4>1, <4>2, <4>4
    <3>4. partial' <=> h # NL
      BY <2>7
    <3> QED BY <2>1, <2>5, <2>7, <3>2, <3>3, <3>4 DEF ApartInv
  <2> QED BY <2>1, <2>6, <2>7
<1>9. CASE StatCut \/ CloseOld
  <2>1. EndLine /\ UNCHANGED skipped /\ buf = <<>> /\ buf' = <<>>
    BY <1>9 DEF StatCut, CloseOld, Drain, TailInv, PollOK, Modes
  <2> SUFFICES ASSUME bounds.faults = 0, ~skipped PROVE ApartInv'
    BY <1>1, <2>1 DEF ApartInv
  <2>2. carry # <<>> => partial
    BY <2>1 DEF ApartInv
  <2>3. carry' = <<>> /\ partial' = FALSE
    BY <2>1, <2>2 DEF EndLine, Emit, Observe, sinkVars
  <2>4. LineEnds(buf') /\ Len(carry') <= 1
    <3>1. DOMAIN <<>> = {} /\ Len(<<>>) = 0
      OBVIOUS
    <3> QED BY <2>1, <2>3, <3>1 DEF LineEnds
  <2> QED BY <2>1, <2>3, <2>4 DEF ApartInv
<1>10. CASE CopyFails
  <2>1. bounds.faults \in Nat /\ bounds' = [bounds EXCEPT !["faults"] = @ + 1]
    BY <1>10 DEF CopyFails, Count, OutOK
  <2>2. bounds'.faults = bounds.faults + 1
    BY <2>1 DEF OutOK
  <2> QED BY <2>1, <2>2 DEF ApartInv
<1>11. CASE UNCHANGED vars
  <2>1. UNCHANGED <<buf, content, f, off, blind, carry, partial, skipped>>
    BY <1>11 DEF vars, logVars, tailVars, sinkVars, ghostVars
  <2> QED BY <1>2, <2>1
<1> QED BY <1>3, <1>4, <1>5, <1>6, <1>7, <1>8, <1>9, <1>10, <1>11 DEF Next, Rotation, Tailer

LEMMA OrderInit == Init => FilesInv /\ OrderInv /\ ApartInv
<1> SUFFICES ASSUME Init PROVE FilesInv /\ OrderInv /\ ApartInv
  OBVIOUS
<1>1. /\ content = << <<>> >> /\ path = 1 /\ f = None /\ buf = <<>> /\ out = <<>> /\ carry = <<>>
      /\ partial = FALSE /\ wfd = 1
  BY DEF Init
<1>2. /\ DOMAIN content = {1} /\ DOMAIN content[1] = {} /\ Len(content) = 1
      /\ Len(content[1]) = 0 /\ DOMAIN <<>> = {} /\ Len(<<>>) = 0
  BY <1>1
<1>3. FilesInv
  BY <1>1, <1>2 DEF FilesInv, FilesRise, NewestNamed, NewerEmpty, FilesEnd, LineEnds
<1>4. OrderInv
  BY <1>1, <1>2 DEF OrderInv, Rises, Before, Captured, Lines
<1>5. ApartInv
  BY <1>1, <1>2 DEF ApartInv, LineEnds
<1> QED BY <1>3, <1>4, <1>5

\* The order of the lines and their standing apart, with what they rest on.
LEMMA OrderAlways == Spec => [](InOrder /\ ApartInv)
<1> DEFINE Inv == FilesInv /\ OrderInv /\ ApartInv
           Base == TailInv /\ OutOK /\ UniqueLines /\ BufferOK
<1>1. Init => Base /\ Inv
  BY TailInvInit, CaptureInit, OrderInit DEF CaptureInv
<1>2. Base /\ Inv /\ [Next]_vars => (Base /\ Inv)'
  <2> SUFFICES ASSUME Base, Inv, [Next]_vars PROVE (Base /\ Inv)'
    OBVIOUS
  <2>1. TailInv'
    BY TFiles, TPoll, TSink DEF TailInv
  <2>2. OutOK' /\ UniqueLines' /\ BufferOK'
    BY CaptureGrows, UniqueStep, BufferStep
  <2>3. FilesInv' /\ OrderInv' /\ ApartInv'
    BY <2>2, FilesInvStep, OrderStep, ApartStep
  <2> QED BY <2>1, <2>2, <2>3
<1>3. Inv => InOrder /\ ApartInv
  BY DEF OrderInv, Rises, ApartInv, InOrder, LinesInOrder, LinesApart
<1> QED BY <1>1, <1>2, <1>3, PTL DEF Spec

\* As long as no write to the capture failed, the capture holds the lines in the
\* order they were written and none twice; and no line runs into another, unless
\* the tailer read on in a file truncated under it (Tailer.Poll, drain, endLine):
\* for any buffer and poll size, whichever lines are long, and however often the
\* log is rotated.
THEOREM CapturedInOrder == Spec => []InOrder
BY OrderAlways, PTL

-----------------------------------------------------------------------------
(***************************************************************************)
(* The losses LogTail's source reports.  What it reports is compared with  *)
(* an account of every number seen, the account with the numbers of the    *)
(* lines captured, and these with what the tailer copied.                  *)
(***************************************************************************)

\* Of some subsets of a finite set one is least: what stands in for an induction.
LEMMA FinMin ==
    ASSUME NEW S, IsFiniteSet(S), NEW T, T \subseteq SUBSET S, T # {}
    PROVE  \E s \in T : \A t \in T : t \subseteq s => t = s
<1>1. IsWellFoundedOn(StrictSubsetOrdering(S), FiniteSubsetsOf(S))
  BY FS_StrictSubsetOrderingWellFounded
<1>2. T \subseteq FiniteSubsetsOf(S)
  BY FS_FiniteSubsetsOfFinite
<1>3. PICK s \in T : \A t \in T : ~(<<t, s>> \in StrictSubsetOrdering(S))
  BY <1>1, <1>2, WFMin
<1>4. \A t \in T : ~(t \subseteq s /\ t # s)
  BY <1>3 DEF StrictSubsetOrdering
<1> QED BY <1>4

\* A finite set of numbers has a greatest.
LEMMA HasMax ==
    ASSUME NEW S, IsFiniteSet(S), S # {}
    PROVE  S \subseteq Nat => Max(S) \in S /\ \A y \in S : y <= Max(S)
<1> DEFINE above(n) == {m \in S : m > n}
           D == {above(n) : n \in S}
<1>0. D \subseteq SUBSET S /\ D # {}
  OBVIOUS
<1>1. PICK s \in D : \A t \in D : t \subseteq s => t = s
  <2> HIDE DEF D
  <2> QED BY <1>0, FinMin
<1>2. PICK n \in S : s = above(n)
  BY <1>1
<1> HAVE S \subseteq Nat
<1>3. \A m \in S : ~(m > n)
  <2> SUFFICES ASSUME NEW m \in S, m > n PROVE FALSE
    OBVIOUS
  <2>1. m \notin above(m) /\ m \in above(n)
    OBVIOUS
  <2>2. above(m) \subseteq above(n)
    <3> SUFFICES ASSUME NEW k \in S, k > m PROVE k > n
      OBVIOUS
    <3>1. k \in Nat /\ m \in Nat /\ n \in Nat
      OBVIOUS
    <3> QED BY <3>1
  <2>3. above(m) \in D
    OBVIOUS
  <2> QED BY <1>1, <1>2, <2>1, <2>2, <2>3
<1>4. \A y \in S : n >= y
  BY <1>3
<1> QED BY <1>4 DEF Max

\* Folding a finite set: ch says which element comes next, F what it adds.
Folding(g, S, ch, F, b) ==
    g = [s \in SUBSET S |-> IF s = {} THEN b ELSE F[<<g[s \ {ch[s]}], ch[s]>>]]

LEMMA FoldsAgree ==
    ASSUME NEW S, IsFiniteSet(S), NEW R, NEW ch, NEW F, NEW b, NEW g, NEW h,
           Folding(g, S, ch, F, b), Folding(h, R, ch, F, b),
           \A s \in SUBSET S : s # {} => ch[s] \in s
    PROVE  \A t \in (SUBSET S) \cap (SUBSET R) : g[t] = h[t]
<1> DEFINE D == {t \in (SUBSET S) \cap (SUBSET R) : g[t] # h[t]}
<1> SUFFICES ASSUME D # {} PROVE FALSE
  OBVIOUS
<1>0. D \subseteq SUBSET S /\ D # {}
  OBVIOUS
<1>1. PICK t \in D : \A s \in D : s \subseteq t => s = t
  <2> HIDE DEF D
  <2> QED BY <1>0, FinMin
<1>2. t # {}
  BY <1>1 DEF Folding
<1>3. g[t] = F[<<g[t \ {ch[t]}], ch[t]>>]
  <2>1. t \in SUBSET S
    BY <1>1
  <2> HIDE DEF D
  <2> QED BY <1>2, <2>1 DEF Folding
<1>30. h[t] = F[<<h[t \ {ch[t]}], ch[t]>>]
  <2>1. t \in SUBSET R
    BY <1>1
  <2> HIDE DEF D
  <2> QED BY <1>2, <2>1 DEF Folding
<1>4. t \ {ch[t]} \notin D
  BY <1>1, <1>2
<1>5. g[t \ {ch[t]}] = h[t \ {ch[t]}]
  BY <1>1, <1>4
<1> QED BY <1>1, <1>3, <1>30, <1>5

LEMMA FoldsExist ==
    ASSUME NEW S, IsFiniteSet(S), NEW ch, NEW F, NEW b,
           \A s \in SUBSET S : s # {} => ch[s] \in s
    PROVE  \E g : Folding(g, S, ch, F, b)
<1> DEFINE D == {t \in SUBSET S : ~\E g : Folding(g, t, ch, F, b)}
<1> SUFFICES ASSUME S \in D PROVE FALSE
  OBVIOUS
<1>0. D \subseteq SUBSET S /\ D # {}
  OBVIOUS
<1>1. PICK t \in D : \A s \in D : s \subseteq t => s = t
  <2> HIDE DEF D
  <2> QED BY <1>0, FinMin
<1> DEFINE G(s) == CHOOSE g : Folding(g, s, ch, F, b)
           c == ch[t]
<1>2. ASSUME NEW s \in SUBSET t, s # t
      PROVE  Folding(G(s), s, ch, F, b)
  <2>1. s \notin D /\ s \in SUBSET S
    BY <1>1, <1>2
  <2>2. \E g : Folding(g, s, ch, F, b)
    BY <2>1
  <2> QED BY <2>2
<1> HIDE DEF G
<1>3. ASSUME NEW s \in SUBSET t, s # t, s # {}
      PROVE  G(s)[s] = F[<<G(s \ {ch[s]})[s \ {ch[s]}], ch[s]>>]
  <2> DEFINE r == s \ {ch[s]}
  <2>1. s \in SUBSET S /\ IsFiniteSet(s) /\ ch[s] \in s
    BY <1>1, <1>3, FS_Subset
  <2>2. r \in SUBSET t /\ r # t /\ r \in SUBSET s
    BY <1>3, <2>1
  <2>3. Folding(G(s), s, ch, F, b) /\ Folding(G(r), r, ch, F, b)
    BY <1>2, <1>3, <2>2
  <2>4. \A u \in SUBSET s : u # {} => ch[u] \in u
    BY <2>1
  <2> HIDE DEF r
  <2>5. \A u \in (SUBSET s) \cap (SUBSET r) : G(s)[u] = G(r)[u]
    BY <2>1, <2>3, <2>4, FoldsAgree
  <2>6. r \in (SUBSET s) \cap (SUBSET r)
    BY <2>2
  <2>60. G(s)[r] = G(r)[r]
    BY <2>5, <2>6
  <2>7. G(s)[s] = F[<<G(s)[s \ {ch[s]}], ch[s]>>]
    BY <1>3, <2>3 DEF Folding
  <2> QED BY <2>60, <2>7 DEF r
<1>4. ASSUME NEW s \in SUBSET t, s # t, s = {}
      PROVE  G(s)[s] = b
  BY <1>2, <1>4 DEF Folding
<1> DEFINE last == IF t = {} THEN b ELSE F[<<G(t \ {c})[t \ {c}], c>>]
           k == [s \in SUBSET t |-> IF s = t THEN last ELSE G(s)[s]]
<1>5. ASSUME NEW s \in SUBSET t
      PROVE  k[s] = IF s = {} THEN b ELSE F[<<k[s \ {ch[s]}], ch[s]>>]
  <2>1. s # {} => /\ s \ {ch[s]} \in SUBSET t /\ s \ {ch[s]} # t
                  /\ k[s \ {ch[s]}] = G(s \ {ch[s]})[s \ {ch[s]}]
    <3> SUFFICES ASSUME s # {}
                 PROVE  s \ {ch[s]} \in SUBSET t /\ s \ {ch[s]} # t
      OBVIOUS
    <3>1. ch[s] \in s
      BY <1>1
    <3> QED BY <3>1
  <2>2. CASE s = t
    BY <2>1, <2>2
  <2>3. CASE s # t
    BY <1>3, <1>4, <2>1, <2>3
  <2> QED BY <2>2, <2>3
<1>6. k = [s \in SUBSET t |-> IF s = {} THEN b ELSE F[<<k[s \ {ch[s]}], ch[s]>>]]
  <2> DEFINE e == [s \in SUBSET t |-> IF s = {} THEN b ELSE F[<<k[s \ {ch[s]}], ch[s]>>]]
  <2>1. \A s \in SUBSET t : k[s] = e[s]
    BY <1>5
  <2>2. DOMAIN k = SUBSET t /\ DOMAIN e = SUBSET t
    OBVIOUS
  <2>3. k = [s \in SUBSET t |-> k[s]] /\ e = [s \in SUBSET t |-> e[s]]
    OBVIOUS
  <2> HIDE DEF k, e
  <2>4. k = e
    BY <2>1, <2>3
  <2> QED BY <2>4 DEF e
<1> HIDE DEF k
<1>7. Folding(k, t, ch, F, b)
  BY <1>6 DEF Folding
<1> QED BY <1>1, <1>7

\* The sum of w over a set, taken one element after the other.
IsSum(g, S, w) ==
    g = [s \in SUBSET S |->
            IF s = {} THEN 0 ELSE w[CHOOSE x \in s : TRUE] + g[s \ {CHOOSE x \in s : TRUE}]]
Total(S, w) == (CHOOSE g : IsSum(g, S, w))[S]

LEMMA SumsExist ==
    ASSUME NEW S, IsFiniteSet(S), NEW w, \A x \in S : w[x] \in Nat
    PROVE  \E g : IsSum(g, S, w)
<1> DEFINE ch == [s \in SUBSET S |-> CHOOSE x \in s : TRUE]
           F == [p \in Nat \X S |-> w[p[2]] + p[1]]
<1>1. \A s \in SUBSET S : s # {} => ch[s] \in s /\ ch[s] = CHOOSE x \in s : TRUE
  OBVIOUS
<1>2. \A n \in Nat, x \in S : F[<<n, x>>] = w[x] + n
  OBVIOUS
<1> HIDE DEF ch, F
<1>3. PICK g : Folding(g, S, ch, F, 0)
  BY <1>1, FoldsExist
<1>4. \A t \in SUBSET S : g[t] \in Nat
  <2> DEFINE D == {t \in SUBSET S : g[t] \notin Nat}
  <2> SUFFICES ASSUME D # {} PROVE FALSE
    OBVIOUS
  <2>0. D \subseteq SUBSET S /\ D # {}
    OBVIOUS
  <2>1. PICK t \in D : \A s \in D : s \subseteq t => s = t
    <3> HIDE DEF D
    <3> QED BY <2>0, FinMin
  <2>2. t \in SUBSET S /\ g[t] \notin Nat
    BY <2>1
  <2>3. t # {}
    BY <1>3, <2>2 DEF Folding
  <2>4. g[t] = F[<<g[t \ {ch[t]}], ch[t]>>] /\ ch[t] \in S /\ ch[t] \in t
    BY <1>1, <1>3, <2>2, <2>3 DEF Folding
  <2>5. t \ {ch[t]} \notin D /\ t \ {ch[t]} \in SUBSET S
    BY <2>1, <2>4
  <2>6. g[t \ {ch[t]}] \in Nat
    BY <2>5
  <2>7. g[t] = w[ch[t]] + g[t \ {ch[t]}]
    BY <1>2, <2>4, <2>6
  <2> HIDE DEF D
  <2> QED BY <2>2, <2>4, <2>6, <2>7
<1>5. ASSUME NEW s \in SUBSET S
      PROVE  g[s] = IF s = {} THEN 0
                    ELSE w[CHOOSE x \in s : TRUE] + g[s \ {CHOOSE x \in s : TRUE}]
  <2>1. CASE s = {}
    BY <1>3, <2>1 DEF Folding
  <2>2. CASE s # {}
    <3>1. ch[s] \in S /\ s \ {ch[s]} \in SUBSET S
      BY <1>1, <2>2
    <3>2. g[s] = F[<<g[s \ {ch[s]}], ch[s]>>]
      BY <1>3, <2>2 DEF Folding
    <3>3. g[s] = w[ch[s]] + g[s \ {ch[s]}]
      BY <1>2, <1>4, <3>1, <3>2
    <3> QED BY <1>1, <2>2, <3>3
  <2> QED BY <2>1, <2>2
<1>6. g = [s \in SUBSET S |-> g[s]]
  BY <1>3 DEF Folding
<1>7. [s \in SUBSET S |-> g[s]] =
         [s \in SUBSET S |->
            IF s = {} THEN 0 ELSE w[CHOOSE x \in s : TRUE] + g[s \ {CHOOSE x \in s : TRUE}]]
  BY <1>5
<1>8. IsSum(g, S, w)
  BY <1>6, <1>7 DEF IsSum
<1> QED BY <1>8

LEMMA SumsAgree ==
    ASSUME NEW S, IsFiniteSet(S), NEW R, NEW w, NEW u, \A x \in S : w[x] = u[x],
           NEW g, NEW h, IsSum(g, S, w), IsSum(h, R, u)
    PROVE  \A t \in (SUBSET S) \cap (SUBSET R) : g[t] = h[t]
<1> DEFINE D == {t \in (SUBSET S) \cap (SUBSET R) : g[t] # h[t]}
<1> SUFFICES ASSUME D # {} PROVE FALSE
  OBVIOUS
<1>0. D \subseteq SUBSET S /\ D # {}
  OBVIOUS
<1>1. PICK t \in D : \A s \in D : s \subseteq t => s = t
  <2> HIDE DEF D
  <2> QED BY <1>0, FinMin
<1>2. t \in SUBSET S /\ t \in SUBSET R /\ g[t] # h[t]
  BY <1>1
<1>3. t # {}
  BY <1>2 DEF IsSum
<1> DEFINE c == CHOOSE x \in t : TRUE
<1>4. c \in t
  BY <1>3
<1>5. g[t] = w[c] + g[t \ {c}]
  BY <1>2, <1>3 DEF IsSum
<1>6. h[t] = u[c] + h[t \ {c}]
  BY <1>2, <1>3 DEF IsSum
<1> HIDE DEF c
<1>7. t \ {c} \notin D
  BY <1>1, <1>4
<1>8. g[t \ {c}] = h[t \ {c}]
  BY <1>2, <1>7
<1> QED BY <1>2, <1>4, <1>5, <1>6, <1>8

LEMMA TotalIs ==
    ASSUME NEW S, IsFiniteSet(S), NEW w, \A x \in S : w[x] \in Nat, NEW g, IsSum(g, S, w)
    PROVE  \A t \in SUBSET S : g[t] = Total(t, w)
<1> SUFFICES ASSUME NEW t \in SUBSET S PROVE g[t] = Total(t, w)
  OBVIOUS
<1>1. IsFiniteSet(t)
  BY FS_Subset
<1>2. \E h : IsSum(h, t, w)
  BY <1>1, SumsExist
<1> DEFINE h == CHOOSE h : IsSum(h, t, w)
<1>3. IsSum(h, t, w)
  BY <1>2
<1> HIDE DEF h
<1>4. g[t] = h[t]
  BY <1>3, SumsAgree
<1> QED BY <1>4 DEF Total, h

LEMMA TotalStep ==
    ASSUME NEW S, IsFiniteSet(S), NEW w, \A x \in S : w[x] \in Nat
    PROVE  Total(S, w) = IF S = {} THEN 0
                         ELSE w[CHOOSE x \in S : TRUE] + Total(S \ {CHOOSE x \in S : TRUE}, w)
<1>1. PICK g : IsSum(g, S, w)
  BY SumsExist
<1>2. \A t \in SUBSET S : g[t] = Total(t, w)
  BY <1>1, TotalIs
<1>3. g[S] = IF S = {} THEN 0 ELSE w[CHOOSE x \in S : TRUE] + g[S \ {CHOOSE x \in S : TRUE}]
  BY <1>1 DEF IsSum
<1> QED BY <1>2, <1>3

LEMMA TotalNat ==
    ASSUME NEW S, IsFiniteSet(S), NEW w, \A x \in S : w[x] \in Nat
    PROVE  Total(S, w) \in Nat
<1> DEFINE D == {t \in SUBSET S : Total(t, w) \notin Nat}
<1> SUFFICES ASSUME D # {} PROVE FALSE
  OBVIOUS
<1>0. D \subseteq SUBSET S /\ D # {}
  OBVIOUS
<1>1. PICK t \in D : \A s \in D : s \subseteq t => s = t
  <2> HIDE DEF D
  <2> QED BY <1>0, FinMin
<1>2. t \in SUBSET S /\ Total(t, w) \notin Nat
  BY <1>1
<1>3. IsFiniteSet(t) /\ \A x \in t : w[x] \in Nat
  BY <1>2, FS_Subset
<1> DEFINE c == CHOOSE x \in t : TRUE
<1>4. Total(t, w) = IF t = {} THEN 0 ELSE w[c] + Total(t \ {c}, w)
  BY <1>3, TotalStep
<1>5. t # {}
  BY <1>2, <1>4
<1>6. c \in t
  BY <1>5
<1> HIDE DEF c
<1>7. t \ {c} \notin D /\ t \ {c} \in SUBSET S
  BY <1>1, <1>6
<1>8. Total(t \ {c}, w) \in Nat
  BY <1>7
<1> HIDE DEF D
<1> QED BY <1>2, <1>3, <1>4, <1>5, <1>6, <1>8

LEMMA TotalSame ==
    ASSUME NEW S, IsFiniteSet(S), NEW w, NEW u, \A x \in S : w[x] \in Nat /\ u[x] = w[x]
    PROVE  Total(S, u) = Total(S, w)
<1>1. /\ \A x \in S : w[x] \in Nat
      /\ \A x \in S : u[x] \in Nat
      /\ \A x \in S : u[x] = w[x]
  OBVIOUS
<1>2. PICK g : IsSum(g, S, w)
  BY <1>1, SumsExist
<1>3. PICK h : IsSum(h, S, u)
  BY <1>1, SumsExist
<1>4. h[S] = g[S]
  BY <1>1, <1>2, <1>3, SumsAgree
<1>5. g[S] = Total(S, w) /\ h[S] = Total(S, u)
  BY <1>1, <1>2, <1>3, TotalIs
<1> QED BY <1>4, <1>5

\* The order does not matter: an element may be added to a sum at any time.
LEMMA TotalAdd ==
    ASSUME NEW S, IsFiniteSet(S), NEW a, a \notin S, NEW w, \A x \in S \cup {a} : w[x] \in Nat
    PROVE  Total(S \cup {a}, w) = Total(S, w) + w[a]
<1> DEFINE U == S \cup {a}
           D == {t \in SUBSET U : \E x \in U \ t : Total(t \cup {x}, w) # Total(t, w) + w[x]}
<1> SUFFICES ASSUME D # {} PROVE FALSE
  OBVIOUS
<1>0. D \subseteq SUBSET U /\ D # {} /\ IsFiniteSet(U)
  BY FS_AddElement
<1> HIDE DEF U
<1>1. PICK t \in D : \A s \in D : s \subseteq t => s = t
  <2> HIDE DEF D
  <2> QED BY <1>0, FinMin
<1>2. PICK x \in U \ t : Total(t \cup {x}, w) # Total(t, w) + w[x]
  BY <1>1
<1> DEFINE r == t \cup {x}
           c == CHOOSE z \in r : TRUE
<1>3. \A s \in SUBSET U : IsFiniteSet(s) /\ \A z \in s : w[z] \in Nat
  BY <1>0, FS_Subset DEF U
<1>4. t \in SUBSET U /\ r \in SUBSET U /\ c \in r
  BY <1>1, <1>2
<1>5. Total(r, w) = w[c] + Total(r \ {c}, w)
  <2>1. r # {} /\ IsFiniteSet(r) /\ \A z \in r : w[z] \in Nat
    BY <1>3, <1>4
  <2> HIDE DEF r
  <2> QED BY <2>1, TotalStep
<1> HIDE DEF c
<1>6. \A s \in SUBSET U : Total(s, w) \in Nat
  BY <1>3, TotalNat
<1>7. CASE c = x
  <2>1. r \ {c} = t
    BY <1>2, <1>7
  <2> QED BY <1>2, <1>3, <1>4, <1>5, <1>6, <2>1
<1>8. CASE c # x
  <2> DEFINE s == t \ {c}
  <2>1. c \in t /\ r \ {c} = s \cup {x} /\ t = s \cup {c} /\ s \in SUBSET U /\ s # t
    BY <1>4, <1>8
  <2>2. s \notin D
    BY <1>1, <2>1
  <2>3. \A z \in U \ s : Total(s \cup {z}, w) = Total(s, w) + w[z]
    BY <2>1, <2>2
  <2>4. x \in U \ s /\ c \in U \ s
    BY <1>2, <1>4, <2>1
  <2> HIDE DEF s
  <2>5. Total(r \ {c}, w) = Total(s, w) + w[x] /\ Total(t, w) = Total(s, w) + w[c]
    BY <2>1, <2>3, <2>4
  <2>6. w[x] \in Nat /\ w[c] \in Nat /\ Total(s, w) \in Nat
    BY <1>2, <1>3, <1>4, <1>6, <2>1
  <2>7. Total(r, w) = Total(t, w) + w[x]
    <3> HIDE DEF r
    <3> QED BY <1>5, <2>5, <2>6
  <2> QED BY <1>2, <2>7
<1> QED BY <1>7, <1>8
-----------------------------------------------------------------------------
LEMMA LeftIsTotal ==
    ASSUME NEW S, IsFiniteSet(S), \A r \in S : r.left \in Nat
    PROVE  Left(S) = Total(S, [r \in S |-> r.left])
<1> DEFINE w == [r \in S |-> r.left]
           good(g) == g = [s \in SUBSET S |->
                              IF s = {} THEN 0
                              ELSE (CHOOSE x \in s : TRUE).left + g[s \ {CHOOSE x \in s : TRUE}]]
           h == CHOOSE g : good(g)
<1>1. Left(S) = h[S]
  BY DEF Left, MapThenSumSet, MapThenFoldSet
<1>2. ASSUME NEW g PROVE good(g) <=> IsSum(g, S, w)
  <2>1. \A s \in SUBSET S : s # {} => w[CHOOSE x \in s : TRUE] = (CHOOSE x \in s : TRUE).left
    <3> SUFFICES ASSUME NEW s \in SUBSET S, s # {}
                 PROVE  (CHOOSE x \in s : TRUE) \in S
      OBVIOUS
    <3>1. (CHOOSE x \in s : TRUE) \in s
      OBVIOUS
    <3> QED BY <3>1
  <2> HIDE DEF w
  <2>2. [s \in SUBSET S |-> IF s = {} THEN 0
                            ELSE (CHOOSE x \in s : TRUE).left + g[s \ {CHOOSE x \in s : TRUE}]]
          = [s \in SUBSET S |-> IF s = {} THEN 0
                                ELSE w[CHOOSE x \in s : TRUE] + g[s \ {CHOOSE x \in s : TRUE}]]
    BY <2>1
  <2> QED BY <2>2 DEF IsSum
<1>3. \A x \in S : w[x] \in Nat
  OBVIOUS
<1> HIDE DEF w, good
<1>4. \E g : good(g)
  BY <1>2, <1>3, SumsExist
<1>5. good(h)
  BY <1>4
<1> HIDE DEF h
<1>6. h[S] = Total(S, w)
  BY <1>2, <1>3, <1>5, TotalIs
<1> QED BY <1>1, <1>6 DEF w

LEMMA SpanDisjoint ==
    ASSUME NEW s, SourceOK(s), NEW r \in s.ranges, NEW q \in s.ranges, r # q
    PROVE  Span(r) \cap Span(q) = {}
<1>1. r.to < q.from \/ q.to < r.from
  BY DEF SourceOK, RangesConsistent, RangesApart
<1>2. r.from \in Nat /\ r.to \in Nat /\ q.from \in Nat /\ q.to \in Nat
  BY DEF SourceOK, SmallRange
<1> QED BY <1>1, <1>2, SMT DEF Span

\* What some ranges still miss are the pending numbers in them.
Spans(R) == UNION {Span(r) : r \in R}
LEMMA LeftCounts ==
    ASSUME NEW s, SourceOK(s), IsFiniteSet(s.ranges), NEW R \in SUBSET s.ranges
    PROVE  Left(R) = Cardinality(s.pending \cap Spans(R))
<1> DEFINE w == [r \in s.ranges |-> r.left]
           D == {t \in SUBSET R : Total(t, w) # Cardinality(s.pending \cap Spans(t))}
<1>1. IsFiniteSet(R) /\ IsFiniteSet(s.pending)
  BY FS_Subset DEF SourceOK
<1>2. \A r \in s.ranges : w[r] = Cardinality(s.pending \cap Span(r)) /\ w[r] \in Nat /\ w[r] = r.left
  <2> SUFFICES ASSUME NEW r \in s.ranges
               PROVE  r.left = Cardinality(s.pending \cap Span(r)) /\ r.left \in Nat
    OBVIOUS
  <2>1. r.left = Cardinality(s.pending \cap Span(r))
    BY DEF SourceOK, RangesConsistent, RangesCount
  <2>2. IsFiniteSet(s.pending \cap Span(r))
    BY <1>1, FS_Subset
  <2> QED BY <2>1, <2>2, FS_CardinalityType
<1>3. Left(R) = Total(R, w)
  <2>1. \A r \in R : r.left \in Nat /\ w[r] = r.left
    BY <1>2
  <2>2. Left(R) = Total(R, [r \in R |-> r.left])
    BY <1>1, <2>1, LeftIsTotal
  <2> DEFINE u == [r \in R |-> r.left]
  <2>3. \A r \in R : u[r] \in Nat /\ w[r] = u[r]
    BY <2>1
  <2> HIDE DEF w, u
  <2>4. Total(R, w) = Total(R, u)
    BY <1>1, <2>3, TotalSame
  <2> QED BY <2>2, <2>4 DEF u
<1> SUFFICES ASSUME R \in D PROVE FALSE
  BY <1>3
<1> HIDE DEF w
<1>4. D \subseteq SUBSET R /\ D # {}
  OBVIOUS
<1>5. PICK t \in D : \A u \in D : u \subseteq t => u = t
  <2> HIDE DEF D
  <2> QED BY <1>1, <1>4, FinMin
<1>6. t \in SUBSET R /\ Total(t, w) # Cardinality(s.pending \cap Spans(t))
  BY <1>5
<1>7. CASE t = {}
  <2>1. Total(t, w) = 0
    BY <1>7, FS_EmptySet, TotalStep
  <2>2. s.pending \cap Spans(t) = {}
    BY <1>7 DEF Spans
  <2> QED BY <1>6, <2>1, <2>2, FS_EmptySet
<1>8. CASE t # {}
  <2>1. PICK x \in t : TRUE
    BY <1>8
  <2> DEFINE u == t \ {x}
             A == s.pending \cap Spans(u)
             B == s.pending \cap Span(x)
  <2>2. t = u \cup {x} /\ x \notin u /\ u \in SUBSET R /\ u # t
    BY <1>6, <2>1
  <2>3. u \notin D
    BY <1>5, <2>2
  <2>4. Total(u, w) = Cardinality(A)
    BY <2>2, <2>3
  <2>5. IsFiniteSet(u) /\ \A z \in u \cup {x} : w[z] \in Nat
    BY <1>1, <1>2, <1>6, <2>2, FS_Subset
  <2>6. A \cap B = {}
    <3> SUFFICES ASSUME NEW r \in u PROVE Span(r) \cap Span(x) = {}
      BY DEF Spans
    <3> QED BY <1>6, <2>1, <2>2, SpanDisjoint
  <2>7. s.pending \cap Spans(t) = A \cup B
    BY <2>2 DEF Spans
  <2> HIDE DEF u
  <2>8. Total(t, w) = Total(u, w) + w[x]
    BY <2>2, <2>5, TotalAdd
  <2>9. IsFiniteSet(A) /\ IsFiniteSet(B)
    BY <1>1, FS_Subset
  <2>10. w[x] = Cardinality(B)
    BY <1>2, <1>6, <2>1
  <2> HIDE DEF A, B
  <2>11. Cardinality(A \cup B) = Cardinality(A) + Cardinality(B)
    <3>1. Cardinality(A \cup B) = Cardinality(A) + Cardinality(B) - Cardinality(A \cap B)
      BY <2>9, FS_Union
    <3>2. Cardinality(A \cap B) = 0 /\ Cardinality(A) \in Nat /\ Cardinality(B) \in Nat
      BY <2>6, <2>9, FS_EmptySet, FS_CardinalityType
    <3> QED BY <3>1, <3>2
  <2> QED BY <1>6, <2>4, <2>7, <2>8, <2>10, <2>11
<1> QED BY <1>7, <1>8
-----------------------------------------------------------------------------
(***************************************************************************)
(* What an account of the numbers seen, kept without any bound, would say: *)
(* the first number of the run they are in, the greatest and all of them,  *)
(* the jumps, and the losses and gaps of the runs before.                  *)
(***************************************************************************)
Missed(a) == (a.lo .. a.max) \ a.seen
Hit(a)    == {S \in a.jumps : S \cap Missed(a) # {}}
Spanned(R) == {Span(r) : r \in R}
AccountOK(a) ==
    /\ a.seen \subseteq Nat /\ IsFiniteSet(a.seen) /\ a.lo \in a.seen /\ a.max \in a.seen
    /\ \A x \in a.seen : x <= a.max
    /\ IsFiniteSet(a.jumps) /\ \A S \in a.jumps : S \subseteq 0 .. a.max
    /\ \A S, T \in a.jumps : S = T \/ S \cap T = {}
    /\ a.missed \in Nat /\ a.gaps \in Nat

Restarted(a, v, c) ==
    /\ v + PendingWindow < a.max
    /\ c.lo = v /\ c.seen = {v} /\ c.max = v /\ c.jumps = {}
    /\ c.missed = a.missed + Cardinality(Missed(a)) /\ c.gaps = a.gaps + Cardinality(Hit(a))
Continued(a, v, c) ==
    /\ ~(v + PendingWindow < a.max)
    /\ c.lo = a.lo /\ c.seen = a.seen \cup {v} /\ c.max = (IF v > a.max THEN v ELSE a.max)
    /\ c.jumps = (IF v > a.max + 1 THEN a.jumps \cup {a.max + 1 .. v - 1} ELSE a.jumps)
    /\ c.missed = a.missed /\ c.gaps = a.gaps

\* A source reports no fewer than the account; exactly those; and, while few are
\* out at once, the same gaps.
Counted(s) == s.missing + Cardinality(s.pending)
Losses(a)  == a.missed + Cardinality(Missed(a))
Follows(s, a) ==
    /\ SourceOK(s) /\ IsFiniteSet(s.ranges) /\ s.known /\ s.max = a.max
    /\ s.missing \in Nat /\ s.gaps \in Nat
    /\ s.pending \subseteq Missed(a)
    /\ Counted(s) >= Losses(a)
Agrees(s, a) == Counted(s) = Losses(a)
Waits(s, a) ==
    /\ \A x \in Missed(a) \ s.pending : x + PendingWindow < a.max
    /\ \A r \in s.ranges : Span(r) \in a.jumps /\ s.pending \cap Span(r) = Missed(a) \cap Span(r)
    /\ s.gaps = a.gaps + Cardinality(Hit(a) \ Spanned(s.ranges))

LEMMA AMissed ==
    ASSUME NEW a, AccountOK(a)
    PROVE  /\ Missed(a) \subseteq Nat /\ IsFiniteSet(Missed(a)) /\ Cardinality(Missed(a)) \in Nat
           /\ IsFiniteSet(Hit(a)) /\ Cardinality(Hit(a)) \in Nat
           /\ a.max \in Nat /\ a.lo \in Nat
<1>1. a.max \in Nat /\ a.lo \in Nat
  BY DEF AccountOK
<1>2. IsFiniteSet(a.lo .. a.max) /\ Missed(a) \in SUBSET (a.lo .. a.max)
  BY <1>1, FS_Interval DEF Missed
<1>3. Hit(a) \in SUBSET a.jumps
  BY DEF Hit
<1>4. IsFiniteSet(Missed(a)) /\ IsFiniteSet(Hit(a))
  BY <1>2, <1>3, FS_Subset DEF AccountOK
<1>5. Missed(a) \subseteq Nat
  BY <1>1 DEF Missed
<1> QED BY <1>1, <1>4, <1>5, FS_CardinalityType

\* The account of the next number is one too.
LEMMA AStep ==
    ASSUME NEW a, AccountOK(a), NEW v \in Nat, NEW c, Restarted(a, v, c) \/ Continued(a, v, c)
    PROVE  AccountOK(c)
<1>0. a.max \in Nat /\ a.lo \in Nat /\ Cardinality(Missed(a)) \in Nat /\ Cardinality(Hit(a)) \in Nat
  BY AMissed
<1>1. CASE Restarted(a, v, c)
  <2>1. c.seen \subseteq Nat /\ IsFiniteSet(c.seen) /\ c.lo \in c.seen /\ c.max \in c.seen
    BY <1>1, FS_Singleton DEF Restarted
  <2>2. \A x \in c.seen : x <= c.max
    BY <1>1 DEF Restarted
  <2>3. IsFiniteSet(c.jumps) /\ c.jumps = {}
    BY <1>1, FS_EmptySet DEF Restarted
  <2>4. c.missed \in Nat /\ c.gaps \in Nat
    BY <1>0, <1>1 DEF Restarted, AccountOK
  <2> QED BY <2>1, <2>2, <2>3, <2>4 DEF AccountOK
<1>2. CASE Continued(a, v, c)
  <2>1. c.seen \subseteq Nat /\ IsFiniteSet(c.seen) /\ c.lo \in c.seen /\ c.max \in c.seen
    <3>1. a.seen \subseteq Nat /\ IsFiniteSet(a.seen) /\ a.lo \in a.seen /\ a.max \in a.seen
      BY DEF AccountOK
    <3>2. c.seen = a.seen \cup {v} /\ c.lo = a.lo /\ c.max \in {a.max, v}
      BY <1>2 DEF Continued
    <3> QED BY <3>1, <3>2, FS_AddElement
  <2>2. \A x \in c.seen : x <= c.max
    <3>1. \A x \in a.seen : x \in Nat /\ x <= a.max
      BY DEF AccountOK
    <3>2. c.seen = a.seen \cup {v} /\ c.max = (IF v > a.max THEN v ELSE a.max)
      BY <1>2 DEF Continued
    <3> QED BY <1>0, <3>1, <3>2
  <2>3. c.missed \in Nat /\ c.gaps \in Nat
    BY <1>2 DEF Continued, AccountOK
  <2>4. a.max <= c.max /\ c.max \in Nat
    BY <1>0, <1>2 DEF Continued
  <2>5. \A S \in a.jumps : S \subseteq 0 .. a.max
    BY DEF AccountOK
  <2>6. \A S, T \in a.jumps : S = T \/ S \cap T = {}
    BY DEF AccountOK
  <2>7. \A S \in a.jumps : S \subseteq 0 .. c.max
    <3>1. \A x \in 0 .. a.max : x \in 0 .. c.max
      BY <1>0, <2>4
    <3> QED BY <2>5, <3>1
  <2>8. CASE v > a.max + 1
    <3> DEFINE N == a.max + 1 .. v - 1
    <3>1. c.jumps = a.jumps \cup {N} /\ c.max = v
      BY <1>0, <1>2, <2>8 DEF Continued
    <3>2. IsFiniteSet(c.jumps)
      <4>1. IsFiniteSet(a.jumps)
        BY DEF AccountOK
      <4> HIDE DEF N
      <4>2. IsFiniteSet(a.jumps \cup {N})
        BY <4>1, FS_AddElement
      <4> QED BY <3>1, <4>2
    <3>3. \A x \in N : x \in 0 .. c.max
      BY <1>0, <3>1
    <3>4. \A x \in 0 .. a.max : x \notin N
      BY <1>0
    <3> HIDE DEF N
    <3>5. \A S \in c.jumps : S \subseteq 0 .. c.max
      BY <2>7, <3>1, <3>3
    <3>6. \A S, T \in c.jumps : S = T \/ S \cap T = {}
      BY <2>5, <2>6, <3>1, <3>4
    <3> QED BY <2>1, <2>2, <2>3, <3>2, <3>5, <3>6 DEF AccountOK
  <2>9. CASE ~(v > a.max + 1)
    <3>1. c.jumps = a.jumps
      BY <1>2, <2>9 DEF Continued
    <3> QED BY <2>1, <2>2, <2>3, <2>6, <2>7, <3>1 DEF AccountOK
  <2> QED BY <2>8, <2>9
<1> QED BY <1>1, <1>2
-----------------------------------------------------------------------------
\* Settling some ranges counts what they still miss, and waits for it no longer.
LEMMA ASettle ==
    ASSUME NEW s, SourceOK(s), IsFiniteSet(s.ranges), s.missing \in Nat, s.gaps \in Nat,
           NEW old \in SUBSET s.ranges, NEW t, t = Settle(s, old)
    PROVE  /\ SourceOK(t) /\ t.max = s.max /\ t.known = s.known
           /\ t.ranges = s.ranges \ old /\ IsFiniteSet(t.ranges)
           /\ t.pending = s.pending \ Spans(old)
           /\ t.missing \in Nat /\ t.gaps \in Nat
           /\ Counted(t) = Counted(s) /\ t.gaps = s.gaps + Cardinality(Open(old))
<1>1. SourceOK(t) /\ t.max = s.max /\ t.known = s.known /\ t.ranges = s.ranges \ old
  BY LSettle
<1>2. IsFiniteSet(old) /\ s.ranges \ old \in SUBSET s.ranges /\ Open(old) \in SUBSET s.ranges
  BY FS_Subset DEF Open
<1>3. IsFiniteSet(t.ranges) /\ IsFiniteSet(Open(old)) /\ Cardinality(Open(old)) \in Nat
  BY <1>1, <1>2, FS_Subset, FS_CardinalityType
<1>4. /\ t.pending = s.pending \ Spans(old)
      /\ t.gaps = s.gaps + Cardinality(Open(old)) /\ t.missing = s.missing + Left(old)
  <2>1. {q \in old : q.to - q.from < MaxPending} = old
    BY DEF SourceOK, SmallRange
  <2> QED BY <2>1, LFields DEF Settle, Spans
<1>5. Left(old) = Cardinality(s.pending \cap Spans(old))
  BY LeftCounts
<1> DEFINE G == s.pending \cap Spans(old)
<1>6. IsFiniteSet(s.pending)
  BY DEF SourceOK
<1>7. /\ IsFiniteSet(G) /\ Cardinality(G) \in Nat /\ Cardinality(s.pending) \in Nat
      /\ Cardinality(t.pending) = Cardinality(s.pending) - Cardinality(G)
  BY <1>4, <1>6, FS_Difference, FS_Intersection, FS_CardinalityType
<1>8. IsFiniteSet(t.pending) /\ Cardinality(t.pending) \in Nat
  BY <1>1, FS_CardinalityType DEF SourceOK
<1> HIDE DEF G
<1>9. Left(old) = Cardinality(G)
  BY <1>5 DEF G
<1>10. t.missing \in Nat /\ Counted(t) = Counted(s)
  BY <1>4, <1>7, <1>8, <1>9 DEF Counted
<1>11. t.gaps \in Nat
  BY <1>3, <1>4
<1> QED BY <1>1, <1>3, <1>4, <1>10, <1>11

\* The open ranges are jumps that still miss a number.
LEMMA AOpen ==
    ASSUME NEW s, SourceOK(s), IsFiniteSet(s.ranges), NEW old \in SUBSET s.ranges, NEW a,
           \A r \in s.ranges : /\ Span(r) \in a.jumps
                               /\ s.pending \cap Span(r) = Missed(a) \cap Span(r)
    PROVE  Cardinality(Open(old)) = Cardinality(Hit(a) \cap Spanned(old))
<1> DEFINE O == Open(old)
           T == Hit(a) \cap Spanned(old)
           h == [r \in O |-> Span(r)]
<1>1. \A r \in old : r.left > 0 <=> Missed(a) \cap Span(r) # {}
  <2> SUFFICES ASSUME NEW r \in old PROVE r.left > 0 <=> Missed(a) \cap Span(r) # {}
    OBVIOUS
  <2>1. r \in s.ranges
    OBVIOUS
  <2>2. r.left = Cardinality(Missed(a) \cap Span(r))
    BY <2>1 DEF SourceOK, RangesConsistent, RangesCount
  <2>3. IsFiniteSet(Missed(a) \cap Span(r))
    BY <2>1, FS_Intersection DEF SourceOK
  <2> HIDE DEF O, T, h
  <2>4. Cardinality(Missed(a) \cap Span(r)) \in Nat
    BY <2>3, FS_CardinalityType
  <2>5. Cardinality(Missed(a) \cap Span(r)) = 0 <=> Missed(a) \cap Span(r) = {}
    BY <2>3, FS_EmptySet
  <2> QED BY <2>2, <2>4, <2>5
<1>2. \A r \in O : r \in s.ranges /\ r \in old /\ Missed(a) \cap Span(r) # {}
  BY <1>1 DEF Open
<1>3. \A S \in T : \E r \in O : Span(r) = S
  <2> SUFFICES ASSUME NEW S \in T PROVE \E r \in O : Span(r) = S
    OBVIOUS
  <2>1. PICK r \in old : S = Span(r)
    BY DEF Spanned
  <2>2. Missed(a) \cap Span(r) # {}
    BY <2>1 DEF Hit
  <2> QED BY <1>1, <2>1, <2>2 DEF Open
<1>4. \A r \in O : Span(r) \in T
  BY <1>2 DEF Spanned, Hit
<1>5. \A r, q \in O : Span(r) = Span(q) => r = q
  <2> SUFFICES ASSUME NEW r \in O, NEW q \in O, Span(r) = Span(q), r # q PROVE FALSE
    OBVIOUS
  <2>1. r \in s.ranges /\ q \in s.ranges /\ Missed(a) \cap Span(r) # {}
    BY <1>2
  <2>2. Span(r) \cap Span(q) = {}
    BY <2>1, SpanDisjoint
  <2> QED BY <2>1, <2>2
<1>6. O \in SUBSET s.ranges
  BY <1>2
<1> HIDE DEF O, T
<1>7. IsFiniteSet(O)
  BY <1>6, FS_Subset
<1>8. h \in Bijection(O, T)
  <2>1. h \in [O -> T] /\ \A r \in O : h[r] = Span(r)
    BY <1>4
  <2> HIDE DEF h
  <2>2. h \in Injection(O, T)
    BY <1>5, <2>1 DEF Injection, IsInjective
  <2>3. h \in Surjection(O, T)
    BY <1>3, <2>1 DEF Surjection
  <2> QED BY <2>2, <2>3 DEF Bijection
<1>9. Cardinality(T) = Cardinality(O)
  BY <1>7, <1>8, FS_Bijection DEF ExistsBijection
<1> QED BY <1>9 DEF O, T

\* Two parts of the jumps hit, one settled before and one now.
LEMMA AHits ==
    ASSUME NEW H, IsFiniteSet(H), NEW A, NEW B, A \subseteq B
    PROVE  Cardinality(H \ A) = Cardinality(H \ B) + Cardinality(H \cap (B \ A))
<1>1. IsFiniteSet(H \ B) /\ IsFiniteSet(H \cap (B \ A))
  BY FS_Difference, FS_Intersection
<1>2. H \ A = (H \ B) \cup (H \cap (B \ A)) /\ (H \ B) \cap (H \cap (B \ A)) = {}
  OBVIOUS
<1>3. Cardinality(H \ A) = Cardinality(H \ B) + Cardinality(H \cap (B \ A)) - Cardinality({})
  BY <1>1, <1>2, FS_Union
<1>4. Cardinality(H \ B) \in Nat /\ Cardinality(H \cap (B \ A)) \in Nat
  BY <1>1, FS_CardinalityType
<1> QED BY <1>3, <1>4, FS_EmptySet

LEMMA AFinalize ==
    ASSUME NEW s, NEW a, AccountOK(a), Follows(s, a), NEW t, t = Finalize(s)
    PROVE  /\ Follows(t, a)
           /\ Agrees(s, a) => Agrees(t, a)
           /\ Waits(s, a) => Waits(t, a)
<1> DEFINE old == Expired(s)
<1>1. old \in SUBSET s.ranges /\ t = Settle(s, old)
  BY DEF Expired, Finalize
<1>2. SourceOK(s) /\ IsFiniteSet(s.ranges) /\ s.missing \in Nat /\ s.gaps \in Nat
  BY DEF Follows
<1>3. /\ SourceOK(t) /\ t.max = s.max /\ t.known = s.known
      /\ t.ranges = s.ranges \ old /\ IsFiniteSet(t.ranges)
      /\ t.pending = s.pending \ Spans(old)
      /\ t.missing \in Nat /\ t.gaps \in Nat
      /\ Counted(t) = Counted(s) /\ t.gaps = s.gaps + Cardinality(Open(old))
  <2> HIDE DEF old
  <2> QED BY <1>1, <1>2, ASettle
<1>4. Follows(t, a)
  BY <1>3 DEF Follows
<1>5. Agrees(s, a) => Agrees(t, a)
  BY <1>3 DEF Agrees
<1>6. ASSUME Waits(s, a) PROVE Waits(t, a)
  <2>1. ASSUME NEW x \in Missed(a) \ t.pending PROVE x + PendingWindow < a.max
    <3>1. CASE x \notin s.pending
      BY <1>6, <3>1 DEF Waits
    <3>2. CASE x \in s.pending
      <4>1. PICK r \in old : x \in Span(r)
        BY <1>3, <3>2 DEF Spans
      <4>2. r \in s.ranges /\ s.max - r.to > PendingWindow
        BY <4>1 DEF Expired
      <4>3. r.from \in Nat /\ r.to \in Nat /\ s.max \in Nat /\ s.max = a.max
        BY <1>2, <4>2 DEF SourceOK, SmallRange, Follows
      <4>4. x \in Nat /\ x <= r.to
        BY <4>1, <4>3 DEF Span
      <4> HIDE DEF old
      <4> QED BY <4>2, <4>3, <4>4, GapsAssumption
    <3> QED BY <3>1, <3>2
  <2>2. ASSUME NEW r \in t.ranges
        PROVE  Span(r) \in a.jumps /\ t.pending \cap Span(r) = Missed(a) \cap Span(r)
    <3>1. r \in s.ranges /\ r \notin old
      BY <1>3
    <3>2. Span(r) \in a.jumps /\ s.pending \cap Span(r) = Missed(a) \cap Span(r)
      BY <1>6, <3>1 DEF Waits
    <3>3. \A q \in old : Span(q) \cap Span(r) = {}
      BY <1>1, <1>2, <3>1, SpanDisjoint
    <3>4. t.pending \cap Span(r) = s.pending \cap Span(r)
      BY <1>3, <3>3 DEF Spans
    <3> QED BY <3>2, <3>4
  <2>3. t.gaps = a.gaps + Cardinality(Hit(a) \ Spanned(t.ranges))
    <3>1. \A r \in s.ranges : /\ Span(r) \in a.jumps
                              /\ s.pending \cap Span(r) = Missed(a) \cap Span(r)
      BY <1>6 DEF Waits
    <3>2. Cardinality(Open(old)) = Cardinality(Hit(a) \cap Spanned(old))
      <4> HIDE DEF old
      <4> QED BY <1>1, <1>2, <3>1, AOpen
    <3>3. \A r \in t.ranges, q \in old : Span(r) # Span(q) \/ Span(r) = {}
      BY <1>1, <1>2, <1>3, SpanDisjoint
    <3> DEFINE A == Spanned(t.ranges)
               B == Spanned(s.ranges)
    <3> HIDE DEF old
    <3>4. A \subseteq B
      BY <1>3 DEF Spanned
    <3>5. Hit(a) \cap (B \ A) = Hit(a) \cap Spanned(old)
      <4>1. \A S \in Hit(a) : S # {}
        BY DEF Hit
      <4>2. \A S \in Hit(a) : S \in B \ A => S \in Spanned(old)
        BY <1>3 DEF Spanned
      <4>3. \A S \in Hit(a) : S \in Spanned(old) => S \in B \ A
        BY <1>1, <3>3, <4>1 DEF Spanned
      <4> QED BY <4>2, <4>3
    <3> HIDE DEF A, B
    <3>6. IsFiniteSet(Hit(a))
      BY AMissed
    <3>7. Cardinality(Hit(a) \ A) = Cardinality(Hit(a) \ B) + Cardinality(Hit(a) \cap (B \ A))
      BY <3>4, <3>6, AHits
    <3>8. s.gaps = a.gaps + Cardinality(Hit(a) \ B)
      BY <1>6 DEF Waits, B
    <3>9. t.gaps = s.gaps + Cardinality(Hit(a) \cap (B \ A))
      BY <1>3, <3>2, <3>5
    <3>10. /\ IsFiniteSet(Hit(a) \ B) /\ IsFiniteSet(Hit(a) \cap (B \ A))
           /\ Cardinality(Hit(a) \ B) \in Nat /\ Cardinality(Hit(a) \cap (B \ A)) \in Nat
      BY <3>6, FS_Difference, FS_Intersection, FS_CardinalityType
    <3>11. a.gaps \in Nat
      BY DEF AccountOK
    <3> QED BY <3>7, <3>8, <3>9, <3>10, <3>11 DEF A
  <2> QED BY <2>1, <2>2, <2>3 DEF Waits
<1> QED BY <1>4, <1>5, <1>6
-----------------------------------------------------------------------------
\* What a number may do to a source and its account.
Kept(s, a, v, t, c) ==
    /\ Follows(t, c)
    /\ Agrees(s, a) /\ v > a.max => Agrees(t, c)
    /\ Agrees(s, a) /\ Waits(s, a) /\ Cardinality(Missed(c)) <= MaxPending =>
           Agrees(t, c) /\ Waits(t, c)

\* The same number again, or the next.
LEMMA ANext ==
    ASSUME NEW s, NEW a, AccountOK(a), Follows(s, a), NEW v \in Nat, v = a.max \/ v = a.max + 1,
           NEW c, Continued(a, v, c), NEW t, t = Place(s, v)
    PROVE  Kept(s, a, v, t, c)
<1>0. a.max \in Nat /\ a.lo \in Nat /\ a.max = s.max /\ a.max \in a.seen
  BY AMissed DEF Follows, AccountOK
<1>1. /\ Shape(t) /\ t.known /\ t.max = v /\ t.pending = s.pending /\ t.ranges = s.ranges
      /\ t.gaps = s.gaps /\ t.missing = s.missing
  <2> DEFINE g == [s EXCEPT !.max = v]
  <2>1. Shape(s) /\ s.known
    BY DEF Follows, SourceOK
  <2>2. CASE v = a.max
    BY <1>0, <2>1, <2>2 DEF Place
  <2>3. CASE v = a.max + 1
    <3>1. t = g
      BY <1>0, <2>3 DEF Place
    <3>2. g = Source(s.known, v, s.pending, s.ranges, s.gaps, s.missing, s.resets)
      BY <2>1, LMax
    <3>3. t = Source(s.known, v, s.pending, s.ranges, s.gaps, s.missing, s.resets)
      BY <3>1, <3>2
    <3>4. /\ Shape(t) /\ t.known = s.known /\ t.max = v /\ t.pending = s.pending
          /\ t.ranges = s.ranges /\ t.gaps = s.gaps /\ t.missing = s.missing
      BY <3>3, LFields
    <3> QED BY <2>1, <3>4
  <2> QED BY <2>2, <2>3
<1>2. SourceOK(t)
  <2>1. s.max <= v
    BY <1>0
  <2> QED BY <1>1, <2>1, LGrow DEF Follows
<1>3. Missed(c) = Missed(a)
  <2>1. c.lo = a.lo /\ c.seen = a.seen \cup {v} /\ c.max = v
    BY <1>0 DEF Continued
  <2>2. \A x \in c.lo .. c.max : x = v \/ x \in a.lo .. a.max
    BY <1>0, <2>1
  <2>3. \A x \in a.lo .. a.max : x \in c.lo .. c.max /\ (x = v => x = a.max)
    BY <1>0, <2>1
  <2> QED BY <1>0, <2>1, <2>2, <2>3 DEF Missed
<1>4. c.jumps = a.jumps /\ c.missed = a.missed /\ c.gaps = a.gaps /\ c.max = v
  BY <1>0 DEF Continued
<1>5. Hit(c) = Hit(a) /\ Losses(c) = Losses(a) /\ Counted(t) = Counted(s)
  BY <1>1, <1>3, <1>4 DEF Hit, Losses, Counted
<1>6. Follows(t, c)
  BY <1>1, <1>2, <1>3, <1>4, <1>5 DEF Follows
<1>7. Agrees(s, a) => Agrees(t, c)
  BY <1>5 DEF Agrees
<1>8. ASSUME Waits(s, a) PROVE Waits(t, c)
  <2>1. ASSUME NEW x \in Missed(c) \ t.pending PROVE x + PendingWindow < c.max
    <3>1. x \in Missed(a) \ s.pending /\ x \in Nat
      BY <1>1, <1>3, AMissed
    <3>2. x + PendingWindow < a.max
      BY <1>8, <3>1 DEF Waits
    <3> QED BY <1>0, <1>4, <3>1, <3>2, GapsAssumption
  <2> QED BY <1>1, <1>3, <1>4, <1>5, <1>8, <2>1 DEF Waits
<1> QED BY <1>6, <1>7, <1>8 DEF Kept

\* A jump misses the numbers between; they are waited for while few are out.
LEMMA AJump ==
    ASSUME NEW s, NEW a, AccountOK(a), Follows(s, a), NEW v \in Nat, v > a.max + 1,
           NEW c, Continued(a, v, c), NEW t, t = Jump(s, v)
    PROVE  Kept(s, a, v, t, c)
<1> DEFINE n == v - s.max - 1
           new == s.max + 1 .. v - 1
           R == GapRange(s.max + 1, v - 1, n)
<1>0. /\ a.max \in Nat /\ a.lo \in Nat /\ a.max = s.max /\ a.max \in a.seen /\ a.lo <= a.max
      /\ n \in Nat /\ n > 0
  <2>1. a.max \in Nat /\ a.lo \in Nat /\ a.max = s.max /\ a.max \in a.seen /\ a.lo <= a.max
    BY AMissed DEF Follows, AccountOK
  <2> QED BY <2>1
<1>1. SourceOK(t) /\ t.known
  BY <1>0, LJump DEF Follows
<1>2. IsFiniteSet(new) /\ Cardinality(new) = n
  <2>1. s.max + 1 \in Int /\ v - 1 \in Int /\ ~(s.max + 1 > v - 1)
        /\ (v - 1) - (s.max + 1) + 1 = n
    BY <1>0
  <2> QED BY <2>1, FS_Interval
<1>3. /\ t.max = v
      /\ \/ /\ Waitable(s, n)
            /\ t.pending = s.pending \cup new /\ t.ranges = s.ranges \cup {R}
            /\ t.gaps = s.gaps /\ t.missing = s.missing
         \/ /\ ~Waitable(s, n)
            /\ t.pending = s.pending /\ t.ranges = s.ranges
            /\ t.gaps = s.gaps + 1 /\ t.missing = s.missing + n
  <2>1. CASE Waitable(s, n)
    <3>1. t = Source(s.known, v, s.pending \cup new, s.ranges \cup {R}, s.gaps, s.missing, s.resets)
      BY <2>1 DEF Jump
    <3> HIDE DEF n, new, R
    <3> QED BY <2>1, <3>1, LFields
  <2>2. CASE ~Waitable(s, n)
    <3>1. t = Source(s.known, v, s.pending, s.ranges, s.gaps + 1, s.missing + n, s.resets)
      BY <2>2 DEF Jump
    <3> HIDE DEF n, new, R
    <3> QED BY <2>2, <3>1, LFields
  <2> QED BY <2>1, <2>2
<1>4. /\ c.lo = a.lo /\ c.seen = a.seen \cup {v} /\ c.max = v /\ c.jumps = a.jumps \cup {new}
      /\ c.missed = a.missed /\ c.gaps = a.gaps
  BY <1>0 DEF Continued
<1>5. Missed(c) = Missed(a) \cup new /\ Missed(a) \cap new = {}
  <2>1. \A x \in c.lo .. c.max : x = v \/ x \in a.lo .. a.max \/ x \in new
    BY <1>0, <1>4
  <2>2. \A x \in a.lo .. a.max : x \in c.lo .. c.max /\ x # v /\ x \notin new
    BY <1>0, <1>4
  <2>3. \A x \in new : x \in c.lo .. c.max /\ x # v /\ ~(x <= a.max)
    BY <1>0, <1>4
  <2>4. \A x \in a.seen : x <= a.max
    BY DEF AccountOK
  <2> HIDE DEF new
  <2> QED BY <1>4, <2>1, <2>2, <2>3, <2>4 DEF Missed
<1>6. Span(R) = new
  BY LRange DEF Span
<1> HIDE DEF R
<1>7. /\ IsFiniteSet(Missed(a)) /\ Cardinality(Missed(a)) \in Nat
      /\ IsFiniteSet(s.pending) /\ Cardinality(s.pending) \in Nat
      /\ Cardinality(s.pending) <= Cardinality(Missed(a))
      /\ s.pending \cap new = {} /\ s.missing \in Nat /\ s.gaps \in Nat /\ a.missed \in Nat
  <2>1. IsFiniteSet(Missed(a)) /\ s.pending \in SUBSET Missed(a)
    BY AMissed DEF Follows
  <2>2. s.pending \cap new = {} /\ s.missing \in Nat /\ s.gaps \in Nat /\ a.missed \in Nat
    BY <1>5, <2>1 DEF Follows, AccountOK
  <2>3. IsFiniteSet(s.pending) /\ Cardinality(s.pending) <= Cardinality(Missed(a))
    BY <2>1, FS_Subset
  <2>4. Cardinality(s.pending) \in Nat /\ Cardinality(Missed(a)) \in Nat
    BY <2>1, <2>3, FS_CardinalityType
  <2> QED BY <2>1, <2>2, <2>3, <2>4
<1> HIDE DEF new, n
<1>8. /\ Cardinality(Missed(c)) = Cardinality(Missed(a)) + n
      /\ Cardinality(s.pending \cup new) = Cardinality(s.pending) + n
  <2>1. /\ Cardinality(Missed(c)) = Cardinality(Missed(a)) + Cardinality(new) - Cardinality({})
        /\ Cardinality(s.pending \cup new) = Cardinality(s.pending) + Cardinality(new) - Cardinality({})
    BY <1>2, <1>5, <1>7, FS_Union
  <2> QED BY <1>0, <1>2, <1>7, <2>1, FS_EmptySet
<1>9. Losses(c) = Losses(a) + n /\ Counted(t) = Counted(s) + n
  <2>1. Losses(c) = Losses(a) + n
    BY <1>0, <1>4, <1>7, <1>8 DEF Losses
  <2>2. CASE Waitable(s, n)
    <3>1. t.pending = s.pending \cup new /\ t.missing = s.missing
      BY <1>3, <2>2
    <3> QED BY <1>0, <1>7, <1>8, <2>1, <3>1 DEF Counted
  <2>3. CASE ~Waitable(s, n)
    <3>1. t.pending = s.pending /\ t.missing = s.missing + n
      BY <1>3, <2>3
    <3> QED BY <1>0, <1>7, <2>1, <3>1 DEF Counted
  <2> QED BY <2>2, <2>3
<1>10. Losses(a) \in Nat /\ Counted(s) \in Nat
  BY <1>7 DEF Losses, Counted
<1>11. Follows(t, c)
  <2>1. IsFiniteSet(t.ranges)
    BY <1>3, FS_AddElement DEF Follows
  <2>2. t.missing \in Nat /\ t.gaps \in Nat /\ t.pending \subseteq Missed(c)
    BY <1>0, <1>3, <1>5, <1>7 DEF Follows
  <2>3. Counted(t) >= Losses(c)
    BY <1>0, <1>9, <1>10 DEF Follows
  <2> QED BY <1>1, <1>3, <1>4, <2>1, <2>2, <2>3 DEF Follows
<1>12. Agrees(s, a) => Agrees(t, c)
  BY <1>9 DEF Agrees
<1>13. ASSUME Waits(s, a), Cardinality(Missed(c)) <= MaxPending PROVE Waits(t, c)
  <2>1. Waitable(s, n)
    BY <1>0, <1>7, <1>8, <1>13, GapsAssumption DEF Waitable
  <2>2. /\ t.pending = s.pending \cup new /\ t.ranges = s.ranges \cup {R}
        /\ t.gaps = s.gaps
    BY <1>3, <2>1
  <2>3. ASSUME NEW x \in Missed(c) \ t.pending PROVE x + PendingWindow < c.max
    <3>1. x \in Missed(a) \ s.pending /\ x \in Nat
      BY <1>5, <2>2, <2>3, AMissed
    <3>2. x + PendingWindow < a.max
      BY <1>13, <3>1 DEF Waits
    <3> QED BY <1>0, <1>4, <3>1, <3>2, GapsAssumption
  <2>4. \A S \in a.jumps : S \cap new = {}
    <3>1. \A x \in 0 .. a.max : x \notin new
      BY <1>0 DEF new
    <3> QED BY <3>1 DEF AccountOK
  <2>5. ASSUME NEW r \in t.ranges
        PROVE  Span(r) \in c.jumps /\ t.pending \cap Span(r) = Missed(c) \cap Span(r)
    <3>1. CASE r = R
      BY <1>4, <1>5, <1>6, <2>2, <3>1
    <3>2. CASE r \in s.ranges
      <4>1. Span(r) \in a.jumps /\ s.pending \cap Span(r) = Missed(a) \cap Span(r)
        BY <1>13, <3>2 DEF Waits
      <4>2. Span(r) \cap new = {}
        BY <2>4, <4>1
      <4> QED BY <1>4, <1>5, <2>2, <4>1, <4>2
    <3> QED BY <2>2, <3>1, <3>2
  <2>6. Spanned(t.ranges) = Spanned(s.ranges) \cup {new}
    BY <1>6, <2>2 DEF Spanned
  <2>7. Hit(c) \ Spanned(t.ranges) = Hit(a) \ Spanned(s.ranges)
    <3>1. ASSUME NEW S \in a.jumps
          PROVE  S \cap Missed(c) = S \cap Missed(a) /\ (S = new => S = {})
      BY <1>5, <2>4
    <3>2. \A S \in Hit(c) \ Spanned(t.ranges) : S \in Hit(a) \ Spanned(s.ranges)
      BY <1>4, <2>6, <3>1 DEF Hit
    <3>3. \A S \in Hit(a) \ Spanned(s.ranges) : S \in Hit(c) \ Spanned(t.ranges)
      <4> SUFFICES ASSUME NEW S \in Hit(a) \ Spanned(s.ranges)
                   PROVE  S \in Hit(c) \ Spanned(t.ranges)
        OBVIOUS
      <4>1. S \in a.jumps /\ S \cap Missed(a) # {}
        BY DEF Hit
      <4>2. S \cap Missed(c) # {} /\ S # new
        BY <3>1, <4>1
      <4> QED BY <1>4, <2>6, <4>1, <4>2 DEF Hit
    <3> QED BY <3>2, <3>3
  <2> QED BY <1>4, <1>13, <2>2, <2>3, <2>5, <2>7 DEF Waits
<1> QED BY <1>11, <1>12, <1>13 DEF Kept
-----------------------------------------------------------------------------
\* A late number was missing, unless it had come before or is not waited for.
LEMMA ALate ==
    ASSUME NEW s, NEW a, AccountOK(a), Follows(s, a), NEW v \in Nat, v < a.max,
           NEW c, Continued(a, v, c), NEW t, t = Late(s, v)
    PROVE  Kept(s, a, v, t, c)
<1>0. a.max \in Nat /\ a.lo \in Nat /\ a.max = s.max /\ ~(v > a.max)
  BY AMissed DEF Follows
<1>1. SourceOK(t) /\ t.known
  BY LLate DEF Follows
<1>2. /\ c.lo = a.lo /\ c.seen = a.seen \cup {v} /\ c.max = a.max /\ c.jumps = a.jumps
      /\ c.missed = a.missed /\ c.gaps = a.gaps
  BY <1>0 DEF Continued
<1>3. Missed(c) = Missed(a) \ {v}
  BY <1>2 DEF Missed
<1>4. /\ IsFiniteSet(Missed(a)) /\ Cardinality(Missed(a)) \in Nat
      /\ IsFiniteSet(s.pending) /\ Cardinality(s.pending) \in Nat
      /\ s.missing \in Nat /\ s.gaps \in Nat /\ a.missed \in Nat /\ a.gaps \in Nat
  BY AMissed, FS_CardinalityType DEF Follows, SourceOK, AccountOK
<1>5. CASE v \in s.pending
  <2>0. v \in Missed(a)
    BY <1>5 DEF Follows
  <2>1. /\ t.max = s.max /\ t.pending = s.pending \ {v}
        /\ t.ranges = {Fill(r, v) : r \in s.ranges}
        /\ t.gaps = s.gaps /\ t.missing = s.missing
    <3>1. t = Source(s.known, s.max, s.pending \ {v}, {Fill(r, v) : r \in s.ranges},
                     s.gaps, s.missing, s.resets)
      BY <1>5 DEF Late
    <3> QED BY <3>1, LFields
  <2>2. \A r \in s.ranges : Span(Fill(r, v)) = Span(r)
    BY LRange DEF Fill, Span
  <2>3. Spanned(t.ranges) = Spanned(s.ranges)
    BY <2>1, <2>2 DEF Spanned
  <2>4. /\ Cardinality(Missed(c)) = Cardinality(Missed(a)) - 1
        /\ Cardinality(t.pending) = Cardinality(s.pending) - 1
    BY <1>3, <1>4, <1>5, <2>0, <2>1, FS_RemoveElement
  <2>5. Losses(c) = Losses(a) - 1 /\ Counted(t) = Counted(s) - 1
    BY <1>2, <1>4, <2>1, <2>4 DEF Losses, Counted
  <2>6. Losses(a) \in Nat /\ Counted(s) \in Nat
    BY <1>4 DEF Losses, Counted
  <2>7. Follows(t, c)
    <3>1. IsFiniteSet(t.ranges)
      <4> DEFINE h == [r \in s.ranges |-> Fill(r, v)]
      <4>1. h \in Surjection(s.ranges, t.ranges)
        BY <2>1 DEF Surjection
      <4> QED BY <4>1, FS_Surjection DEF Follows
    <3>2. t.pending \subseteq Missed(c)
      BY <1>3, <2>1 DEF Follows
    <3>3. Counted(t) >= Losses(c)
      BY <2>5, <2>6 DEF Follows
    <3> QED BY <1>1, <1>2, <1>4, <2>1, <3>1, <3>2, <3>3 DEF Follows
  <2>8. Agrees(s, a) => Agrees(t, c)
    BY <2>5 DEF Agrees
  <2>9. ASSUME Waits(s, a) PROVE Waits(t, c)
    <3>1. \A x \in Missed(c) \ t.pending : x + PendingWindow < c.max
      BY <1>2, <1>3, <2>1, <2>9 DEF Waits
    <3>2. ASSUME NEW q \in t.ranges
          PROVE  Span(q) \in c.jumps /\ t.pending \cap Span(q) = Missed(c) \cap Span(q)
      <4>1. PICK r \in s.ranges : q = Fill(r, v)
        BY <2>1
      <4>2. Span(q) = Span(r)
        BY <2>2, <4>1
      <4>3. Span(r) \in a.jumps /\ s.pending \cap Span(r) = Missed(a) \cap Span(r)
        BY <2>9 DEF Waits
      <4> QED BY <1>2, <1>3, <2>1, <4>2, <4>3
    <3>3. PICK r \in s.ranges : v \in Span(r)
      BY <1>5 DEF Follows, SourceOK, RangesConsistent, PendingInRanges
    <3>4. Span(r) \in a.jumps
      BY <2>9 DEF Waits
    <3>5. ASSUME NEW S \in a.jumps, S \notin Spanned(s.ranges)
          PROVE  S \cap Missed(c) = S \cap Missed(a)
      <4>1. S # Span(r)
        BY <3>5 DEF Spanned
      <4>2. v \notin S
        BY <3>3, <3>4, <4>1 DEF AccountOK
      <4> QED BY <1>3, <4>2
    <3>6. Hit(c) \ Spanned(t.ranges) = Hit(a) \ Spanned(s.ranges)
      BY <1>2, <2>3, <3>5 DEF Hit
    <3> QED BY <1>2, <2>1, <2>9, <3>1, <3>2, <3>6 DEF Waits
  <2> QED BY <1>0, <2>7, <2>8, <2>9 DEF Kept
<1>6. CASE v \notin s.pending
  <2>1. t = s
    BY <1>6 DEF Late
  <2>2. IsFiniteSet(Missed(c)) /\ Cardinality(Missed(c)) \in Nat
        /\ Cardinality(Missed(c)) <= Cardinality(Missed(a))
    <3>1. Missed(c) \in SUBSET Missed(a)
      BY <1>3
    <3>2. IsFiniteSet(Missed(c)) /\ Cardinality(Missed(c)) <= Cardinality(Missed(a))
      BY <1>4, <3>1, FS_Subset
    <3> QED BY <3>2, FS_CardinalityType
  <2>3. Losses(c) <= Losses(a) /\ Losses(c) \in Nat /\ Losses(a) \in Nat /\ Counted(s) \in Nat
    BY <1>2, <1>4, <2>2 DEF Losses, Counted
  <2>4. Follows(t, c)
    <3>1. Counted(t) >= Losses(c)
      BY <2>1, <2>3 DEF Follows
    <3>2. t.pending \subseteq Missed(c)
      BY <1>3, <1>6, <2>1 DEF Follows
    <3> QED BY <1>2, <2>1, <3>1, <3>2 DEF Follows
  <2>5. ASSUME Agrees(s, a), Waits(s, a), ~(v + PendingWindow < a.max)
        PROVE  Agrees(t, c) /\ Waits(t, c)
    <3>1. v \notin Missed(a)
      BY <1>6, <2>5 DEF Waits
    <3>2. Missed(c) = Missed(a)
      BY <1>3, <3>1
    <3>3. Losses(c) = Losses(a) /\ Hit(c) = Hit(a)
      BY <1>2, <3>2 DEF Losses, Hit
    <3> QED BY <1>2, <2>1, <2>5, <3>2, <3>3 DEF Agrees, Waits
  <2>6. ~(v + PendingWindow < a.max)
    BY DEF Continued
  <2> QED BY <1>0, <2>4, <2>5, <2>6 DEF Kept
<1> QED BY <1>5, <1>6

\* A restart settles all there is, and another run begins.
LEMMA ARestart ==
    ASSUME NEW s, NEW a, AccountOK(a), Follows(s, a), NEW v \in Nat,
           NEW c, Restarted(a, v, c), NEW t, t = Restart(s, v)
    PROVE  Kept(s, a, v, t, c)
<1> DEFINE u == Settle(s, s.ranges)
<1>0. a.max \in Nat /\ a.lo \in Nat /\ a.max = s.max
  BY AMissed DEF Follows
<1>1. SourceOK(t) /\ t.known
  BY LRestart DEF Follows
<1>2. /\ u.ranges = s.ranges \ s.ranges /\ IsFiniteSet(u.ranges)
      /\ u.pending = s.pending \ Spans(s.ranges)
      /\ u.missing \in Nat /\ u.gaps \in Nat
      /\ Counted(u) = Counted(s) /\ u.gaps = s.gaps + Cardinality(Open(s.ranges))
  <2>1. s.ranges \in SUBSET s.ranges
    OBVIOUS
  <2> QED BY <2>1, ASettle DEF Follows
<1> HIDE DEF u
<1>3. u.ranges = {} /\ u.pending = {}
  BY <1>2 DEF Follows, SourceOK, RangesConsistent, PendingInRanges, Spans
<1>4. /\ t.max = v /\ t.pending = u.pending /\ t.ranges = u.ranges
      /\ t.gaps = u.gaps /\ t.missing = u.missing
  <2>1. t = Source(u.known, v, u.pending, u.ranges, u.gaps, u.missing, u.resets + 1)
    BY DEF Restart, u
  <2> QED BY <2>1, LFields
<1>5. /\ c.lo = v /\ c.seen = {v} /\ c.max = v /\ c.jumps = {}
      /\ c.missed = Losses(a) /\ c.gaps = a.gaps + Cardinality(Hit(a))
  BY DEF Restarted, Losses
<1>6. Missed(c) = {} /\ Hit(c) = {}
  <2>1. \A x \in v .. v : x = v
    OBVIOUS
  <2> QED BY <1>5, <2>1 DEF Missed, Hit
<1>7. Losses(a) \in Nat
  BY AMissed DEF Losses, AccountOK
<1>8. Losses(c) = Losses(a) /\ Counted(t) = Counted(s)
  BY <1>2, <1>4, <1>5, <1>6, <1>7, FS_EmptySet DEF Losses, Counted
<1>9. Follows(t, c)
  BY <1>1, <1>2, <1>3, <1>4, <1>5, <1>8 DEF Follows
<1>10. Agrees(s, a) => Agrees(t, c)
  BY <1>8 DEF Agrees
<1>11. ASSUME Waits(s, a) PROVE Waits(t, c)
  <2>1. Cardinality(Open(s.ranges)) = Cardinality(Hit(a) \cap Spanned(s.ranges))
    <3>1. \A r \in s.ranges : /\ Span(r) \in a.jumps
                              /\ s.pending \cap Span(r) = Missed(a) \cap Span(r)
      BY <1>11 DEF Waits
    <3>2. s.ranges \in SUBSET s.ranges /\ SourceOK(s) /\ IsFiniteSet(s.ranges)
      BY DEF Follows
    <3> QED BY <3>1, <3>2, AOpen
  <2> DEFINE B == Spanned(s.ranges)
             H == Hit(a)
  <2>2. s.gaps = a.gaps + Cardinality(H \ B)
    BY <1>11 DEF Waits
  <2>3. t.gaps = s.gaps + Cardinality(H \cap B)
    BY <1>2, <1>4, <2>1
  <2>4. c.gaps = a.gaps + Cardinality(H)
    BY <1>5
  <2>5. IsFiniteSet(H) /\ a.gaps \in Nat
    BY AMissed DEF AccountOK
  <2> HIDE DEF B, H
  <2>6. /\ Cardinality(H \ B) = Cardinality(H) - Cardinality(H \cap B)
        /\ Cardinality(H) \in Nat /\ Cardinality(H \cap B) \in Nat
    BY <2>5, FS_Difference, FS_Intersection, FS_CardinalityType
  <2>7. t.gaps = c.gaps
    BY <2>2, <2>3, <2>4, <2>5, <2>6
  <2>8. Cardinality(Hit(c) \ Spanned(t.ranges)) = 0 /\ c.gaps \in Nat
    BY <1>6, <2>4, <2>5, <2>6, FS_EmptySet
  <2>9. t.gaps = c.gaps + Cardinality(Hit(c) \ Spanned(t.ranges))
    BY <2>7, <2>8
  <2> QED BY <1>3, <1>4, <1>6, <2>9 DEF Waits
<1> QED BY <1>9, <1>10, <1>11 DEF Kept

\* Whatever the number, a source goes on following its account.
LEMMA AFollow ==
    ASSUME NEW s, NEW a, AccountOK(a), Follows(s, a), NEW v \in Nat,
           NEW c, Restarted(a, v, c) \/ Continued(a, v, c)
    PROVE  Kept(s, a, v, SeqStep(s, v), c)
<1> DEFINE t == Place(s, v)
<1>0. a.max \in Nat /\ a.max = s.max /\ s.known
  BY AMissed DEF Follows
<1>1. Kept(s, a, v, t, c)
  <2>1. CASE Restarted(a, v, c)
    <3>1. v + PendingWindow < s.max
      BY <1>0, <2>1 DEF Restarted
    <3>2. v # s.max /\ v # s.max + 1 /\ ~(v > s.max + 1) /\ v < s.max
          /\ ~(s.max - v <= PendingWindow) /\ s.max - v > PendingWindow
      BY <1>0, <3>1, GapsAssumption
    <3>3. t = Restart(s, v)
      BY <3>2, Zenon DEF Place
    <3> HIDE DEF t
    <3> QED BY <2>1, <3>3, ARestart
  <2>2. CASE Continued(a, v, c)
    <3>1. ~(v + PendingWindow < s.max)
      BY <1>0, <2>2 DEF Continued
    <3>2. CASE v = a.max \/ v = a.max + 1
      BY <2>2, <3>2, ANext
    <3>3. CASE v > a.max + 1
      <4>1. v # s.max /\ v # s.max + 1 /\ v > s.max + 1 /\ ~(v < s.max)
        BY <1>0, <3>3
      <4>2. t = Jump(s, v)
        BY <4>1, Zenon DEF Place
      <4> HIDE DEF t
      <4> QED BY <2>2, <3>3, <4>2, AJump
    <3>4. CASE v < a.max
      <4>1. v # s.max /\ v # s.max + 1 /\ ~(v > s.max + 1) /\ v < s.max
            /\ s.max - v <= PendingWindow /\ ~(s.max - v > PendingWindow)
        BY <1>0, <3>1, <3>4, GapsAssumption
      <4>2. t = Late(s, v)
        BY <4>1, Zenon DEF Place
      <4> HIDE DEF t
      <4> QED BY <2>2, <3>4, <4>2, ALate
    <3> QED BY <1>0, <3>2, <3>3, <3>4
  <2> QED BY <2>1, <2>2
<1>2. SeqStep(s, v) = Finalize(t)
  BY <1>0 DEF SeqStep
<1>3. AccountOK(c)
  BY AStep
<1> DEFINE e == SeqStep(s, v)
<1> HIDE DEF t, e
<1>4. Follows(t, c)
  BY <1>1 DEF Kept
<1>5. e = Finalize(t)
  BY <1>2 DEF e
<1>6. Follows(e, c) /\ (Agrees(t, c) => Agrees(e, c)) /\ (Waits(t, c) => Waits(e, c))
  BY <1>3, <1>4, <1>5, AFinalize
<1>7. Kept(s, a, v, e, c)
  BY <1>1, <1>6 DEF Kept
<1> QED BY <1>7 DEF e
-----------------------------------------------------------------------------
(***************************************************************************)
(* The account of a sequence of numbers is what the definitions of LogTail *)
(* say of it.                                                              *)
(***************************************************************************)
IsRun(g, q) ==
    g = [i \in DOMAIN q |->
            IF i = 1 THEN 1
            ELSE LET b == g[i - 1]
                 IN  IF q[i] + PendingWindow < Max(Between(q, b, i - 1)) THEN i ELSE b]
Numbered(q, g) ==
    /\ q \in Seq(Nat) /\ q # <<>> /\ IsRun(g, q)
    /\ \A i \in 1 .. Len(q) : g[i] \in 1 .. i
JumpSpan(q, b, i) == Max(Between(q, b, i - 1)) + 1 .. q[i] - 1
JumpsOf(q, b, e)  == {i \in b + 1 .. e : JumpSpan(q, b, i) \cap Skipped(q, b, e) # {}}
MissedAt(q, g) == [i \in DOMAIN q |-> Cardinality(Skipped(q, g[i], i))]
GapsAt(q, g)   == [i \in DOMAIN q |-> Cardinality(JumpsOf(q, g[i], i))]
RunsOver(q, g) == {i \in DOMAIN q : i # Len(q) /\ g[i + 1] # g[i]}
AccountOf(a, q, g) ==
    LET n == Len(q)
        b == g[n]
    IN  /\ a.lo = q[b] /\ a.seen = Between(q, b, n)
        /\ a.jumps = {JumpSpan(q, b, i) : i \in b + 1 .. n} \ {{}}
        /\ a.missed = Total(RunsOver(q, g), MissedAt(q, g))
        /\ a.gaps = Total(RunsOver(q, g), GapsAt(q, g))

LEMMA MaxIs ==
    ASSUME NEW S, NEW x \in S
    PROVE  S \subseteq Nat /\ (\A y \in S : y <= x) => Max(S) = x
<1> SUFFICES ASSUME S \subseteq Nat, \A y \in S : y <= x PROVE Max(S) = x
  OBVIOUS
<1> DEFINE P(m) == m \in S /\ \A y \in S : m >= y
<1>1. P(x)
  OBVIOUS
<1>2. \A m : P(m) => m = x
  OBVIOUS
<1>3. Max(S) = CHOOSE m : P(m)
  BY DEF Max
<1> HIDE DEF P
<1> QED BY <1>1, <1>2, <1>3

LEMMA QBetween ==
    ASSUME NEW q \in Seq(Nat), NEW i \in Nat, NEW j \in Nat, 1 <= i, i <= j, j <= Len(q)
    PROVE  /\ Between(q, i, j) \subseteq Nat /\ IsFiniteSet(Between(q, i, j))
           /\ q[i] \in Between(q, i, j) /\ q[j] \in Between(q, i, j)
           /\ Max(Between(q, i, j)) \in Between(q, i, j) /\ Max(Between(q, i, j)) \in Nat
           /\ \A y \in Between(q, i, j) : y <= Max(Between(q, i, j))
<1> DEFINE S == Between(q, i, j)
           h == [k \in i .. j |-> q[k]]
<1>0. \A k \in i .. j : k \in 1 .. Len(q)
  OBVIOUS
<1>1. S \subseteq Nat /\ q[i] \in S /\ q[j] \in S
  BY <1>0 DEF Between
<1>2. h \in Surjection(i .. j, S)
  BY <1>0 DEF Between, Surjection
<1>3. IsFiniteSet(i .. j)
  BY FS_Interval
<1> HIDE DEF h
<1>4. IsFiniteSet(S)
  BY <1>2, <1>3, FS_Surjection
<1> HIDE DEF S
<1>5. Max(S) \in S /\ \A y \in S : y <= Max(S)
  <2>1. S # {}
    BY <1>1
  <2>2. S \subseteq Nat => Max(S) \in S /\ \A y \in S : y <= Max(S)
    BY <1>4, <2>1, HasMax
  <2> QED BY <1>1, <2>2
<1>6. Max(S) \in Nat
  BY <1>1, <1>5
<1> QED BY <1>1, <1>4, <1>5, <1>6 DEF S

LEMMA QSkipped ==
    ASSUME NEW q \in Seq(Nat), NEW i \in Nat, NEW j \in Nat, 1 <= i, i <= j, j <= Len(q)
    PROVE  /\ IsFiniteSet(Skipped(q, i, j)) /\ Cardinality(Skipped(q, i, j)) \in Nat
           /\ IsFiniteSet(JumpsOf(q, i, j)) /\ Cardinality(JumpsOf(q, i, j)) \in Nat
<1> DEFINE M == Max(Between(q, i, j))
<1>1. q[i] \in Nat /\ M \in Nat
  BY QBetween
<1>2. Skipped(q, i, j) \in SUBSET (q[i] .. M)
  BY DEF Skipped
<1> HIDE DEF M
<1>3. IsFiniteSet(Skipped(q, i, j))
  <2>1. IsFiniteSet(q[i] .. M)
    BY <1>1, FS_Interval
  <2> QED BY <1>2, <2>1, FS_Subset
<1>4. IsFiniteSet(i + 1 .. j) /\ JumpsOf(q, i, j) \in SUBSET (i + 1 .. j)
  BY FS_Interval DEF JumpsOf
<1>5. IsFiniteSet(JumpsOf(q, i, j))
  BY <1>4, FS_Subset
<1> QED BY <1>3, <1>5, FS_CardinalityType

\* What a number appended leaves as it was.
LEMMA QAppend ==
    ASSUME NEW q \in Seq(Nat), NEW v \in Nat, NEW r, r = Append(q, v)
    PROVE  /\ r \in Seq(Nat) /\ Len(r) = Len(q) + 1 /\ r # <<>> /\ r[Len(q) + 1] = v
           /\ \A i \in 1 .. Len(q) : r[i] = q[i]
           /\ Between(r, Len(q) + 1, Len(q) + 1) = {v}
<1> DEFINE n == Len(q)
<1>1. /\ r \in Seq(Nat) /\ Len(r) = n + 1 /\ r # <<>> /\ r[n + 1] = v
      /\ \A i \in 1 .. n : r[i] = q[i]
  OBVIOUS
<1>2. n \in Nat
  OBVIOUS
<1> HIDE DEF n
<1>5. Between(r, n + 1, n + 1) = {v}
  <2>1. \A k : k \in n + 1 .. n + 1 <=> k = n + 1
    BY <1>2
  <2> QED BY <1>1, <2>1 DEF Between
<1> QED BY <1>1, <1>5 DEF n

LEMMA QSame ==
    ASSUME NEW q \in Seq(Nat), NEW v \in Nat, NEW r, r = Append(q, v),
           NEW i \in 1 .. Len(q) + 1, NEW j \in 0 .. Len(q)
    PROVE  Between(r, i, j) = Between(q, i, j)
<1>1. \A k \in 1 .. Len(q) : r[k] = q[k]
  OBVIOUS
<1>2. Len(q) \in Nat
  OBVIOUS
<1>3. \A k \in i .. j : k \in 1 .. Len(q)
  BY <1>2
<1>4. \A k \in i .. j : r[k] = q[k]
  BY <1>1, <1>3
<1> QED BY <1>4 DEF Between

LEMMA QNext ==
    ASSUME NEW q \in Seq(Nat), NEW v \in Nat, NEW r, r = Append(q, v), NEW i \in 1 .. Len(q)
    PROVE  Between(r, i, Len(q) + 1) = Between(q, i, Len(q)) \cup {v}
<1> DEFINE n == Len(q)
<1>1. r[n + 1] = v /\ \A k \in 1 .. n : r[k] = q[k]
  BY QAppend
<1>2. n \in Nat
  OBVIOUS
<1> HIDE DEF n
<1>3. i \in 1 .. n
  BY DEF n
<1>4. \A k \in i .. n : k \in i .. n + 1 /\ r[k] = q[k]
  <2>1. \A k \in i .. n : k \in i .. n + 1 /\ k \in 1 .. n
    BY <1>2, <1>3
  <2> QED BY <1>1, <2>1
<1>5. \A k \in i .. n + 1 : k = n + 1 \/ (k \in i .. n /\ r[k] = q[k])
  <2>1. \A k \in i .. n + 1 : k = n + 1 \/ k \in i .. n
    BY <1>2, <1>3
  <2> QED BY <1>4, <2>1
<1>6. n + 1 \in i .. n + 1
  BY <1>2, <1>3
<1>7. Between(r, i, n + 1) = Between(q, i, n) \cup {v}
  BY <1>1, <1>4, <1>5, <1>6 DEF Between
<1> QED BY <1>7 DEF n

LEMMA RunsAgree ==
    ASSUME NEW q \in Seq(Nat), NEW g, IsRun(g, q), NEW h, IsRun(h, q)
    PROVE  g = h
<1> DEFINE D == {i \in 1 .. Len(q) : g[i] # h[i]}
<1>1. DOMAIN q = 1 .. Len(q) /\ Len(q) \in Nat
  OBVIOUS
<1>2. D = {}
  <2> SUFFICES ASSUME D # {} PROVE FALSE
    OBVIOUS
  <2> DEFINE below(i) == 1 .. i
             T == {below(i) : i \in D}
  <2>1. T \subseteq SUBSET (1 .. Len(q)) /\ T # {} /\ IsFiniteSet(1 .. Len(q))
    <3>1. \A i \in D : below(i) \subseteq 1 .. Len(q)
      BY <1>1
    <3> HIDE DEF D, below
    <3> QED BY <1>1, <3>1, FS_Interval
  <2>2. PICK s \in T : \A t \in T : t \subseteq s => t = s
    <3> DEFINE I == 1 .. Len(q)
    <3>1. T \subseteq SUBSET I /\ T # {} /\ IsFiniteSet(I)
      BY <2>1
    <3> HIDE DEF I, T
    <3> QED BY <3>1, FinMin
  <2>3. PICK i \in D : s = below(i)
    BY <2>2
  <2>4. i \in 1 .. Len(q) /\ g[i] # h[i]
    BY <2>3
  <2>5. i - 1 \notin D
    <3> SUFFICES ASSUME i - 1 \in D PROVE FALSE
      OBVIOUS
    <3>1. below(i - 1) \in T
      OBVIOUS
    <3>2. below(i - 1) \subseteq below(i) /\ i \in below(i) /\ i \notin below(i - 1)
      BY <2>4
    <3> HIDE DEF T, below
    <3> QED BY <2>2, <2>3, <3>1, <3>2
  <2>6. i # 1 => i - 1 \in 1 .. Len(q)
    BY <2>4
  <2>7. i # 1 => g[i - 1] = h[i - 1]
    BY <2>5, <2>6
  <2>8. g[i] = IF i = 1 THEN 1
               ELSE IF q[i] + PendingWindow < Max(Between(q, g[i - 1], i - 1)) THEN i ELSE g[i - 1]
    BY <1>1, <2>4 DEF IsRun
  <2>9. h[i] = IF i = 1 THEN 1
               ELSE IF q[i] + PendingWindow < Max(Between(q, h[i - 1], i - 1)) THEN i ELSE h[i - 1]
    BY <1>1, <2>4 DEF IsRun
  <2> HIDE DEF D, T
  <2> QED BY <2>4, <2>7, <2>8, <2>9
<1>3. \A i \in DOMAIN q : g[i] = h[i]
  BY <1>1, <1>2
<1>4. g = [i \in DOMAIN q |-> g[i]] /\ h = [i \in DOMAIN q |-> h[i]]
  BY DEF IsRun
<1>5. [i \in DOMAIN q |-> g[i]] = [i \in DOMAIN q |-> h[i]]
  BY <1>3
<1> QED BY <1>4, <1>5

LEMMA RunStartIs ==
    ASSUME NEW q \in Seq(Nat), NEW g, IsRun(g, q)
    PROVE  RunStart(q) = g
<1>1. RunStart(q) = CHOOSE h : IsRun(h, q)
  BY DEF RunStart, IsRun
<1>2. IsRun(RunStart(q), q)
  BY <1>1
<1> QED BY <1>2, RunsAgree
-----------------------------------------------------------------------------
\* The run a number appended belongs to.
NumberAdded(q, g, v, r, h) ==
    /\ r = Append(q, v)
    /\ h = [i \in 1 .. Len(q) + 1 |->
               IF i <= Len(q) THEN g[i]
               ELSE IF v + PendingWindow < Max(Between(q, g[Len(q)], Len(q))) THEN Len(q) + 1
               ELSE g[Len(q)]]

LEMMA NumberedGrow ==
    ASSUME NEW q, NEW g, Numbered(q, g), NEW v \in Nat, NEW r, NEW h, NumberAdded(q, g, v, r, h)
    PROVE  /\ Numbered(r, h)
           /\ \A i \in 1 .. Len(q) : h[i] = g[i]
           /\ h[Len(r)] = IF v + PendingWindow < Max(Between(q, g[Len(q)], Len(q)))
                          THEN Len(r) ELSE g[Len(q)]
<1> DEFINE n == Len(q)
<1>0. q \in Seq(Nat) /\ q # <<>> /\ n \in Nat /\ n >= 1
  BY DEF Numbered
<1>1. /\ r \in Seq(Nat) /\ Len(r) = n + 1 /\ r # <<>> /\ r[n + 1] = v
      /\ \A i \in 1 .. n : r[i] = q[i]
      /\ \A i \in 1 .. n + 1, j \in 0 .. n : Between(r, i, j) = Between(q, i, j)
  <2>1. r = Append(q, v) /\ q \in Seq(Nat)
    BY <1>0 DEF NumberAdded
  <2>2. /\ r \in Seq(Nat) /\ Len(r) = Len(q) + 1 /\ r # <<>> /\ r[Len(q) + 1] = v
        /\ \A i \in 1 .. Len(q) : r[i] = q[i]
    BY <2>1, QAppend
  <2>3. ASSUME NEW i \in 1 .. n + 1, NEW j \in 0 .. n PROVE Between(r, i, j) = Between(q, i, j)
    BY <2>1, QSame
  <2> QED BY <2>2, <2>3
<1>2. DOMAIN q = 1 .. n /\ DOMAIN r = 1 .. n + 1
  BY <1>0, <1>1
<1>3. \A i \in 1 .. n : g[i] \in 1 .. i
  BY DEF Numbered
<1>4. \A i \in 1 .. n : g[i] = IF i = 1 THEN 1
                               ELSE IF q[i] + PendingWindow < Max(Between(q, g[i - 1], i - 1))
                               THEN i ELSE g[i - 1]
  BY <1>2 DEF Numbered, IsRun
<1> HIDE DEF n
<1>5. /\ \A i \in 1 .. n : h[i] = g[i]
      /\ h[n + 1] = IF v + PendingWindow < Max(Between(q, g[n], n)) THEN n + 1 ELSE g[n]
      /\ DOMAIN h = 1 .. n + 1
  <2>1. h = [i \in 1 .. n + 1 |->
               IF i <= n THEN g[i]
               ELSE IF v + PendingWindow < Max(Between(q, g[n], n)) THEN n + 1
               ELSE g[n]]
    BY DEF NumberAdded, n
  <2>2. \A i \in 1 .. n : i \in 1 .. n + 1 /\ i <= n
    BY <1>0
  <2>3. n + 1 \in 1 .. n + 1 /\ ~(n + 1 <= n)
    BY <1>0
  <2> QED BY <2>1, <2>2, <2>3
<1>6. \A i \in 1 .. n + 1 : h[i] \in 1 .. i
  <2>1. n \in 1 .. n /\ \A i \in 1 .. n + 1 : i \in 1 .. n \/ i = n + 1
    BY <1>0
  <2>2. g[n] \in 1 .. n + 1 /\ n + 1 \in 1 .. n + 1
    BY <1>0, <1>3, <2>1
  <2> QED BY <1>3, <1>5, <2>1, <2>2
<1>7. ASSUME NEW i \in 1 .. n + 1
      PROVE  h[i] = IF i = 1 THEN 1
                    ELSE IF r[i] + PendingWindow < Max(Between(r, h[i - 1], i - 1))
                    THEN i ELSE h[i - 1]
  <2>1. CASE i = 1
    <3>1. 1 \in 1 .. n
      BY <1>0
    <3> QED BY <1>4, <1>5, <2>1, <3>1
  <2>2. CASE i # 1
    <3>1. i - 1 \in 1 .. n /\ i - 1 \in 0 .. n /\ (i \in 1 .. n \/ (i = n + 1 /\ i - 1 = n))
      BY <1>0, <2>2
    <3>2. h[i - 1] = g[i - 1] /\ g[i - 1] \in 1 .. n + 1
      <4>1. g[i - 1] \in 1 .. (i - 1)
        BY <1>3, <3>1
      <4> QED BY <1>0, <1>5, <3>1, <4>1
    <3>3. Between(r, h[i - 1], i - 1) = Between(q, g[i - 1], i - 1)
      BY <1>1, <3>1, <3>2
    <3>4. CASE i \in 1 .. n
      BY <1>1, <1>4, <1>5, <2>2, <3>2, <3>3, <3>4
    <3>5. CASE i = n + 1 /\ i - 1 = n
      BY <1>1, <1>5, <2>2, <3>2, <3>3, <3>5
    <3> QED BY <3>1, <3>4, <3>5
  <2> QED BY <2>1, <2>2
<1>8. IsRun(h, r)
  <2>1. h = [i \in 1 .. n + 1 |-> h[i]]
    BY DEF NumberAdded, n
  <2>2. [i \in 1 .. n + 1 |-> h[i]] =
          [i \in 1 .. n + 1 |-> IF i = 1 THEN 1
                    ELSE IF r[i] + PendingWindow < Max(Between(r, h[i - 1], i - 1))
                    THEN i ELSE h[i - 1]]
    BY <1>7
  <2> QED BY <1>2, <2>1, <2>2 DEF IsRun
<1> QED BY <1>1, <1>5, <1>6, <1>8 DEF Numbered, n

\* A jump is above all that came before it in the run, and below what comes after.
LEMMA JumpsApart ==
    ASSUME NEW q \in Seq(Nat), NEW b \in 1 .. Len(q), NEW i \in b + 1 .. Len(q),
           NEW j \in b + 1 .. Len(q), i < j
    PROVE  JumpSpan(q, b, i) \cap JumpSpan(q, b, j) = {}
<1>0. /\ Len(q) \in Nat /\ b \in Nat /\ i \in Nat /\ j \in Nat /\ j - 1 \in Nat /\ 1 <= b
      /\ b <= j - 1 /\ j - 1 <= Len(q) /\ i \in b .. j - 1
  OBVIOUS
<1>1. /\ Max(Between(q, b, j - 1)) \in Nat
      /\ \A y \in Between(q, b, j - 1) : y <= Max(Between(q, b, j - 1))
  BY <1>0, QBetween
<1>2. q[i] \in Between(q, b, j - 1)
  BY <1>0 DEF Between
<1>3. q[i] <= Max(Between(q, b, j - 1)) /\ q[i] \in Nat
  BY <1>0, <1>1, <1>2
<1>4. i - 1 \in Nat /\ b <= i - 1 /\ i - 1 <= Len(q)
  BY <1>0
<1>5. Max(Between(q, b, i - 1)) \in Nat
  BY <1>0, <1>4, QBetween
<1> DEFINE m == Max(Between(q, b, i - 1))
           k == Max(Between(q, b, j - 1))
           x == q[i]
           y == q[j]
<1>6. x \in Nat /\ y \in Nat /\ m \in Nat /\ k \in Nat /\ x <= k
  BY <1>1, <1>3, <1>5
<1>7. JumpSpan(q, b, i) = m + 1 .. x - 1 /\ JumpSpan(q, b, j) = k + 1 .. y - 1
  BY DEF JumpSpan
<1> HIDE DEF m, k, x, y
<1>8. (m + 1 .. x - 1) \cap (k + 1 .. y - 1) = {}
  BY <1>6
<1> QED BY <1>7, <1>8

LEMMA AccountHits ==
    ASSUME NEW q, NEW g, Numbered(q, g), NEW a, AccountOK(a), AccountOf(a, q, g)
    PROVE  /\ a.max = Max(Between(q, g[Len(q)], Len(q)))
           /\ Missed(a) = Skipped(q, g[Len(q)], Len(q))
           /\ Cardinality(Hit(a)) = Cardinality(JumpsOf(q, g[Len(q)], Len(q)))
<1> DEFINE n == Len(q)
           b == g[n]
<1>0. q \in Seq(Nat) /\ n \in Nat /\ n >= 1 /\ b \in 1 .. n
  BY DEF Numbered
<1>1. /\ a.lo = q[b] /\ a.seen = Between(q, b, n)
      /\ a.jumps = {JumpSpan(q, b, i) : i \in b + 1 .. n} \ {{}}
  BY DEF AccountOf
<1> HIDE DEF n, b
<1>2. a.max = Max(Between(q, b, n))
  BY <1>1, MaxIs DEF AccountOK
<1>3. Missed(a) = Skipped(q, b, n)
  BY <1>1, <1>2 DEF Missed, Skipped
<1> DEFINE J == JumpsOf(q, b, n)
           H == Hit(a)
           h == [i \in J |-> JumpSpan(q, b, i)]
<1>4. \A i \in J : i \in b + 1 .. n /\ JumpSpan(q, b, i) \in H
  <2> SUFFICES ASSUME NEW i \in J PROVE i \in b + 1 .. n /\ JumpSpan(q, b, i) \in H
    OBVIOUS
  <2>1. i \in b + 1 .. n /\ JumpSpan(q, b, i) \cap Missed(a) # {}
    BY <1>3 DEF JumpsOf
  <2>2. JumpSpan(q, b, i) \in a.jumps
    BY <1>1, <2>1
  <2> QED BY <2>1, <2>2 DEF Hit
<1>5. \A S \in H : \E i \in J : JumpSpan(q, b, i) = S
  BY <1>1, <1>3 DEF Hit, JumpsOf
<1>6. \A i, j \in J : JumpSpan(q, b, i) = JumpSpan(q, b, j) => i = j
  <2>1. ASSUME NEW i \in J, NEW j \in J, i < j
        PROVE  JumpSpan(q, b, i) # JumpSpan(q, b, j)
    <3>1. i \in b + 1 .. n /\ j \in b + 1 .. n
      BY <1>4
    <3>2. JumpSpan(q, b, i) \cap JumpSpan(q, b, j) = {}
      BY <1>0, <2>1, <3>1, JumpsApart DEF n
    <3>3. JumpSpan(q, b, i) # {}
      BY <1>4 DEF Hit
    <3> QED BY <3>2, <3>3
  <2>2. \A i, j \in J : i = j \/ i < j \/ j < i
    BY <1>0, <1>4
  <2> QED BY <2>1, <2>2
<1> HIDE DEF J, H
<1>7. h \in Bijection(J, H)
  <2>1. h \in [J -> H] /\ \A i \in J : h[i] = JumpSpan(q, b, i)
    BY <1>4
  <2> HIDE DEF h
  <2>2. h \in Injection(J, H)
    BY <1>6, <2>1 DEF Injection, IsInjective
  <2>3. h \in Surjection(J, H)
    BY <1>5, <2>1 DEF Surjection
  <2> QED BY <2>2, <2>3 DEF Bijection
<1>8. IsFiniteSet(J)
  BY <1>0, QSkipped DEF J, n
<1>9. Cardinality(H) = Cardinality(J)
  BY <1>7, <1>8, FS_Bijection DEF ExistsBijection
<1> QED BY <1>2, <1>3, <1>9 DEF H, J, b, n
-----------------------------------------------------------------------------
LEMMA RunsOverOK ==
    ASSUME NEW q, NEW g, Numbered(q, g)
    PROVE  /\ IsFiniteSet(RunsOver(q, g)) /\ RunsOver(q, g) \subseteq 1 .. Len(q)
           /\ Len(q) \notin RunsOver(q, g)
           /\ \A i \in 1 .. Len(q) : MissedAt(q, g)[i] \in Nat /\ GapsAt(q, g)[i] \in Nat
<1>0. q \in Seq(Nat) /\ DOMAIN q = 1 .. Len(q) /\ Len(q) \in Nat
  BY DEF Numbered
<1>1. RunsOver(q, g) \in SUBSET (1 .. Len(q)) /\ Len(q) \notin RunsOver(q, g)
  BY <1>0 DEF RunsOver
<1>2. IsFiniteSet(1 .. Len(q))
  BY <1>0, FS_Interval
<1>3. IsFiniteSet(RunsOver(q, g))
  BY <1>1, <1>2, FS_Subset
<1>4. ASSUME NEW i \in 1 .. Len(q) PROVE MissedAt(q, g)[i] \in Nat /\ GapsAt(q, g)[i] \in Nat
  <2>1. g[i] \in 1 .. i
    BY DEF Numbered
  <2>2. g[i] \in Nat /\ i \in Nat /\ 1 <= g[i] /\ g[i] <= i /\ i <= Len(q)
    BY <1>0, <2>1
  <2>3. Cardinality(Skipped(q, g[i], i)) \in Nat /\ Cardinality(JumpsOf(q, g[i], i)) \in Nat
    BY <1>0, <2>2, QSkipped
  <2> QED BY <1>0, <2>3 DEF MissedAt, GapsAt
<1> QED BY <1>1, <1>3, <1>4

\* What was counted for the numbers before is not changed by one appended.
LEMMA WeightsSame ==
    ASSUME NEW q, NEW g, Numbered(q, g), NEW v \in Nat, NEW r, NEW h, NumberAdded(q, g, v, r, h),
           NEW i \in 1 .. Len(q)
    PROVE  /\ Skipped(r, h[i], i) = Skipped(q, g[i], i)
           /\ MissedAt(r, h)[i] = MissedAt(q, g)[i] /\ GapsAt(r, h)[i] = GapsAt(q, g)[i]
<1>0. q \in Seq(Nat) /\ DOMAIN q = 1 .. Len(q) /\ Len(q) \in Nat /\ r = Append(q, v)
  BY DEF Numbered, NumberAdded
<1>1. h[i] = g[i] /\ g[i] \in 1 .. i
  BY NumberedGrow DEF Numbered
<1>2. DOMAIN r = 1 .. Len(q) + 1 /\ \A k \in 1 .. Len(q) : r[k] = q[k]
  BY <1>0
<1> DEFINE b == g[i]
<1>3. b \in 1 .. Len(q) + 1 /\ b \in 1 .. Len(q) /\ i \in 0 .. Len(q) /\ i \in DOMAIN r
      /\ b \in 1 .. i
  BY <1>0, <1>1, <1>2
<1> HIDE DEF b
<1>4. \A k \in b .. i : k \in 1 .. Len(q) /\ k \in 0 .. Len(q) /\ k - 1 \in 0 .. Len(q)
  BY <1>0, <1>3
<1>5. Between(r, b, i) = Between(q, b, i)
  BY <1>0, <1>3, QSame
<1>6. Skipped(r, b, i) = Skipped(q, b, i)
  BY <1>2, <1>3, <1>5 DEF Skipped
<1>7. ASSUME NEW k \in b + 1 .. i PROVE JumpSpan(r, b, k) = JumpSpan(q, b, k)
  <2>1. k - 1 \in 0 .. Len(q) /\ k \in 1 .. Len(q)
    BY <1>0, <1>3
  <2>2. Between(r, b, k - 1) = Between(q, b, k - 1)
    BY <1>0, <1>3, <2>1, QSame
  <2> QED BY <1>2, <2>1, <2>2 DEF JumpSpan
<1>8. JumpsOf(r, b, i) = JumpsOf(q, b, i)
  BY <1>6, <1>7 DEF JumpsOf
<1> QED BY <1>0, <1>1, <1>3, <1>6, <1>8 DEF MissedAt, GapsAt, b

LEMMA AccountGrow ==
    ASSUME NEW q, NEW g, Numbered(q, g), NEW a, AccountOK(a), AccountOf(a, q, g),
           NEW v \in Nat, NEW r, NEW h, NumberAdded(q, g, v, r, h),
           NEW c, Restarted(a, v, c) \/ Continued(a, v, c)
    PROVE  AccountOf(c, r, h)
<1> DEFINE n == Len(q)
           b == g[n]
           m == n + 1
<1>q. q \in Seq(Nat) /\ r = Append(q, v)
  BY DEF Numbered, NumberAdded
<1>0. /\ n \in Nat /\ n >= 1 /\ b \in 1 .. n /\ Len(q) = n /\ Len(r) = m
      /\ DOMAIN q = 1 .. n /\ DOMAIN r = 1 .. m
  BY DEF Numbered, NumberAdded
<1>1. /\ a.lo = q[b] /\ a.seen = Between(q, b, n)
      /\ a.jumps = {JumpSpan(q, b, i) : i \in b + 1 .. n} \ {{}}
      /\ a.missed = Total(RunsOver(q, g), MissedAt(q, g))
      /\ a.gaps = Total(RunsOver(q, g), GapsAt(q, g))
  BY DEF AccountOf
<1>2. /\ a.max = Max(Between(q, b, n)) /\ Missed(a) = Skipped(q, b, n)
      /\ Cardinality(Hit(a)) = Cardinality(JumpsOf(q, b, n))
  BY AccountHits
<1>3. /\ Numbered(r, h) /\ \A i \in 1 .. n : h[i] = g[i]
      /\ h[m] = IF v + PendingWindow < a.max THEN m ELSE b
  <2>1. /\ Numbered(r, h)
        /\ \A i \in 1 .. Len(q) : h[i] = g[i]
        /\ h[Len(r)] = IF v + PendingWindow < Max(Between(q, g[Len(q)], Len(q)))
                       THEN Len(r) ELSE g[Len(q)]
    BY NumberedGrow
  <2> QED BY <1>0, <1>2, <2>1
<1>4. /\ r[m] = v /\ \A i \in 1 .. n : r[i] = q[i]
      /\ Between(r, b, m) = Between(q, b, n) \cup {v} /\ Between(r, m, m) = {v}
  <2>1. r[Len(q) + 1] = v
    BY <1>q, QAppend
  <2>3. \A i \in 1 .. Len(q) : r[i] = q[i]
    BY <1>q, QAppend
  <2>4. Between(r, Len(q) + 1, Len(q) + 1) = {v}
    BY <1>q, QAppend
  <2>2. Between(r, b, Len(q) + 1) = Between(q, b, Len(q)) \cup {v}
    BY <1>q, <1>0, QNext
  <2> QED BY <2>1, <2>2, <2>3, <2>4
<1> DEFINE R == RunsOver(q, g)
           W == MissedAt(q, g)
           X == GapsAt(q, g)
<1>5. /\ IsFiniteSet(R) /\ R \subseteq 1 .. n /\ n \notin R
      /\ \A i \in 1 .. n : W[i] \in Nat /\ X[i] \in Nat
  BY RunsOverOK
<1>6. \A i \in 1 .. n : MissedAt(r, h)[i] = W[i] /\ GapsAt(r, h)[i] = X[i]
  BY WeightsSame
<1>7. W[n] = Cardinality(Missed(a)) /\ X[n] = Cardinality(Hit(a))
  <2>1. n \in DOMAIN q
    BY <1>0
  <2> QED BY <1>2, <2>1 DEF MissedAt, GapsAt
<1>8. \A i \in 1 .. m : i \in RunsOver(r, h) <=>
          i \in R \/ (i = n /\ h[m] # b)
  <2> SUFFICES ASSUME NEW i \in 1 .. m
               PROVE  i \in RunsOver(r, h) <=> i \in R \/ (i = n /\ h[m] # b)
    OBVIOUS
  <2> HIDE DEF n
  <2>1. CASE i = m
    <3>1. i \notin RunsOver(r, h) /\ i \notin 1 .. n /\ i # n
      BY <1>0, <2>1 DEF RunsOver
    <3> QED BY <1>5, <3>1
  <2>2. CASE i = n
    <3>1. i \in DOMAIN r /\ i # Len(r) /\ h[i] = b /\ h[i + 1] = h[m]
      BY <1>0, <1>3, <2>2
    <3> QED BY <1>5, <2>2, <3>1 DEF RunsOver
  <2>3. CASE i # m /\ i # n
    <3>1. i \in 1 .. n /\ i + 1 \in 1 .. n /\ i # Len(r) /\ i # Len(q) /\ i \in DOMAIN r /\ i \in DOMAIN q
      BY <1>0, <2>3
    <3>2. h[i] = g[i] /\ h[i + 1] = g[i + 1]
      BY <1>3, <3>1
    <3> QED BY <2>3, <3>1, <3>2 DEF RunsOver
  <2> QED BY <2>1, <2>2, <2>3
<1>9. RunsOver(r, h) = IF h[m] # b THEN R \cup {n} ELSE R
  <2>1. RunsOver(r, h) \subseteq 1 .. m
    BY <1>0 DEF RunsOver
  <2>2. n \in 1 .. m /\ \A i \in R : i \in 1 .. m
    BY <1>0, <1>5
  <2> HIDE DEF m, R, n, b
  <2>3. CASE h[m] # b
    BY <1>8, <2>1, <2>2, <2>3
  <2>4. CASE h[m] = b
    BY <1>8, <2>1, <2>2, <2>4
  <2> QED BY <2>3, <2>4
<1> DEFINE Wr == MissedAt(r, h)
           Xr == GapsAt(r, h)
<1>10. ASSUME NEW S, S \subseteq 1 .. n, IsFiniteSet(S)
       PROVE  Total(S, Wr) = Total(S, W) /\ Total(S, Xr) = Total(S, X)
  <2>1. \A i \in S : W[i] \in Nat /\ Wr[i] = W[i]
    BY <1>5, <1>6, <1>10
  <2>2. \A i \in S : X[i] \in Nat /\ Xr[i] = X[i]
    BY <1>5, <1>6, <1>10
  <2> HIDE DEF W, X, Wr, Xr
  <2>3. Total(S, Wr) = Total(S, W)
    BY <1>10, <2>1, TotalSame
  <2>4. Total(S, Xr) = Total(S, X)
    BY <1>10, <2>2, TotalSame
  <2> QED BY <2>3, <2>4
<1>11. /\ Total(R \cup {n}, W) = Total(R, W) + W[n]
       /\ Total(R \cup {n}, X) = Total(R, X) + X[n]
  <2>1. \A i \in R \cup {n} : W[i] \in Nat /\ X[i] \in Nat
    BY <1>0, <1>5
  <2> HIDE DEF W, X, R, n
  <2> QED BY <1>5, <2>1, TotalAdd
<1>12. IsFiniteSet(R \cup {n}) /\ R \cup {n} \subseteq 1 .. n
  <2>1. R \cup {n} \subseteq 1 .. n
    BY <1>0, <1>5
  <2> HIDE DEF R, n
  <2> QED BY <1>5, <2>1, FS_AddElement
<1>13. CASE Restarted(a, v, c)
  <2>1. h[m] = m /\ m # b
    BY <1>0, <1>3, <1>13 DEF Restarted
  <2>2. c.missed = Total(R \cup {n}, Wr) /\ c.gaps = Total(R \cup {n}, Xr)
    <3>1. c.missed = a.missed + W[n] /\ c.gaps = a.gaps + X[n]
      BY <1>7, <1>13 DEF Restarted
    <3> QED BY <1>1, <1>10, <1>11, <1>12, <3>1
  <2>3. c.missed = Total(RunsOver(r, h), MissedAt(r, h)) /\ c.gaps = Total(RunsOver(r, h), GapsAt(r, h))
    BY <1>9, <2>1, <2>2
  <2>4. c.lo = r[m] /\ c.seen = Between(r, m, m)
    BY <1>4, <1>13 DEF Restarted
  <2>5. c.jumps = {JumpSpan(r, m, i) : i \in m + 1 .. m} \ {{}}
    <3>1. \A i : i \notin m + 1 .. m
      BY <1>0
    <3>2. c.jumps = {}
      BY <1>13 DEF Restarted
    <3> QED BY <3>1, <3>2
  <2> QED BY <1>0, <2>1, <2>3, <2>4, <2>5 DEF AccountOf
<1>14. CASE Continued(a, v, c)
  <2>1. h[m] = b
    BY <1>3, <1>14 DEF Continued
  <2>2. c.missed = Total(R, Wr) /\ c.gaps = Total(R, Xr)
    BY <1>1, <1>5, <1>10, <1>14 DEF Continued
  <2>3. c.missed = Total(RunsOver(r, h), MissedAt(r, h)) /\ c.gaps = Total(RunsOver(r, h), GapsAt(r, h))
    BY <1>9, <2>1, <2>2
  <2>4. c.lo = r[b] /\ c.seen = Between(r, b, m)
    BY <1>0, <1>1, <1>4, <1>14 DEF Continued
  <2>5. ASSUME NEW i \in b + 1 .. n PROVE JumpSpan(r, b, i) = JumpSpan(q, b, i)
    <3>1. i - 1 \in 0 .. Len(q) /\ i \in 1 .. n /\ b \in 1 .. Len(q) + 1
      BY <1>0
    <3>2. Between(r, b, i - 1) = Between(q, b, i - 1)
      BY <1>q, <1>0, <3>1, QSame
    <3> QED BY <1>4, <3>1, <3>2 DEF JumpSpan
  <2>6. JumpSpan(r, b, m) = a.max + 1 .. v - 1
    <3>1. n \in 0 .. Len(q) /\ b \in 1 .. Len(q) + 1 /\ m - 1 = n
      BY <1>0
    <3>2. Between(r, b, n) = Between(q, b, n)
      BY <1>q, <1>0, <3>1, QSame
    <3> QED BY <1>2, <1>4, <3>1, <3>2 DEF JumpSpan
  <2>7. JumpSpan(r, b, m) = {} <=> ~(v > a.max + 1)
    <3>1. a.max \in Nat
      BY AMissed
    <3>2. (a.max + 1 .. v - 1) = {} <=> ~(v > a.max + 1)
      <4>1. v > a.max + 1 => a.max + 1 \in a.max + 1 .. v - 1
        BY <3>1
      <4>2. ~(v > a.max + 1) => \A x : x \notin a.max + 1 .. v - 1
        BY <3>1
      <4> QED BY <4>1, <4>2
    <3> QED BY <2>6, <3>2
  <2>8. \A i : i \in b + 1 .. m <=> i \in b + 1 .. n \/ i = m
    BY <1>0
  <2>9. c.jumps = {JumpSpan(r, b, i) : i \in b + 1 .. m} \ {{}}
    <3> DEFINE T == {JumpSpan(q, b, i) : i \in b + 1 .. n}
               U == {JumpSpan(r, b, i) : i \in b + 1 .. m}
               N == a.max + 1 .. v - 1
    <3>1. U = T \cup {N}
      BY <2>5, <2>6, <2>8
    <3>2. c.jumps = IF v > a.max + 1 THEN (T \ {{}}) \cup {N} ELSE T \ {{}}
      BY <1>1, <1>14 DEF Continued
    <3>3. N = {} <=> ~(v > a.max + 1)
      BY <2>6, <2>7
    <3> HIDE DEF T, U, N
    <3>4. CASE v > a.max + 1
      <4>1. U \ {{}} = (T \ {{}}) \cup {N}
        BY <3>1, <3>3, <3>4
      <4>2. c.jumps = U \ {{}}
        BY <3>2, <3>4, <4>1
      <4> QED BY <4>2 DEF U
    <3>5. CASE ~(v > a.max + 1)
      <4>1. U \ {{}} = T \ {{}}
        BY <3>1, <3>3, <3>5
      <4>2. c.jumps = U \ {{}}
        BY <3>2, <3>5, <4>1
      <4> QED BY <4>2 DEF U
    <3> QED BY <3>4, <3>5
  <2> QED BY <1>0, <2>1, <2>3, <2>4, <2>9 DEF AccountOf
<1> QED BY <1>13, <1>14
-----------------------------------------------------------------------------
LEMMA MissingIsTotal ==
    ASSUME NEW q, IsFiniteSet(RunEnds(q, RunStart(q))),
           \A i \in RunEnds(q, RunStart(q)) : MissedAt(q, RunStart(q))[i] \in Nat
    PROVE  MissingOf(q) = Total(RunEnds(q, RunStart(q)), MissedAt(q, RunStart(q)))
<1> DEFINE g == RunStart(q)
           S == RunEnds(q, g)
           w == MissedAt(q, g)
           good(k) == k = [s \in SUBSET S |->
                              IF s = {} THEN 0
                              ELSE Cardinality(Skipped(q, g[CHOOSE x \in s : TRUE],
                                                       CHOOSE x \in s : TRUE))
                                   + k[s \ {CHOOSE x \in s : TRUE}]]
           h == CHOOSE k : good(k)
<1>1. MissingOf(q) = h[S]
  BY DEF MissingOf, MapThenSumSet, MapThenFoldSet
<1>2. ASSUME NEW k PROVE good(k) <=> IsSum(k, S, w)
  <2>1. \A s \in SUBSET S : s # {} =>
           w[CHOOSE x \in s : TRUE] = Cardinality(Skipped(q, g[CHOOSE x \in s : TRUE],
                                                          CHOOSE x \in s : TRUE))
    <3> SUFFICES ASSUME NEW s \in SUBSET S, s # {}
                 PROVE  (CHOOSE x \in s : TRUE) \in DOMAIN q
      BY DEF MissedAt
    <3>1. (CHOOSE x \in s : TRUE) \in s
      OBVIOUS
    <3>2. S \subseteq DOMAIN q
      BY DEF RunEnds
    <3> QED BY <3>1, <3>2
  <2> HIDE DEF w, S, g
  <2>2. [s \in SUBSET S |-> IF s = {} THEN 0
                            ELSE Cardinality(Skipped(q, g[CHOOSE x \in s : TRUE],
                                                     CHOOSE x \in s : TRUE))
                                 + k[s \ {CHOOSE x \in s : TRUE}]]
          = [s \in SUBSET S |-> IF s = {} THEN 0
                                ELSE w[CHOOSE x \in s : TRUE] + k[s \ {CHOOSE x \in s : TRUE}]]
    BY <2>1
  <2> QED BY <2>2 DEF IsSum
<1>3. IsFiniteSet(S) /\ \A x \in S : w[x] \in Nat
  OBVIOUS
<1> HIDE DEF w, good, S
<1>4. \E k : good(k)
  BY <1>2, <1>3, SumsExist
<1>5. good(h)
  BY <1>4
<1> HIDE DEF h
<1>6. h[S] = Total(S, w)
  BY <1>2, <1>3, <1>5, TotalIs
<1> QED BY <1>1, <1>6 DEF w, S

LEMMA GapsIsTotal ==
    ASSUME NEW q, IsFiniteSet(RunEnds(q, RunStart(q))),
           \A i \in RunEnds(q, RunStart(q)) : GapsAt(q, RunStart(q))[i] \in Nat
    PROVE  GapsOf(q) = Total(RunEnds(q, RunStart(q)), GapsAt(q, RunStart(q)))
<1> DEFINE g == RunStart(q)
           S == RunEnds(q, g)
           w == GapsAt(q, g)
           good(k) == k = [s \in SUBSET S |->
                              IF s = {} THEN 0
                              ELSE Cardinality(JumpsOf(q, g[CHOOSE x \in s : TRUE],
                                                       CHOOSE x \in s : TRUE))
                                   + k[s \ {CHOOSE x \in s : TRUE}]]
           h == CHOOSE k : good(k)
<1>1. GapsOf(q) = h[S]
  BY DEF GapsOf, MapThenSumSet, MapThenFoldSet, JumpsOf, JumpSpan
<1>2. ASSUME NEW k PROVE good(k) <=> IsSum(k, S, w)
  <2>1. \A s \in SUBSET S : s # {} =>
           w[CHOOSE x \in s : TRUE] = Cardinality(JumpsOf(q, g[CHOOSE x \in s : TRUE],
                                                          CHOOSE x \in s : TRUE))
    <3> SUFFICES ASSUME NEW s \in SUBSET S, s # {}
                 PROVE  (CHOOSE x \in s : TRUE) \in DOMAIN q
      BY DEF GapsAt
    <3>1. (CHOOSE x \in s : TRUE) \in s
      OBVIOUS
    <3>2. S \subseteq DOMAIN q
      BY DEF RunEnds
    <3> QED BY <3>1, <3>2
  <2> HIDE DEF w, S, g
  <2>2. [s \in SUBSET S |-> IF s = {} THEN 0
                            ELSE Cardinality(JumpsOf(q, g[CHOOSE x \in s : TRUE],
                                                     CHOOSE x \in s : TRUE))
                                 + k[s \ {CHOOSE x \in s : TRUE}]]
          = [s \in SUBSET S |-> IF s = {} THEN 0
                                ELSE w[CHOOSE x \in s : TRUE] + k[s \ {CHOOSE x \in s : TRUE}]]
    BY <2>1
  <2> QED BY <2>2 DEF IsSum
<1>3. IsFiniteSet(S) /\ \A x \in S : w[x] \in Nat
  OBVIOUS
<1> HIDE DEF w, good, S
<1>4. \E k : good(k)
  BY <1>2, <1>3, SumsExist
<1>5. good(h)
  BY <1>4
<1> HIDE DEF h
<1>6. h[S] = Total(S, w)
  BY <1>2, <1>3, <1>5, TotalIs
<1> QED BY <1>1, <1>6 DEF w, S

\* What LogTail defines to be missing is what the account says.
LEMMA AccountIs ==
    ASSUME NEW q, NEW g, Numbered(q, g), NEW a, AccountOK(a), AccountOf(a, q, g)
    PROVE  /\ MissingOf(q) = Losses(a)
           /\ GapsOf(q) = a.gaps + Cardinality(Hit(a))
<1> DEFINE n == Len(q)
           R == RunsOver(q, g)
           W == MissedAt(q, g)
           X == GapsAt(q, g)
<1>1. RunStart(q) = g
  BY RunStartIs DEF Numbered
<1>2. n \in Nat /\ n >= 1 /\ DOMAIN q = 1 .. n /\ n \in 1 .. n
  BY DEF Numbered
<1>3. /\ IsFiniteSet(R) /\ R \subseteq 1 .. n /\ n \notin R
      /\ \A i \in 1 .. n : W[i] \in Nat /\ X[i] \in Nat
  BY RunsOverOK
<1>4. RunEnds(q, g) = R \cup {n}
  BY <1>2 DEF RunEnds, RunsOver
<1>5. \A i \in R \cup {n} : W[i] \in Nat /\ X[i] \in Nat
  BY <1>2, <1>3
<1>6. W[n] = Cardinality(Missed(a)) /\ X[n] = Cardinality(Hit(a))
  BY <1>2, AccountHits DEF MissedAt, GapsAt
<1>7. a.missed = Total(R, W) /\ a.gaps = Total(R, X)
  BY DEF AccountOf
<1> HIDE DEF R, n
<1>8. IsFiniteSet(R \cup {n})
  BY <1>3, FS_AddElement
<1>9. MissingOf(q) = Total(R \cup {n}, W) /\ GapsOf(q) = Total(R \cup {n}, X)
  BY <1>1, <1>4, <1>5, <1>8, MissingIsTotal, GapsIsTotal
<1> HIDE DEF W, X
<1>10. /\ Total(R \cup {n}, W) = Total(R, W) + W[n]
       /\ Total(R \cup {n}, X) = Total(R, X) + X[n]
  BY <1>3, <1>5, TotalAdd
<1> QED BY <1>6, <1>7, <1>9, <1>10 DEF Losses

\* A source reports what it counted for good and what it still waits for.
LEMMA ReportedIs ==
    ASSUME NEW s, NEW a, AccountOK(a), Follows(s, a)
    PROVE  /\ ReportedMissing(s) = Counted(s)
           /\ Waits(s, a) => ReportedGaps(s) = a.gaps + Cardinality(Hit(a))
<1>1. SourceOK(s) /\ IsFiniteSet(s.ranges) /\ s.ranges \in SUBSET s.ranges
  BY DEF Follows
<1>2. s.pending \cap Spans(s.ranges) = s.pending
  BY <1>1 DEF SourceOK, RangesConsistent, PendingInRanges, Spans
<1>3. Left(s.ranges) = Cardinality(s.pending)
  BY <1>1, <1>2, LeftCounts
<1>4. ASSUME Waits(s, a) PROVE ReportedGaps(s) = a.gaps + Cardinality(Hit(a))
  <2> DEFINE H == Hit(a)
             B == Spanned(s.ranges)
  <2>1. \A r \in s.ranges : /\ Span(r) \in a.jumps
                            /\ s.pending \cap Span(r) = Missed(a) \cap Span(r)
    BY <1>4 DEF Waits
  <2>2. Cardinality(Open(s.ranges)) = Cardinality(H \cap B)
    BY <1>1, <2>1, AOpen
  <2>3. s.gaps = a.gaps + Cardinality(H \ B)
    BY <1>4 DEF Waits
  <2>4. IsFiniteSet(H) /\ a.gaps \in Nat
    BY AMissed DEF AccountOK
  <2> HIDE DEF B, H
  <2>5. /\ Cardinality(H \ B) = Cardinality(H) - Cardinality(H \cap B)
        /\ Cardinality(H) \in Nat /\ Cardinality(H \cap B) \in Nat
    BY <2>4, FS_Difference, FS_Intersection, FS_CardinalityType
  <2>6. ReportedGaps(s) = a.gaps + Cardinality(H)
    BY <2>2, <2>3, <2>4, <2>5 DEF ReportedGaps
  <2> QED BY <2>6 DEF H
<1> QED BY <1>3, <1>4 DEF ReportedMissing, Counted

Few(q, g)  == \A i \in DOMAIN q : Cardinality(Skipped(q, g[i], i)) <= MaxPending
Rising(q)  == \A i, j \in DOMAIN q : i < j => q[i] < q[j]
\* A source that was given the numbers q.
AccountedBy(s, q, g, a) ==
    /\ Numbered(q, g) /\ AccountOK(a) /\ AccountOf(a, q, g) /\ Follows(s, a)
    /\ Few(q, g) => Agrees(s, a) /\ Waits(s, a)
    /\ Rising(q) => Agrees(s, a) /\ a.missed = 0 /\ g[Len(q)] = 1
SourceTrue(s, q) == IF q = <<>> THEN s = NewSource ELSE \E g, a : AccountedBy(s, q, g, a)

LEMMA AccountedReports ==
    ASSUME NEW s, NEW q, q # <<>>, SourceTrue(s, q)
    PROVE  /\ ReportedMissing(s) >= MissingOf(q)
           /\ Few(q, RunStart(q)) =>
                /\ ReportedMissing(s) = MissingOf(q)
                /\ ReportedGaps(s) = GapsOf(q)
           /\ Rising(q) => ReportedMissing(s) = Cardinality(Skipped(q, 1, Len(q)))
<1>1. PICK g, a : AccountedBy(s, q, g, a)
  BY DEF SourceTrue
<1>2. Numbered(q, g) /\ AccountOK(a) /\ AccountOf(a, q, g) /\ Follows(s, a)
  BY <1>1 DEF AccountedBy
<1>3. RunStart(q) = g
  BY <1>2, RunStartIs DEF Numbered
<1>4. MissingOf(q) = Losses(a) /\ GapsOf(q) = a.gaps + Cardinality(Hit(a))
  BY <1>2, AccountIs
<1>5. /\ ReportedMissing(s) = Counted(s)
      /\ Waits(s, a) => ReportedGaps(s) = a.gaps + Cardinality(Hit(a))
  BY <1>2, ReportedIs
<1>6. Counted(s) >= Losses(a)
  BY <1>2 DEF Follows
<1>7. Rising(q) => ReportedMissing(s) = Cardinality(Skipped(q, 1, Len(q)))
  <2> HAVE Rising(q)
  <2>1. Counted(s) = Losses(a) /\ a.missed = 0 /\ g[Len(q)] = 1
    BY <1>1 DEF AccountedBy, Agrees
  <2>2. Missed(a) = Skipped(q, 1, Len(q)) /\ Cardinality(Missed(a)) \in Nat
    BY <1>2, <2>1, AccountHits, AMissed
  <2> QED BY <1>5, <2>1, <2>2 DEF Losses
<1> QED BY <1>1, <1>3, <1>4, <1>5, <1>6, <1>7 DEF AccountedBy, Agrees
-----------------------------------------------------------------------------
\* The first number begins an account.
LEMMA AccountedFirst ==
    ASSUME NEW v \in Nat
    PROVE  SourceTrue(SeqStep(NewSource, v), <<v>>)
<1> DEFINE s == SeqStep(NewSource, v)
           q == <<v>>
           g == [i \in DOMAIN q |-> 1]
           a == [lo |-> v, seen |-> {v}, max |-> v, jumps |-> {}, missed |-> 0, gaps |-> 0]
<1>1. q \in Seq(Nat) /\ q # <<>> /\ Len(q) = 1 /\ DOMAIN q = {1} /\ q[1] = v
  OBVIOUS
<1>2. /\ SourceOK(s) /\ s.known /\ s.max = v /\ s.pending = {} /\ s.ranges = {}
      /\ s.missing = 0 /\ s.gaps = 0
  <2>1. SourceOK(s)
    BY LNew, LStep
  <2>2. s = [NewSource EXCEPT !.known = TRUE, !.max = v]
    BY DEF SeqStep, NewSource, Source
  <2>3. s = Source(TRUE, v, {}, {}, 0, 0, 0)
    BY <2>2 DEF NewSource, Source
  <2>4. /\ s.known /\ s.max = v /\ s.pending = {} /\ s.ranges = {}
        /\ s.missing = 0 /\ s.gaps = 0
    <3> HIDE DEF s
    <3> QED BY <2>3 DEF Source
  <2> QED BY <2>1, <2>4
<1>3. /\ a.lo = v /\ a.seen = {v} /\ a.max = v /\ a.jumps = {} /\ a.missed = 0 /\ a.gaps = 0
  OBVIOUS
<1>4. DOMAIN g = {1} /\ g[1] = 1
  BY <1>1
<1>5. IsRun(g, q)
  BY <1>1, <1>4 DEF IsRun
<1> HIDE DEF s, q, a
<1>6. Between(q, 1, 1) = {v}
  <2>1. \A k : k \in 1 .. 1 <=> k = 1
    OBVIOUS
  <2> QED BY <1>1, <2>1 DEF Between
<1>7. Numbered(q, g)
  <2>1. \A i \in 1 .. 1 : i = 1
    OBVIOUS
  <2> QED BY <1>1, <1>4, <1>5, <2>1 DEF Numbered
<1> HIDE DEF g
<1>8. AccountOK(a)
  <2>1. IsFiniteSet({v}) /\ IsFiniteSet({})
    BY FS_EmptySet, FS_Singleton
  <2>2. a.seen \subseteq Nat /\ IsFiniteSet(a.seen) /\ a.lo \in a.seen /\ a.max \in a.seen
    BY <1>3, <2>1
  <2>3. \A x \in a.seen : x <= a.max
    BY <1>3
  <2>4. IsFiniteSet(a.jumps) /\ a.jumps = {} /\ a.missed \in Nat /\ a.gaps \in Nat
    BY <1>3, <2>1
  <2> QED BY <2>2, <2>3, <2>4 DEF AccountOK
<1>9. RunsOver(q, g) = {}
  BY <1>1 DEF RunsOver
<1>10. \A w : Total({}, w) = 0
  <2> TAKE w
  <2>1. IsFiniteSet({}) /\ \A x \in {} : w[x] \in Nat
    BY FS_EmptySet
  <2> QED BY <2>1, TotalStep
<1>11. AccountOf(a, q, g)
  <2>1. \A i : i \notin 2 .. 1
    OBVIOUS
  <2>2. {JumpSpan(q, 1, i) : i \in 1 + 1 .. 1} = {}
    BY <2>1
  <2> QED BY <1>1, <1>3, <1>4, <1>6, <1>9, <1>10, <2>2 DEF AccountOf
<1>12. Missed(a) = {} /\ Hit(a) = {}
  <2>1. \A x \in v .. v : x = v
    OBVIOUS
  <2> QED BY <1>3, <2>1 DEF Missed, Hit
<1>13. Losses(a) = 0 /\ Counted(s) = 0
  BY <1>2, <1>3, <1>12, FS_EmptySet DEF Losses, Counted
<1>14. Follows(s, a)
  BY <1>2, <1>3, <1>13, FS_EmptySet DEF Follows
<1>15. Waits(s, a)
  BY <1>2, <1>3, <1>12, FS_EmptySet DEF Waits, Spanned
<1>16. AccountedBy(s, q, g, a)
  BY <1>1, <1>3, <1>4, <1>7, <1>8, <1>11, <1>13, <1>14, <1>15 DEF AccountedBy, Agrees
<1>17. SourceTrue(s, q)
  BY <1>1, <1>16 DEF SourceTrue
<1> QED BY <1>17 DEF s, q

\* Each number after it goes on with it.
LEMMA AccountedStep ==
    ASSUME NEW s, NEW q \in Seq(Nat), SourceTrue(s, q), NEW v \in Nat
    PROVE  SourceTrue(SeqStep(s, v), Append(q, v))
<1>1. CASE q = <<>>
  <2>1. Append(q, v) = <<v>> /\ s = NewSource
    BY <1>1 DEF SourceTrue
  <2> QED BY <2>1, AccountedFirst
<1>2. CASE q # <<>>
  <2>1. PICK g, a : AccountedBy(s, q, g, a)
    BY <1>2 DEF SourceTrue
  <2>2. Numbered(q, g) /\ AccountOK(a) /\ AccountOf(a, q, g) /\ Follows(s, a)
    BY <2>1 DEF AccountedBy
  <2> DEFINE n == Len(q)
             b == g[n]
             r == Append(q, v)
             m == Len(r)
             h == [i \in 1 .. n + 1 |->
                     IF i <= n THEN g[i]
                     ELSE IF v + PendingWindow < Max(Between(q, b, n)) THEN n + 1 ELSE b]
             t == SeqStep(s, v)
             back == v + PendingWindow < a.max
             c == [lo |-> IF back THEN v ELSE a.lo,
                   seen |-> IF back THEN {v} ELSE a.seen \cup {v},
                   max |-> IF back THEN v ELSE IF v > a.max THEN v ELSE a.max,
                   jumps |-> IF back THEN {}
                             ELSE IF v > a.max + 1 THEN a.jumps \cup {a.max + 1 .. v - 1}
                             ELSE a.jumps,
                   missed |-> IF back THEN a.missed + Cardinality(Missed(a)) ELSE a.missed,
                   gaps |-> IF back THEN a.gaps + Cardinality(Hit(a)) ELSE a.gaps]
  <2>3. NumberAdded(q, g, v, r, h)
    BY DEF NumberAdded
  <2>4. Restarted(a, v, c) \/ Continued(a, v, c)
    <3>1. CASE back
      BY <3>1 DEF Restarted
    <3>2. CASE ~back
      BY <3>2 DEF Continued
    <3> QED BY <3>1, <3>2
  <2>5. n \in Nat /\ n >= 1 /\ m = n + 1 /\ DOMAIN q = 1 .. n /\ DOMAIN r = 1 .. m /\ r # <<>>
        /\ b \in 1 .. n
    BY <2>2 DEF Numbered
  <2>6. r[m] = v /\ \A i \in 1 .. n : r[i] = q[i]
    <3>1. r[Len(q) + 1] = v
      BY QAppend
    <3>2. \A i \in 1 .. Len(q) : r[i] = q[i]
      BY QAppend
    <3> QED BY <2>5, <3>1, <3>2
  <2> HIDE DEF r, h, c, t
  <2>7. Numbered(r, h) /\ \A i \in 1 .. n : h[i] = g[i]
    BY <2>2, <2>3, NumberedGrow
  <2>8. AccountOK(c) /\ AccountOf(c, r, h)
    BY <2>2, <2>3, <2>4, AStep, AccountGrow
  <2>9. Kept(s, a, v, t, c)
    BY <2>2, <2>4, AFollow DEF t
  <2>10. /\ a.max = Max(Between(q, b, n)) /\ Missed(c) = Skipped(r, h[m], m)
    BY <2>2, <2>7, <2>8, AccountHits
  <2>11. ASSUME Few(r, h) PROVE Agrees(t, c) /\ Waits(t, c)
    <3>1. Few(q, g)
      <4> SUFFICES ASSUME NEW i \in 1 .. n PROVE Cardinality(Skipped(q, g[i], i)) <= MaxPending
        BY <2>5 DEF Few
      <4>1. Skipped(r, h[i], i) = Skipped(q, g[i], i)
        BY <2>2, <2>3, WeightsSame
      <4>2. i \in DOMAIN r
        BY <2>5
      <4> QED BY <2>11, <4>1, <4>2 DEF Few
    <3>2. m \in DOMAIN r
      BY <2>5
    <3>3. Cardinality(Missed(c)) <= MaxPending
      BY <2>10, <2>11, <3>2 DEF Few
    <3> QED BY <2>1, <2>9, <3>1, <3>3 DEF AccountedBy, Kept
  <2>12. ASSUME Rising(r) PROVE Agrees(t, c) /\ c.missed = 0 /\ h[m] = 1
    <3>1. \A i \in 1 .. n : i \in DOMAIN r /\ m \in DOMAIN r /\ i < m
      BY <2>5
    <3>2. Rising(q)
      BY <2>5, <2>6, <2>12, <3>1 DEF Rising
    <3>3. Agrees(s, a) /\ a.missed = 0 /\ b = 1
      BY <2>1, <3>2 DEF AccountedBy
    <3>4. \A i \in 1 .. n : q[i] < v
      BY <2>6, <2>12, <3>1 DEF Rising
    <3>5. a.max \in Between(q, b, n) /\ a.max \in Nat
      BY <2>2, AMissed DEF AccountOK, AccountOf
    <3>6. a.max < v
      <4>1. PICK i \in b .. n : a.max = q[i]
        BY <3>5 DEF Between
      <4>2. i \in 1 .. n
        BY <2>5, <4>1
      <4> QED BY <3>4, <4>1, <4>2
    <3>7. ~(v + PendingWindow < a.max) /\ v > a.max
      BY <3>5, <3>6, GapsAssumption
    <3>8. Agrees(t, c)
      BY <2>9, <3>3, <3>7 DEF Kept
    <3>9. c.missed = 0
      BY <2>4, <3>3, <3>7 DEF Restarted, Continued
    <3>10. h[m] = 1
      <4>1. m \in 1 .. n + 1 /\ ~(m <= n)
        BY <2>5
      <4> QED BY <2>10, <3>3, <3>7, <4>1 DEF h
    <3> QED BY <3>8, <3>9, <3>10
  <2>13. AccountedBy(t, r, h, c)
    BY <2>7, <2>8, <2>9, <2>11, <2>12 DEF AccountedBy, Kept
  <2>14. SourceTrue(t, r)
    BY <2>5, <2>13 DEF SourceTrue
  <2> QED BY <2>14 DEF t, r
<1> QED BY <1>1, <1>2

\* Where no number was seen none is missing.
LEMMA NothingMissing ==
    /\ MissingOf(<<>>) = 0 /\ GapsOf(<<>>) = 0
    /\ ReportedMissing(NewSource) = 0 /\ ReportedGaps(NewSource) = 0
<1> DEFINE q == <<>>
           g == RunStart(q)
<1>1. RunEnds(q, g) = {}
  BY DEF RunEnds
<1>2. \A w : Total({}, w) = 0
  <2> TAKE w
  <2>1. IsFiniteSet({}) /\ \A x \in {} : w[x] \in Nat
    BY FS_EmptySet
  <2> QED BY <2>1, TotalStep
<1> HIDE DEF q
<1>3. MissingOf(q) = 0 /\ GapsOf(q) = 0
  BY <1>1, <1>2, MissingIsTotal, GapsIsTotal, FS_EmptySet
<1>4. Left({}) = 0
  BY <1>2, LeftIsTotal, FS_EmptySet
<1>5. NewSource.ranges = {} /\ NewSource.gaps = 0 /\ NewSource.missing = 0
  BY DEF NewSource, Source
<1>6. Open({}) = {}
  BY DEF Open
<1>7. ReportedMissing(NewSource) = 0 /\ ReportedGaps(NewSource) = 0
  <2>1. Cardinality(Open({})) = 0
    BY <1>6, FS_EmptySet
  <2> QED BY <1>4, <1>5, <2>1 DEF ReportedMissing, ReportedGaps
<1> QED BY <1>3, <1>7 DEF q
-----------------------------------------------------------------------------
(***************************************************************************)
(* The lines of the capture, one unit after the other.                     *)
(***************************************************************************)
LinesBegin == [line |-> <<>>, ids |-> <<>>]
LinesStep(acc, u) ==
    IF u = NL
    THEN IF acc.line = <<>> THEN acc
         ELSE [line |-> <<>>, ids |-> Append(acc.ids, Head(acc.line))]
    ELSE [line |-> CarriedOn(acc.line, u), ids |-> acc.ids]
\* For each choice of units of o: its completed lines, by their first units, and the
\* incomplete one.
LinesOf(G, o) ==
    /\ G = [s \in SUBSET DOMAIN o |->
               IF s = {} THEN LinesBegin ELSE LinesStep(G[s \ {Max(s)}], o[Max(s)])]
    /\ \A s \in SUBSET DOMAIN o : G[s] \in [line : Seq(1 .. MaxLines), ids : Seq(1 .. MaxLines)]
NumbersOf(ids, nm) == [j \in 1 .. Len(ids) |-> nm[ids[j]]]

LEMMA MaxOf ==
    ASSUME NEW o \in Seq(Units), NEW s \in SUBSET DOMAIN o, s # {}
    PROVE  Max(s) \in s /\ \A y \in s : y <= Max(s)
<1>1. IsFiniteSet(DOMAIN o)
  <2>1. DOMAIN o = 1 .. Len(o) /\ Len(o) \in Nat
    OBVIOUS
  <2> QED BY <2>1, FS_Interval
<1>2. IsFiniteSet(s)
  BY <1>1, FS_Subset
<1>3. s \subseteq Nat
  <2>1. DOMAIN o \subseteq Nat
    OBVIOUS
  <2> QED BY <2>1
<1>4. s \subseteq Nat => Max(s) \in s /\ \A y \in s : y <= Max(s)
  BY <1>2, HasMax
<1> QED BY <1>3, <1>4

LEMMA NumbersAppend ==
    ASSUME NEW ids \in Seq(1 .. MaxLines), NEW e, NEW nm
    PROVE  NumbersOf(Append(ids, e), nm) = Append(NumbersOf(ids, nm), nm[e])
<1> DEFINE n == Len(ids)
           a == Append(ids, e)
           x == NumbersOf(ids, nm)
<1>1. n \in Nat /\ Len(a) = n + 1 /\ a[n + 1] = e /\ \A j \in 1 .. n : a[j] = ids[j]
  OBVIOUS
<1>2. x = [j \in 1 .. n |-> nm[ids[j]]]
  BY DEF NumbersOf
<1>3. NumbersOf(a, nm) = [j \in 1 .. n + 1 |-> nm[a[j]]]
  BY <1>1 DEF NumbersOf
<1> HIDE DEF n, a, x
<1>4. Len(x) = n
  BY <1>1, <1>2
<1>5. Append(x, nm[e]) = [j \in 1 .. n + 1 |-> IF j = n + 1 THEN nm[e] ELSE x[j]]
  BY <1>1, <1>2, <1>4
<1>6. \A j \in 1 .. n + 1 : nm[a[j]] = IF j = n + 1 THEN nm[e] ELSE x[j]
  <2> SUFFICES ASSUME NEW j \in 1 .. n + 1
               PROVE  nm[a[j]] = IF j = n + 1 THEN nm[e] ELSE x[j]
    OBVIOUS
  <2>1. j = n + 1 \/ (j \in 1 .. n /\ j # n + 1)
    BY <1>1
  <2> QED BY <1>1, <1>2, <2>1
<1>7. NumbersOf(a, nm) = Append(x, nm[e])
  BY <1>3, <1>5, <1>6
<1> QED BY <1>7 DEF a, x

\* What LogTail calls observed: the number of each completed line.
LEMMA ObservedIs ==
    ASSUME out \in Seq(Units), NEW G, LinesOf(G, out)
    PROVE  Observed = NumbersOf(G[DOMAIN out].ids, num)
<1> DEFINE X == DOMAIN out
           B == [line |-> <<>>, seen |-> <<>>]
           St(acc, u) == IF u = NL
                         THEN IF acc.line = <<>> THEN acc
                              ELSE [line |-> <<>>, seen |-> Append(acc.seen, num[Head(acc.line)])]
                         ELSE [acc EXCEPT !.line = CarriedOn(@, u)]
           good(k) == k = [s \in SUBSET X |->
                             IF s = {} THEN B ELSE St(k[s \ {Max(s)}], out[Max(s)])]
           h == CHOOSE k : good(k)
           it == [s \in SUBSET X |-> [line |-> G[s].line, seen |-> NumbersOf(G[s].ids, num)]]
<1>1. Observed = h[X].seen
  BY DEF Observed, FoldLeft, MapThenFoldSet
<1>2. /\ G = [s \in SUBSET X |->
               IF s = {} THEN LinesBegin ELSE LinesStep(G[s \ {Max(s)}], out[Max(s)])]
      /\ \A s \in SUBSET X : G[s] \in [line : Seq(1 .. MaxLines), ids : Seq(1 .. MaxLines)]
  BY DEF LinesOf
<1>3. \A s \in SUBSET X : s # {} => Max(s) \in s
  BY MaxOf
<1>4. IsFiniteSet(X)
  <2>1. X = 1 .. Len(out) /\ Len(out) \in Nat
    OBVIOUS
  <2> QED BY <2>1, FS_Interval
<1> HIDE DEF X, St
<1>5. ASSUME NEW s \in SUBSET X
      PROVE  it[s] = IF s = {} THEN B ELSE St(it[s \ {Max(s)}], out[Max(s)])
  <2>1. CASE s = {}
    <3>1. G[s].line = <<>> /\ G[s].ids = <<>>
      BY <1>2, <2>1 DEF LinesBegin
    <3>2. NumbersOf(<<>>, num) = <<>>
      BY DEF NumbersOf
    <3> QED BY <2>1, <3>1, <3>2
  <2>2. CASE s # {}
    <3> DEFINE r == s \ {Max(s)}
               u == out[Max(s)]
               p == G[r]
               z == NumbersOf(p.ids, num)
    <3>1. r \in SUBSET X
      OBVIOUS
    <3>2. G[s] = LinesStep(p, u)
      BY <1>2, <2>2
    <3>3. p \in [line : Seq(1 .. MaxLines), ids : Seq(1 .. MaxLines)]
      BY <1>2, <3>1
    <3>4. it[r] = [line |-> p.line, seen |-> z] /\ it[s] = [line |-> G[s].line, seen |-> NumbersOf(G[s].ids, num)]
      BY <3>1
    <3> HIDE DEF r, u, p, it, z
    <3>5. it[s] = St(it[r], u)
      <4>1. CASE u = NL /\ p.line = <<>>
        <5>1. G[s] = p
          BY <3>2, <4>1 DEF LinesStep
        <5>2. St(it[r], u) = it[r]
          BY <3>4, <4>1 DEF St
        <5> QED BY <3>4, <5>1, <5>2 DEF z
      <4>2. CASE u = NL /\ p.line # <<>>
        <5>1. G[s] = [line |-> <<>>, ids |-> Append(p.ids, Head(p.line))]
          BY <3>2, <4>2 DEF LinesStep
        <5>2. St(it[r], u) = [line |-> <<>>, seen |-> Append(z, num[Head(p.line)])]
          BY <3>4, <4>2 DEF St
        <5>3. NumbersOf(Append(p.ids, Head(p.line)), num) = Append(z, num[Head(p.line)])
          BY <3>3, NumbersAppend DEF z
        <5>4. G[s].line = <<>> /\ G[s].ids = Append(p.ids, Head(p.line))
          BY <5>1
        <5>5. it[s] = [line |-> <<>>, seen |-> Append(z, num[Head(p.line)])]
          BY <3>4, <5>3, <5>4, Zenon
        <5> QED BY <5>2, <5>5, Zenon
      <4>3. CASE u # NL
        <5>1. G[s] = [line |-> CarriedOn(p.line, u), ids |-> p.ids]
          BY <3>2, <4>3 DEF LinesStep
        <5>2. St(it[r], u) = [line |-> CarriedOn(p.line, u), seen |-> z]
          <6>1. St(it[r], u) = [it[r] EXCEPT !.line = CarriedOn(it[r].line, u)]
            BY <4>3 DEF St
          <6>2. it[r].line = p.line
            BY <3>4
          <6>3. \A x : [[line |-> p.line, seen |-> z] EXCEPT !.line = x] = [line |-> x, seen |-> z]
            OBVIOUS
          <6> QED BY <3>4, <6>1, <6>2, <6>3, Zenon
        <5> QED BY <3>4, <5>1, <5>2 DEF z
      <4> QED BY <4>1, <4>2, <4>3
    <3> QED BY <2>2, <3>5 DEF r, u
  <2> QED BY <2>1, <2>2
<1>6. DOMAIN it = SUBSET X
  OBVIOUS
<1>7. good(it)
  <2>1. it = [s \in SUBSET X |-> it[s]]
    OBVIOUS
  <2>2. [s \in SUBSET X |-> it[s]] = [s \in SUBSET X |->
                             IF s = {} THEN B ELSE St(it[s \ {Max(s)}], out[Max(s)])]
    <3> HIDE DEF it
    <3> QED BY <1>5
  <2> HIDE DEF it
  <2> QED BY <2>1, <2>2
<1>8. good(h)
  <2> HIDE DEF good, it
  <2> QED BY <1>7
<1> DEFINE D == {s \in SUBSET X : h[s] # it[s]}
<1>9. D = {}
  <2> SUFFICES ASSUME D # {} PROVE FALSE
    OBVIOUS
  <2>1. D \subseteq SUBSET X /\ D # {}
    OBVIOUS
  <2>2. PICK t \in D : \A s \in D : s \subseteq t => s = t
    <3> HIDE DEF D
    <3> QED BY <1>4, <2>1, FinMin
  <2>3. t \in SUBSET X /\ h[t] # it[t]
    BY <2>2
  <2> HIDE DEF h, it
  <2>4. h[t] = IF t = {} THEN B ELSE St(h[t \ {Max(t)}], out[Max(t)])
    BY <1>8, <2>3
  <2>5. it[t] = IF t = {} THEN B ELSE St(it[t \ {Max(t)}], out[Max(t)])
    BY <1>5, <2>3
  <2>6. t # {}
    BY <2>3, <2>4, <2>5
  <2>7. t \ {Max(t)} \notin D
    BY <1>3, <2>2, <2>3, <2>6
  <2>8. h[t \ {Max(t)}] = it[t \ {Max(t)}]
    BY <2>3, <2>7
  <2> QED BY <2>3, <2>4, <2>5, <2>8
<1>10. h[X] = it[X]
  <2>1. X \in SUBSET X
    OBVIOUS
  <2> HIDE DEF h, it
  <2> QED BY <1>9, <2>1
<1>11. it[X].seen = NumbersOf(G[X].ids, num)
  <2>1. X \in SUBSET X
    OBVIOUS
  <2> QED BY <2>1
<1> QED BY <1>1, <1>10, <1>11 DEF X
-----------------------------------------------------------------------------
LEMMA LinesGrow ==
    ASSUME NEW o \in Seq(Units), NEW G, LinesOf(G, o), NEW u \in Units, NEW q, q = Append(o, u)
    PROVE  \E H : LinesOf(H, q) /\ H[DOMAIN q] = LinesStep(G[DOMAIN o], u)
<1> DEFINE n == Len(o)
           A == [line : Seq(1 .. MaxLines), ids : Seq(1 .. MaxLines)]
           H == [s \in SUBSET DOMAIN q |->
                   IF n + 1 \in s THEN LinesStep(G[s \ {n + 1}], u) ELSE G[s]]
<1>1. /\ q \in Seq(Units) /\ DOMAIN o = 1 .. n /\ DOMAIN q = 1 .. n + 1 /\ n \in Nat
      /\ q[n + 1] = u /\ \A i \in 1 .. n : q[i] = o[i]
  OBVIOUS
<1>2. /\ G = [s \in SUBSET DOMAIN o |->
               IF s = {} THEN LinesBegin ELSE LinesStep(G[s \ {Max(s)}], o[Max(s)])]
      /\ \A s \in SUBSET DOMAIN o : G[s] \in A
  BY DEF LinesOf
<1> HIDE DEF n, A
<1>3. \A s \in SUBSET DOMAIN q : s \ {n + 1} \in SUBSET DOMAIN o
  BY <1>1
<1>4. \A s \in SUBSET DOMAIN q : H[s] = IF n + 1 \in s THEN LinesStep(G[s \ {n + 1}], u) ELSE G[s]
  OBVIOUS
<1>5. \A s \in SUBSET DOMAIN q : H[s] \in A
  <2> SUFFICES ASSUME NEW s \in SUBSET DOMAIN q PROVE H[s] \in A
    OBVIOUS
  <2>1. CASE n + 1 \notin s
    <3>1. s \in SUBSET DOMAIN o
      BY <1>3, <2>1
    <3> QED BY <1>2, <1>4, <2>1, <3>1
  <2>2. CASE n + 1 \in s
    <3> DEFINE p == G[s \ {n + 1}]
    <3>1. p \in A
      BY <1>2, <1>3
    <3>2. H[s] = LinesStep(p, u)
      BY <1>4, <2>2
    <3> HIDE DEF p, H
    <3>3. u # NL => u \in 1 .. MaxLines
      BY TailAssumption DEF Units, NL
    <3>4. p.line \in Seq(1 .. MaxLines) /\ p.ids \in Seq(1 .. MaxLines)
      BY <3>1 DEF A
    <3>5. p.line # <<>> => Head(p.line) \in 1 .. MaxLines
      BY <3>4, HeadTailProperties
    <3>6. u # NL => CarriedOn(p.line, u) \in Seq(1 .. MaxLines)
      <4> DEFINE l == p.line
      <4>1. l \in Seq(1 .. MaxLines)
        BY <3>4
      <4> HIDE DEF l
      <4> QED BY <3>3, <4>1, CarriedOnTyped DEF l
    <3>7. p.line # <<>> => Append(p.ids, Head(p.line)) \in Seq(1 .. MaxLines)
      BY <3>4, <3>5
    <3>8. <<>> \in Seq(1 .. MaxLines)
      OBVIOUS
    <3> QED BY <3>1, <3>2, <3>4, <3>6, <3>7, <3>8 DEF LinesStep, A
  <2> QED BY <2>1, <2>2
<1>6. ASSUME NEW s \in SUBSET DOMAIN q
      PROVE  H[s] = IF s = {} THEN LinesBegin ELSE LinesStep(H[s \ {Max(s)}], q[Max(s)])
  <2>0. s \ {Max(s)} \in SUBSET DOMAIN q
    OBVIOUS
  <2>1. CASE n + 1 \in s
    <3>1. Max(s) = n + 1
      <4>1. s \subseteq Nat /\ \A y \in s : y <= n + 1
        BY <1>1
      <4> HIDE DEF H
      <4> QED BY <2>1, <4>1, MaxIs
    <3>2. H[s \ {n + 1}] = G[s \ {n + 1}]
      BY <1>4, <2>0, <3>1
    <3> HIDE DEF H
    <3> QED BY <1>1, <1>4, <2>1, <3>1, <3>2
  <2>2. CASE n + 1 \notin s
    <3>1. s \in SUBSET DOMAIN o /\ s \ {Max(s)} \in SUBSET DOMAIN o
      BY <1>3, <2>2
    <3>2. G[s] = IF s = {} THEN LinesBegin ELSE LinesStep(G[s \ {Max(s)}], o[Max(s)])
      BY <1>2, <3>1
    <3>3. s # {} => Max(s) \in s
      BY <3>1, MaxOf
    <3>4. s # {} => q[Max(s)] = o[Max(s)]
      BY <1>1, <3>1, <3>3
    <3>5. H[s] = G[s] /\ H[s \ {Max(s)}] = G[s \ {Max(s)}]
      BY <1>4, <2>0, <2>2
    <3> HIDE DEF H
    <3> QED BY <3>2, <3>4, <3>5
  <2> QED BY <2>1, <2>2
<1>7. H = [s \in SUBSET DOMAIN q |->
             IF s = {} THEN LinesBegin ELSE LinesStep(H[s \ {Max(s)}], q[Max(s)])]
  <2>1. H = [s \in SUBSET DOMAIN q |-> H[s]]
    OBVIOUS
  <2> HIDE DEF H
  <2> QED BY <1>6, <2>1
<1>8. H[DOMAIN q] = LinesStep(G[DOMAIN o], u)
  <2>1. n + 1 \in DOMAIN q /\ DOMAIN q \ {n + 1} = DOMAIN o /\ DOMAIN q \in SUBSET DOMAIN q
    BY <1>1
  <2> HIDE DEF H
  <2> QED BY <1>4, <2>1
<1> HIDE DEF H
<1>9. LinesOf(H, q)
  BY <1>5, <1>7 DEF LinesOf, A
<1> QED BY <1>8, <1>9

\* The lines completed, by their first units, were numbered and accounted for; as
\* long as nothing went wrong they are what the capture holds, in order.
SeenAs(ids) ==
    /\ ids \in Seq(1 .. MaxLines) /\ \A j \in 1 .. Len(ids) : num[ids[j]] \in Numbers
    /\ SourceTrue(src, NumbersOf(ids, num))
InIds(ids) == {ids[j] : j \in 1 .. Len(ids)}
OrderedAs(ids) ==
    (bounds.faults = 0 /\ ~skipped) =>
        /\ Captured \ Long = InIds(ids) \cup Lines(carry)
        /\ \A i, j \in 1 .. Len(ids) : i < j => ids[i] < ids[j]
        /\ \A x \in InIds(ids), y \in Lines(carry) : x < y
SeenInv ==
    \E G : /\ LinesOf(G, out) /\ carry = G[DOMAIN out].line
           /\ SeenAs(G[DOMAIN out].ids) /\ OrderedAs(G[DOMAIN out].ids)

LEMMA NumbersNat ==
    ASSUME NEW ids, SeenAs(ids)
    PROVE  NumbersOf(ids, num) \in Seq(Nat)
<1>1. Len(ids) \in Nat
  BY DEF SeenAs
<1>2. \A j \in 1 .. Len(ids) : num[ids[j]] \in Nat
  BY TailAssumption DEF SeenAs
<1> DEFINE n == Len(ids)
<1> HIDE DEF n
<1>3. [j \in 1 .. n |-> num[ids[j]]] \in Seq(Nat)
  BY <1>1, <1>2 DEF n
<1> QED BY <1>3 DEF NumbersOf, n

\* What a unit of the capture does to them.
LEMMA SeenObserve ==
    ASSUME SinkOK, NEW ids, SeenAs(ids), NEW u \in Units, Observe(u),
           NEW p, p = LinesStep([line |-> carry, ids |-> ids], u)
    PROVE  SeenAs(p.ids)' /\ carry' = p.line
<1>0. ids \in Seq(1 .. MaxLines) /\ carry \in Seq(1 .. MaxLines)
      /\ num \in [1 .. MaxLines -> Numbers \cup {Unread}]
  BY DEF SeenAs, SinkOK
<1>1. CASE u # NL
  <2>1. carry' = CarriedOn(carry, u) /\ UNCHANGED <<src, num>>
    BY <1>1 DEF Observe
  <2>2. p.ids = ids /\ p.line = CarriedOn(carry, u)
    BY <1>1 DEF LinesStep
  <2> QED BY <2>1, <2>2 DEF SeenAs
<1>2. CASE u = NL /\ carry = <<>>
  <2>1. carry' = <<>> /\ UNCHANGED <<src, num>>
    BY <1>2 DEF Observe
  <2>2. p.ids = ids /\ p.line = <<>>
    BY <1>2 DEF LinesStep
  <2> QED BY <2>1, <2>2 DEF SeenAs
<1>3. CASE u = NL /\ carry # <<>>
  <2> DEFINE e == Head(carry)
             jds == Append(ids, e)
             n == Len(ids)
  <2>1. PICK v \in NumberOf(e) : num' = [num EXCEPT ![e] = v] /\ src' = SeqStep(src, v)
    BY <1>3 DEF Observe
  <2>2. carry' = <<>>
    BY <1>3 DEF Observe
  <2>3. p.ids = jds /\ p.line = <<>>
    BY <1>3 DEF LinesStep
  <2>4. e \in 1 .. MaxLines
    BY <1>0, <1>3, HeadTailProperties
  <2> HIDE DEF e
  <2>5. /\ jds \in Seq(1 .. MaxLines) /\ Len(jds) = n + 1 /\ n \in Nat /\ jds[n + 1] = e
        /\ \A j \in 1 .. n : jds[j] = ids[j] /\ ids[j] \in 1 .. MaxLines
    <3>1. jds \in Seq(1 .. MaxLines) /\ Len(jds) = Len(ids) + 1 /\ jds[Len(ids) + 1] = e
          /\ \A j \in 1 .. Len(ids) : jds[j] = ids[j]
      BY <1>0, <2>4, AppendProperties
    <3>2. \A j \in 1 .. Len(ids) : ids[j] \in 1 .. MaxLines
      BY <1>0, ElementOfSeq
    <3>3. Len(ids) \in Nat
      BY <1>0
    <3> QED BY <3>1, <3>2, <3>3
  <2> HIDE DEF jds, n
  <2>6. v \in Numbers /\ v \in Nat /\ (num[e] # Unread => v = num[e])
    <3>1. num[e] \in Numbers \cup {Unread}
      BY <1>0, <2>4
    <3> QED BY <2>1, <3>1, TailAssumption DEF NumberOf
  <2>7. num'[e] = v /\ \A x \in 1 .. MaxLines : x # e => num'[x] = num[x]
    BY <1>0, <2>1, <2>4
  <2>8. \A j \in 1 .. n : num'[ids[j]] = num[ids[j]] /\ num[ids[j]] \in Numbers
    <3> SUFFICES ASSUME NEW j \in 1 .. n
                 PROVE  num'[ids[j]] = num[ids[j]] /\ num[ids[j]] \in Numbers
      OBVIOUS
    <3>1. num[ids[j]] \in Numbers
      BY DEF SeenAs, n
    <3>2. num[ids[j]] # Unread
      BY <3>1, TailAssumption DEF Unread
    <3>3. CASE ids[j] = e
      BY <2>6, <2>7, <3>1, <3>2, <3>3
    <3>4. CASE ids[j] # e
      BY <2>5, <2>7, <3>1, <3>4
    <3> QED BY <3>3, <3>4
  <2>9. NumbersOf(ids, num') = NumbersOf(ids, num)
    BY <2>8 DEF NumbersOf, n
  <2>10. NumbersOf(jds, num') = Append(NumbersOf(ids, num), v)
    <3>1. NumbersOf(Append(ids, e), num') = Append(NumbersOf(ids, num'), num'[e])
      BY <1>0, NumbersAppend
    <3> QED BY <2>7, <2>9, <3>1 DEF jds
  <2>11. SourceTrue(src', NumbersOf(jds, num'))
    <3>1. NumbersOf(ids, num) \in Seq(Nat)
      BY NumbersNat
    <3>2. SourceTrue(src, NumbersOf(ids, num))
      BY DEF SeenAs
    <3> QED BY <2>1, <2>6, <2>10, <3>1, <3>2, AccountedStep
  <2>12. \A j \in 1 .. n + 1 : num'[jds[j]] \in Numbers
    <3>1. \A j \in 1 .. n + 1 : j \in 1 .. n \/ j = n + 1
      BY <2>5
    <3> QED BY <2>5, <2>6, <2>7, <2>8, <3>1
  <2> QED BY <2>2, <2>3, <2>5, <2>11, <2>12 DEF SeenAs
<1> QED BY <1>1, <1>2, <1>3
-----------------------------------------------------------------------------
LEMMA LinesAppend ==
    ASSUME NEW c \in Seq(1 .. MaxLines), NEW u \in 1 .. MaxLines
    PROVE  Lines(Append(c, u)) = Lines(c) \cup {u}
<1> DEFINE n == Len(c)
           d == Append(c, u)
<1>1. /\ Len(d) = n + 1 /\ d[n + 1] = u /\ \A i \in 1 .. n : d[i] = c[i]
      /\ d \in Seq(1 .. MaxLines)
  BY AppendProperties
<1>2. n \in Nat /\ DOMAIN c = 1 .. n /\ DOMAIN d = 1 .. n + 1
  BY <1>1
<1>3. u # NL
  BY DEF NL
<1> HIDE DEF n, d
<1>4. \A i \in 1 .. n + 1 : i \in 1 .. n \/ i = n + 1
  BY <1>2
<1>5. n + 1 \in 1 .. n + 1 /\ \A i \in 1 .. n : i \in 1 .. n + 1
  BY <1>2
<1>6. Lines(d) = Lines(c) \cup {u}
  BY <1>1, <1>2, <1>3, <1>4, <1>5 DEF Lines
<1> QED BY <1>6 DEF d

\* The next unit leaves the completed lines in order, being the end of a line begun.
GoesOn(u) == (bounds.faults = 0 /\ ~skipped) => (carry # <<>> => u = NL)
LEMMA OrderedEmit ==
    ASSUME SinkOK, OutOK, NEW ids, SeenAs(ids), OrderedAs(ids), LinesApart, LinesInOrder',
           NEW u \in Units, Emit(u), GoesOn(u), UNCHANGED <<skipped, bounds>>,
           NEW p, p = LinesStep([line |-> carry, ids |-> ids], u)
    PROVE  OrderedAs(p.ids)'
<1> SUFFICES ASSUME bounds.faults = 0, ~skipped
             PROVE  /\ Captured' \ Long = InIds(p.ids) \cup Lines(carry')
                    /\ \A i, j \in 1 .. Len(p.ids) : i < j => p.ids[i] < p.ids[j]
                    /\ \A x \in InIds(p.ids), y \in Lines(carry') : x < y
  BY DEF OrderedAs, InIds, Lines
<1>0. /\ ids \in Seq(1 .. MaxLines) /\ carry \in Seq(1 .. MaxLines) /\ out \in Seq(Units)
      /\ out' = Append(out, u) /\ Observe(u)
  BY DEF SeenAs, SinkOK, OutOK, Emit
<1>1. /\ Captured \ Long = InIds(ids) \cup Lines(carry)
      /\ \A i, j \in 1 .. Len(ids) : i < j => ids[i] < ids[j]
      /\ \A x \in InIds(ids), y \in Lines(carry) : x < y
      /\ carry # <<>> => u = NL
  BY DEF OrderedAs, GoesOn
<1>2. \A v : v \in Captured' <=> v \in Captured \/ (v = u /\ u # NL)
  BY <1>0, Emitted
<1>6. CASE u # NL /\ u \in Long
  <2>1. carry = <<>> /\ carry' = <<>> /\ p.ids = ids
    BY <1>0, <1>1, <1>6 DEF Observe, LinesStep, CarriedOn
  <2>2. Captured' \ Long = Captured \ Long
    BY <1>2, <1>6
  <2> QED BY <1>1, <2>1, <2>2
<1>3. CASE u # NL /\ u \notin Long
  <2>1. u \in 1 .. MaxLines
    BY <1>3, TailAssumption DEF Units, NL
  <2>2. carry' = Append(carry, u)
    BY <1>0, <1>3 DEF Observe, CarriedOn
  <2>3. p.ids = ids
    BY <1>3 DEF LinesStep
  <2>4. Lines(carry') = Lines(carry) \cup {u}
    BY <1>0, <2>1, <2>2, LinesAppend
  <2>5. ASSUME NEW x \in Captured PROVE x < u
    <3>1. PICK i \in DOMAIN out : x = out[i] /\ x # NL
      BY DEF Captured, Lines
    <3> DEFINE n == Len(out)
    <3>2. /\ n \in Nat /\ DOMAIN out = 1 .. n /\ out'[n + 1] = u /\ out'[i] = out[i]
          /\ DOMAIN out' = 1 .. n + 1
      BY <1>0
    <3> HIDE DEF n
    <3>3. i \in DOMAIN out' /\ n + 1 \in DOMAIN out' /\ i < n + 1
      BY <3>2
    <3> QED BY <1>3, <3>1, <3>2, <3>3 DEF LinesInOrder
  <2>6. Captured' \ Long = InIds(ids) \cup Lines(carry')
    BY <1>1, <1>2, <1>3, <2>4
  <2>7. \A x \in InIds(ids), y \in Lines(carry') : x < y
    BY <1>1, <2>4, <2>5
  <2> QED BY <1>1, <2>3, <2>6, <2>7
<1>4. CASE u = NL /\ carry = <<>>
  <2>1. carry' = carry
    BY <1>0, <1>4 DEF Observe
  <2>2. p.ids = ids
    BY <1>4 DEF LinesStep
  <2>3. Captured' \ Long = Captured \ Long
    BY <1>2, <1>4
  <2> QED BY <1>1, <2>1, <2>2, <2>3
<1>5. CASE u = NL /\ carry # <<>>
  <2>1. carry' = <<>>
    BY <1>0, <1>5 DEF Observe
  <2>3. PICK e \in 1 .. MaxLines : e = Head(carry)
    BY <1>0, <1>5, HeadTailProperties
  <2>51. PICK jds, n : n = Len(ids) /\ jds = Append(ids, e)
    OBVIOUS
  <2>2. p.ids = jds
    BY <1>5, <2>3, <2>51 DEF LinesStep
  <2>4. Lines(carry) = {e} /\ Lines(carry') = {}
    <3>1. Len(carry) = 1
      <4>1. Len(carry) <= 1 /\ Len(carry) \in Nat /\ Len(carry) # 0
        BY <1>0, <1>5 DEF LinesApart
      <4> DEFINE k == Len(carry)
      <4> HIDE DEF k
      <4>2. k <= 1 /\ k \in Nat /\ k # 0 => k = 1
        OBVIOUS
      <4> QED BY <4>1, <4>2 DEF k
    <3>2. DOMAIN carry = {1} /\ carry[1] = e
      BY <1>0, <2>3, <3>1
    <3>3. e # NL
      BY DEF NL
    <3>4. Lines(<<>>) = {}
      BY DEF Lines
    <3> QED BY <2>1, <3>2, <3>3, <3>4 DEF Lines
  <2>52. ids \in Seq(1 .. MaxLines)
    BY <1>0
  <2>5. /\ InIds(jds) = InIds(ids) \cup {e} /\ Len(jds) = n + 1
        /\ \A i \in 1 .. n + 1 : \/ i \in 1 .. n /\ jds[i] = ids[i]
                                 \/ i = n + 1 /\ jds[i] = e
    <3>1. Len(jds) = n + 1 /\ jds[n + 1] = e /\ \A i \in 1 .. n : jds[i] = ids[i]
      BY <2>51, <2>52, AppendProperties
    <3>2. n \in Nat
      BY <2>51, <2>52
    <3>3. /\ \A i \in 1 .. n + 1 : i \in 1 .. n \/ i = n + 1
          /\ n + 1 \in 1 .. n + 1 /\ \A i \in 1 .. n : i \in 1 .. n + 1
      BY <3>2
    <3>4. InIds(jds) = {jds[i] : i \in 1 .. n + 1} /\ InIds(ids) = {ids[i] : i \in 1 .. n}
      BY <2>51, <3>1 DEF InIds
    <3>5. InIds(jds) = InIds(ids) \cup {e}
      BY <3>1, <3>3, <3>4
    <3>6. \A i \in 1 .. n + 1 : \/ i \in 1 .. n /\ jds[i] = ids[i]
                                \/ i = n + 1 /\ jds[i] = e
      BY <3>1, <3>3
    <3> QED BY <3>1, <3>5, <3>6
  <2>6. n \in Nat /\ \A i \in 1 .. n : ids[i] \in InIds(ids)
    BY <1>0, <2>51 DEF InIds
  <2>7. Captured' \ Long = InIds(jds) \cup Lines(carry')
    BY <1>1, <1>2, <1>5, <2>4, <2>5
  <2>8. ASSUME NEW i \in 1 .. Len(jds), NEW j \in 1 .. Len(jds), i < j PROVE jds[i] < jds[j]
    <3>1. i \in 1 .. n /\ jds[i] = ids[i]
      BY <2>5, <2>6, <2>8
    <3>2. CASE j \in 1 .. n /\ jds[j] = ids[j]
      BY <1>1, <2>51, <2>8, <3>1, <3>2
    <3>3. CASE j = n + 1 /\ jds[j] = e
      <4>1. e \in Lines(carry) /\ ids[i] \in InIds(ids)
        BY <2>4, <2>6, <3>1
      <4> QED BY <1>1, <3>1, <3>3, <4>1
    <3> QED BY <2>5, <3>2, <3>3
  <2>9. \A x \in InIds(jds), y \in Lines(carry') : x < y
    BY <2>4
  <2> QED BY <2>2, <2>7, <2>8, <2>9
<1> QED BY <1>3, <1>4, <1>5, <1>6

\* A step hands the source a unit of the capture, or leaves both alone.
LEMMA SinkSteps ==
    ASSUME TailInv, ApartInv, [Next]_vars
    PROVE  \/ UNCHANGED sinkVars /\ (skipped => skipped')
           \/ \E u \in Units : Emit(u) /\ GoesOn(u) /\ UNCHANGED <<skipped, bounds>>
<1>0. TailInv
  OBVIOUS
<1>1. CASE Daemon
  BY <1>1 DEF Daemon, WriteLine, WriteEnd, Reopen, ghostVars
<1>2. CASE Rotation
  BY <1>2 DEF Rotation, Rename, Create, Truncate, ghostVars
<1>3. CASE PollOpens \/ Poll \/ Read \/ ReadNothing \/ StatMoved \/ StatSame
  BY <1>3 DEF PollOpens, Poll, Read, ReadNothing, StatMoved, StatSame, ghostVars
<1>4. CASE Copy
  <2>1. buf # <<>> /\ Emit(Head(buf)) /\ UNCHANGED ghostVars
    BY <1>4 DEF Copy
  <2>2. Head(buf) \in Units
    BY <2>1, HeadTailProperties DEF TailInv, PollOK
  <2>3. GoesOn(Head(buf))
    BY <2>1 DEF ApartInv, GoesOn
  <2> QED BY <2>1, <2>2, <2>3 DEF ghostVars
<1>5. CASE StatCut \/ CloseOld
  <2>1. EndLine /\ UNCHANGED <<skipped, bounds>>
    BY <1>5 DEF StatCut, CloseOld
  <2>2. NL \in Units
    BY TailAssumption DEF NL, Units
  <2>3. Emit(NL) \/ UNCHANGED sinkVars
    BY <2>1 DEF EndLine
  <2>4. GoesOn(NL)
    BY DEF GoesOn
  <2> QED BY <2>1, <2>2, <2>3, <2>4
<1>6. CASE CopyFails
  BY <1>6 DEF CopyFails
<1>7. CASE UNCHANGED vars
  BY <1>7 DEF vars, ghostVars
<1> QED BY <1>1, <1>2, <1>3, <1>4, <1>5, <1>6, <1>7 DEF Next, Tailer

LEMMA SeenStep ==
    ASSUME TailInv, OutOK, SeenInv, ApartInv, InOrder, InOrder', [Next]_vars
    PROVE  SeenInv'
<1>1. PICK G, ids : /\ LinesOf(G, out) /\ carry = G[DOMAIN out].line
                    /\ ids = G[DOMAIN out].ids /\ SeenAs(ids) /\ OrderedAs(ids)
  BY DEF SeenInv
<1>2. CASE UNCHANGED sinkVars /\ (skipped => skipped')
  <2>1. UNCHANGED <<out, carry, src, num>>
    BY <1>2 DEF sinkVars
  <2>2. bounds'.faults = 0 => bounds.faults = 0
    <3>1. bounds.faults \in Nat /\ bounds'.faults \in Nat /\ bounds.faults <= bounds'.faults
      BY CaptureGrows DEF OutOK
    <3> QED BY <3>1
  <2>4. SeenAs(ids)'
    BY <1>1, <2>1 DEF SeenAs
  <2>5. OrderedAs(ids)'
    BY <1>1, <1>2, <2>1, <2>2 DEF OrderedAs, Captured
  <2>6. LinesOf(G, out)' /\ carry' = G[DOMAIN out'].line /\ ids = G[DOMAIN out'].ids
    BY <1>1, <2>1 DEF LinesOf
  <2> QED BY <2>4, <2>5, <2>6 DEF SeenInv
<1>3. ASSUME NEW u \in Units, Emit(u), GoesOn(u), UNCHANGED <<skipped, bounds>>
      PROVE  SeenInv'
  <2>1. out \in Seq(Units) /\ out' = Append(out, u) /\ Observe(u) /\ SinkOK
    BY <1>3 DEF OutOK, Emit, TailInv
  <2>2. PICK H, p : LinesOf(H, out)' /\ p = H[DOMAIN out'] /\ p = LinesStep(G[DOMAIN out], u)
    BY <1>1, <2>1, LinesGrow
  <2>3. G[DOMAIN out] = [line |-> carry, ids |-> ids]
    <3>1. G[DOMAIN out] \in [line : Seq(1 .. MaxLines), ids : Seq(1 .. MaxLines)]
      BY <1>1 DEF LinesOf
    <3> QED BY <1>1, <3>1
  <2>5. p = LinesStep([line |-> carry, ids |-> ids], u)
    BY <2>2, <2>3
  <2>6. SeenAs(p.ids)' /\ carry' = p.line
    BY <1>1, <2>1, <2>5, SeenObserve
  <2>7. OrderedAs(p.ids)'
    BY <1>1, <1>3, <2>1, <2>5, OrderedEmit DEF InOrder
  <2> QED BY <2>2, <2>6, <2>7 DEF SeenInv
<1> QED BY <1>2, <1>3, SinkSteps
-----------------------------------------------------------------------------
LEMMA MinIs ==
    ASSUME NEW S, NEW x \in S
    PROVE  S \subseteq Nat /\ (\A y \in S : x <= y) => Min(S) = x
<1> SUFFICES ASSUME S \subseteq Nat, \A y \in S : x <= y PROVE Min(S) = x
  OBVIOUS
<1> DEFINE P(m) == m \in S /\ \A y \in S : m <= y
<1>1. P(x)
  OBVIOUS
<1>2. \A m : P(m) => m = x
  OBVIOUS
<1>3. Min(S) = CHOOSE m : P(m)
  BY DEF Min
<1> HIDE DEF P
<1> QED BY <1>1, <1>2, <1>3

\* Lines numbered in order: as many numbers are left out as lines.
LEMMA AsManyNumbers ==
    ASSUME NEW S, S \subseteq Nat, NEW ids \in Seq(S), ids # <<>>, NEW q \in Seq(Nat),
           Len(q) = Len(ids),
           \A i, j \in 1 .. Len(ids) : i < j => ids[i] < ids[j],
           \A i, j \in 1 .. Len(ids) : q[i] - q[j] = ids[i] - ids[j]
    PROVE  /\ Rising(q)
           /\ Cardinality(Skipped(q, 1, Len(q)))
                = Cardinality((Min(InIds(ids)) .. Max(InIds(ids))) \ InIds(ids))
           /\ Min(InIds(ids)) \in Nat /\ Max(InIds(ids)) \in Nat
<1> DEFINE n == Len(ids)
           I == InIds(ids)
           B == Between(q, 1, n)
           d == q[1] - ids[1]
           lo == ids[1]
           hi == ids[n]
           T == (lo .. hi) \ I
           W == (lo + d .. hi + d) \ B
           h == [x \in T |-> x + d]
<1>1. n \in Nat /\ n # 0
  OBVIOUS
<1>2. 1 \in 1 .. n /\ n \in 1 .. n /\ 1 <= n
  BY <1>1
<1>3. \A i \in 1 .. n : ids[i] \in Nat /\ q[i] \in Nat
  <2> TAKE i \in 1 .. n
  <2>1. ids[i] \in S
    BY ElementOfSeq
  <2>2. q[i] \in Nat
    BY ElementOfSeq
  <2> QED BY <2>1, <2>2
<1>4. \A i \in 1 .. n : q[i] = ids[i] + d
  <2> TAKE i \in 1 .. n
  <2>1. q[i] - q[1] = ids[i] - ids[1]
    BY <1>2
  <2>2. ids[i] \in Nat /\ ids[1] \in Nat /\ q[i] \in Nat /\ q[1] \in Nat
    BY <1>2, <1>3
  <2> DEFINE a == q[i]
             b == q[1]
             x == ids[i]
             y == ids[1]
  <2>3. a - b = x - y /\ a \in Nat /\ b \in Nat /\ x \in Nat /\ y \in Nat
    BY <2>1, <2>2
  <2> HIDE DEF a, b, x, y
  <2>4. a = x + (b - y)
    BY <2>3
  <2> QED BY <2>4 DEF a, b, x, y
<1>5. d \in Int /\ lo \in Nat /\ hi \in Nat
  BY <1>2, <1>3
<1>6. \A i \in 1 .. n : lo <= ids[i] /\ ids[i] <= hi
  <2> TAKE i \in 1 .. n
  <2>1. i = 1 \/ 1 < i
    BY <1>1
  <2>2. i = n \/ i < n
    BY <1>1
  <2>3. 1 < i => ids[1] < ids[i]
    BY <1>2
  <2>4. i < n => ids[i] < ids[n]
    BY <1>2
  <2>5. ids[i] \in Nat
    BY <1>3
  <2> QED BY <1>5, <2>1, <2>2, <2>3, <2>4, <2>5
<1>7. I = {ids[i] : i \in 1 .. n} /\ B = {q[i] : i \in 1 .. n}
  BY DEF InIds, Between
<1>20. Rising(q)
  <2>1. DOMAIN q = 1 .. n
    OBVIOUS
  <2>2. ASSUME NEW i \in 1 .. n, NEW j \in 1 .. n, i < j PROVE q[i] < q[j]
    <3>1. ids[i] < ids[j]
      BY <2>2
    <3>2. q[i] = ids[i] + d /\ q[j] = ids[j] + d
      BY <1>4
    <3>3. ids[i] \in Nat /\ ids[j] \in Nat
      BY <1>3
    <3> HIDE DEF d
    <3> QED BY <1>5, <3>1, <3>2, <3>3
  <2> QED BY <2>1, <2>2 DEF Rising
<1>21. Len(q) = n /\ ids[1] = lo /\ ids[n] = hi /\ q[1] = lo + d /\ q[n] = hi + d
  BY <1>2, <1>4
<1> HIDE DEF n, I, B, d, lo, hi
<1>8. I \subseteq Nat /\ B \subseteq Nat
  BY <1>3, <1>7
<1>9. Min(I) = lo /\ Max(I) = hi
  <2>1. lo \in I /\ hi \in I
    BY <1>2, <1>7, <1>21
  <2>2. \A y \in I : lo <= y /\ y <= hi
    BY <1>6, <1>7
  <2> QED BY <1>8, <2>1, <2>2, MinIs, MaxIs
<1>10. Max(B) = hi + d
  <2>1. hi + d \in B
    BY <1>2, <1>7, <1>21
  <2>2. \A i \in 1 .. n : q[i] <= hi + d
    BY <1>3, <1>4, <1>5, <1>6
  <2>3. \A y \in B : y <= hi + d
    BY <1>7, <2>2
  <2> QED BY <1>8, <2>1, <2>3, MaxIs
<1>11. Skipped(q, 1, Len(q)) = W
  BY <1>10, <1>21 DEF Skipped, B
<1>12. \A x \in lo .. hi : x \in Int /\ (x \in I <=> x + d \in B)
  <2> TAKE x \in lo .. hi
  <2>1. x \in Int
    BY <1>5
  <2>2. ASSUME NEW i \in 1 .. n PROVE ids[i] = x <=> q[i] = x + d
    <3>1. ids[i] \in Nat /\ q[i] = ids[i] + d
      BY <1>3, <1>4
    <3>2. \A k \in Nat : k = x <=> k + d = x + d
      BY <1>5, <2>1
    <3> QED BY <3>1, <3>2
  <2> QED BY <1>7, <2>1, <2>2
<1>13. h \in Bijection(T, W)
  <2>1. \A x \in T : x \in Int /\ h[x] = x + d /\ h[x] \in W
    <3> TAKE x \in T
    <3>1. x \in lo .. hi /\ x \notin I
      OBVIOUS
    <3>2. x \in Int /\ x + d \notin B
      BY <1>12, <3>1
    <3>3. x + d \in lo + d .. hi + d
      BY <1>5, <3>1
    <3> QED BY <3>2, <3>3
  <2>2. \A y \in W : \E x \in T : h[x] = y
    <3> TAKE y \in W
    <3>1. y \in lo + d .. hi + d /\ y \notin B
      OBVIOUS
    <3>2. y - d \in lo .. hi /\ (y - d) + d = y
      BY <1>5, <3>1
    <3>3. y - d \notin I
      BY <1>12, <3>1, <3>2
    <3>4. y - d \in T
      BY <3>2, <3>3
    <3> QED BY <3>2, <3>4
  <2>3. \A x, y \in T : h[x] = h[y] => x = y
    <3> TAKE x, y \in T
    <3>1. x \in Int /\ y \in Int /\ h[x] = x + d /\ h[y] = y + d
      BY <2>1
    <3> HIDE DEF h
    <3> QED BY <1>5, <3>1
  <2>4. h \in [T -> W]
    BY <2>1
  <2> HIDE DEF h, T, W
  <2>5. h \in Surjection(T, W)
    BY <2>2, <2>4 DEF Surjection
  <2>6. h \in Injection(T, W)
    BY <2>3, <2>4 DEF Injection, IsInjective
  <2> QED BY <2>5, <2>6 DEF Bijection
<1>14. IsFiniteSet(T)
  <2>1. IsFiniteSet(lo .. hi)
    BY <1>5, FS_Interval
  <2> QED BY <2>1, FS_Subset
<1>15. Cardinality(W) = Cardinality(T)
  <2> HIDE DEF h, T, W
  <2> QED BY <1>13, <1>14, FS_Bijection DEF ExistsBijection
<1> QED BY <1>5, <1>9, <1>11, <1>15, <1>20 DEF I
-----------------------------------------------------------------------------
LEMMA SeenInit == Init => SeenInv
<1> SUFFICES ASSUME Init PROVE SeenInv
  OBVIOUS
<1> DEFINE G == [s \in SUBSET {} |-> LinesBegin]
<1>1. out = <<>> /\ carry = <<>> /\ src = NewSource
  BY DEF Init
<1>2. DOMAIN out = {}
  BY <1>1
<1>3. \A s \in SUBSET {} : G[s] = LinesBegin /\ s = {}
  OBVIOUS
<1>4. LinesBegin \in [line : Seq(1 .. MaxLines), ids : Seq(1 .. MaxLines)]
      /\ LinesBegin.line = <<>> /\ LinesBegin.ids = <<>>
  BY DEF LinesBegin
<1>5. G = [s \in SUBSET {} |->
             IF s = {} THEN LinesBegin ELSE LinesStep(G[s \ {Max(s)}], out[Max(s)])]
  OBVIOUS
<1> HIDE DEF G
<1>6. LinesOf(G, out) /\ G[DOMAIN out] = LinesBegin
  BY <1>2, <1>3, <1>4, <1>5 DEF LinesOf
<1>7. SeenAs(<<>>)
  <2>1. NumbersOf(<<>>, num) = <<>>
    BY DEF NumbersOf
  <2> QED BY <1>1, <2>1 DEF SeenAs, SourceTrue
<1>8. OrderedAs(<<>>)
  BY <1>1, <1>2 DEF OrderedAs, Captured, InIds, Lines
<1> QED BY <1>1, <1>4, <1>6, <1>7, <1>8 DEF SeenInv

LEMMA SeenAlways == Spec => [](TailInv /\ OutOK /\ InOrder /\ SeenInv)
<1> DEFINE Base == TailInv /\ OutOK
<1>1. Init => Base
  BY TailInvInit, CaptureInit DEF CaptureInv
<1>2. Base /\ [Next]_vars => Base'
  <2> SUFFICES ASSUME Base, [Next]_vars PROVE Base'
    OBVIOUS
  <2>1. TailInv'
    BY TFiles, TPoll, TSink DEF TailInv
  <2> QED BY <2>1, CaptureGrows
<1>3. Base /\ SeenInv /\ ApartInv /\ InOrder /\ InOrder' /\ [Next]_vars => SeenInv'
  BY SeenStep
<1> QED BY <1>1, <1>2, <1>3, SeenInit, OrderAlways, PTL DEF Spec

\* The numbers the losses are judged by are those of the lines completed.
LEMMA SeenObserved ==
    ASSUME TailInv, OutOK, SeenInv
    PROVE  \E ids : SeenAs(ids) /\ OrderedAs(ids) /\ Observed = NumbersOf(ids, num)
<1>1. PICK G : LinesOf(G, out) /\ SeenAs(G[DOMAIN out].ids) /\ OrderedAs(G[DOMAIN out].ids)
  BY DEF SeenInv
<1>2. Observed = NumbersOf(G[DOMAIN out].ids, num)
  BY <1>1, ObservedIs DEF OutOK
<1> QED BY <1>1, <1>2

\* Source.seqStep and Snapshot never report fewer lost numbers than are missing from
\* the lines captured, and report exactly those, in numbers and in gaps, as long as
\* no more were out at once than are waited for: for whatever numbers the lines carry,
\* any window and any number of ranges waited for, however often the log is rotated,
\* truncated, or a write to the capture fails.
THEOREM LossesExact == Spec => []LossExact
<1>1. TailInv /\ OutOK /\ SeenInv => LossExact
  <2> SUFFICES ASSUME TailInv, OutOK, SeenInv PROVE LossExact
    OBVIOUS
  <2>1. PICK q : q = Observed /\ SourceTrue(src, q)
    BY SeenObserved DEF SeenAs
  <2>2. CASE q = <<>>
    <3>1. src = NewSource
      BY <2>1, <2>2 DEF SourceTrue
    <3> QED BY <2>1, <2>2, <3>1, NothingMissing DEF LossExact
  <2>3. CASE q # <<>>
    <3>1. /\ ReportedMissing(src) >= MissingOf(q)
          /\ Few(q, RunStart(q)) =>
                /\ ReportedMissing(src) = MissingOf(q)
                /\ ReportedGaps(src) = GapsOf(q)
      BY <2>1, <2>3, AccountedReports
    <3> QED BY <2>1, <3>1 DEF LossExact, Few
  <2> QED BY <2>2, <2>3
<1> QED BY <1>1, SeenAlways, PTL

\* When the daemon numbers its lines in order, no rotation loses a line silently,
\* unless a write to the capture failed or a truncation went unnoticed: between the
\* first and the last line whose number was read, Source reports every line missing
\* from the capture, and besides only those in it that were too long to be read.
THEOREM LossesNotSilent == Spec => []NoSilentLoss
<1>1. TailInv /\ OutOK /\ SeenInv => NoSilentLoss
  <2> SUFFICES ASSUME TailInv, OutOK, SeenInv PROVE NoSilentLoss
    OBVIOUS
  <2>1. PICK ids, whole, got :
            /\ SeenAs(ids) /\ OrderedAs(ids)
            /\ whole = Captured \ Lines(carry) /\ got = whole \ Long
    BY SeenObserved
  <2> DEFINE within == Min(got) .. Max(got)
  <2> SUFFICES ASSUME Undisturbed, got # {}, InNumber(got)
               PROVE  ReportedMissing(src) = Cardinality(within \ whole)
                                              + Cardinality(within \cap whole \cap Long)
    BY <2>1 DEF NoSilentLoss
  <2>2. /\ Captured \ Long = InIds(ids) \cup Lines(carry)
        /\ \A i, j \in 1 .. Len(ids) : i < j => ids[i] < ids[j]
        /\ \A x \in InIds(ids), y \in Lines(carry) : x < y
        /\ \A i, j \in got : num[i] - num[j] = i - j
    BY <2>1 DEF OrderedAs, Undisturbed, InNumber
  <2>3. ids \in Seq(1 .. MaxLines) /\ 1 .. MaxLines \subseteq Nat
    BY <2>1 DEF SeenAs
  <2>4. InIds(ids) \subseteq Nat
    <3>1. \A j \in 1 .. Len(ids) : ids[j] \in 1 .. MaxLines
      BY <2>3, ElementOfSeq
    <3> QED BY <2>3, <3>1 DEF InIds
  <2>5. got = InIds(ids)
    <3>1. \A x \in InIds(ids) : x \notin Lines(carry)
      BY <2>2, <2>4
    <3> QED BY <2>1, <2>2, <3>1
  <2>6. PICK q : q = NumbersOf(ids, num) /\ q \in Seq(Nat) /\ SourceTrue(src, q)
    BY <2>1, NumbersNat DEF SeenAs
  <2>7. Len(q) = Len(ids) /\ (\A j \in 1 .. Len(ids) : q[j] = num[ids[j]]) /\ q # <<>> /\ ids # <<>>
    <3>1. Len(ids) \in Nat
      BY <2>3
    <3>2. Len(q) = Len(ids) /\ \A j \in 1 .. Len(ids) : q[j] = num[ids[j]]
      BY <2>6, <3>1 DEF NumbersOf
    <3>3. Len(ids) # 0
      BY <2>5 DEF InIds
    <3>4. Len(<<>>) = 0
      OBVIOUS
    <3> QED BY <3>2, <3>3, <3>4
  <2>8. \A i, j \in 1 .. Len(ids) : q[i] - q[j] = ids[i] - ids[j]
    <3>1. \A i \in 1 .. Len(ids) : ids[i] \in got
      BY <2>5 DEF InIds
    <3> QED BY <2>2, <2>7, <3>1
  <2>9. Rising(q) /\ Cardinality(Skipped(q, 1, Len(q))) = Cardinality((Min(got) .. Max(got)) \ got)
    BY <2>2, <2>3, <2>5, <2>6, <2>7, <2>8, AsManyNumbers
  <2>10. Rising(q) => ReportedMissing(src) = Cardinality(Skipped(q, 1, Len(q)))
    BY <2>6, <2>7, AccountedReports
  <2>11. Cardinality(within \ got)
            = Cardinality(within \ whole) + Cardinality(within \cap whole \cap Long)
    <3> DEFINE A == within \ whole
               B == within \cap whole \cap Long
    <3>1. within \ got = A \cup B /\ A \cap B = {}
      BY <2>1
    <3>2. IsFiniteSet(A) /\ IsFiniteSet(B)
      <4>1. Min(got) \in Nat /\ Max(got) \in Nat
        BY <2>2, <2>3, <2>5, <2>6, <2>7, <2>8, AsManyNumbers
      <4>2. IsFiniteSet(within)
        BY <4>1, FS_Interval
      <4> HIDE DEF within
      <4> QED BY <4>2, FS_Subset
    <3> HIDE DEF A, B, within
    <3>3. Cardinality(A \cup B) = Cardinality(A) + Cardinality(B) - Cardinality(A \cap B)
      BY <3>2, FS_Union
    <3>4. Cardinality(A \cap B) = 0 /\ Cardinality(A) \in Nat /\ Cardinality(B) \in Nat
      BY <3>1, <3>2, FS_EmptySet, FS_CardinalityType
    <3>5. Cardinality(A \cup B) = Cardinality(A) + Cardinality(B)
      BY <3>3, <3>4
    <3> QED BY <3>1, <3>5 DEF A, B
  <2> QED BY <2>9, <2>10, <2>11
<1> QED BY <1>1, SeenAlways, PTL

-----------------------------------------------------------------------------
(***************************************************************************)
(* Recorder: captures, their journal, retention and the orderly stop.      *)
(***************************************************************************)

\* The capture files and what the journal says of them.
LineKinds == {"raw", "altered"}
FileTexts == Seq(LineKinds)
CapRecs   == [open: BOOLEAN, path: Nat, written: Nat, journaled: Nat, closed: BOOLEAN]
PruneRecs == [size: Nat, known: BOOLEAN, prefix: FileTexts, pre: FileTexts, sha: FileTexts]
LogRecs   == [last: {"none", "append", "prune", "prune_failed"}, prefix: FileTexts, prune: PruneRecs]
FileRecs  == [path: Nat, size: Nat, journaled: Nat, sha: FileTexts]

RecorderTypes ==
    /\ disk \in Seq(FileTexts) /\ Len(disk) <= MaxFiles
    /\ present \subseteq DOMAIN disk /\ own \subseteq DOMAIN disk
    /\ cap \in [Captures -> CapRecs]
    /\ jfiles \in [DOMAIN jfiles -> FileTexts] /\ DOMAIN jfiles \subseteq own
    /\ log \in [Paths -> LogRecs]
    /\ known \in [DOMAIN known -> Nat]
    /\ todo \subseteq FileRecs /\ cur \in FileRecs
    /\ seen \in Nat /\ mishaps \in Nat
    /\ jclosed \in BOOLEAN

\* What a capture says of its file: its lines are counted, and those of a file it is
\* done with count as journaled.
CapOK(k, o, d) ==
    /\ k.path # NoPath => k.path \in o /\ k.written = Len(d[k.path])
    /\ k.open => k.path # NoPath
    /\ ~k.open => k.journaled = k.written
    /\ k.closed => ~k.open
    /\ k.journaled <= k.written
CapsOK ==
    /\ \A c \in Captures : CapOK(cap[c], own, disk)
    /\ cap["tail"].path = cap["es"].path => cap["es"].path = NoPath

\* What the journal hashed of a file, and has on record of it: never more than there is,
\* and as long as no other hand changed it, the start of it; and where the last record
\* could be written, the same.
InUse(p) == \E c \in Captures : cap[c].open /\ cap[c].path = p
Begins(s, t) == Len(s) <= Len(t) /\ \A i \in 1 .. Len(s) : s[i] = t[i]
JournalOK ==
    /\ \A p \in Paths \ DOMAIN disk : log[p] = NoLog
    /\ \A p \in Paths : log[p].prefix # <<>> => log[p].last # "none"
    /\ \A p \in DOMAIN jfiles \ unrecorded : jfiles[p] = log[p].prefix /\ jfiles[p] # <<>>
    /\ \A p \in DOMAIN jfiles : Len(jfiles[p]) <= Len(disk[p])
    /\ \A p \in DOMAIN jfiles \ touched : Begins(jfiles[p], disk[p])
    /\ \A p \in DOMAIN jfiles \ unseen : Begins(log[p].prefix, jfiles[p])
    /\ \A p \in DOMAIN disk : Len(log[p].prefix) <= Len(disk[p])
    /\ \A p \in DOMAIN disk \ touched : Begins(log[p].prefix, disk[p])
    /\ \A p \in DOMAIN disk \ (unseen \cup DOMAIN jfiles) : InUse(p) => log[p].prefix = <<>>
    /\ \A p \in own \ DOMAIN jfiles :
          \/ log[p].prefix = <<>> \/ p \in kept \/ p \notin present
          \/ loop = "remove" /\ cur.path = p
    /\ knows => \A p \in DOMAIN known \ own : p \in Paths /\ known[p] = Len(log[p].prefix)

\* Retention never deletes a capture in use, but for one opened after it looked; and
\* the loop is over, and the captures are closed, before the journal is.
Pruning  == {"next", "hash", "record", "remove"}
Deleting == {"hash", "record", "remove"}
StagesOK ==
    /\ seen <= Len(disk)
    /\ loop \in {"flush again", "list"} \cup Pruning =>
          \A p \in 1 .. seen : InUse(p) => p \in active
    /\ loop \in Deleting =>
          cur.path \in DOMAIN disk /\ cur.path \notin active
             /\ (cur.path <= seen \/ cur.path \in unseen)
    /\ loop \notin Pruning => todo = {}
    /\ \A r \in todo : r.path \in DOMAIN disk
    /\ stop \notin {"run", "join"} => loop = "wait"
    /\ stop \in {"close es", "journal", "exit"} => cap["tail"].closed
    /\ stop \in {"journal", "exit"} => cap["es"].closed
    /\ jclosed => stop = "exit"

RBase == RecorderTypes /\ CapsOK /\ JournalOK /\ StagesOK

\* A capture no other hand touched is as retention saw it, and what is recorded of it
\* when it is deleted agrees with the journal, but where a removal had failed before.
CandOK(r, d, j, k) == r.size = Len(d) /\ (r.journaled = Len(j) \/ j = <<>> \/ k)
Settled(l, d, k) ==
    /\ l.last = "prune"
    /\ Mismatch(l.prefix, l.prune) => k /\ l.prefix # d
PruneOK ==
    \A p \in DOMAIN disk \ (touched \cup unseen \cup unrecorded) :
        /\ p \notin present => Settled(log[p], disk[p], p \in kept) /\ ~InUse(p)
        /\ cur.path = p =>
              /\ loop \in Deleting => CandOK(cur, disk[p], log[p].prefix, p \in kept)
              /\ loop \in {"record", "remove"} => p \in present /\ cur.sha = disk[p]
              /\ loop = "remove" => Settled(log[p], disk[p], p \in kept)
        /\ \A r \in todo : (r.path = p /\ p <= seen /\ p \notin active) =>
                              CandOK(r, disk[p], log[p].prefix, p \in kept)

\* A capture another hand altered differs from what is journaled of it, so does what
\* retention hashed of it, and what is recorded of it when it is deleted.
Tampered(d, j) == \E i \in 1 .. Len(j) : i <= Len(d) /\ d[i] # j[i]
Raw(s, a, b) == \A i \in a .. b : s[i] = "raw"
TamperOK ==
    /\ \A p \in DOMAIN disk \ unseen :
          /\ Raw(log[p].prefix, 1, Len(log[p].prefix))
          /\ Raw(disk[p], Len(log[p].prefix) + 1, Len(disk[p]))
    /\ \A p \in DOMAIN jfiles \ unseen : Raw(jfiles[p], 1, Len(jfiles[p]))
    /\ altered \subseteq DOMAIN disk
    /\ \A p \in altered \ unseen :
          /\ log[p].last # "none"
          /\ p \in present => Tampered(disk[p], log[p].prefix)
          /\ log[p].last = "prune" => Mismatch(log[p].prefix, log[p].prune)
          /\ cur.path = p /\ loop \in {"record", "remove"} => Tampered(cur.sha, log[p].prefix)

\* Without mishaps, what a file holds is journaled, or awaits the next flush.
Awaits(p) == \E c \in Captures : cap[c].path = p /\ Pending(cap[c])
StopOK ==
    mishaps = 0 =>
        /\ touched = {} /\ unrecorded = {}
        /\ \A p \in DOMAIN jfiles : log[p].last = "append"
        /\ loop \in {"record", "remove"} => cur.path \in present
        /\ \A p \in own \cap present :
              \/ Awaits(p)
              \/ log[p].last = "append" /\ log[p].prefix = disk[p]
              \/ loop = "remove" /\ cur.path = p
-----------------------------------------------------------------------------
\* What one step of capture c does: to the file q it is at, to what is journaled of
\* it, and to nothing else.
At(d, p) == IF p \in DOMAIN d THEN d[p] ELSE <<>>
OthersSame(q) ==
    \A p \in Paths \ {q} :
        /\ p \in DOMAIN disk' <=> p \in DOMAIN disk
        /\ p \in DOMAIN disk => disk'[p] = disk[p]
        /\ p \in present' <=> p \in present
        /\ p \in own' <=> p \in own
        /\ log'[p] = log[p]
        /\ p \in DOMAIN jfiles' <=> p \in DOMAIN jfiles
        /\ p \in DOMAIN jfiles => jfiles'[p] = jfiles[p]
        /\ p \in unrecorded' <=> p \in unrecorded
Writable(c, q) == q \in DOMAIN disk => cap[c].open /\ cap[c].path = q
WrittenTo(c, q) ==
    /\ q \in DOMAIN disk' /\ q \in own'
    /\ q \in DOMAIN disk => (q \in present' <=> q \in present) /\ q \in own
    /\ q \notin DOMAIN disk => q \in present' /\ ~cap[c].open
    /\ \/ q \in DOMAIN disk /\ disk'[q] = disk[q]
       \/ Writable(c, q) /\ disk'[q] = Append(At(disk, q), "raw")
NotJournaled(q) ==
    /\ log'[q] = log[q]
    /\ q \in DOMAIN jfiles' <=> q \in DOMAIN jfiles
    /\ q \in DOMAIN jfiles => jfiles'[q] = jfiles[q]
    /\ q \in unrecorded' <=> q \in unrecorded
HashedTo(c, q, d) ==
    /\ ~jclosed /\ q \in present' /\ Writable(c, q)
    /\ q \in DOMAIN jfiles'
    /\ Len(At(jfiles, q)) <= Len(jfiles'[q]) /\ Len(jfiles'[q]) <= Len(d)
    /\ \A i \in 1 .. Len(jfiles'[q]) :
          jfiles'[q][i] = IF i <= Len(At(jfiles, q)) THEN At(jfiles, q)[i] ELSE d[i]
OnlyHashed(c, q, d) == HashedTo(c, q, d) /\ log'[q] = log[q] /\ q \in unrecorded'
JournaledTo(c, q, d) ==
    /\ HashedTo(c, q, d)
    /\ log'[q].prefix = jfiles'[q] /\ jfiles'[q] # <<>>
    /\ log'[q].prune = log[q].prune
    /\ log'[q].last = "append" \/ (log'[q] = log[q] /\ q \in DOMAIN jfiles)
    /\ q \notin unrecorded'
AllJournaled(c, q, d) == JournaledTo(c, q, d) /\ Len(jfiles'[q]) = Len(d)
TypesAfter ==
    /\ disk' \in Seq(FileTexts) /\ Len(disk) <= Len(disk') /\ Len(disk') <= MaxFiles
    /\ present' \subseteq DOMAIN disk' /\ own' \subseteq DOMAIN disk'
    /\ cap' \in [Captures -> CapRecs]
    /\ jfiles' \in [DOMAIN jfiles' -> FileTexts] /\ DOMAIN jfiles' \subseteq own'
    /\ log' \in [Paths -> LogRecs]
    /\ mishaps' \in Nat /\ mishaps <= mishaps'
CaptureSteps(c, q) ==
    /\ TypesAfter
    /\ \A b \in Captures \ {c} : cap'[b] = cap[b]
    /\ OthersSame(q)
    /\ q \in Paths => /\ WrittenTo(c, q)
                      /\ \/ NotJournaled(q)
                         \/ OnlyHashed(c, q, disk'[q]) \/ JournaledTo(c, q, disk'[q])
                      /\ mishaps' = mishaps =>
                            \/ jclosed \/ q \notin present' \/ Pending(cap'[c])
                            \/ AllJournaled(c, q, disk'[q]) \/ q \in unrecorded
                            \/ /\ ~Pending(cap[c]) /\ q \in DOMAIN disk /\ disk'[q] = disk[q]
                               /\ NotJournaled(q)
    /\ mishaps' = mishaps => unrecorded' \subseteq unrecorded
    /\ cap'[c].path = q
    /\ q = cap[c].path \/ q \in Paths \ DOMAIN disk
    /\ cap'[c].open => Writable(c, q)
    /\ CapOK(cap'[c], own', disk')
    /\ cap[c].closed => cap'[c].closed /\ q = cap[c].path

LEMMA RDomains ==
    ASSUME RecorderTypes
    PROVE  /\ DOMAIN disk = 1 .. Len(disk) /\ Len(disk) \in Nat
           /\ DOMAIN disk \subseteq Paths /\ own \subseteq Paths /\ NoPath \notin Paths
           /\ DOMAIN jfiles \subseteq DOMAIN disk
           /\ \A p \in DOMAIN disk : disk[p] \in FileTexts
           /\ \A p \in Paths : p \in Nat /\ log[p] \in LogRecs /\ log[p].prefix \in FileTexts
           /\ \A p \in DOMAIN jfiles : jfiles[p] \in FileTexts
  BY RecorderAssumption DEF RecorderTypes, Paths, NoPath, LogRecs

LEMMA RText ==
    ASSUME NEW d \in FileTexts
    PROVE  /\ Len(d) \in Nat /\ DOMAIN d = 1 .. Len(d)
           /\ \A i \in 1 .. Len(d) : d[i] \in LineKinds
           /\ Append(d, "raw") \in FileTexts /\ Len(Append(d, "raw")) = Len(d) + 1
           /\ \A i \in 1 .. Len(d) : Append(d, "raw")[i] = d[i]
           /\ Append(d, "raw")[Len(d) + 1] = "raw"
           /\ Len(d) = 0 <=> d = <<>>
           /\ <<>> \in FileTexts /\ <<"raw">> \in FileTexts /\ Append(<<>>, "raw") = <<"raw">>
           /\ Len(<<>>) = 0 /\ Len(<<"raw">>) = 1 /\ <<"raw">>[1] = "raw"
  BY DEF FileTexts, LineKinds

\* Two texts with the same lines are the same.
LEMMA RSameText ==
    ASSUME NEW s \in FileTexts, NEW t \in FileTexts, Len(s) = Len(t),
           \A i \in 1 .. Len(s) : s[i] = t[i]
    PROVE  s = t
  BY DEF FileTexts

LEMMA RGrown ==
    ASSUME RecorderTypes, NEW q, NEW d \in FileTexts, NEW n \in Nat, n <= Len(d),
           NEW w, w = At(jfiles, q)
    PROVE  LET g == Grown(q, n, d) IN
           /\ g \in FileTexts /\ Len(w) <= Len(g)
           /\ Len(g) <= n \/ Len(g) = Len(w)
           /\ n >= Len(w) => Len(g) = n
           /\ \A i \in 1 .. Len(g) : g[i] = IF i <= Len(w) THEN w[i] ELSE d[i]
<1> DEFINE t == Take(d, n)
           u == SubSeq(t, Len(w) + 1, Len(t))
<1>1. w \in FileTexts
  BY RDomains, RText DEF At
<1>2. Grown(q, n, d) = w \o u
  BY DEF Grown, At
<1>3. Len(d) \in Nat /\ d \in Seq(LineKinds)
  BY RText DEF FileTexts
<1>4. t \in Seq(LineKinds) /\ Len(t) = n /\ \A i \in 1 .. n : t[i] = d[i]
  <2>1. t = SubSeq(d, 1, n)
    BY <1>3 DEF Take
  <2> QED BY <1>3, <2>1
<1>5. Len(w) \in Nat /\ w \in Seq(LineKinds)
  BY <1>1, RText DEF FileTexts
<1> HIDE DEF t
<1>6. CASE n <= Len(w)
  <2>1. u = <<>>
    BY <1>4, <1>5, <1>6
  <2> HIDE DEF u
  <2>2. w \o u = w
    BY <1>5, <2>1
  <2> QED BY <1>1, <1>2, <1>5, <1>6, <2>2
<1>7. CASE n > Len(w)
  <2>1. /\ u \in Seq(LineKinds) /\ Len(u) = n - Len(w)
        /\ \A i \in 1 .. n - Len(w) : u[i] = t[Len(w) + i]
    BY <1>4, <1>5, <1>7
  <2> HIDE DEF u
  <2>2. w \o u \in FileTexts /\ Len(w \o u) = n
    BY <1>5, <1>7, <2>1 DEF FileTexts
  <2>3. ASSUME NEW i \in 1 .. n
        PROVE  (w \o u)[i] = IF i <= Len(w) THEN w[i] ELSE d[i]
    <3>1. CASE i <= Len(w)
      BY <3>1, <1>5, <2>1
    <3>2. CASE ~(i <= Len(w))
      <4>1. (w \o u)[i] = u[i - Len(w)]
        BY <3>2, <1>5, <1>7, <2>1
      <4>2. u[i - Len(w)] = t[i]
        <5> DEFINE y == i - Len(w)
        <5>1. y \in 1 .. n - Len(w) /\ Len(w) + y = i
          BY <3>2, <1>5, <1>7
        <5> HIDE DEF y
        <5>2. u[y] = t[i]
          BY <2>1, <5>1
        <5> QED BY <5>2 DEF y
      <4> QED BY <3>2, <4>1, <4>2, <1>4
    <3> QED BY <3>1, <3>2
  <2> DEFINE g == w \o u
  <2>4. g \in FileTexts /\ Len(g) = n /\ Len(w) <= Len(g) /\ Len(g) <= n
        /\ \A i \in 1 .. Len(g) : g[i] = IF i <= Len(w) THEN w[i] ELSE d[i]
    BY <1>5, <1>7, <2>2, <2>3
  <2> QED BY <1>2, <2>4
<1> QED
  BY <1>5, <1>6, <1>7

\* What comes of it when the journal keeps what it hashed of the first n lines.
LEMMA RKeeps ==
    ASSUME RecorderTypes, JournalOK, NEW c \in Captures, NEW q \in Paths, NEW d \in FileTexts,
           NEW n \in Nat, n <= Len(d), Len(At(jfiles, q)) <= Len(d), NEW writes \in BOOLEAN,
           Keeps(q, Grown(q, n, d), writes), ~jclosed, q \in present', Writable(c, q)
    PROVE  /\ log' \in [Paths -> LogRecs] /\ jfiles' \in [DOMAIN jfiles' -> FileTexts]
           /\ DOMAIN jfiles' \subseteq DOMAIN jfiles \cup {q}
           /\ \A p \in Paths \ {q} : /\ log'[p] = log[p]
                                     /\ p \in DOMAIN jfiles' <=> p \in DOMAIN jfiles
                                     /\ p \in DOMAIN jfiles => jfiles'[p] = jfiles[p]
                                     /\ p \in unrecorded' <=> p \in unrecorded
           /\ OnlyHashed(c, q, d) \/ JournaledTo(c, q, d)
           /\ n = Len(d) /\ d # <<>> /\ writes =>
                 /\ unrecorded' \subseteq unrecorded
                 /\ AllJournaled(c, q, d) \/ q \in unrecorded
<1> DEFINE now == Grown(q, n, d)
           w == At(jfiles, q)
<1>0. jfiles \in [DOMAIN jfiles -> FileTexts] /\ log \in [Paths -> LogRecs] /\ log[q] \in LogRecs
  BY RDomains DEF RecorderTypes
<1>1. /\ jfiles' = Set(jfiles, q, now)
      /\ IF q \in DOMAIN jfiles /\ now = jfiles[q] THEN UNCHANGED <<log, unrecorded>>
         ELSE IF writes /\ now # <<>>
              THEN /\ log' = [log EXCEPT ![q].last = "append", ![q].prefix = now]
                   /\ unrecorded' = unrecorded \ {q}
              ELSE UNCHANGED log /\ unrecorded' = unrecorded \cup {q}
  BY DEF Keeps
<1>2. /\ now \in FileTexts /\ Len(w) <= Len(now)
      /\ Len(now) <= n \/ Len(now) = Len(w)
      /\ n >= Len(w) => Len(now) = n
      /\ \A i \in 1 .. Len(now) : now[i] = IF i <= Len(w) THEN w[i] ELSE d[i]
  <2>1. w = At(jfiles, q) /\ now = Grown(q, n, d)
    OBVIOUS
  <2> HIDE DEF w, now
  <2>2. LET g == Grown(q, n, d) IN
        /\ g \in FileTexts /\ Len(w) <= Len(g)
        /\ Len(g) <= n \/ Len(g) = Len(w)
        /\ n >= Len(w) => Len(g) = n
        /\ \A i \in 1 .. Len(g) : g[i] = IF i <= Len(w) THEN w[i] ELSE d[i]
    BY <2>1, RGrown
  <2> QED BY <2>1, <2>2
<1> HIDE DEF now
<1>3. Len(now) \in Nat /\ Len(d) \in Nat /\ Len(now) <= Len(d) /\ Len(w) \in Nat
  <2>1. w \in FileTexts
    BY RDomains, RText DEF At
  <2>2. Len(now) \in Nat /\ Len(d) \in Nat /\ Len(w) \in Nat
    BY <1>2, <2>1, RText
  <2> HIDE DEF w
  <2> QED BY <1>2, <2>2 DEF w
<1>4. /\ DOMAIN jfiles' = DOMAIN jfiles \cup {q} /\ jfiles'[q] = now
      /\ \A y \in DOMAIN jfiles \ {q} : jfiles'[y] = jfiles[y]
      /\ jfiles' \in [DOMAIN jfiles' -> FileTexts]
  <2>1. /\ DOMAIN jfiles' = DOMAIN jfiles \cup {q} /\ jfiles'[q] = now
        /\ \A y \in DOMAIN jfiles \ {q} : jfiles'[y] = jfiles[y]
    <3>1. /\ DOMAIN Set(jfiles, q, now) = DOMAIN jfiles \cup {q} /\ Set(jfiles, q, now)[q] = now
          /\ \A y \in DOMAIN jfiles \ {q} : Set(jfiles, q, now)[y] = jfiles[y]
      BY DEF Set
    <3> QED BY <3>1, <1>1
  <2>2. jfiles' = [y \in DOMAIN jfiles' |-> jfiles'[y]]
    BY <1>1 DEF Set
  <2>3. \A y \in DOMAIN jfiles' : jfiles'[y] \in FileTexts
    BY <2>1, <1>2, RDomains
  <2> QED BY <2>1, <2>2, <2>3
<1>5. HashedTo(c, q, d)
  <2>1. \A i \in 1 .. Len(jfiles'[q]) :
           jfiles'[q][i] = IF i <= Len(At(jfiles, q)) THEN At(jfiles, q)[i] ELSE d[i]
    BY <1>2, <1>4
  <2> QED BY <1>2, <1>3, <1>4, <2>1 DEF HashedTo
<1>6. n = Len(d) /\ d # <<>> => Len(now) = Len(d) /\ now # <<>>
  <2> SUFFICES ASSUME n = Len(d), d # <<>> PROVE Len(now) = Len(d) /\ now # <<>>
    OBVIOUS
  <2>1. Len(now) = Len(d)
    BY <1>2
  <2> QED BY <2>1, <1>2, RText
<1>7. CASE q \in DOMAIN jfiles /\ now = jfiles[q]
  <2>1. UNCHANGED <<log, unrecorded>>
    BY <1>1, <1>7
  <2>2. q \notin unrecorded => JournaledTo(c, q, d)
    BY <1>4, <1>5, <1>7, <2>1 DEF JournalOK, JournaledTo
  <2>3. q \in unrecorded => OnlyHashed(c, q, d)
    BY <1>5, <2>1 DEF OnlyHashed
  <2> QED BY <1>0, <1>4, <1>6, <2>1, <2>2, <2>3 DEF AllJournaled
<1>8. CASE ~(q \in DOMAIN jfiles /\ now = jfiles[q]) /\ ~(writes /\ now # <<>>)
  <2>1. UNCHANGED log /\ unrecorded' = unrecorded \cup {q}
    BY <1>1, <1>8
  <2>2. OnlyHashed(c, q, d)
    BY <1>5, <2>1 DEF OnlyHashed
  <2> QED BY <1>0, <1>4, <1>6, <1>8, <2>1, <2>2
<1>9. CASE ~(q \in DOMAIN jfiles /\ now = jfiles[q]) /\ writes /\ now # <<>>
  <2>1. log' = [log EXCEPT ![q] = [log[q] EXCEPT !.last = "append", !.prefix = now]]
    <3>1. log' = [log EXCEPT ![q].last = "append", ![q].prefix = now]
      BY <1>1, <1>9
    <3> QED BY <3>1, <1>0
  <2> DEFINE m == [log[q] EXCEPT !.last = "append", !.prefix = now]
  <2>2. m \in LogRecs /\ m.last = "append" /\ m.prefix = now /\ m.prune = log[q].prune
    BY <1>0, <1>2 DEF LogRecs
  <2> HIDE DEF m
  <2>3. /\ log' \in [Paths -> LogRecs] /\ log'[q].last = "append" /\ log'[q].prefix = now
        /\ log'[q].prune = log[q].prune
        /\ \A p \in Paths \ {q} : log'[p] = log[p]
    BY <2>1, <2>2, <1>0 DEF m
  <2>4. unrecorded' = unrecorded \ {q}
    BY <1>1, <1>9
  <2>5. JournaledTo(c, q, d)
    BY <1>4, <1>5, <1>9, <2>3, <2>4 DEF JournaledTo
  <2> QED BY <1>4, <1>6, <2>3, <2>4, <2>5 DEF AllJournaled
<1> QED BY <1>7, <1>8, <1>9

\* A flush, that succeeds or fails.
LEMMA RFlushesTo ==
    ASSUME RecorderTypes, JournalOK, NEW c \in Captures, NEW q \in Paths, NEW d \in FileTexts, NEW names,
           d # <<>>, Len(At(jfiles, q)) <= Len(d), FlushesTo(q, Len(d), d, names),
           names = present', Writable(c, q)
    PROVE  /\ log' \in [Paths -> LogRecs] /\ jfiles' \in [DOMAIN jfiles' -> FileTexts]
           /\ DOMAIN jfiles' \subseteq DOMAIN jfiles \cup {q}
           /\ \A p \in Paths \ {q} : /\ log'[p] = log[p]
                                     /\ p \in DOMAIN jfiles' <=> p \in DOMAIN jfiles
                                     /\ p \in DOMAIN jfiles => jfiles'[p] = jfiles[p]
                                     /\ p \in unrecorded' <=> p \in unrecorded
           /\ NotJournaled(q) \/ OnlyHashed(c, q, d) \/ JournaledTo(c, q, d)
           /\ mishaps' \in Nat /\ mishaps <= mishaps'
           /\ mishaps' = mishaps => /\ unrecorded' \subseteq unrecorded
                                    /\ \/ jclosed \/ q \notin present'
                                       \/ AllJournaled(c, q, d) \/ q \in unrecorded
<1>0. /\ jfiles \in [DOMAIN jfiles -> FileTexts] /\ log \in [Paths -> LogRecs]
      /\ Len(d) \in Nat /\ mishaps \in Nat
  BY RText DEF RecorderTypes
<1>1. CASE UNCHANGED <<jfiles, log, unrecorded>> /\ (mishaps' = mishaps + 1 \/ (UNCHANGED mishaps /\ (jclosed \/ q \notin names)))
  BY <1>0, <1>1 DEF NotJournaled
<1>2. CASE /\ ~jclosed /\ q \in names /\ mishaps' = mishaps + 1
           /\ \E m \in 0 .. Len(d), writes \in BOOLEAN : Keeps(q, Grown(q, m, d), writes)
  <2>1. PICK m \in 0 .. Len(d), writes \in BOOLEAN : Keeps(q, Grown(q, m, d), writes)
    BY <1>2
  <2>2. m \in Nat /\ m <= Len(d)
    BY <1>0
  <2>3. mishaps' \in Nat /\ mishaps <= mishaps' /\ mishaps' # mishaps
    BY <1>0, <1>2
  <2> QED BY <1>2, <2>1, <2>2, <2>3, RKeeps
<1>3. CASE ~jclosed /\ q \in names /\ Keeps(q, Grown(q, Len(d), d), TRUE) /\ UNCHANGED mishaps
  <2>1. Len(d) <= Len(d) /\ mishaps <= mishaps
    BY <1>0
  <2> QED BY <1>0, <1>3, <2>1, RKeeps
<1> QED BY <1>1, <1>2, <1>3 DEF FlushesTo, FlushFails, Grows, Mishap

ClosedOf(k) == [Flushed(k) EXCEPT !.closed = TRUE, !.open = FALSE]
LEMMA RCapRec ==
    ASSUME NEW k \in CapRecs
    PROVE  /\ k.open \in BOOLEAN /\ k.path \in Nat /\ k.written \in Nat /\ k.journaled \in Nat
           /\ k.closed \in BOOLEAN
           /\ Flushed(k) \in CapRecs /\ Flushed(k).open = k.open /\ Flushed(k).path = k.path
           /\ Flushed(k).written = k.written /\ Flushed(k).journaled = k.written
           /\ Flushed(k).closed = k.closed
           /\ ClosedOf(k) \in CapRecs /\ ClosedOf(k).open = FALSE /\ ClosedOf(k).path = k.path
           /\ ClosedOf(k).written = k.written /\ ClosedOf(k).journaled = k.written
           /\ ClosedOf(k).closed = TRUE
<1>1. /\ k.open \in BOOLEAN /\ k.path \in Nat /\ k.written \in Nat /\ k.journaled \in Nat
      /\ k.closed \in BOOLEAN
  BY DEF CapRecs
<1>2. /\ Flushed(k) \in CapRecs /\ Flushed(k).open = k.open /\ Flushed(k).path = k.path
      /\ Flushed(k).written = k.written /\ Flushed(k).journaled = k.written
      /\ Flushed(k).closed = k.closed
  BY DEF CapRecs, Flushed
<1>3. ASSUME NEW m \in CapRecs
      PROVE  LET n == [m EXCEPT !.closed = TRUE, !.open = FALSE]
             IN  /\ n \in CapRecs /\ n.open = FALSE /\ n.path = m.path
                 /\ n.written = m.written /\ n.journaled = m.journaled /\ n.closed = TRUE
  BY DEF CapRecs
<1>4. LET n == ClosedOf(k)
          m == Flushed(k)
      IN  /\ n \in CapRecs /\ n.open = FALSE /\ n.path = m.path
          /\ n.written = m.written /\ n.journaled = m.journaled /\ n.closed = TRUE
  BY <1>2, <1>3 DEF ClosedOf
<1> QED BY <1>1, <1>2, <1>4

\* A capture at a file: what it has pending is of the file it has open.
LEMMA RCapture ==
    ASSUME RBase, NEW c \in Captures
    PROVE  /\ cap[c] \in CapRecs /\ CapOK(cap[c], own, disk)
           /\ cap[c].path \in own \cup {NoPath}
           /\ cap[c].path # NoPath => cap[c].path \in Paths /\ cap[c].path \in DOMAIN disk
                                      /\ disk[cap[c].path] \in FileTexts
                                      /\ cap[c].written = Len(disk[cap[c].path])
           /\ Pending(cap[c]) => cap[c].open /\ disk[cap[c].path] # <<>>
<1>1. cap[c] \in CapRecs /\ CapOK(cap[c], own, disk)
  BY DEF RBase, RecorderTypes, CapsOK
<1>2. cap[c].path \in own \cup {NoPath}
  BY <1>1 DEF CapOK
<1>3. cap[c].path # NoPath => cap[c].path \in Paths /\ cap[c].path \in DOMAIN disk
                              /\ disk[cap[c].path] \in FileTexts
                              /\ cap[c].written = Len(disk[cap[c].path])
  BY <1>1, <1>2, RDomains DEF CapOK, RBase, RecorderTypes
<1>4. Pending(cap[c]) => cap[c].open /\ disk[cap[c].path] # <<>>
  <2> SUFFICES ASSUME Pending(cap[c]) PROVE cap[c].open /\ disk[cap[c].path] # <<>>
    OBVIOUS
  <2>1. cap[c].path # NoPath /\ cap[c].written > cap[c].journaled
        /\ cap[c].written \in Nat /\ cap[c].journaled \in Nat
    BY <1>1, RCapRec DEF Pending
  <2>2. cap[c].open
    BY <2>1, <1>1 DEF CapOK
  <2>3. Len(disk[cap[c].path]) # 0
    BY <2>1, <1>3
  <2> QED BY <2>1, <2>2, <2>3, <1>3, RText
<1> QED BY <1>1, <1>2, <1>3, <1>4

LEMMA RHashed ==
    ASSUME RBase, NEW q \in DOMAIN disk
    PROVE  Len(At(jfiles, q)) \in Nat /\ Len(At(jfiles, q)) <= Len(disk[q])
<1>1. CASE q \in DOMAIN jfiles
  BY <1>1, RDomains, RText DEF RBase, JournalOK, At
<1>2. CASE q \notin DOMAIN jfiles
  BY <1>2, RDomains, RText DEF RBase, At
<1> QED BY <1>1, <1>2

\* A flush, of a capture that goes on or of one that is closed.
LEMMA RFlushed ==
    ASSUME RBase, NEW c \in Captures, NEW m, UNCHANGED <<files, own>>,
           m = Flushed(cap[c]) \/ m = ClosedOf(cap[c]),
           cap' = [cap EXCEPT ![c] = m],
           IF ~Pending(cap[c]) THEN UNCHANGED noted
           ELSE FlushesTo(cap[c].path, cap[c].written, disk[cap[c].path], present)
    PROVE  CaptureSteps(c, cap[c].path)
<1> DEFINE k == cap[c]
           q == cap[c].path
<1>1. /\ m \in CapRecs /\ m.path = q /\ m.written = k.written /\ m.journaled = k.written
      /\ m.open => k.open
      /\ k.closed => m.closed
      /\ m.closed => ~m.open
  <2>1. CASE m = Flushed(cap[c])
    BY <2>1, RCapture, RCapRec DEF CapOK
  <2>2. CASE m = ClosedOf(cap[c])
    BY <2>2, RCapture, RCapRec DEF CapOK
  <2> QED BY <2>1, <2>2
<1>0. /\ RecorderTypes /\ JournalOK /\ mishaps \in Nat
      /\ disk' = disk /\ present' = present /\ own' = own
      /\ cap' \in [Captures -> CapRecs] /\ cap'[c] = m /\ \A b \in Captures \ {c} : cap'[b] = cap[b]
  BY <1>1 DEF RBase, RecorderTypes, files
<1>2. CapOK(m, own', disk') /\ ~Pending(m)
  <2>1. CapOK(k, own, disk) /\ k.written \in Nat
    BY RCapture, RCapRec
  <2> HIDE DEF k
  <2> QED BY <1>0, <1>1, <2>1 DEF CapOK, Pending, k
<1>3. q \in Paths => Writable(c, q) \/ ~k.open
  BY DEF Writable
<1>4. CASE ~Pending(k)
  <2>0. UNCHANGED <<jfiles, log, unrecorded, mishaps>>
    BY <1>4 DEF noted
  <2>1. TypesAfter
    BY <1>0, <2>0 DEF TypesAfter, RecorderTypes
  <2>2. OthersSame(q)
    BY <1>0, <2>0 DEF OthersSame
  <2>3. q \in Paths => /\ WrittenTo(c, q) /\ NotJournaled(q)
                       /\ q \in DOMAIN disk /\ disk'[q] = disk[q]
    <3>1. q \in Paths => q \in own /\ q \in DOMAIN disk
      BY RDomains, RCapture DEF RBase
    <3> QED BY <1>0, <2>0, <3>1 DEF WrittenTo, NotJournaled
  <2>4. cap'[c].open => Writable(c, q)
    BY <1>0, <1>1 DEF Writable
  <2> QED BY <1>0, <1>1, <1>2, <1>4, <2>0, <2>1, <2>2, <2>3, <2>4 DEF CaptureSteps
<1>5. CASE Pending(k)
  <2>0. FlushesTo(q, k.written, disk[q], present)
    BY <1>5
  <2>1. /\ q \in Paths /\ q \in own /\ q \in DOMAIN disk /\ disk[q] \in FileTexts /\ disk[q] # <<>>
        /\ k.written = Len(disk[q]) /\ k.open
    <3>1. q # NoPath
      BY <1>5 DEF Pending
    <3> QED BY <3>1, <1>5, RCapture
  <2>2. Writable(c, q)
    BY <2>1 DEF Writable
  <2>3. /\ log' \in [Paths -> LogRecs] /\ jfiles' \in [DOMAIN jfiles' -> FileTexts]
        /\ DOMAIN jfiles' \subseteq DOMAIN jfiles \cup {q}
        /\ \A p \in Paths \ {q} : /\ log'[p] = log[p]
                                  /\ p \in DOMAIN jfiles' <=> p \in DOMAIN jfiles
                                  /\ p \in DOMAIN jfiles => jfiles'[p] = jfiles[p]
                                  /\ p \in unrecorded' <=> p \in unrecorded
        /\ NotJournaled(q) \/ OnlyHashed(c, q, disk[q]) \/ JournaledTo(c, q, disk[q])
        /\ mishaps' \in Nat /\ mishaps <= mishaps'
        /\ mishaps' = mishaps => /\ unrecorded' \subseteq unrecorded
                                 /\ \/ jclosed \/ q \notin present'
                                    \/ AllJournaled(c, q, disk[q]) \/ q \in unrecorded
    <3>1. FlushesTo(q, Len(disk[q]), disk[q], present)
      BY <2>0, <2>1
    <3> HIDE DEF q
    <3> QED BY <1>0, <2>1, <2>2, <3>1, RHashed, RFlushesTo
  <2>4. TypesAfter
    BY <1>0, <2>1, <2>3 DEF TypesAfter, RecorderTypes
  <2>5. OthersSame(q)
    BY <1>0, <2>3 DEF OthersSame
  <2>6. WrittenTo(c, q)
    BY <1>0, <2>1 DEF WrittenTo
  <2> QED BY <1>0, <1>1, <1>2, <2>1, <2>2, <2>3, <2>4, <2>5, <2>6 DEF CaptureSteps
<1> QED BY <1>4, <1>5

LEMMA RFlushOf ==
    ASSUME RBase, NEW c \in Captures, UNCHANGED <<files, own>>, FlushOf(c)
    PROVE  CaptureSteps(c, cap[c].path) /\ (cap[c].open => cap'[c].open)
<1> DEFINE m == Flushed(cap[c])
<1>1. /\ cap' = [cap EXCEPT ![c] = m]
      /\ IF ~Pending(cap[c]) THEN UNCHANGED noted
         ELSE FlushesTo(cap[c].path, cap[c].written, disk[cap[c].path], present)
  BY DEF FlushOf
<1>2. CaptureSteps(c, cap[c].path)
  BY <1>1, RFlushed
<1>3. cap[c] \in CapRecs /\ m.open = cap[c].open
  BY RCapture, RCapRec
<1>4. cap'[c] = m
  BY <1>1 DEF RBase, RecorderTypes
<1> QED BY <1>2, <1>3, <1>4

LEMMA RClosing ==
    ASSUME RBase, NEW c \in Captures, UNCHANGED <<files, own>>, Closing(c)
    PROVE  CaptureSteps(c, cap[c].path) /\ cap'[c].closed
<1> DEFINE m == ClosedOf(cap[c])
<1>1. CASE ~cap[c].closed
  <2>1. cap' = [cap EXCEPT ![c] = m]
    BY <1>1 DEF Closing, ClosedOf
  <2>2. IF ~Pending(cap[c]) THEN UNCHANGED noted
        ELSE FlushesTo(cap[c].path, cap[c].written, disk[cap[c].path], present)
    BY <1>1 DEF Closing
  <2>3. CaptureSteps(c, cap[c].path)
    BY <2>1, <2>2, RFlushed
  <2>4. cap'[c].closed
    BY <2>1, RCapture, RCapRec DEF RBase, RecorderTypes
  <2> QED BY <2>3, <2>4
<1>2. CASE cap[c].closed
  <2>1. UNCHANGED <<cap, noted>>
    BY <1>2 DEF Closing
  <2>2. ~Pending(cap[c])
    BY <1>2, RCapture DEF CapOK
  <2>3. cap[c].journaled = cap[c].written /\ cap[c] \in CapRecs
    BY <1>2, RCapture DEF CapOK
  <2>4. Flushed(cap[c]) = cap[c]
    BY <2>3 DEF Flushed, CapRecs
  <2>5. cap' = [cap EXCEPT ![c] = Flushed(cap[c])]
    BY <2>1, <2>4 DEF RBase, RecorderTypes
  <2>6. CaptureSteps(c, cap[c].path)
    BY <2>1, <2>2, <2>5, RFlushed
  <2> QED BY <1>2, <2>1, <2>6
<1> QED BY <1>1, <1>2

DoneOf(k) == [Flushed(k) EXCEPT !.open = FALSE]
LEMMA RWriteRec ==
    ASSUME NEW k \in CapRecs, NEW n \in Nat
    PROVE  LET m == [k EXCEPT !.written = n]
           IN  /\ m \in CapRecs /\ m.open = k.open /\ m.path = k.path /\ m.written = n
               /\ m.journaled = k.journaled /\ m.closed = k.closed
  BY DEF CapRecs

LEMMA RDoneRec ==
    ASSUME NEW k \in CapRecs
    PROVE  /\ DoneOf(k) \in CapRecs /\ DoneOf(k).open = FALSE /\ DoneOf(k).path = k.path
           /\ DoneOf(k).written = k.written /\ DoneOf(k).journaled = k.written
           /\ DoneOf(k).closed = k.closed
<1>1. Flushed(k) \in CapRecs /\ Flushed(k).path = k.path /\ Flushed(k).written = k.written
      /\ Flushed(k).journaled = k.written /\ Flushed(k).closed = k.closed
  BY RCapRec
<1>2. ASSUME NEW m \in CapRecs
      PROVE  LET n == [m EXCEPT !.open = FALSE]
             IN  /\ n \in CapRecs /\ n.open = FALSE /\ n.path = m.path
                 /\ n.written = m.written /\ n.journaled = m.journaled /\ n.closed = m.closed
  BY DEF CapRecs
<1>3. LET n == DoneOf(k)
          m == Flushed(k)
      IN  /\ n \in CapRecs /\ n.open = FALSE /\ n.path = m.path
          /\ n.written = m.written /\ n.journaled = m.journaled /\ n.closed = m.closed
  BY <1>1, <1>2 DEF DoneOf
<1> QED BY <1>1, <1>3

LEMMA RFreshRec ==
    ASSUME NEW p \in Nat
    PROVE  LET k == [Closed EXCEPT !.path = p, !.open = TRUE]
           IN  /\ k \in CapRecs /\ k.open = TRUE /\ k.path = p /\ k.written = 0
               /\ k.journaled = 0 /\ k.closed = FALSE
  BY DEF Closed, CapRecs, NoPath

\* The file written to: a new one, or the one that is open.
LEMMA RWriteNew ==
    ASSUME RBase, NEW p, p = Len(disk) + 1, Len(disk) < MaxFiles,
           disk' = Append(disk, <<"raw">>), present' = present \cup {p}, own' = own \cup {p}
    PROVE  /\ p \in Paths /\ p \in DOMAIN disk' /\ disk'[p] = Append(At(disk, p), "raw")
           /\ At(disk, p) \in FileTexts
           /\ disk' \in Seq(FileTexts) /\ Len(disk) <= Len(disk') /\ Len(disk') <= MaxFiles
           /\ present' \subseteq DOMAIN disk' /\ own' \subseteq DOMAIN disk'
           /\ \A x \in Paths \ {p} : /\ x \in DOMAIN disk' <=> x \in DOMAIN disk
                                     /\ x \in DOMAIN disk => disk'[x] = disk[x]
                                     /\ x \in present' <=> x \in present
                                     /\ x \in own' <=> x \in own
<1>0. /\ DOMAIN disk = 1 .. Len(disk) /\ Len(disk) \in Nat /\ Len(disk) <= MaxFiles
      /\ disk \in Seq(FileTexts) /\ present \subseteq DOMAIN disk /\ own \subseteq DOMAIN disk
      /\ MaxFiles \in Nat
  BY RDomains, RecorderAssumption DEF RBase, RecorderTypes
<1>1. <<"raw">> \in FileTexts /\ <<>> \in FileTexts /\ Append(<<>>, "raw") = <<"raw">>
  BY DEF FileTexts, LineKinds
<1>2. /\ disk' \in Seq(FileTexts) /\ Len(disk') = Len(disk) + 1 /\ DOMAIN disk' = 1 .. Len(disk) + 1
      /\ disk'[p] = <<"raw">> /\ \A x \in 1 .. Len(disk) : disk'[x] = disk[x]
  BY <1>0, <1>1
<1>3. p \in Paths /\ p \notin DOMAIN disk /\ At(disk, p) = <<>>
  BY <1>0 DEF Paths, At
<1>4. present' \subseteq DOMAIN disk' /\ own' \subseteq DOMAIN disk' /\ p \in DOMAIN disk'
      /\ Len(disk') <= MaxFiles /\ Len(disk) <= Len(disk')
  BY <1>0, <1>2
<1>5. ASSUME NEW x \in Paths \ {p}
      PROVE  /\ x \in DOMAIN disk' <=> x \in DOMAIN disk
             /\ x \in DOMAIN disk => disk'[x] = disk[x]
             /\ x \in present' <=> x \in present
             /\ x \in own' <=> x \in own
  BY <1>0, <1>2 DEF Paths
<1> QED BY <1>1, <1>2, <1>3, <1>4, <1>5

LEMMA RWriteOpen ==
    ASSUME RBase, NEW p \in DOMAIN disk, disk' = [disk EXCEPT ![p] = Append(@, "raw")],
           UNCHANGED <<present, own>>
    PROVE  /\ p \in Paths /\ p \in DOMAIN disk' /\ disk'[p] = Append(At(disk, p), "raw")
           /\ At(disk, p) \in FileTexts
           /\ disk' \in Seq(FileTexts) /\ Len(disk) <= Len(disk') /\ Len(disk') <= MaxFiles
           /\ present' \subseteq DOMAIN disk' /\ own' \subseteq DOMAIN disk'
           /\ \A x \in Paths \ {p} : /\ x \in DOMAIN disk' <=> x \in DOMAIN disk
                                     /\ x \in DOMAIN disk => disk'[x] = disk[x]
                                     /\ x \in present' <=> x \in present
                                     /\ x \in own' <=> x \in own
<1>0. /\ DOMAIN disk = 1 .. Len(disk) /\ Len(disk) \in Nat /\ Len(disk) <= MaxFiles
      /\ disk \in Seq(FileTexts) /\ present \subseteq DOMAIN disk /\ own \subseteq DOMAIN disk
      /\ MaxFiles \in Nat
  BY RDomains, RecorderAssumption DEF RBase, RecorderTypes
<1>1. disk[p] \in FileTexts /\ Append(disk[p], "raw") \in FileTexts
  BY <1>0, RDomains, RText DEF RBase
<1>2. /\ disk' \in Seq(FileTexts) /\ Len(disk') = Len(disk) /\ DOMAIN disk' = DOMAIN disk
      /\ disk'[p] = Append(disk[p], "raw") /\ \A x \in DOMAIN disk \ {p} : disk'[x] = disk[x]
  BY <1>0, <1>1
<1>3. p \in Paths /\ At(disk, p) = disk[p]
  BY <1>0 DEF Paths, At
<1> QED BY <1>0, <1>1, <1>2, <1>3

LEMMA RWrites ==
    ASSUME RBase, NEW c \in Captures, Writes(c)
    PROVE  CaptureSteps(c, cap'[c].path)
<1> DEFINE fresh == ~cap[c].open
           p     == IF fresh THEN Len(disk) + 1 ELSE cap[c].path
           k     == IF fresh THEN [Closed EXCEPT !.path = p, !.open = TRUE] ELSE cap[c]
           n     == k.written + 1
           m     == [k EXCEPT !.written = n]
<1>1. /\ ~cap[c].closed /\ (cap[c].open \/ Len(disk) < MaxFiles)
      /\ disk' = IF fresh THEN Append(disk, <<"raw">>) ELSE [disk EXCEPT ![p] = Append(@, "raw")]
      /\ present' = IF fresh THEN present \cup {p} ELSE present
      /\ own' = IF fresh THEN own \cup {p} ELSE own
      /\ \/ /\ cap' = [cap EXCEPT ![c] = DoneOf(m)]
            /\ FlushesTo(p, n, disk'[p], present')
         \/ /\ cap' = [cap EXCEPT ![c] = m]
            /\ UNCHANGED noted
  BY DEF Writes, DoneOf
<1>2. /\ cap[c] \in CapRecs /\ CapOK(cap[c], own, disk) /\ RecorderTypes /\ mishaps \in Nat
      /\ Len(disk) \in Nat /\ DOMAIN disk = 1 .. Len(disk)
  BY RCapture, RDomains DEF RBase, RecorderTypes
<1>3. /\ ~fresh => p \in DOMAIN disk /\ p \in own /\ p # NoPath /\ p = cap[c].path
      /\ fresh => p = Len(disk) + 1 /\ p \notin DOMAIN disk
  <2>1. CASE fresh
    BY <2>1, <1>2
  <2>2. CASE ~fresh
    BY <2>2, <1>2, RCapture DEF CapOK
  <2> QED BY <2>1, <2>2
<1>4. /\ p \in Paths /\ p \in DOMAIN disk' /\ disk'[p] = Append(At(disk, p), "raw")
      /\ At(disk, p) \in FileTexts
      /\ disk' \in Seq(FileTexts) /\ Len(disk) <= Len(disk') /\ Len(disk') <= MaxFiles
      /\ present' \subseteq DOMAIN disk' /\ own' \subseteq DOMAIN disk'
      /\ \A x \in Paths \ {p} : /\ x \in DOMAIN disk' <=> x \in DOMAIN disk
                                /\ x \in DOMAIN disk => disk'[x] = disk[x]
                                /\ x \in present' <=> x \in present
                                /\ x \in own' <=> x \in own
  <2>1. CASE fresh
    <3>1. /\ p = Len(disk) + 1 /\ Len(disk) < MaxFiles
          /\ disk' = Append(disk, <<"raw">>) /\ present' = present \cup {p} /\ own' = own \cup {p}
      BY <2>1, <1>1, <1>3
    <3> HIDE DEF p
    <3> QED BY <3>1, RWriteNew
  <2>2. CASE ~fresh
    <3>1. /\ p \in DOMAIN disk
          /\ disk' = [disk EXCEPT ![p] = Append(@, "raw")] /\ UNCHANGED <<present, own>>
      BY <2>2, <1>1, <1>3
    <3> HIDE DEF p
    <3> QED BY <3>1, RWriteOpen
  <2> QED BY <2>1, <2>2
<1>5. /\ k \in CapRecs /\ k.path = p /\ k.open /\ ~k.closed
      /\ k.written = Len(At(disk, p)) /\ k.journaled <= k.written
  <2>1. CASE fresh
    <3>1. p \in Nat /\ Len(At(disk, p)) = 0
      BY <2>1, <1>2, <1>3, RText DEF At
    <3>2. k = [Closed EXCEPT !.path = p, !.open = TRUE]
      BY <2>1
    <3>3. k.written = 0 /\ k.journaled = 0 /\ k \in CapRecs /\ k.open = TRUE /\ k.path = p
          /\ k.closed = FALSE
      <4> HIDE DEF p, k
      <4> QED BY <3>1, <3>2, RFreshRec
    <3> QED BY <3>1, <3>3
  <2>2. CASE ~fresh
    <3>1. k = cap[c]
      BY <2>2
    <3> QED BY <2>2, <3>1, <1>1, <1>2, <1>3 DEF CapOK, At
  <2> QED BY <2>1, <2>2
<1>6. Writable(c, p) /\ WrittenTo(c, p) /\ (p = cap[c].path \/ p \in Paths \ DOMAIN disk)
  <2>1. CASE fresh
    <3>1. p \in present' /\ p \in own' /\ p \notin DOMAIN disk
      BY <2>1, <1>1, <1>3
    <3> HIDE DEF p
    <3> QED BY <2>1, <3>1, <1>4 DEF Writable, WrittenTo
  <2>2. CASE ~fresh
    <3>1. present' = present /\ own' = own /\ p \in own /\ p \in DOMAIN disk /\ p = cap[c].path /\ cap[c].open
      BY <2>2, <1>1, <1>3
    <3> HIDE DEF p
    <3> QED BY <3>1, <1>4 DEF Writable, WrittenTo
  <2> QED BY <2>1, <2>2
<1>7. /\ n \in Nat /\ n = Len(disk'[p]) /\ disk'[p] \in FileTexts /\ disk'[p] # <<>>
      /\ Len(At(jfiles, p)) \in Nat /\ Len(At(jfiles, p)) <= Len(disk'[p])
  <2>1. /\ n = Len(At(disk, p)) + 1 /\ n = Len(disk'[p]) /\ n \in Nat /\ disk'[p] \in FileTexts
        /\ Len(At(disk, p)) \in Nat
    <3> HIDE DEF p, k
    <3> QED BY <1>4, <1>5, RText
  <2>2. disk'[p] # <<>>
    <3> HIDE DEF p, n
    <3> QED BY <2>1, RText
  <2>3. Len(At(jfiles, p)) \in Nat /\ Len(At(jfiles, p)) <= Len(At(disk, p))
    <3> HIDE DEF p
    <3>1. CASE p \in DOMAIN disk
      BY <3>1, RHashed DEF At
    <3>2. CASE p \notin DOMAIN disk
      BY <3>2, <1>2, RDomains, RText DEF At
    <3> QED BY <3>1, <3>2
  <2> HIDE DEF p, n
  <2> QED BY <2>1, <2>2, <2>3
<1>8. /\ m \in CapRecs /\ m.open /\ m.path = p /\ m.written = n
      /\ m.journaled = k.journaled /\ ~m.closed
      /\ DoneOf(m) \in CapRecs /\ ~DoneOf(m).open /\ DoneOf(m).path = p
      /\ DoneOf(m).written = n /\ DoneOf(m).journaled = n /\ ~DoneOf(m).closed
  <2>1. /\ m \in CapRecs /\ m.open /\ m.path = p /\ m.written = n
        /\ m.journaled = k.journaled /\ ~m.closed
    <3> HIDE DEF p, k, n
    <3> QED BY <1>5, <1>7, RWriteRec
  <2> HIDE DEF p, k, n, m
  <2> QED BY <2>1, RDoneRec
<1> HIDE DEF p, k, n, m, fresh
<1>9. p \in own' /\ p # NoPath
  BY <1>4, <1>6 DEF WrittenTo, Paths, NoPath
<1>10. ASSUME NEW a \in CapRecs, cap' = [cap EXCEPT ![c] = a], a.path = p, a.written = n, ~a.closed,
              a.journaled <= n, ~a.open => a.journaled = n,
              log' \in [Paths -> LogRecs], jfiles' \in [DOMAIN jfiles' -> FileTexts],
              DOMAIN jfiles' \subseteq DOMAIN jfiles \cup {p},
              \A x \in Paths \ {p} : /\ log'[x] = log[x]
                                     /\ x \in DOMAIN jfiles' <=> x \in DOMAIN jfiles
                                     /\ x \in DOMAIN jfiles => jfiles'[x] = jfiles[x]
                                     /\ x \in unrecorded' <=> x \in unrecorded,
              NotJournaled(p) \/ OnlyHashed(c, p, disk'[p]) \/ JournaledTo(c, p, disk'[p]),
              mishaps' \in Nat, mishaps <= mishaps',
              mishaps' = mishaps => /\ unrecorded' \subseteq unrecorded
                                    /\ \/ jclosed \/ p \notin present' \/ Pending(a)
                                       \/ AllJournaled(c, p, disk'[p]) \/ p \in unrecorded
       PROVE  CaptureSteps(c, p) /\ cap'[c].path = p
  <2>1. cap'[c] = a /\ cap' \in [Captures -> CapRecs] /\ \A b \in Captures \ {c} : cap'[b] = cap[b]
    BY <1>2, <1>10 DEF RecorderTypes
  <2>2. own \subseteq own'
    <3>1. \A x \in own : x \in Paths
      BY <1>2, RDomains
    <3> QED BY <3>1, <1>4, <1>9
  <2>3. TypesAfter
    BY <1>2, <1>4, <1>9, <1>10, <2>1, <2>2 DEF TypesAfter, RecorderTypes
  <2>4. OthersSame(p)
    BY <1>4, <1>10 DEF OthersSame
  <2>5. CapOK(a, own', disk')
    BY <1>7, <1>9, <1>10 DEF CapOK
  <2> QED BY <1>1, <1>6, <1>10, <2>1, <2>3, <2>4, <2>5 DEF CaptureSteps
<1>11. CASE cap' = [cap EXCEPT ![c] = m] /\ UNCHANGED noted
  <2>1. Pending(m) /\ m.journaled <= n
    <3>1. k.journaled \in Nat /\ k.written \in Nat /\ n = k.written + 1
      BY <1>5, RCapRec DEF n
    <3> QED BY <3>1, <1>5, <1>8, <1>9 DEF Pending
  <2>2. UNCHANGED <<jfiles, log, unrecorded, mishaps>>
    BY <1>11 DEF noted
  <2>3. mishaps <= mishaps' /\ NotJournaled(p)
    BY <1>2, <2>2 DEF NotJournaled
  <2> QED BY <1>2, <1>8, <1>10, <1>11, <2>1, <2>2, <2>3 DEF RecorderTypes
<1>12. CASE cap' = [cap EXCEPT ![c] = DoneOf(m)] /\ FlushesTo(p, n, disk'[p], present')
  <2>1. FlushesTo(p, Len(disk'[p]), disk'[p], present')
    BY <1>7, <1>12
  <2>2. /\ log' \in [Paths -> LogRecs] /\ jfiles' \in [DOMAIN jfiles' -> FileTexts]
        /\ DOMAIN jfiles' \subseteq DOMAIN jfiles \cup {p}
        /\ \A x \in Paths \ {p} : /\ log'[x] = log[x]
                                  /\ x \in DOMAIN jfiles' <=> x \in DOMAIN jfiles
                                  /\ x \in DOMAIN jfiles => jfiles'[x] = jfiles[x]
                                  /\ x \in unrecorded' <=> x \in unrecorded
        /\ NotJournaled(p) \/ OnlyHashed(c, p, disk'[p]) \/ JournaledTo(c, p, disk'[p])
        /\ mishaps' \in Nat /\ mishaps <= mishaps'
        /\ mishaps' = mishaps => /\ unrecorded' \subseteq unrecorded
                                 /\ \/ jclosed \/ p \notin present'
                                    \/ AllJournaled(c, p, disk'[p]) \/ p \in unrecorded
    BY <2>1, <1>2, <1>4, <1>6, <1>7, RFlushesTo DEF RBase
  <2>3. n <= n
    BY <1>7
  <2> QED BY <1>8, <1>10, <1>12, <2>2, <2>3
<1> QED BY <1>1, <1>11, <1>12
-----------------------------------------------------------------------------
\* What the rest of the recorder does when a capture steps: it moves on, but neither
\* into the deletion of files nor out of it.
LoopMoves ==
    \/ loop' = loop
    \/ loop' \in {"wait", "flush", "flush es", "prune"} /\ loop \notin Pruning
    \/ loop = "flush again" /\ loop' = "list"
StopAfter ==
    /\ stop' \notin {"run", "join"} => loop' = "wait"
    /\ stop' \in {"close es", "journal", "exit"} => cap'["tail"].closed
    /\ stop' \in {"journal", "exit"} => cap'["es"].closed
    /\ jclosed' => stop' = "exit"
CaptureMoves(c, q) ==
    /\ CaptureSteps(c, q) /\ LoopMoves /\ StopAfter
    /\ UNCHANGED <<jclosed, scope, pruning, touched, altered, kept, seen, unseen>>

LEMMA RUse ==
    ASSUME RBase, NEW c \in Captures, NEW q, CaptureSteps(c, q), NEW p, InUse(p)'
    PROVE  InUse(p) \/ (p = q /\ q \in Paths \ DOMAIN disk)
<1>1. PICK b \in Captures : cap'[b].open /\ cap'[b].path = p
  BY DEF InUse
<1>2. CASE b # c
  BY <1>1, <1>2 DEF CaptureSteps, InUse
<1>3. CASE b = c
  <2>1. p = q /\ (q \in DOMAIN disk => cap[c].open /\ cap[c].path = q)
    BY <1>1, <1>3 DEF CaptureSteps, Writable
  <2>2. CASE q \in DOMAIN disk
    BY <2>1, <2>2 DEF InUse
  <2>3. CASE q \notin DOMAIN disk
    <3>1. q # NoPath
      BY <1>1, <1>3, <2>1 DEF CaptureSteps, CapOK
    <3>2. q \in Paths
      BY <2>3, <3>1, RCapture DEF CaptureSteps
    <3> QED BY <2>1, <2>3, <3>2
  <2> QED BY <2>2, <2>3
<1> QED BY <1>2, <1>3

\* The file at q only gets longer, by raw lines.
LEMMA RContent ==
    ASSUME RBase, NEW c \in Captures, NEW q \in Paths, CaptureSteps(c, q)
    PROVE  /\ At(disk, q) \in FileTexts /\ disk'[q] \in FileTexts
           /\ Len(At(disk, q)) \in Nat /\ Len(disk'[q]) \in Nat
           /\ Len(At(disk, q)) <= Len(disk'[q])
           /\ \A i \in 1 .. Len(At(disk, q)) : disk'[q][i] = At(disk, q)[i]
           /\ \A i \in Len(At(disk, q)) + 1 .. Len(disk'[q]) : disk'[q][i] = "raw"
<1> DEFINE d == At(disk, q)
           e == disk'[q]
<1>1. d \in FileTexts
  BY RDomains, RText DEF At, RBase
<1>2. (q \in DOMAIN disk /\ e = d) \/ e = Append(d, "raw")
  BY DEF CaptureSteps, WrittenTo, At
<1> HIDE DEF d, e
<1>3. CASE e = d
  BY <1>1, <1>3, RText DEF d, e
<1>4. CASE e = Append(d, "raw")
  <2>1. /\ Len(d) \in Nat /\ e \in FileTexts /\ Len(e) = Len(d) + 1
        /\ \A i \in 1 .. Len(d) : e[i] = d[i]
        /\ e[Len(d) + 1] = "raw"
    BY <1>1, <1>4, RText
  <2>2. Len(e) \in Nat /\ Len(d) <= Len(e) /\ \A i \in Len(d) + 1 .. Len(e) : e[i] = "raw"
    BY <2>1
  <2> QED BY <1>1, <2>1, <2>2 DEF d, e
<1> QED BY <1>2, <1>3, <1>4

\* So does what is hashed of it, and journaled, unless retention had it forgotten
\* meanwhile.
LEMMA RPrefix ==
    ASSUME RBase, NEW c \in Captures, NEW q \in Paths, CaptureSteps(c, q),
           HashedTo(c, q, disk'[q])
    PROVE  LET j == log[q].prefix
               h == jfiles'[q]
               w == At(jfiles, q)
           IN  /\ j \in FileTexts /\ h \in FileTexts /\ w \in FileTexts
               /\ Len(w) <= Len(h) /\ Len(h) <= Len(disk'[q])
               /\ \A x \in 1 .. Len(h) : h[x] = IF x <= Len(w) THEN w[x] ELSE disk'[q][x]
               /\ q \notin touched => Begins(h, disk'[q])
               /\ q \notin unseen => Begins(j, w) /\ Begins(j, h)
               /\ q \notin DOMAIN jfiles \cup unseen => j = <<>>
<1> DEFINE j == log[q].prefix
           h == jfiles'[q]
           w == At(jfiles, q)
           d == At(disk, q)
           e == disk'[q]
<1>1. j \in FileTexts /\ h \in FileTexts /\ w \in FileTexts /\ d \in FileTexts /\ e \in FileTexts
  <2>1. h \in FileTexts
    BY DEF CaptureSteps, TypesAfter, HashedTo
  <2>2. w \in FileTexts
    BY RDomains, RText DEF RBase, At
  <2> QED BY <2>1, <2>2, RDomains, RContent DEF RBase
<1>2. /\ Len(w) <= Len(h) /\ Len(h) <= Len(e)
      /\ \A x \in 1 .. Len(h) : h[x] = IF x <= Len(w) THEN w[x] ELSE e[x]
  BY DEF HashedTo
<1>3. /\ Len(d) \in Nat /\ Len(e) \in Nat /\ Len(d) <= Len(e) /\ \A x \in 1 .. Len(d) : e[x] = d[x]
  BY RContent
<1>4. q \notin touched => Begins(w, d)
  <2>1. CASE q \in DOMAIN jfiles
    BY <2>1, RDomains DEF RBase, JournalOK, At
  <2>2. CASE q \notin DOMAIN jfiles
    <3>1. w = <<>>
      BY <2>2 DEF At
    <3> HIDE DEF w, d
    <3> QED BY <1>3, <3>1, RText DEF Begins
  <2> QED BY <2>1, <2>2
<1>5. q \notin DOMAIN jfiles \cup unseen => j = <<>>
  <2>1. CASE q \in DOMAIN disk
    <3>1. InUse(q)
      BY <2>1 DEF HashedTo, Writable, InUse
    <3> QED BY <2>1, <3>1 DEF RBase, JournalOK
  <2>2. CASE q \notin DOMAIN disk
    BY <2>2 DEF RBase, JournalOK, NoLog
  <2> QED BY <2>1, <2>2
<1>6. q \notin unseen => Begins(j, w)
  <2>1. CASE q \in DOMAIN jfiles
    BY <2>1 DEF RBase, JournalOK, At
  <2>2. CASE q \notin DOMAIN jfiles
    <3> SUFFICES ASSUME q \notin unseen PROVE Begins(j, w)
      OBVIOUS
    <3>1. j = <<>>
      BY <2>2, <1>5
    <3>2. Len(w) \in Nat
      BY <1>1, RText
    <3> HIDE DEF w, j
    <3> QED BY <3>1, <3>2, RText DEF Begins
  <2> QED BY <2>1, <2>2
<1>7. Len(j) \in Nat /\ Len(h) \in Nat /\ Len(w) \in Nat
  BY <1>1, RText
<1> HIDE DEF j, h, w, d, e
<1>8. q \notin touched => Begins(h, e)
  BY <1>2, <1>3, <1>4, <1>7 DEF Begins
<1>9. q \notin unseen => Begins(j, h)
  BY <1>2, <1>6, <1>7 DEF Begins
<1> QED BY <1>1, <1>2, <1>5, <1>6, <1>8, <1>9 DEF j, h, w, e

LEMMA RCaptureTypes ==
    ASSUME RBase, NEW c \in Captures, NEW q, CaptureMoves(c, q)
    PROVE  RecorderTypes' /\ CapsOK'
<1>1. RecorderTypes'
  BY DEF CaptureMoves, CaptureSteps, TypesAfter, RBase, RecorderTypes, scope, pruning
<1>2. ASSUME NEW b \in Captures
      PROVE  CapOK(cap'[b], own', disk')
  <2>1. CASE b = c
    BY <2>1 DEF CaptureMoves, CaptureSteps
  <2>2. CASE b # c
    <3>1. cap'[b] = cap[b] /\ CapOK(cap[b], own, disk)
      BY <2>2, RCapture DEF CaptureMoves, CaptureSteps
    <3> DEFINE p == cap[b].path
    <3>2. CASE p = NoPath
      BY <3>1, <3>2 DEF CapOK
    <3>3. CASE p # NoPath
      <4>1. p \in own /\ p \in Paths /\ p \in DOMAIN disk
        BY <3>3, RCapture DEF CapOK
      <4>2. p # q
        <5>1. cap["tail"].path # cap["es"].path
          BY <2>2, <3>3, RCapture DEF RBase, CapsOK, Captures, CapOK
        <5>2. p # cap[c].path
          BY <2>2, <5>1 DEF Captures
        <5> QED BY <4>1, <5>2 DEF CaptureMoves, CaptureSteps
      <4>3. disk'[p] = disk[p] /\ p \in own'
        BY <4>1, <4>2 DEF CaptureMoves, CaptureSteps, OthersSame
      <4> QED BY <3>1, <4>3 DEF CapOK
    <3> QED BY <3>2, <3>3
  <2> QED BY <2>1, <2>2
<1>3. cap'["tail"].path = cap'["es"].path => cap'["es"].path = NoPath
  <2> SUFFICES ASSUME cap'["tail"].path = cap'["es"].path, cap'["es"].path # NoPath
               PROVE  FALSE
    OBVIOUS
  <2>1. PICK b \in Captures : b # c /\ Captures = {b, c}
    BY DEF Captures
  <2>2. cap'[b].path = q /\ cap[b].path = q /\ q # NoPath
    BY <2>1 DEF CaptureMoves, CaptureSteps, Captures
  <2>3. q \in DOMAIN disk
    BY <2>2, RCapture
  <2>4. cap[c].path = q
    BY <2>3 DEF CaptureMoves, CaptureSteps
  <2>5. cap["tail"].path = cap["es"].path /\ cap["es"].path = q
    BY <2>1, <2>2, <2>4 DEF Captures
  <2> QED BY <2>2, <2>5 DEF RBase, CapsOK
<1>4. CapsOK'
  BY <1>2, <1>3 DEF CapsOK
<1> QED BY <1>1, <1>4

LEMMA RCaptureStages ==
    ASSUME RBase, NEW c \in Captures, NEW q, CaptureMoves(c, q)
    PROVE  StagesOK'
<1>1. /\ UNCHANGED <<jclosed, active, todo, cur, seen, unseen>>
      /\ Len(disk) \in Nat /\ Len(disk') \in Nat /\ seen \in Nat /\ Len(disk) <= Len(disk')
      /\ DOMAIN disk = 1 .. Len(disk) /\ DOMAIN disk' = 1 .. Len(disk')
      /\ seen <= Len(disk)
  <2>1. UNCHANGED <<jclosed, active, todo, cur, seen, unseen>> /\ TypesAfter
    BY DEF CaptureMoves, CaptureSteps, pruning
  <2>2. Len(disk) \in Nat /\ DOMAIN disk = 1 .. Len(disk) /\ seen \in Nat /\ seen <= Len(disk)
    BY RDomains DEF RBase, RecorderTypes, StagesOK
  <2>3. Len(disk) <= Len(disk') /\ disk' \in Seq(FileTexts)
    BY <2>1 DEF TypesAfter
  <2> QED BY <2>1, <2>2, <2>3
<1>2. seen' <= Len(disk') /\ DOMAIN disk \subseteq DOMAIN disk'
  BY <1>1
<1>3. /\ loop' \in {"flush again", "list"} \cup Pruning => loop \in {"flush again", "list"} \cup Pruning
      /\ loop' \in Deleting => loop \in Deleting
      /\ loop' \notin Pruning => loop \notin Pruning
  BY DEF CaptureMoves, LoopMoves, Pruning, Deleting
<1>4. ASSUME loop' \in {"flush again", "list"} \cup Pruning, NEW p \in 1 .. seen, InUse(p)'
      PROVE  p \in active
  <2>1. p \in DOMAIN disk
    BY <1>1
  <2>2. InUse(p)
    BY <1>4, <2>1, RUse DEF CaptureMoves
  <2> QED BY <1>3, <1>4, <2>2 DEF RBase, StagesOK
<1>5. loop' \in Deleting =>
        cur'.path \in DOMAIN disk' /\ cur'.path \notin active'
           /\ (cur'.path <= seen' \/ cur'.path \in unseen')
  BY <1>1, <1>2, <1>3 DEF RBase, StagesOK
<1>6. loop' \notin Pruning => todo' = {}
  BY <1>1, <1>3 DEF RBase, StagesOK
<1>7. \A r \in todo' : r.path \in DOMAIN disk'
  BY <1>1, <1>2 DEF RBase, StagesOK
<1>8. loop' \in {"flush again", "list"} \cup Pruning => \A p \in 1 .. seen' : InUse(p)' => p \in active'
  BY <1>1, <1>4
<1> QED BY <1>2, <1>5, <1>6, <1>7, <1>8 DEF StagesOK, CaptureMoves, StopAfter

LEMMA RCaptureJournal ==
    ASSUME RBase, NEW c \in Captures, NEW q, CaptureMoves(c, q)
    PROVE  JournalOK'
<1>0. /\ CaptureSteps(c, q) /\ OthersSame(q) /\ JournalOK /\ RecorderTypes'
      /\ UNCHANGED <<known, knows, jclosed, cur, touched, kept, unseen>>
      /\ loop = "remove" => loop' = "remove"
      /\ DOMAIN disk \subseteq Paths /\ own \subseteq DOMAIN disk
  <2>1. RecorderTypes' /\ CaptureSteps(c, q) /\ OthersSame(q)
    BY RCaptureTypes DEF CaptureMoves, CaptureSteps
  <2>2. UNCHANGED <<known, knows, jclosed, cur, touched, kept, unseen>>
    BY DEF CaptureMoves, pruning, scope
  <2>3. loop = "remove" => loop' = "remove"
    BY DEF CaptureMoves, LoopMoves, Pruning
  <2>4. DOMAIN disk \subseteq Paths /\ own \subseteq DOMAIN disk /\ JournalOK
    BY RDomains DEF RBase, RecorderTypes
  <2> QED BY <2>1, <2>2, <2>3, <2>4
<1>00. DOMAIN disk' \subseteq Paths /\ own' \subseteq DOMAIN disk' /\ DOMAIN jfiles' \subseteq own'
  BY <1>0, RecorderAssumption DEF RecorderTypes, Paths
<1>1. ASSUME NEW p \in Paths, p # q
      PROVE  /\ p \in DOMAIN disk' <=> p \in DOMAIN disk
             /\ p \in DOMAIN disk => disk'[p] = disk[p]
             /\ p \in present' <=> p \in present
             /\ p \in own' <=> p \in own
             /\ log'[p] = log[p]
             /\ p \in DOMAIN jfiles' <=> p \in DOMAIN jfiles
             /\ p \in DOMAIN jfiles => jfiles'[p] = jfiles[p]
             /\ p \in unrecorded' <=> p \in unrecorded
             /\ InUse(p)' => InUse(p)
  BY <1>0, <1>1, RUse DEF OthersSame
<1>2. ASSUME q \in Paths
      PROVE  /\ q \in DOMAIN disk' /\ q \in own'
             /\ \/ NotJournaled(q)
                \/ OnlyHashed(c, q, disk'[q]) \/ JournaledTo(c, q, disk'[q])
             /\ q \in DOMAIN disk => q \in own /\ (q \in present' <=> q \in present)
  BY <1>0, <1>2 DEF CaptureSteps, WrittenTo
<1>3. \A p \in Paths \ DOMAIN disk' : log'[p] = NoLog
  BY <1>0, <1>1, <1>2 DEF JournalOK
<1>4. ASSUME NEW p \in Paths
      PROVE  log'[p].prefix # <<>> => log'[p].last # "none"
  <2>1. CASE log'[p] = log[p]
    BY <2>1, <1>0 DEF JournalOK
  <2>2. CASE log'[p].last = "append"
    BY <2>2
  <2> QED BY <1>1, <1>2, <2>1, <2>2 DEF NotJournaled, OnlyHashed, JournaledTo
<1>5. ASSUME NEW p \in DOMAIN jfiles' \ unrecorded'
      PROVE  jfiles'[p] = log'[p].prefix /\ jfiles'[p] # <<>>
  BY <1>0, <1>00, <1>1, <1>2 DEF JournalOK, NotJournaled, OnlyHashed, JournaledTo
<1>10. ASSUME NEW p \in DOMAIN jfiles'
       PROVE  /\ Len(jfiles'[p]) <= Len(disk'[p])
              /\ p \notin touched => Begins(jfiles'[p], disk'[p])
              /\ p \notin unseen => Begins(log'[p].prefix, jfiles'[p])
  <2>0. p \in Paths
    BY <1>00
  <2>1. CASE p # q
    <3>1. p \in DOMAIN jfiles /\ p \in DOMAIN disk
      BY <2>0, <2>1, <1>1, <1>10, RDomains DEF RBase
    <3> QED BY <2>0, <2>1, <3>1, <1>0, <1>1 DEF JournalOK
  <2>2. CASE p = q /\ NotJournaled(q)
    <3> DEFINE w == jfiles[q]
               d == At(disk, q)
               e == disk'[q]
    <3>1. q \in DOMAIN jfiles /\ q \in DOMAIN disk /\ jfiles'[q] = w /\ log'[q] = log[q]
      BY <1>10, <2>2, RDomains DEF NotJournaled, RBase
    <3>2. /\ Len(w) \in Nat /\ Len(w) <= Len(d) /\ (q \notin touched => Begins(w, d))
          /\ q \notin unseen => Begins(log[q].prefix, w)
      BY <3>1, RDomains, RText DEF RBase, JournalOK, At
    <3>3. /\ Len(d) \in Nat /\ Len(e) \in Nat /\ Len(d) <= Len(e)
          /\ \A x \in 1 .. Len(d) : e[x] = d[x]
      BY <1>0, <2>0, <2>2, RContent
    <3> HIDE DEF w, d, e
    <3>4. Len(w) <= Len(e) /\ (q \notin touched => Begins(w, e))
      BY <3>2, <3>3 DEF Begins
    <3> QED BY <2>2, <3>1, <3>2, <3>4 DEF e
  <2>3. CASE p = q /\ OnlyHashed(c, q, disk'[q])
    BY <1>0, <2>0, <2>3, RPrefix DEF OnlyHashed
  <2>4. CASE p = q /\ JournaledTo(c, q, disk'[q])
    <3> DEFINE h == jfiles'[q]
    <3>1. /\ h \in FileTexts /\ Len(h) <= Len(disk'[q]) /\ log'[q].prefix = h
          /\ q \notin touched => Begins(h, disk'[q])
      BY <1>0, <2>0, <2>4, RPrefix DEF JournaledTo
    <3>2. Begins(h, h)
      <4> HIDE DEF h
      <4>1. Len(h) \in Nat
        BY <3>1, RText
      <4> QED BY <4>1 DEF Begins
    <3> QED BY <2>4, <3>1, <3>2
  <2> QED BY <2>0, <1>2, <2>1, <2>2, <2>3, <2>4
<1>6. ASSUME NEW p \in DOMAIN disk'
      PROVE  /\ Len(log'[p].prefix) <= Len(disk'[p])
             /\ p \notin touched => Begins(log'[p].prefix, disk'[p])
  <2>0. p \in Paths
    BY <1>00
  <2>1. CASE p # q
    BY <2>0, <2>1, <1>0, <1>1 DEF JournalOK
  <2>2. CASE p = q
    <3> DEFINE j == log[q].prefix
               i == log'[q].prefix
               d == At(disk, q)
               e == disk'[q]
    <3>1. /\ d \in FileTexts /\ e \in FileTexts /\ Len(d) \in Nat /\ Len(e) \in Nat /\ Len(d) <= Len(e)
          /\ \A x \in 1 .. Len(d) : e[x] = d[x]
      BY <1>0, <2>0, <2>2, RContent
    <3>2. j \in FileTexts /\ Len(j) \in Nat
      BY <2>0, <2>2, RDomains, RText DEF RBase
    <3>3. Len(j) <= Len(d) /\ (q \notin touched => Begins(j, d))
      <4>1. CASE q \in DOMAIN disk
        BY <4>1, <1>0 DEF JournalOK, At
      <4>2. CASE q \notin DOMAIN disk
        <5>1. j = <<>>
          BY <2>0, <2>2, <4>2, <1>0 DEF JournalOK, NoLog
        <5> HIDE DEF j
        <5> QED BY <3>1, <5>1, RText DEF Begins
      <4> QED BY <4>1, <4>2
    <3>4. CASE NotJournaled(q) \/ OnlyHashed(c, q, disk'[q])
      <4>1. i = j
        BY <3>4 DEF NotJournaled, OnlyHashed
      <4> HIDE DEF i, j, d, e
      <4>2. Len(i) <= Len(e) /\ (q \notin touched => Begins(i, e))
        BY <3>1, <3>2, <3>3, <4>1 DEF Begins
      <4> QED BY <2>2, <4>2 DEF i, e
    <3>5. CASE JournaledTo(c, q, disk'[q])
      <4>1. Len(i) <= Len(e) /\ (q \notin touched => Begins(i, e))
        BY <1>0, <2>0, <2>2, <3>5, RPrefix DEF JournaledTo
      <4> QED BY <2>2, <4>1
    <3> QED BY <2>0, <2>2, <1>2, <3>4, <3>5
  <2> QED BY <2>1, <2>2
<1>7. ASSUME NEW p \in DOMAIN disk' \ (unseen \cup DOMAIN jfiles'), InUse(p)'
      PROVE  log'[p].prefix = <<>>
  <2>0. p \in Paths
    BY <1>00
  <2>1. CASE p # q
    BY <2>0, <2>1, <1>0, <1>1, <1>7 DEF JournalOK
  <2>2. CASE p = q
    <3>1. NotJournaled(q)
      BY <1>2, <1>7, <2>0, <2>2 DEF JournaledTo, OnlyHashed, HashedTo
    <3>2. q \notin DOMAIN jfiles /\ log'[q] = log[q]
      BY <1>7, <2>2, <3>1 DEF NotJournaled
    <3>3. CASE q \in DOMAIN disk
      <4>1. InUse(q)
        BY <1>0, <1>7, <2>2, <3>3, RUse
      <4> QED BY <1>0, <1>7, <2>2, <3>2, <3>3, <4>1 DEF JournalOK
    <3>4. CASE q \notin DOMAIN disk
      BY <1>0, <2>0, <2>2, <3>2, <3>4 DEF JournalOK, NoLog
    <3> QED BY <3>3, <3>4
  <2> QED BY <2>1, <2>2
<1>8. ASSUME NEW p \in own' \ DOMAIN jfiles'
      PROVE  \/ log'[p].prefix = <<>> \/ p \in kept \/ p \notin present'
             \/ loop' = "remove" /\ cur.path = p
  <2>0. p \in Paths
    BY <1>00
  <2>1. CASE p # q
    BY <2>0, <2>1, <1>0, <1>1 DEF JournalOK
  <2>2. CASE p = q
    <3>1. NotJournaled(q)
      BY <1>2, <2>0, <2>2 DEF JournaledTo, OnlyHashed, HashedTo
    <3>2. q \notin DOMAIN jfiles /\ log'[q] = log[q]
      BY <2>2, <3>1 DEF NotJournaled
    <3>3. CASE q \in DOMAIN disk
      BY <1>0, <1>2, <2>0, <2>2, <3>2, <3>3 DEF JournalOK
    <3>4. CASE q \notin DOMAIN disk
      BY <1>0, <2>0, <2>2, <3>2, <3>4 DEF JournalOK, NoLog
    <3> QED BY <3>3, <3>4
  <2> QED BY <2>1, <2>2
<1>9. ASSUME knows, NEW p \in DOMAIN known \ own'
      PROVE  p \in Paths /\ known[p] = Len(log'[p].prefix)
  <2>1. p \notin own
    <3>1. p \in own => p \in Paths
      BY <1>0
    <3>2. p \in Paths => p # q
      BY <1>2
    <3> QED BY <1>1, <3>1, <3>2
  <2>2. p \in Paths /\ known[p] = Len(log[p].prefix)
    BY <2>1, <1>0, <1>9 DEF JournalOK
  <2>3. p # q
    BY <1>2, <2>2
  <2> QED BY <1>1, <2>2, <2>3
<1> QED
  BY <1>0, <1>3, <1>4, <1>5, <1>6, <1>7, <1>8, <1>9, <1>10 DEF JournalOK

LEMMA RCaptureBase ==
    ASSUME RBase, NEW c \in Captures, NEW q, CaptureMoves(c, q)
    PROVE  RBase'
  BY RCaptureTypes, RCaptureStages, RCaptureJournal DEF RBase

\* Nothing retention has looked at is written to, but for files opened since.
LEMMA RSettledFile ==
    ASSUME RBase, PruneOK, NEW c \in Captures, NEW q, CaptureMoves(c, q),
           NEW p \in DOMAIN disk, ~InUse(p)
    PROVE  /\ disk'[p] = disk[p] /\ log'[p] = log[p]
           /\ p \in present' <=> p \in present
           /\ p \in unrecorded' <=> p \in unrecorded
<1>1. p \in Paths /\ CaptureSteps(c, q)
  BY RDomains DEF RBase, CaptureMoves
<1>2. CASE p # q
  BY <1>1, <1>2 DEF CaptureSteps, OthersSame
<1>3. CASE p = q
  <2>1. ~Writable(c, q)
    BY <1>3 DEF Writable, InUse
  <2>2. WrittenTo(c, q) /\ NotJournaled(q)
    BY <1>1, <1>3, <2>1 DEF CaptureSteps, OnlyHashed, JournaledTo, HashedTo
  <2> QED BY <1>3, <2>1, <2>2 DEF WrittenTo, NotJournaled
<1> QED BY <1>2, <1>3

LEMMA RCapturePrune ==
    ASSUME RBase, PruneOK, NEW c \in Captures, NEW q, CaptureMoves(c, q)
    PROVE  PruneOK'
<1>0. /\ CaptureSteps(c, q) /\ StagesOK
      /\ UNCHANGED <<active, todo, cur, touched, kept, seen, unseen>>
      /\ loop' \in Deleting => loop' = loop
      /\ DOMAIN disk \subseteq Paths
  BY RDomains DEF CaptureMoves, LoopMoves, RBase, pruning, Deleting
<1> SUFFICES ASSUME NEW p \in DOMAIN disk' \ (touched' \cup unseen' \cup unrecorded')
             PROVE  /\ p \notin present' => Settled(log'[p], disk'[p], p \in kept') /\ ~InUse(p)'
                    /\ cur'.path = p =>
                          /\ loop' \in Deleting => CandOK(cur', disk'[p], log'[p].prefix, p \in kept')
                          /\ loop' \in {"record", "remove"} => p \in present' /\ cur'.sha = disk'[p]
                          /\ loop' = "remove" => Settled(log'[p], disk'[p], p \in kept')
                    /\ \A r \in todo' : (r.path = p /\ p <= seen' /\ p \notin active') =>
                                          CandOK(r, disk'[p], log'[p].prefix, p \in kept')
  BY DEF PruneOK
<1>1. CASE p \notin DOMAIN disk
  <2>1. p = q /\ p \in Paths /\ p \in present'
    <3>1. p \in Paths
      BY RCaptureTypes, RecorderAssumption DEF RecorderTypes, Paths
    <3> QED BY <1>0, <1>1, <3>1 DEF CaptureSteps, OthersSame, WrittenTo
  <2>2. loop' \in Deleting => cur'.path # p
    BY <1>0, <1>1 DEF StagesOK
  <2>3. \A r \in todo' : r.path # p
    BY <1>0, <1>1 DEF StagesOK
  <2> QED BY <2>1, <2>2, <2>3 DEF Deleting
<1>2. CASE p \in DOMAIN disk /\ ~InUse(p)
  <2>1. /\ disk'[p] = disk[p] /\ log'[p] = log[p]
        /\ p \in present' <=> p \in present
        /\ p \in unrecorded' <=> p \in unrecorded
    BY <1>0, <1>2, RSettledFile
  <2>2. ~InUse(p)'
    BY <1>0, <1>2, RUse
  <2> QED BY <1>0, <1>2, <2>1, <2>2 DEF PruneOK, Deleting
<1>3. CASE p \in DOMAIN disk /\ InUse(p)
  <2>1. p \in Paths
    BY <1>0, <1>3
  <2>2. p \in present'
    <3>1. CASE p # q
      <4>1. p \notin unrecorded /\ (p \in present' <=> p \in present)
        BY <1>0, <2>1, <3>1 DEF CaptureSteps, OthersSame
      <4> QED BY <1>0, <1>3, <4>1 DEF PruneOK
    <3>2. CASE p = q /\ NotJournaled(q)
      <4>1. p \notin unrecorded /\ (p \in present' <=> p \in present)
        BY <1>0, <1>3, <2>1, <3>2 DEF CaptureSteps, WrittenTo, NotJournaled
      <4> QED BY <1>0, <1>3, <4>1 DEF PruneOK
    <3>3. CASE p = q /\ ~NotJournaled(q)
      BY <1>0, <2>1, <3>3 DEF CaptureSteps, OnlyHashed, JournaledTo, HashedTo
    <3> QED BY <3>1, <3>2, <3>3
  <2>3. p \in Nat /\ (p <= seen => p \in 1 .. seen)
    BY <2>1, RecorderAssumption DEF Paths, RBase, RecorderTypes
  <2>4. loop' \in Deleting => cur'.path # p
    BY <1>0, <1>3, <2>3 DEF StagesOK, Deleting, Pruning
  <2>5. \A r \in todo' : ~(r.path = p /\ p <= seen' /\ p \notin active')
    BY <1>0, <1>3, <2>3 DEF StagesOK
  <2> QED BY <2>2, <2>4, <2>5 DEF Deleting
<1> QED BY <1>1, <1>2, <1>3

LEMMA RCaptureTamper ==
    ASSUME RBase, TamperOK, NEW c \in Captures, NEW q, CaptureMoves(c, q)
    PROVE  TamperOK'
<1>0. /\ CaptureSteps(c, q)
      /\ UNCHANGED <<cur, altered, unseen>>
      /\ loop' \in {"record", "remove"} => loop' = loop
      /\ DOMAIN disk \subseteq Paths /\ DOMAIN disk' \subseteq Paths
      /\ DOMAIN disk \subseteq DOMAIN disk'
  <2>1. RecorderTypes' /\ RecorderTypes
    BY RCaptureTypes DEF RBase
  <2>2. DOMAIN disk' \subseteq Paths
    BY <2>1, RecorderAssumption DEF RecorderTypes, Paths
  <2>3. DOMAIN disk \subseteq DOMAIN disk'
    BY <2>1 DEF RecorderTypes, CaptureMoves, CaptureSteps, TypesAfter
  <2> QED BY <2>2, <2>3, RDomains DEF CaptureMoves, LoopMoves, RBase, pruning
<1>1. ASSUME NEW p \in Paths, p # q
      PROVE  /\ p \in DOMAIN disk' <=> p \in DOMAIN disk
             /\ p \in DOMAIN disk => disk'[p] = disk[p]
             /\ p \in present' <=> p \in present
             /\ log'[p] = log[p]
             /\ p \in DOMAIN jfiles' <=> p \in DOMAIN jfiles
             /\ p \in DOMAIN jfiles => jfiles'[p] = jfiles[p]
  BY <1>0, <1>1 DEF CaptureSteps, OthersSame
<1>2. ASSUME NEW p \in DOMAIN disk' \ unseen
      PROVE  /\ Raw(log'[p].prefix, 1, Len(log'[p].prefix))
             /\ Raw(disk'[p], Len(log'[p].prefix) + 1, Len(disk'[p]))
             /\ p \in DOMAIN jfiles' => Raw(jfiles'[p], 1, Len(jfiles'[p]))
  <2>0. p \in Paths
    BY <1>0
  <2>1. CASE p # q
    BY <2>0, <2>1, <1>1, <1>2 DEF TamperOK
  <2>2. CASE p = q
    <3> DEFINE j == log[q].prefix
               i == log'[q].prefix
               d == At(disk, q)
               e == disk'[q]
    <3>1. /\ Len(d) \in Nat /\ Len(e) \in Nat /\ Len(d) <= Len(e)
          /\ \A x \in 1 .. Len(d) : e[x] = d[x]
          /\ \A x \in Len(d) + 1 .. Len(e) : e[x] = "raw"
      BY <1>0, <2>0, <2>2, RContent
    <3>2. Len(j) \in Nat /\ Len(j) <= Len(d) /\ Raw(j, 1, Len(j)) /\ Raw(d, Len(j) + 1, Len(d))
      <4>1. CASE q \in DOMAIN disk
        <5>1. Len(j) \in Nat
          BY <2>0, <2>2, RDomains, RText DEF RBase
        <5> QED BY <1>2, <2>2, <4>1, <5>1 DEF TamperOK, At, RBase, JournalOK
      <4>2. CASE q \notin DOMAIN disk
        <5>1. j = <<>> /\ d = <<>>
          BY <2>0, <2>2, <4>2 DEF RBase, JournalOK, NoLog, At
        <5> HIDE DEF j, d
        <5> QED BY <5>1 DEF Raw
      <4> QED BY <4>1, <4>2
    <3>3. Raw(e, Len(j) + 1, Len(e))
      <4> HIDE DEF j, d, e
      <4> QED BY <3>1, <3>2 DEF Raw
    <3>4. CASE NotJournaled(q)
      <4>1. q \in DOMAIN jfiles' => Raw(jfiles'[q], 1, Len(jfiles'[q]))
        BY <1>2, <2>2, <3>4 DEF NotJournaled, TamperOK
      <4> QED BY <2>2, <3>2, <3>3, <3>4, <4>1 DEF NotJournaled
    <3>5. CASE HashedTo(c, q, disk'[q]) /\ (i = j \/ i = jfiles'[q])
      <4> DEFINE h == jfiles'[q]
                 w == At(jfiles, q)
      <4>1. /\ h \in FileTexts /\ w \in FileTexts /\ Len(w) <= Len(h) /\ Len(h) <= Len(e)
            /\ \A x \in 1 .. Len(h) : h[x] = IF x <= Len(w) THEN w[x] ELSE e[x]
            /\ Len(j) <= Len(w)
        BY <1>0, <1>2, <2>0, <2>2, <3>5, RPrefix DEF Begins
      <4>2. Raw(w, 1, Len(w))
        <5>1. CASE q \in DOMAIN jfiles
          BY <1>2, <2>2, <5>1 DEF TamperOK, At
        <5>2. CASE q \notin DOMAIN jfiles
          <6>1. w = <<>>
            BY <5>2 DEF At
          <6> HIDE DEF w
          <6> QED BY <6>1, RText DEF Raw
        <5> QED BY <5>1, <5>2
      <4>3. Len(w) \in Nat /\ Len(h) \in Nat
        BY <4>1, RText
      <4>4. i = j \/ i = h
        BY <3>5
      <4> HIDE DEF i, j, d, e, h, w
      <4>5. Raw(h, 1, Len(h)) /\ Raw(e, Len(h) + 1, Len(e))
        <5>1. ASSUME NEW x \in 1 .. Len(h)
              PROVE  h[x] = "raw"
          <6>1. CASE x <= Len(w)
            <7>1. x \in 1 .. Len(w) /\ h[x] = w[x]
              BY <4>1, <4>3, <6>1
            <7> QED BY <4>2, <7>1 DEF Raw
          <6>2. CASE ~(x <= Len(w))
            <7>1. x \in Len(j) + 1 .. Len(e) /\ h[x] = e[x]
              BY <3>1, <3>2, <4>1, <4>3, <6>2
            <7> QED BY <3>3, <7>1 DEF Raw
          <6> QED BY <6>1, <6>2
        <5>2. \A x \in Len(h) + 1 .. Len(e) : x \in Len(j) + 1 .. Len(e)
          BY <3>1, <3>2, <4>1, <4>3
        <5> QED BY <3>3, <5>1, <5>2 DEF Raw
      <4> QED BY <2>2, <3>2, <3>3, <4>4, <4>5 DEF i, e, h
    <3> QED BY <1>0, <2>0, <2>2, <3>4, <3>5 DEF CaptureSteps, OnlyHashed, JournaledTo
  <2> QED BY <2>1, <2>2
<1>3. ASSUME NEW p \in altered \ unseen
      PROVE  /\ log'[p].last # "none"
             /\ p \in present' => Tampered(disk'[p], log'[p].prefix)
             /\ log'[p].last = "prune" => Mismatch(log'[p].prefix, log'[p].prune)
             /\ cur'.path = p /\ loop' \in {"record", "remove"} => Tampered(cur'.sha, log'[p].prefix)
  <2>0. p \in DOMAIN disk /\ p \in Paths
    BY <1>0, <1>3 DEF TamperOK
  <2>1. /\ log[p].last # "none"
        /\ p \in present => Tampered(disk[p], log[p].prefix)
        /\ log[p].last = "prune" => Mismatch(log[p].prefix, log[p].prune)
        /\ cur.path = p /\ loop \in {"record", "remove"} => Tampered(cur.sha, log[p].prefix)
    BY <1>3 DEF TamperOK
  <2>2. CASE p # q
    BY <2>0, <2>1, <2>2, <1>0, <1>1
  <2>3. CASE p = q
    <3> DEFINE j == log[q].prefix
               i == log'[q].prefix
               d == disk[q]
               e == disk'[q]
    <3>1. /\ Len(d) \in Nat /\ Len(e) \in Nat /\ Len(d) <= Len(e) /\ Len(j) \in Nat
          /\ \A x \in 1 .. Len(d) : e[x] = d[x]
          /\ q \in present' <=> q \in present
      <4>1. At(disk, q) = d
        BY <2>0, <2>3 DEF At
      <4>2. q \in present' <=> q \in present
        BY <1>0, <2>0, <2>3 DEF CaptureSteps, WrittenTo
      <4>3. Len(j) \in Nat
        BY <2>0, <2>3, RDomains, RText DEF RBase
      <4> QED BY <1>0, <2>0, <2>3, <4>1, <4>2, <4>3, RContent
    <3>2. Tampered(d, j) => Tampered(e, j)
      <4> HIDE DEF d, e, j
      <4> QED BY <3>1 DEF Tampered
    <3>3. CASE NotJournaled(q) \/ OnlyHashed(c, q, disk'[q])
      BY <1>0, <2>1, <2>3, <3>1, <3>2, <3>3 DEF NotJournaled, OnlyHashed
    <3>4. CASE JournaledTo(c, q, disk'[q])
      <4>1. q \in present
        BY <3>1, <3>4 DEF JournaledTo, HashedTo
      <4>2. Tampered(d, j)
        BY <2>1, <2>3, <4>1
      <4>4. i \in FileTexts /\ Begins(j, i)
        BY <1>0, <1>3, <2>0, <2>3, <3>4, RPrefix DEF JournaledTo
      <4>5. \A t : Tampered(t, j) => Tampered(t, i)
        <5>1. Len(i) \in Nat
          BY <4>4, RText
        <5> HIDE DEF d, e, j, i
        <5> QED BY <3>1, <4>4, <5>1 DEF Tampered, Begins
      <4>6. Tampered(e, i)
        <5> HIDE DEF d, e, j, i
        <5> QED BY <3>2, <4>2, <4>5
      <4>7. log'[q].last = "append" \/ log'[q] = log[q]
        BY <3>4 DEF JournaledTo
      <4>8. cur'.path = q /\ loop' \in {"record", "remove"} => Tampered(cur'.sha, i)
        BY <1>0, <2>1, <2>3, <4>5
      <4> QED BY <2>1, <2>3, <4>6, <4>7, <4>8
    <3> QED BY <1>0, <2>0, <2>3, <3>3, <3>4 DEF CaptureSteps
  <2> QED BY <2>2, <2>3
<1>4. altered \subseteq DOMAIN disk'
  BY <1>0 DEF TamperOK
<1>5. DOMAIN jfiles' \subseteq DOMAIN disk'
  <2>1. RecorderTypes'
    BY RCaptureTypes
  <2> QED BY <2>1 DEF RecorderTypes
<1> QED BY <1>0, <1>2, <1>3, <1>4, <1>5 DEF TamperOK

LEMMA RCaptureStop ==
    ASSUME RBase, StopOK, NEW c \in Captures, NEW q, CaptureMoves(c, q)
    PROVE  StopOK'
<1> SUFFICES ASSUME mishaps' = 0
             PROVE  /\ touched' = {} /\ unrecorded' = {}
                    /\ \A p \in DOMAIN jfiles' : log'[p].last = "append"
                    /\ loop' \in {"record", "remove"} => cur'.path \in present'
                    /\ \A p \in own' \cap present' :
                          \/ Awaits(p)'
                          \/ log'[p].last = "append" /\ log'[p].prefix = disk'[p]
                          \/ loop' = "remove" /\ cur'.path = p
  BY DEF StopOK
<1>0. /\ CaptureSteps(c, q) /\ RecorderTypes' /\ JournalOK'
      /\ mishaps = 0 /\ mishaps' = mishaps
      /\ UNCHANGED <<cur, touched, jclosed>>
      /\ loop' \in {"record", "remove"} => loop' = loop
      /\ loop = "remove" => loop' = "remove"
  <2>1. mishaps \in Nat /\ mishaps <= mishaps'
    BY DEF CaptureMoves, CaptureSteps, TypesAfter, RBase, RecorderTypes
  <2>2. mishaps = 0 /\ mishaps' = mishaps
    BY <2>1
  <2>3. RecorderTypes' /\ JournalOK'
    BY RCaptureTypes, RCaptureJournal
  <2>4. CaptureSteps(c, q) /\ UNCHANGED <<cur, touched, jclosed>>
    BY DEF CaptureMoves, pruning
  <2>5. /\ loop' \in {"record", "remove"} => loop' = loop
        /\ loop = "remove" => loop' = "remove"
    BY DEF CaptureMoves, LoopMoves, Pruning
  <2> QED BY <2>2, <2>3, <2>4, <2>5
<1>00. /\ DOMAIN disk' \subseteq Paths /\ own' \subseteq DOMAIN disk' /\ DOMAIN jfiles' \subseteq own'
       /\ DOMAIN disk \subseteq Paths /\ present \subseteq DOMAIN disk
  BY <1>0, RDomains, RecorderAssumption DEF RecorderTypes, Paths, RBase
<1>1. /\ touched = {} /\ unrecorded = {}
      /\ \A p \in DOMAIN jfiles : log[p].last = "append"
      /\ loop \in {"record", "remove"} => cur.path \in present
      /\ \A p \in own \cap present :
            \/ Awaits(p)
            \/ log[p].last = "append" /\ log[p].prefix = disk[p]
            \/ loop = "remove" /\ cur.path = p
  BY <1>0 DEF StopOK
<1>2. ASSUME NEW p \in Paths, p # q
      PROVE  /\ p \in DOMAIN disk' <=> p \in DOMAIN disk
             /\ p \in DOMAIN disk => disk'[p] = disk[p]
             /\ p \in present' <=> p \in present
             /\ p \in own' <=> p \in own
             /\ log'[p] = log[p]
             /\ p \in DOMAIN jfiles' <=> p \in DOMAIN jfiles
  BY <1>0, <1>2 DEF CaptureSteps, OthersSame
<1>8. unrecorded' = {}
  BY <1>0, <1>1 DEF CaptureSteps
<1>3. ASSUME NEW p \in DOMAIN jfiles'
      PROVE  log'[p].last = "append"
  BY <1>0, <1>00, <1>1, <1>2, <1>8 DEF CaptureSteps, NotJournaled, OnlyHashed, JournaledTo
<1>4. loop' \in {"record", "remove"} => cur'.path \in present'
  <2> SUFFICES ASSUME loop' \in {"record", "remove"} PROVE cur.path \in present'
    BY <1>0
  <2>1. cur.path \in present /\ cur.path \in Paths /\ cur.path \in DOMAIN disk
    BY <1>0, <1>00, <1>1
  <2> QED BY <2>1, <1>0, <1>2 DEF CaptureSteps, WrittenTo
<1>5. ASSUME NEW p \in own' \cap present', p # q
      PROVE  \/ Awaits(p)'
             \/ log'[p].last = "append" /\ log'[p].prefix = disk'[p]
             \/ loop' = "remove" /\ cur'.path = p
  <2>1. p \in Paths /\ p \in own \cap present /\ p \in DOMAIN disk
    BY <1>00, <1>2, <1>5
  <2>2. CASE Awaits(p)
    <3>1. PICK b \in Captures : cap[b].path = p /\ Pending(cap[b])
      BY <2>2 DEF Awaits
    <3>2. b # c
      <4> SUFFICES ASSUME b = c PROVE FALSE
        OBVIOUS
      <4>1. cap[c].open /\ q # cap[c].path
        BY <3>1, <1>5, RCapture
      <4>2. q \in Paths \ DOMAIN disk
        BY <4>1, <1>0 DEF CaptureSteps
      <4> QED BY <4>1, <4>2, <1>0 DEF CaptureSteps, WrittenTo
    <3>3. cap'[b] = cap[b]
      BY <3>2, <1>0 DEF CaptureSteps
    <3> QED BY <3>1, <3>3 DEF Awaits
  <2> QED BY <1>0, <1>1, <1>2, <1>5, <2>1, <2>2
<1>6. ASSUME q \in own' \cap present'
      PROVE  \/ Awaits(q)'
             \/ log'[q].last = "append" /\ log'[q].prefix = disk'[q]
             \/ loop' = "remove" /\ cur'.path = q
  <2>0. q \in Paths /\ q \in DOMAIN disk'
    BY <1>00, <1>6
  <2>1. CASE Pending(cap'[c])
    BY <2>1, <1>0 DEF Awaits, CaptureSteps
  <2>2. CASE AllJournaled(c, q, disk'[q])
    <3>1. log'[q].last = "append"
      BY <1>1, <2>2 DEF AllJournaled, JournaledTo
    <3>2. Begins(log'[q].prefix, disk'[q]) /\ Len(log'[q].prefix) = Len(disk'[q])
      BY <1>0, <1>1, <2>0, <2>2 DEF JournalOK, AllJournaled, JournaledTo
    <3>3. log'[q].prefix \in FileTexts /\ disk'[q] \in FileTexts
      BY <1>0, <2>0, <2>2, RPrefix, RContent DEF AllJournaled, JournaledTo
    <3>4. log'[q].prefix = disk'[q]
      BY <3>2, <3>3, RSameText DEF Begins
    <3> QED BY <3>1, <3>4
  <2>3. CASE /\ NotJournaled(q) /\ ~Pending(cap[c])
             /\ q \in DOMAIN disk /\ disk'[q] = disk[q]
    <3>1. NotJournaled(q) /\ q \in own \cap present
      BY <1>0, <1>6, <2>0, <2>3 DEF CaptureSteps, WrittenTo
    <3>2. CASE Awaits(q)
      <4>1. PICK b \in Captures : cap[b].path = q /\ Pending(cap[b])
        BY <3>2 DEF Awaits
      <4>2. cap'[b] = cap[b]
        BY <2>3, <4>1, <1>0 DEF CaptureSteps
      <4> QED BY <4>1, <4>2 DEF Awaits
    <3> QED BY <1>0, <1>1, <2>3, <3>1, <3>2 DEF NotJournaled
  <2>4. jclosed => /\ NotJournaled(q) /\ ~Pending(cap[c])
                   /\ q \in DOMAIN disk /\ disk'[q] = disk[q]
    <3> SUFFICES ASSUME jclosed
                 PROVE  /\ NotJournaled(q) /\ ~Pending(cap[c])
                        /\ q \in DOMAIN disk /\ disk'[q] = disk[q]
      OBVIOUS
    <3>1. cap[c].closed
      BY DEF RBase, StagesOK, Captures
    <3>2. ~cap[c].open /\ q = cap[c].path
      BY <1>0, <3>1, RCapture DEF CaptureSteps, CapOK
    <3>3. ~Pending(cap[c])
      BY <3>2, RCapture
    <3>4. q \in DOMAIN disk
      BY <2>0, <3>2, RCapture DEF NoPath, Paths
    <3>5. ~Writable(c, q)
      BY <3>2, <3>4 DEF Writable
    <3> QED BY <1>0, <2>0, <3>3, <3>4, <3>5 DEF CaptureSteps, WrittenTo, JournaledTo, OnlyHashed, HashedTo
  <2> QED BY <1>0, <1>1, <1>6, <2>0, <2>1, <2>2, <2>3, <2>4 DEF CaptureSteps
<1> QED BY <1>0, <1>1, <1>3, <1>4, <1>5, <1>6, <1>8

RInvariant == RBase /\ PruneOK /\ TamperOK /\ StopOK

LEMMA RCaptureInvariant ==
    ASSUME RInvariant, NEW c \in Captures, NEW q, CaptureMoves(c, q)
    PROVE  RInvariant'
  BY RCaptureBase, RCapturePrune, RCaptureTamper, RCaptureStop DEF RInvariant
-----------------------------------------------------------------------------
\* The steps in which a capture writes, is flushed or is closed.
CaptureAction ==
    \/ ESWrites \/ ESFlushes \/ ESEnds
    \/ TickWrites \/ TickFlushes \/ TickFlushesES \/ PruneFlushes
    \/ LastPoll /\ Writes("tail")
    \/ CloseTail \/ CloseES

LEMMA RCaptureAction ==
    ASSUME RInvariant, CaptureAction
    PROVE  RInvariant'
<1> USE DEF RInvariant
<1>0. /\ stop \notin {"run", "join"} => loop = "wait"
      /\ stop \in {"close es", "journal", "exit"} => cap["tail"].closed
      /\ stop \in {"journal", "exit"} => cap["es"].closed
      /\ jclosed => stop = "exit"
      /\ "tail" \in Captures /\ "es" \in Captures
  BY DEF RBase, StagesOK, Captures
<1>1. ASSUME NEW c \in Captures, NEW q, CaptureSteps(c, q), loop' = loop \/ stop \in {"run", "join"},
             stop' = stop, UNCHANGED jclosed
      PROVE  StopAfter
  <2>1. \A b \in Captures : cap[b].closed => cap'[b].closed
    BY <1>1 DEF CaptureSteps
  <2> QED BY <1>0, <1>1, <2>1 DEF StopAfter
<1>2. CASE ESWrites
  <2>1. CaptureSteps("es", cap'["es"].path)
    BY <1>2, RWrites DEF ESWrites, Captures
  <2> QED BY <1>0, <1>1, <1>2, <2>1, RCaptureInvariant DEF ESWrites, CaptureMoves, LoopMoves, ended
<1>3. CASE ESFlushes
  <2>1. CaptureSteps("es", cap["es"].path)
    BY <1>0, <1>3, RFlushOf DEF ESFlushes
  <2> QED BY <1>0, <1>1, <1>3, <2>1, RCaptureInvariant DEF ESFlushes, CaptureMoves, LoopMoves, ended
<1>4. CASE ESEnds
  <2>1. CaptureSteps("es", cap["es"].path)
    BY <1>0, <1>4, RClosing DEF ESEnds
  <2> QED BY <1>0, <1>1, <1>4, <2>1, RCaptureInvariant DEF ESEnds, CaptureMoves, LoopMoves
<1>5. CASE TickWrites
  <2>1. CaptureSteps("tail", cap'["tail"].path)
    BY <1>0, <1>5, RWrites DEF TickWrites
  <2>2. LoopMoves
    BY <1>5 DEF TickWrites, Goto, LoopMoves, Pruning
  <2> QED BY <1>0, <1>1, <1>5, <2>1, <2>2, RCaptureInvariant DEF TickWrites, CaptureMoves, ended
<1>6. CASE TickFlushes
  <2>1. CaptureSteps("tail", cap["tail"].path)
    BY <1>0, <1>6, RFlushOf DEF TickFlushes
  <2>2. LoopMoves
    BY <1>6 DEF TickFlushes, Goto, LoopMoves, Pruning
  <2>3. stop \in {"run", "join"}
    BY <1>0, <1>6 DEF TickFlushes
  <2> QED BY <1>0, <1>1, <1>6, <2>1, <2>2, <2>3, RCaptureInvariant DEF TickFlushes, CaptureMoves, ended
<1>7. CASE TickFlushesES
  <2>1. CaptureSteps("es", cap["es"].path)
    BY <1>0, <1>7, RFlushOf DEF TickFlushesES
  <2>2. LoopMoves
    BY <1>7 DEF TickFlushesES, Goto, LoopMoves, Pruning
  <2>3. stop \in {"run", "join"}
    BY <1>0, <1>7 DEF TickFlushesES
  <2> QED BY <1>0, <1>1, <1>7, <2>1, <2>2, <2>3, RCaptureInvariant DEF TickFlushesES, CaptureMoves, ended
<1>8. CASE PruneFlushes
  <2>1. CaptureSteps("es", cap["es"].path)
    BY <1>0, <1>8, RFlushOf DEF PruneFlushes
  <2>2. LoopMoves
    BY <1>8 DEF PruneFlushes, Goto, LoopMoves
  <2>3. stop \in {"run", "join"}
    BY <1>0, <1>8 DEF PruneFlushes
  <2> QED BY <1>0, <1>1, <1>8, <2>1, <2>2, <2>3, RCaptureInvariant DEF PruneFlushes, CaptureMoves, ended
<1>9. CASE LastPoll /\ Writes("tail")
  <2>1. CaptureSteps("tail", cap'["tail"].path)
    BY <1>0, <1>9, RWrites
  <2>2. StopAfter
    BY <1>0, <1>9 DEF LastPoll, StepTo, StopAfter
  <2> QED BY <1>0, <1>9, <2>1, <2>2, RCaptureInvariant DEF LastPoll, CaptureMoves, LoopMoves
<1>10. CASE CloseTail
  <2>1. CaptureSteps("tail", cap["tail"].path) /\ cap'["tail"].closed
    BY <1>0, <1>10, RClosing DEF CloseTail
  <2>2. StopAfter
    BY <1>0, <1>10, <2>1 DEF CloseTail, StepTo, StopAfter
  <2> QED BY <1>0, <1>10, <2>1, <2>2, RCaptureInvariant DEF CloseTail, CaptureMoves, LoopMoves
<1>11. CASE CloseES
  <2>1. CaptureSteps("es", cap["es"].path) /\ cap'["es"].closed
    BY <1>0, <1>11, RClosing DEF CloseES
  <2>2. cap'["tail"] = cap["tail"]
    BY <1>0, <2>1 DEF CaptureSteps
  <2>3. StopAfter
    BY <1>0, <1>11, <2>1, <2>2 DEF CloseES, StepTo, StopAfter
  <2> QED BY <1>0, <1>11, <2>1, <2>3, RCaptureInvariant DEF CloseES, CaptureMoves, LoopMoves
<1> QED
  BY <1>2, <1>3, <1>4, <1>5, <1>6, <1>7, <1>8, <1>9, <1>10, <1>11 DEF CaptureAction
-----------------------------------------------------------------------------
\* A step that leaves the files, the captures and the journal alone keeps the
\* invariant, if what it says of its candidates is right.
Quiet ==
    /\ UNCHANGED <<disk, present, own, cap, jfiles, log, touched, altered, kept, unrecorded>>
    /\ mishaps' = 0 => mishaps = 0
    /\ unseen \subseteq unseen'
    /\ loop' = "remove" <=> loop = "remove"
    /\ loop = "remove" => cur' = cur
CandidatesRight ==
    /\ \A p \in DOMAIN disk \ (touched \cup unseen' \cup unrecorded) :
          /\ cur'.path = p /\ loop' \in Deleting => CandOK(cur', disk[p], log[p].prefix, p \in kept)
          /\ cur'.path = p /\ loop' \in {"record", "remove"} => p \in present /\ cur'.sha = disk[p]
          /\ \A r \in todo' : (r.path = p /\ p <= seen' /\ p \notin active') =>
                                 CandOK(r, disk[p], log[p].prefix, p \in kept)
    /\ \A p \in altered \ unseen' :
          cur'.path = p /\ loop' \in {"record", "remove"} => Tampered(cur'.sha, log[p].prefix)
    /\ loop' \in {"record", "remove"} /\ mishaps = 0 => cur'.path \in present

LEMMA RQuiet ==
    ASSUME RInvariant, Quiet, CandidatesRight, RecorderTypes', StagesOK',
           knows' => \A p \in DOMAIN known' \ own : p \in Paths /\ known'[p] = Len(log[p].prefix)
    PROVE  RInvariant'
<1>0. \A p : InUse(p)' <=> InUse(p)
  BY DEF Quiet, InUse
<1>1. CapsOK'
  BY DEF RInvariant, RBase, CapsOK, Quiet
<1>2. JournalOK'
  BY <1>0 DEF RInvariant, RBase, JournalOK, Quiet
<1>3. PruneOK'
  <2> SUFFICES ASSUME NEW p \in DOMAIN disk' \ (touched' \cup unseen' \cup unrecorded')
               PROVE  /\ p \notin present' => Settled(log'[p], disk'[p], p \in kept') /\ ~InUse(p)'
                      /\ cur'.path = p =>
                            /\ loop' \in Deleting => CandOK(cur', disk'[p], log'[p].prefix, p \in kept')
                            /\ loop' \in {"record", "remove"} => p \in present' /\ cur'.sha = disk'[p]
                            /\ loop' = "remove" => Settled(log'[p], disk'[p], p \in kept')
                      /\ \A r \in todo' : (r.path = p /\ p <= seen' /\ p \notin active') =>
                                            CandOK(r, disk'[p], log'[p].prefix, p \in kept')
    BY DEF PruneOK
  <2>1. /\ p \in DOMAIN disk \ (touched \cup unseen \cup unrecorded)
        /\ p \in DOMAIN disk \ (touched \cup unseen' \cup unrecorded)
    BY DEF Quiet
  <2>2. p \notin present => Settled(log[p], disk[p], p \in kept) /\ ~InUse(p)
    BY <2>1 DEF RInvariant, PruneOK
  <2>3. cur'.path = p /\ loop' = "remove" => Settled(log[p], disk[p], p \in kept)
    BY <2>1 DEF RInvariant, PruneOK, Quiet
  <2> QED BY <1>0, <2>1, <2>2, <2>3 DEF CandidatesRight, Quiet
<1>4. TamperOK'
  BY DEF RInvariant, TamperOK, Quiet, CandidatesRight
<1>5. StopOK'
  <2>1. \A p : Awaits(p)' <=> Awaits(p)
    BY DEF Quiet, Awaits
  <2> QED BY <2>1 DEF RInvariant, StopOK, Quiet, CandidatesRight
<1> QED BY <1>1, <1>2, <1>3, <1>4, <1>5 DEF RInvariant, RBase

\* The loop idles, and the stop goes on, whatever the loop does.
IdleAction ==
    \/ TickIdle
    \/ StopBegins
    \/ LastPoll /\ UNCHANGED <<files, cap, own, noted>>
    \/ CloseJournal

LEMMA RIdleAction ==
    ASSUME RInvariant, IdleAction
    PROVE  RInvariant'
<1>1. /\ UNCHANGED <<disk, present, own, cap, jfiles, log, touched, altered, kept, unrecorded, mishaps>>
      /\ UNCHANGED <<known, knows, active, todo, cur, seen, unseen>>
      /\ loop' = loop \/ (loop = "wait" /\ loop' = "flush")
  BY DEF IdleAction, TickIdle, StopBegins, LastPoll, CloseJournal, files, journal, scope, pruning, history, noted, Goto
<1>2. Quiet /\ CandidatesRight
  <2>1. Quiet
    BY <1>1 DEF Quiet
  <2>2. loop' \in Deleting => loop \in Deleting /\ loop' = loop
    BY <1>1 DEF Deleting
  <2>3. loop' \in {"record", "remove"} => loop' = loop
    BY <1>1
  <2>4. CandidatesRight
    BY <1>1, <2>2, <2>3 DEF RInvariant, PruneOK, TamperOK, StopOK, CandidatesRight
  <2> QED BY <2>1, <2>4
<1>3. RecorderTypes'
  <2>1. jclosed' \in BOOLEAN
    BY DEF IdleAction, TickIdle, StopBegins, LastPoll, CloseJournal, journal, RInvariant, RBase, RecorderTypes
  <2> QED BY <1>1, <2>1 DEF RInvariant, RBase, RecorderTypes
<1>4. StagesOK'
  <2>1. /\ loop' \in {"flush again", "list"} \cup Pruning => loop' = loop
        /\ loop' \in Deleting => loop' = loop
        /\ loop' \notin Pruning => loop \notin Pruning
    BY <1>1 DEF Pruning, Deleting
  <2>2. StopAfter
    <3>0. /\ stop \notin {"run", "join"} => loop = "wait"
          /\ stop \in {"close es", "journal", "exit"} => cap["tail"].closed
          /\ stop \in {"journal", "exit"} => cap["es"].closed
          /\ jclosed => stop = "exit"
      BY DEF RInvariant, RBase, StagesOK
    <3>1. CASE TickIdle
      BY <1>1, <3>0, <3>1 DEF TickIdle, journal, ended, StopAfter
    <3>2. CASE StopBegins
      BY <1>1, <3>0, <3>2 DEF StopBegins, journal, StepTo, StopAfter
    <3>3. CASE LastPoll
      BY <1>1, <3>0, <3>3 DEF LastPoll, StepTo, StopAfter
    <3>4. CASE CloseJournal
      BY <1>1, <3>0, <3>4 DEF CloseJournal, StepTo, StopAfter
    <3> QED BY <3>1, <3>2, <3>3, <3>4 DEF IdleAction
  <2>3. \A p : InUse(p)' <=> InUse(p)
    BY <1>1 DEF InUse
  <2> QED BY <1>1, <2>1, <2>2, <2>3 DEF StagesOK, StopAfter, RInvariant, RBase
<1>5. knows' => \A p \in DOMAIN known' \ own : p \in Paths /\ known'[p] = Len(log[p].prefix)
  BY <1>1 DEF RInvariant, RBase, JournalOK
<1> QED BY <1>2, <1>3, <1>4, <1>5, RQuiet

LEMMA RPruneBegins ==
    ASSUME RInvariant, PruneBegins
    PROVE  RInvariant'
<1>1. /\ UNCHANGED <<disk, present, own, cap, jfiles, log, touched, altered, kept, unrecorded, mishaps>>
      /\ UNCHANGED <<known, knows, jclosed, todo, cur, unseen, stop>>
      /\ loop = "prune" /\ loop' = "flush again" /\ seen' = Len(disk)
      /\ active' = {cap[c].path : c \in {k \in Captures : cap[k].open}}
  BY DEF PruneBegins, files, journal, scope, ended, Goto
<1>2. Quiet
  BY <1>1 DEF Quiet
<1>3. todo' = {}
  BY <1>1 DEF RInvariant, RBase, StagesOK, Pruning
<1>4. CandidatesRight
  BY <1>1, <1>3 DEF CandidatesRight, Deleting
<1>5. Len(disk) \in Nat
  BY RDomains DEF RInvariant, RBase
<1>6. RecorderTypes'
  BY <1>1, <1>5 DEF RInvariant, RBase, RecorderTypes
<1>7. StagesOK'
  <2>1. \A p : InUse(p)' => p \in active'
    BY <1>1 DEF InUse
  <2>2. stop \in {"run", "join"} /\ ~jclosed
    BY <1>1 DEF RInvariant, RBase, StagesOK
  <2>3. seen' <= Len(disk')
    <3>1. seen' = Len(disk') /\ seen' \in Nat
      BY <1>1, <1>5
    <3> QED BY <3>1
  <2> QED BY <1>1, <1>3, <2>1, <2>2, <2>3 DEF StagesOK, Deleting, Pruning
<1>8. knows' => \A p \in DOMAIN known' \ own : p \in Paths /\ known'[p] = Len(log[p].prefix)
  BY <1>1 DEF RInvariant, RBase, JournalOK
<1> QED BY <1>2, <1>4, <1>6, <1>7, <1>8, RQuiet

\* The candidates are as the journal knows them: by this session's hashes, or by what
\* the journal file said when it was read.
LEMMA RListCaptures ==
    ASSUME RInvariant, ListCaptures
    PROVE  RInvariant'
<1>1. /\ UNCHANGED <<disk, present, own, cap, jfiles, log, touched, altered, kept, unrecorded, mishaps>>
      /\ UNCHANGED <<jclosed, active, cur, seen, unseen, stop>>
      /\ loop = "list" /\ loop' = "next" /\ knows' = TRUE /\ known' = KnownCaptures
      /\ todo' = {Candidate(p) : p \in present \cap DOMAIN known'}
  BY DEF ListCaptures, files, journal, ended, history, Goto
<1>2. /\ RecorderTypes /\ JournalOK /\ StagesOK
      /\ DOMAIN disk \subseteq Paths /\ present \subseteq DOMAIN disk /\ own \subseteq DOMAIN disk
      /\ DOMAIN jfiles \subseteq own
  BY RDomains DEF RInvariant, RBase, RecorderTypes
<1>3. ASSUME NEW p \in DOMAIN known'
      PROVE  /\ known'[p] \in Nat
             /\ p \notin own => p \in Paths /\ known'[p] = Len(log[p].prefix)
  <2> DEFINE had == IF knows THEN known ELSE [x \in InJournal |-> Len(log[x].prefix)]
  <2>1. /\ DOMAIN known' = DOMAIN had \cup own
        /\ known'[p] = IF p \in DOMAIN had THEN had[p] ELSE 0
    BY <1>1, <1>3 DEF KnownCaptures
  <2>2. ASSUME p \in DOMAIN had
        PROVE  /\ had[p] \in Nat
               /\ p \notin own => p \in Paths /\ had[p] = Len(log[p].prefix)
    <3>1. CASE knows
      BY <1>2, <2>2, <3>1 DEF RecorderTypes, JournalOK
    <3>2. CASE ~knows
      <4>1. p \in Paths /\ had[p] = Len(log[p].prefix)
        BY <2>2, <3>2 DEF InJournal
      <4> QED BY <4>1, RDomains, RText DEF RInvariant, RBase
    <3> QED BY <3>1, <3>2
  <2> QED BY <1>3, <2>1, <2>2
<1>4. ASSUME NEW p \in present \cap DOMAIN known'
      PROVE  /\ Candidate(p) \in FileRecs /\ Candidate(p).path = p /\ Candidate(p).size = Len(disk[p])
             /\ Candidate(p).journaled = IF p \in DOMAIN jfiles THEN Len(jfiles[p]) ELSE known'[p]
  <2>1. /\ p \in Nat /\ Len(disk[p]) \in Nat /\ <<>> \in FileTexts
        /\ p \in DOMAIN jfiles => Len(jfiles[p]) \in Nat
    BY <1>2, RDomains, RText DEF RInvariant, RBase
  <2>2. known'[p] \in Nat
    BY <1>3
  <2> DEFINE n == IF p \in DOMAIN jfiles THEN Len(jfiles[p]) ELSE known'[p]
  <2>3. n \in Nat
    BY <2>1, <2>2
  <2>4. Candidate(p) = [path |-> p, size |-> Len(disk[p]), sha |-> <<>>, journaled |-> n]
    BY DEF Candidate
  <2> HIDE DEF n
  <2>5. /\ Candidate(p) \in FileRecs /\ Candidate(p).path = p /\ Candidate(p).size = Len(disk[p])
        /\ Candidate(p).journaled = n
    BY <2>1, <2>3, <2>4 DEF FileRecs
  <2> QED BY <2>5 DEF n
<1>5. ASSUME NEW p \in DOMAIN disk \ (touched \cup unseen \cup unrecorded), NEW r \in todo', r.path = p
      PROVE  CandOK(r, disk[p], log[p].prefix, p \in kept)
  <2>1. PICK x \in present \cap DOMAIN known' : r = Candidate(x)
    BY <1>1
  <2>2. x = p /\ p \in Paths /\ p \in DOMAIN known' /\ p \in present
    BY <1>2, <1>5, <2>1, <1>4
  <2>3. /\ r.size = Len(disk[p])
        /\ r.journaled = IF p \in DOMAIN jfiles THEN Len(jfiles[p]) ELSE known'[p]
    BY <2>1, <2>2, <1>4
  <2>4. CASE p \in DOMAIN jfiles
    BY <1>2, <2>3, <2>4 DEF CandOK, JournalOK
  <2>5. CASE p \notin own
    BY <1>2, <1>3, <2>2, <2>3, <2>5 DEF CandOK
  <2>6. CASE p \in own \ DOMAIN jfiles
    BY <1>1, <1>2, <2>2, <2>3, <2>6 DEF CandOK, JournalOK
  <2> QED BY <2>4, <2>5, <2>6
<1>6. Quiet
  BY <1>1 DEF Quiet
<1>7. CandidatesRight
  BY <1>1, <1>5 DEF CandidatesRight, Deleting
<1>8. \A r \in todo' : r \in FileRecs /\ r.path \in DOMAIN disk
  BY <1>1, <1>2, <1>4
<1>9. RecorderTypes'
  <2>1. known' \in [DOMAIN known' -> Nat]
    <3>1. known' = [x \in DOMAIN known' |-> known'[x]]
      BY <1>1 DEF KnownCaptures
    <3> QED BY <3>1, <1>3
  <2> QED BY <1>1, <1>2, <1>8, <2>1 DEF RecorderTypes
<1>10. StagesOK'
  <2>1. stop \in {"run", "join"} /\ ~jclosed
    BY <1>1, <1>2 DEF StagesOK
  <2>2. \A p : InUse(p)' <=> InUse(p)
    BY <1>1 DEF InUse
  <2> QED BY <1>1, <1>2, <1>8, <2>1, <2>2 DEF StagesOK, Deleting, Pruning
<1>11. knows' => \A p \in DOMAIN known' \ own : p \in Paths /\ known'[p] = Len(log[p].prefix)
  BY <1>3
<1> QED BY <1>6, <1>7, <1>9, <1>10, <1>11, RQuiet

LEMMA RNextCandidate ==
    ASSUME RInvariant, NextCandidate
    PROVE  RInvariant'
<1>1. /\ UNCHANGED <<disk, present, own, cap, jfiles, log, touched, altered, kept, unrecorded, mishaps>>
      /\ UNCHANGED <<known, knows, jclosed, active, seen, stop>>
      /\ loop = "next" /\ loop' = "hash"
      /\ cur' \in todo /\ cur'.path \notin active /\ todo' \subseteq todo
      /\ unseen' = IF cur'.path > seen THEN unseen \cup {cur'.path} ELSE unseen
  BY DEF NextCandidate, Unused, files, journal, scope, ended, Goto
<1>2. RecorderTypes /\ StagesOK /\ PruneOK /\ cur' \in FileRecs /\ cur'.path \in Nat /\ seen \in Nat
  BY <1>1 DEF RInvariant, RBase, RecorderTypes, FileRecs
<1>3. Quiet
  BY <1>1 DEF Quiet
<1>4. cur'.path \in DOMAIN disk /\ (cur'.path <= seen \/ cur'.path \in unseen')
  <2>1. cur'.path \in DOMAIN disk
    BY <1>1, <1>2 DEF StagesOK
  <2> DEFINE x == cur'.path
  <2>2. x \in Nat /\ unseen' = IF x > seen THEN unseen \cup {x} ELSE unseen
    BY <1>1, <1>2
  <2> HIDE DEF x
  <2>3. x <= seen \/ x \in unseen'
    BY <1>2, <2>2
  <2> QED BY <2>1, <2>3 DEF x
<1>5. CandidatesRight
  <2>1. ASSUME NEW p \in DOMAIN disk \ (touched \cup unseen' \cup unrecorded)
        PROVE  /\ cur'.path = p => CandOK(cur', disk[p], log[p].prefix, p \in kept)
               /\ \A r \in todo' : (r.path = p /\ p <= seen' /\ p \notin active') =>
                                      CandOK(r, disk[p], log[p].prefix, p \in kept)
    <3>1. p \in DOMAIN disk \ (touched \cup unseen \cup unrecorded)
      BY <1>1
    <3>2. \A r \in todo : (r.path = p /\ p <= seen /\ p \notin active) =>
                             CandOK(r, disk[p], log[p].prefix, p \in kept)
      BY <1>2, <3>1 DEF PruneOK
    <3> QED BY <1>1, <1>4, <3>2
  <2> QED BY <1>1, <2>1 DEF CandidatesRight
<1>6. RecorderTypes'
  BY <1>1, <1>2 DEF RecorderTypes
<1>7. StagesOK'
  <2>1. stop \in {"run", "join"} /\ ~jclosed
    BY <1>1, <1>2 DEF StagesOK
  <2>2. \A p : InUse(p)' <=> InUse(p)
    BY <1>1 DEF InUse
  <2> QED BY <1>1, <1>2, <1>4, <2>1, <2>2 DEF StagesOK, Deleting, Pruning
<1>8. knows' => \A p \in DOMAIN known' \ own : p \in Paths /\ known'[p] = Len(log[p].prefix)
  BY <1>1 DEF RInvariant, RBase, JournalOK
<1> QED BY <1>3, <1>5, <1>6, <1>7, <1>8, RQuiet

LEMMA RPruneEnds ==
    ASSUME RInvariant, PruneEnds
    PROVE  RInvariant'
<1>1. /\ UNCHANGED <<disk, present, own, cap, jfiles, log, touched, altered, kept, unrecorded, mishaps>>
      /\ UNCHANGED <<known, knows, jclosed, cur, unseen, stop>>
      /\ loop = "next" /\ loop' = "wait" /\ todo' = {} /\ seen' = 0
  BY DEF PruneEnds, files, journal, scope, ended, Goto
<1>2. Quiet /\ CandidatesRight
  BY <1>1 DEF Quiet, CandidatesRight, Deleting
<1>3. RecorderTypes' /\ StagesOK'
  <2>1. RecorderTypes /\ StagesOK /\ Len(disk) \in Nat
    BY RDomains DEF RInvariant, RBase
  <2>2. RecorderTypes'
    BY <1>1, <2>1 DEF RecorderTypes
  <2>3. seen' <= Len(disk')
    BY <1>1, <2>1
  <2> QED BY <1>1, <2>1, <2>2, <2>3 DEF StagesOK, Deleting, Pruning
<1>4. knows' => \A p \in DOMAIN known' \ own : p \in Paths /\ known'[p] = Len(log[p].prefix)
  BY <1>1 DEF RInvariant, RBase, JournalOK
<1> QED BY <1>2, <1>3, <1>4, RQuiet

LEMMA RHash ==
    ASSUME RInvariant, Hash
    PROVE  RInvariant'
<1>1. /\ UNCHANGED <<disk, present, own, cap, jfiles, log, touched, altered, kept, unrecorded>>
      /\ UNCHANGED <<known, knows, jclosed, active, todo, seen, unseen, stop>>
      /\ loop = "hash"
      /\ \/ /\ cur.path \in present /\ mishaps' = mishaps
            /\ cur' = [cur EXCEPT !.sha = disk[cur.path]] /\ loop' = "record"
         \/ cur' = NoFile /\ loop' = "next" /\ (mishaps' = mishaps \/ mishaps' = mishaps + 1)
  BY DEF Hash, files, journal, scope, ended, Mishap, Goto
<1>2. RecorderTypes /\ StagesOK /\ PruneOK /\ TamperOK /\ cur \in FileRecs
      /\ cur.path \in DOMAIN disk /\ cur.path \notin active
      /\ (cur.path <= seen \/ cur.path \in unseen) /\ disk[cur.path] \in FileTexts
  BY <1>1, RDomains DEF RInvariant, RBase, RecorderTypes, StagesOK, Deleting
<1>3. Quiet /\ mishaps' \in Nat
  <2>1. mishaps \in Nat /\ (mishaps' = mishaps \/ mishaps' = mishaps + 1)
    BY <1>1, <1>2 DEF RecorderTypes
  <2>2. mishaps' \in Nat /\ (mishaps' = 0 => mishaps = 0)
    BY <2>1
  <2> QED BY <1>1, <2>2 DEF Quiet
<1>4. NoFile \in FileRecs
  BY DEF NoFile, NoPath, FileRecs, FileTexts
<1>5. CASE cur.path \in present /\ cur' = [cur EXCEPT !.sha = disk[cur.path]] /\ loop' = "record"
  <2>1. /\ cur' \in FileRecs /\ cur'.path = cur.path /\ cur'.sha = disk[cur.path]
        /\ cur'.size = cur.size /\ cur'.journaled = cur.journaled /\ loop' = "record"
    BY <1>1, <1>2, <1>5 DEF FileRecs
  <2>2. CandidatesRight
    <3>1. ASSUME NEW p \in DOMAIN disk \ (touched \cup unseen \cup unrecorded)
          PROVE  /\ cur'.path = p => CandOK(cur', disk[p], log[p].prefix, p \in kept)
                 /\ cur'.path = p => p \in present /\ cur'.sha = disk[p]
                 /\ \A r \in todo : (r.path = p /\ p <= seen /\ p \notin active) =>
                                        CandOK(r, disk[p], log[p].prefix, p \in kept)
      <4>1. cur.path = p => CandOK(cur, disk[p], log[p].prefix, p \in kept)
        BY <1>1, <1>2 DEF PruneOK, Deleting
      <4>2. cur'.path = p => CandOK(cur', disk[p], log[p].prefix, p \in kept)
        BY <2>1, <4>1 DEF CandOK
      <4> QED BY <1>2, <1>5, <2>1, <4>2 DEF PruneOK
    <3>2. ASSUME NEW p \in altered \ unseen, cur'.path = p
          PROVE  Tampered(cur'.sha, log[p].prefix)
      BY <1>2, <1>5, <2>1, <3>2 DEF TamperOK
    <3> QED BY <1>1, <1>5, <2>1, <3>1, <3>2 DEF CandidatesRight
  <2>3. RecorderTypes'
    BY <1>1, <1>2, <1>3, <2>1 DEF RecorderTypes
  <2>4. StagesOK'
    <3>1. stop \in {"run", "join"} /\ ~jclosed
      BY <1>1, <1>2 DEF StagesOK
    <3>2. \A p : InUse(p)' <=> InUse(p)
      BY <1>1 DEF InUse
    <3> QED BY <1>1, <1>2, <2>1, <3>1, <3>2 DEF StagesOK, Deleting, Pruning
  <2>5. knows' => \A p \in DOMAIN known' \ own : p \in Paths /\ known'[p] = Len(log[p].prefix)
    BY <1>1 DEF RInvariant, RBase, JournalOK
  <2> QED BY <1>3, <2>2, <2>3, <2>4, <2>5, RQuiet
<1>6. CASE cur' = NoFile /\ loop' = "next"
  <2>1. cur' = NoFile /\ loop' = "next"
    BY <1>6
  <2>2. CandidatesRight
    BY <1>1, <1>2, <2>1 DEF CandidatesRight, Deleting, PruneOK
  <2>3. RecorderTypes'
    BY <1>1, <1>2, <1>3, <1>4, <2>1 DEF RecorderTypes
  <2>4. StagesOK'
    <3>1. stop \in {"run", "join"} /\ ~jclosed
      BY <1>1, <1>2 DEF StagesOK
    <3>2. \A p : InUse(p)' <=> InUse(p)
      BY <1>1 DEF InUse
    <3> QED BY <1>1, <1>2, <2>1, <3>1, <3>2 DEF StagesOK, Deleting, Pruning
  <2>5. knows' => \A p \in DOMAIN known' \ own : p \in Paths /\ known'[p] = Len(log[p].prefix)
    BY <1>1 DEF RInvariant, RBase, JournalOK
  <2> QED BY <1>3, <2>2, <2>3, <2>4, <2>5, RQuiet
<1> QED BY <1>1, <1>5, <1>6
-----------------------------------------------------------------------------
\* What a check makes of the record of a deletion: r of the n lines journaled, as far
\* as retention knew, of the text s it hashed; j is what was journaled.
PrefixRead(s, n) == IF Len(s) < n THEN <<>> ELSE Take(s, n)

LEMMA RPrefixRead ==
    ASSUME NEW s \in FileTexts, NEW n \in Nat
    PROVE  /\ PrefixRead(s, n) \in FileTexts
           /\ Len(s) < n => Len(PrefixRead(s, n)) = 0
           /\ n <= Len(s) => /\ Len(PrefixRead(s, n)) = n
                             /\ \A i \in 1 .. n : PrefixRead(s, n)[i] = s[i]
<1>1. Len(s) \in Nat /\ s \in Seq(LineKinds)
  BY RText DEF FileTexts
<1>2. CASE Len(s) < n
  BY <1>1, <1>2 DEF PrefixRead, FileTexts
<1>3. CASE n <= Len(s)
  <2>1. PrefixRead(s, n) = SubSeq(s, 1, n)
    BY <1>1, <1>3 DEF PrefixRead, Take
  <2>2. /\ SubSeq(s, 1, n) \in Seq(LineKinds) /\ Len(SubSeq(s, 1, n)) = n
        /\ \A i \in 1 .. n : SubSeq(s, 1, n)[i] = s[i]
    BY <1>1, <1>3
  <2> QED BY <1>1, <1>3, <2>1, <2>2 DEF FileTexts
<1> QED BY <1>1, <1>2, <1>3

\* Of a file no one touched nothing is reported, unless its size was lost.
LEMMA RFaithful ==
    ASSUME NEW j \in FileTexts, NEW d \in FileTexts, Begins(j, d), NEW n \in Nat, NEW k \in BOOLEAN,
           NEW r, r.size = Len(d), r.known => r.prefix = j /\ j # <<>>, r.sha = d, r.pre = PrefixRead(d, n),
           n = Len(j) \/ j = <<>> \/ k, Mismatch(j, r)
    PROVE  k /\ j # d
<1>1. Len(j) \in Nat /\ Len(d) \in Nat /\ Len(j) <= Len(d) /\ \A i \in 1 .. Len(j) : j[i] = d[i]
  BY RText DEF Begins
<1>2. j # <<>> /\ (IF Len(r.pre) = Len(j) THEN r.pre # j ELSE d # j)
  BY <1>1 DEF Mismatch
<1>3. Len(j) # 0
  BY <1>2, RText
<1>4. Len(r.pre) # Len(j)
  <2> SUFFICES ASSUME Len(r.pre) = Len(j) PROVE r.pre = j
    BY <1>2
  <2>1. n <= Len(d) /\ Len(r.pre) = n
    BY <1>1, <1>3, RPrefixRead
  <2>2. r.pre \in FileTexts /\ \A i \in 1 .. Len(j) : r.pre[i] = j[i]
    BY <1>1, <2>1, RPrefixRead
  <2> QED BY <2>2, RSameText
<1>5. n # Len(j)
  BY <1>1, <1>4, RPrefixRead
<1> QED BY <1>2, <1>4, <1>5

\* An altered one is.
LEMMA RCaught ==
    ASSUME NEW j \in FileTexts, NEW s \in FileTexts, Tampered(s, j), NEW n \in Nat,
           NEW r, r.size \in Nat, r.sha = s, r.pre = PrefixRead(s, n)
    PROVE  Mismatch(j, r)
<1>1. PICK i \in 1 .. Len(j) : i <= Len(s) /\ s[i] # j[i]
  BY DEF Tampered
<1>2. Len(j) \in Nat /\ Len(s) \in Nat /\ j # <<>> /\ Len(j) # 0
  BY <1>1, RText
<1>3. s # j
  BY <1>1
<1>4. Len(r.pre) = Len(j) => r.pre # j
  <2> SUFFICES ASSUME Len(r.pre) = Len(j) PROVE r.pre # j
    OBVIOUS
  <2>0. /\ Len(s) < n => Len(r.pre) = 0
        /\ n <= Len(s) => Len(r.pre) = n /\ \A x \in 1 .. n : r.pre[x] = s[x]
    BY RPrefixRead
  <2>1. n <= Len(s) /\ n = Len(j)
    BY <1>2, <2>0
  <2>2. r.pre[i] = s[i]
    BY <1>1, <2>0, <2>1
  <2> QED BY <1>1, <2>2
<1> QED BY <1>2, <1>3, <1>4 DEF Mismatch

LEMMA RRecordPrune ==
    ASSUME RInvariant, RecordPrune
    PROVE  RInvariant'
<1> DEFINE p == cur.path
           in == p \in DOMAIN jfiles
           r == [size |-> cur.size, known |-> in, sha |-> cur.sha,
                 prefix |-> IF in THEN jfiles[p] ELSE <<>>,
                 pre |-> PrefixRead(cur.sha, cur.journaled)]
           j == log[p].prefix
<1>0. RecorderTypes /\ CapsOK /\ JournalOK /\ StagesOK /\ PruneOK /\ TamperOK /\ StopOK
  BY DEF RInvariant, RBase
<1>1. /\ UNCHANGED <<disk, present, own, cap, touched, altered, kept>>
      /\ UNCHANGED <<known, knows, jclosed, active, todo, cur, seen, unseen, stop>>
      /\ loop = "record" /\ loop' = "remove"
  BY DEF RecordPrune, files, scope, pruning, ended, Goto
<1>2. stop \in {"run", "join"} /\ ~jclosed
  BY <1>0, <1>1 DEF StagesOK
<1>3. /\ jfiles' = Without(jfiles, p)
      /\ \/ /\ log' = [log EXCEPT ![p].last = "prune", ![p].prune = r]
            /\ UNCHANGED <<unrecorded, mishaps>>
         \/ mishaps' = mishaps + 1 /\ unrecorded' = unrecorded \cup {p} /\ UNCHANGED log
  BY <1>2 DEF RecordPrune, PrefixRead, Mishap
<1>4. /\ p \in DOMAIN disk /\ p \in Paths /\ p \in Nat /\ p \notin active /\ (p <= seen \/ p \in unseen)
      /\ cur \in FileRecs /\ cur.size \in Nat /\ cur.journaled \in Nat /\ cur.sha \in FileTexts
      /\ j \in FileTexts /\ log[p] \in LogRecs /\ disk[p] \in FileTexts
  BY <1>0, <1>1, RDomains DEF RInvariant, RBase, StagesOK, Deleting, RecorderTypes, FileRecs
<1>5. /\ in /\ p \notin unrecorded => jfiles[p] = j /\ j # <<>>
      /\ in => jfiles[p] \in FileTexts
  BY <1>0, <1>4, RDomains DEF JournalOK
<1>6. /\ r \in PruneRecs /\ r.size = cur.size /\ r.known = in /\ r.sha = cur.sha
      /\ p \notin unrecorded => (r.known => r.prefix = j /\ j # <<>>)
      /\ r.pre = PrefixRead(cur.sha, cur.journaled)
  <2> DEFINE t == IF in THEN jfiles[p] ELSE <<>>
             b == in
             u == PrefixRead(cur.sha, cur.journaled)
  <2>1. t \in FileTexts /\ u \in FileTexts /\ b \in BOOLEAN
    <3>1. t \in FileTexts
      BY <1>5 DEF FileTexts
    <3>2. u \in FileTexts
      BY <1>4, RPrefixRead
    <3> QED BY <3>1, <3>2
  <2>2. r = [size |-> cur.size, known |-> b, sha |-> cur.sha, prefix |-> t, pre |-> u]
    OBVIOUS
  <2>3. b /\ p \notin unrecorded => t = j /\ j # <<>>
    BY <1>5
  <2> HIDE DEF t, b, u, r, p, j
  <2>4. /\ r \in PruneRecs /\ r.size = cur.size /\ r.known = b /\ r.sha = cur.sha
        /\ r.prefix = t /\ r.pre = u
    BY <1>4, <2>1, <2>2 DEF PruneRecs
  <2> QED BY <2>3, <2>4 DEF b, u
<1>7. p \notin unseen => ~InUse(p)
  <2> SUFFICES ASSUME p \notin unseen, InUse(p) PROVE FALSE
    OBVIOUS
  <2>1. p \in 1 .. seen
    BY <1>0, <1>4 DEF Paths, RecorderTypes
  <2> QED BY <1>0, <1>1, <1>4, <2>1 DEF StagesOK, Pruning
<1> HIDE DEF r, in
<1>8. /\ log' \in [Paths -> LogRecs] /\ log'[p].prefix = j
      /\ \A x \in Paths \ {p} : log'[x] = log[x] /\ (x \in unrecorded' <=> x \in unrecorded)
      /\ \/ /\ log'[p].last = "prune" /\ log'[p].prune = r
            /\ UNCHANGED <<unrecorded, mishaps>>
         \/ log'[p] = log[p] /\ p \in unrecorded' /\ mishaps' = mishaps + 1
  <2> DEFINE l == [log[p] EXCEPT !.last = "prune", !.prune = r]
  <2>1. l \in LogRecs /\ l.last = "prune" /\ l.prune = r /\ l.prefix = j
    <3> HIDE DEF p
    <3> QED BY <1>4, <1>6 DEF LogRecs
  <2>2. CASE /\ log' = [log EXCEPT ![p].last = "prune", ![p].prune = r]
             /\ UNCHANGED <<unrecorded, mishaps>>
    <3>1. log' = [log EXCEPT ![p] = l]
      BY <2>2, <1>0, <1>4 DEF RecorderTypes
    <3> HIDE DEF l, p, j
    <3> QED BY <1>0, <1>4, <2>1, <2>2, <3>1 DEF RecorderTypes
  <2>3. CASE mishaps' = mishaps + 1 /\ unrecorded' = unrecorded \cup {p} /\ UNCHANGED log
    BY <1>0, <1>4, <2>3 DEF RecorderTypes
  <2> QED BY <1>3, <2>2, <2>3
<1>9. /\ DOMAIN jfiles' = DOMAIN jfiles \ {p} /\ \A x \in DOMAIN jfiles' : jfiles'[x] = jfiles[x]
      /\ jfiles' \in [DOMAIN jfiles' -> FileTexts]
  <2>1. DOMAIN jfiles' = DOMAIN jfiles \ {p} /\ \A x \in DOMAIN jfiles' : jfiles'[x] = jfiles[x]
    BY <1>3 DEF Without
  <2>2. jfiles' = [x \in DOMAIN jfiles' |-> jfiles'[x]]
    BY <1>3 DEF Without
  <2>3. \A x \in DOMAIN jfiles' : jfiles'[x] \in FileTexts
    BY <2>1, RDomains, <1>0
  <2> QED BY <2>1, <2>2, <2>3
<1>10. /\ DOMAIN disk \subseteq Paths /\ own \subseteq DOMAIN disk /\ DOMAIN jfiles \subseteq own
       /\ \A x \in Paths : log'[x].prefix = log[x].prefix
       /\ \A x : InUse(x)' <=> InUse(x)
       /\ \A x : Awaits(x)' <=> Awaits(x)
  BY <1>0, <1>1, <1>8, RDomains DEF RecorderTypes, InUse, Awaits
<1>18. mishaps' \in Nat /\ (mishaps' = 0 => UNCHANGED mishaps)
  <2>1. mishaps \in Nat /\ (mishaps' = mishaps \/ mishaps' = mishaps + 1)
    BY <1>0, <1>8 DEF RecorderTypes
  <2> QED BY <2>1
<1>11. RecorderTypes'
  BY <1>0, <1>1, <1>8, <1>9, <1>18 DEF RecorderTypes
<1>12. CapsOK'
  BY <1>0, <1>1 DEF CapsOK
<1>13. StagesOK'
  BY <1>0, <1>1, <1>2, <1>10 DEF StagesOK, Deleting, Pruning
<1>14. JournalOK'
  <2>1. \A x \in Paths \ DOMAIN disk' : log'[x] = NoLog
    BY <1>0, <1>1, <1>4, <1>8 DEF JournalOK
  <2>2. \A x \in Paths : log'[x].prefix # <<>> => log'[x].last # "none"
    <3>1. \A x \in Paths : log'[x].prefix = log[x].prefix /\ (log'[x].last = log[x].last \/ log'[x].last = "prune")
      BY <1>4, <1>8
    <3> QED BY <1>0, <3>1 DEF JournalOK
  <2>3. /\ \A x \in DOMAIN jfiles' \ unrecorded' : jfiles'[x] = log'[x].prefix /\ jfiles'[x] # <<>>
        /\ \A x \in DOMAIN jfiles' : Len(jfiles'[x]) <= Len(disk'[x])
        /\ \A x \in DOMAIN jfiles' \ touched' : Begins(jfiles'[x], disk'[x])
        /\ \A x \in DOMAIN jfiles' \ unseen' : Begins(log'[x].prefix, jfiles'[x])
    <3>1. \A x \in DOMAIN jfiles' :
             /\ x \in Paths /\ x \in DOMAIN jfiles /\ jfiles'[x] = jfiles[x]
             /\ log'[x].prefix = log[x].prefix
             /\ x \in unrecorded' <=> x \in unrecorded
      BY <1>8, <1>9, <1>10
    <3> QED BY <1>0, <1>1, <3>1 DEF JournalOK
  <2>4. /\ \A x \in DOMAIN disk' : Len(log'[x].prefix) <= Len(disk'[x])
        /\ \A x \in DOMAIN disk' \ touched' : Begins(log'[x].prefix, disk'[x])
    BY <1>0, <1>1, <1>10 DEF JournalOK
  <2>5. \A x \in DOMAIN disk' \ (unseen' \cup DOMAIN jfiles') : InUse(x)' => log'[x].prefix = <<>>
    BY <1>0, <1>1, <1>7, <1>9, <1>10 DEF JournalOK
  <2>6. \A x \in own' \ DOMAIN jfiles' :
          \/ log'[x].prefix = <<>> \/ x \in kept' \/ x \notin present'
          \/ loop' = "remove" /\ cur'.path = x
    BY <1>0, <1>1, <1>9, <1>10 DEF JournalOK
  <2>7. knows' => \A x \in DOMAIN known' \ own' : x \in Paths /\ known'[x] = Len(log'[x].prefix)
    BY <1>0, <1>1, <1>10 DEF JournalOK
  <2> QED BY <2>1, <2>2, <2>3, <2>4, <2>5, <2>6, <2>7 DEF JournalOK
<1>15. PruneOK'
  <2> SUFFICES ASSUME NEW x \in DOMAIN disk' \ (touched' \cup unseen' \cup unrecorded')
               PROVE  /\ x \notin present' => Settled(log'[x], disk'[x], x \in kept') /\ ~InUse(x)'
                      /\ cur'.path = x =>
                            /\ loop' \in Deleting => CandOK(cur', disk'[x], log'[x].prefix, x \in kept')
                            /\ loop' \in {"record", "remove"} => x \in present' /\ cur'.sha = disk'[x]
                            /\ loop' = "remove" => Settled(log'[x], disk'[x], x \in kept')
                      /\ \A y \in todo' : (y.path = x /\ x <= seen' /\ x \notin active') =>
                                            CandOK(y, disk'[x], log'[x].prefix, x \in kept')
    BY DEF PruneOK
  <2>0. x \in Paths /\ x \in DOMAIN disk \ (touched \cup unseen \cup unrecorded)
    BY <1>1, <1>8, <1>10
  <2>1. /\ x \notin present => Settled(log[x], disk[x], x \in kept) /\ ~InUse(x)
        /\ cur.path = x => CandOK(cur, disk[x], log[x].prefix, x \in kept)
        /\ cur.path = x => x \in present /\ cur.sha = disk[x]
        /\ \A y \in todo : (y.path = x /\ x <= seen /\ x \notin active) =>
                              CandOK(y, disk[x], log[x].prefix, x \in kept)
    BY <1>0, <1>1, <2>0 DEF PruneOK, Deleting
  <2>2. CASE x # p
    <3>1. log'[x] = log[x] /\ cur'.path # x
      BY <1>1, <1>8, <2>0, <2>2
    <3> QED BY <1>1, <1>10, <2>1, <3>1
  <2>3. CASE x = p
    <3>0. log'[p].last = "prune" /\ log'[p].prune = r /\ p \notin unrecorded
      BY <1>8, <2>0, <2>3
    <3>1. x \in present /\ cur.sha = disk[x] /\ CandOK(cur, disk[x], log[x].prefix, x \in kept)
      BY <2>1, <2>3
    <3>2. Begins(j, disk[p])
      BY <1>0, <2>0, <2>3 DEF JournalOK
    <3>3. Mismatch(j, r) => p \in kept /\ j # disk[p]
      <4>1. r.size = Len(disk[p]) /\ r.sha = disk[p] /\ r.pre = PrefixRead(disk[p], cur.journaled)
        BY <1>6, <2>3, <3>1 DEF CandOK
      <4>2. cur.journaled = Len(j) \/ j = <<>> \/ p \in kept
        BY <2>3, <3>1 DEF CandOK
      <4> DEFINE k == p \in kept
      <4>3. k \in BOOLEAN
        OBVIOUS
      <4> HIDE DEF p, j, k
      <4>4. Mismatch(j, r) => k /\ j # disk[p]
        BY <1>4, <1>6, <3>0, <3>2, <4>1, <4>2, <4>3, RFaithful DEF k
      <4> QED BY <4>4 DEF k
    <3>4. Settled(log'[p], disk[p], p \in kept)
      BY <1>8, <3>0, <3>3 DEF Settled
    <3> QED BY <1>1, <1>10, <2>0, <2>1, <2>3, <3>1, <3>4
  <2> QED BY <2>2, <2>3
<1>16. TamperOK'
  <2>1. ASSUME NEW x \in altered' \ unseen'
        PROVE  /\ log'[x].last # "none"
               /\ x \in present' => Tampered(disk'[x], log'[x].prefix)
               /\ log'[x].last = "prune" => Mismatch(log'[x].prefix, log'[x].prune)
               /\ cur'.path = x /\ loop' \in {"record", "remove"} => Tampered(cur'.sha, log'[x].prefix)
    <3>0. x \in altered \ unseen /\ x \in DOMAIN disk /\ x \in Paths
      BY <1>0, <1>1, <1>10 DEF TamperOK
    <3>1. /\ log[x].last # "none"
          /\ x \in present => Tampered(disk[x], log[x].prefix)
          /\ log[x].last = "prune" => Mismatch(log[x].prefix, log[x].prune)
          /\ cur.path = x => Tampered(cur.sha, log[x].prefix)
      BY <1>0, <1>1, <3>0 DEF TamperOK
    <3>2. CASE x # p
      BY <1>1, <1>8, <3>0, <3>1, <3>2
    <3>3. CASE x = p
      <4>1. Tampered(cur.sha, j)
        BY <3>1, <3>3
      <4>2. Mismatch(j, r)
        <5> HIDE DEF p, j
        <5> QED BY <1>4, <1>6, <4>1, RCaught
      <4> QED BY <1>1, <1>8, <3>1, <3>3, <4>1, <4>2
    <3> QED BY <3>2, <3>3
  <2>2. ASSUME NEW x \in DOMAIN disk' \ unseen'
        PROVE  /\ Raw(log'[x].prefix, 1, Len(log'[x].prefix))
               /\ Raw(disk'[x], Len(log'[x].prefix) + 1, Len(disk'[x]))
    BY <1>0, <1>1, <1>10 DEF TamperOK
  <2>3. \A x \in DOMAIN jfiles' \ unseen' : Raw(jfiles'[x], 1, Len(jfiles'[x]))
    BY <1>0, <1>1, <1>9 DEF TamperOK
  <2> QED BY <1>0, <1>1, <2>1, <2>2, <2>3 DEF TamperOK
<1>17. StopOK'
  <2> SUFFICES ASSUME mishaps' = 0
               PROVE  /\ touched' = {} /\ unrecorded' = {}
                      /\ \A x \in DOMAIN jfiles' : log'[x].last = "append"
                      /\ loop' \in {"record", "remove"} => cur'.path \in present'
                      /\ \A x \in own' \cap present' :
                            \/ Awaits(x)'
                            \/ log'[x].last = "append" /\ log'[x].prefix = disk'[x]
                            \/ loop' = "remove" /\ cur'.path = x
    BY DEF StopOK
  <2>0. UNCHANGED mishaps /\ mishaps = 0 /\ UNCHANGED unrecorded
    <3>1. mishaps' # mishaps + 1
      BY <1>0 DEF RecorderTypes
    <3> QED BY <1>8, <1>18, <3>1
  <2>1. /\ touched = {} /\ unrecorded = {} /\ cur.path \in present
        /\ \A x \in DOMAIN jfiles : log[x].last = "append"
        /\ \A x \in own \cap present :
              Awaits(x) \/ (log[x].last = "append" /\ log[x].prefix = disk[x])
    BY <1>0, <1>1, <2>0 DEF StopOK
  <2>2. \A x \in DOMAIN jfiles' : x \in Paths \ {p} /\ x \in DOMAIN jfiles
    BY <1>9, <1>10
  <2>3. \A x \in own : x \in Paths
    BY <1>10
  <2> QED BY <1>1, <1>8, <1>10, <2>0, <2>1, <2>2, <2>3
<1> QED BY <1>11, <1>12, <1>13, <1>14, <1>15, <1>16, <1>17 DEF RInvariant, RBase

LEMMA RRemoveFile ==
    ASSUME RInvariant, RemoveFile
    PROVE  RInvariant'
<1> DEFINE p == cur.path
<1>0. RecorderTypes /\ CapsOK /\ JournalOK /\ StagesOK /\ PruneOK /\ TamperOK /\ StopOK
  BY DEF RInvariant, RBase
<1>1. /\ UNCHANGED <<disk, cap, own, jfiles, touched, altered, unrecorded>>
      /\ UNCHANGED <<known, knows, jclosed, active, todo, seen, unseen, stop>>
      /\ loop = "remove" /\ loop' = "next" /\ cur' = NoFile
  BY DEF RemoveFile, scope, ended, Goto
<1>2. stop \in {"run", "join"} /\ ~jclosed
  BY <1>0, <1>1 DEF StagesOK
<1>3. \/ /\ p \in present /\ present' = present \ {p}
         /\ UNCHANGED <<log, kept, mishaps>>
      \/ /\ mishaps' = IF p \in present THEN mishaps + 1 ELSE mishaps
         /\ kept' = kept \cup {p} /\ present' = present
         /\ log' = [log EXCEPT ![p].last = "prune_failed"] \/ UNCHANGED log
  BY <1>2 DEF RemoveFile, Mishap
<1>4. /\ p \in DOMAIN disk /\ p \in Paths /\ p \in Nat /\ p \notin active /\ (p <= seen \/ p \in unseen)
      /\ log[p] \in LogRecs /\ mishaps \in Nat
  BY <1>0, <1>1, RDomains DEF RInvariant, RBase, StagesOK, Deleting, RecorderTypes
<1>5. p \notin unseen => ~InUse(p)
  <2> SUFFICES ASSUME p \notin unseen, InUse(p) PROVE FALSE
    OBVIOUS
  <2>1. p \in 1 .. seen
    BY <1>0, <1>4 DEF Paths, RecorderTypes
  <2> QED BY <1>0, <1>1, <1>4, <2>1 DEF StagesOK, Pruning
<1>6. /\ DOMAIN disk \subseteq Paths /\ own \subseteq DOMAIN disk /\ DOMAIN jfiles \subseteq own
      /\ \A x : InUse(x)' <=> InUse(x)
      /\ \A x : Awaits(x)' <=> Awaits(x)
      /\ NoFile \in FileRecs /\ NoFile.path \notin Paths
  <2>1. NoFile \in FileRecs /\ NoFile.path \notin Paths
    BY DEF NoFile, NoPath, FileRecs, FileTexts, Paths
  <2> QED BY <1>0, <1>1, <2>1, RDomains DEF RecorderTypes, InUse, Awaits
<1>7. /\ log' \in [Paths -> LogRecs]
      /\ \A x \in Paths : /\ log'[x].prefix = log[x].prefix
                          /\ x # p => log'[x] = log[x]
                          /\ log'[x] = log[x] \/ log'[x].last = "prune_failed"
  <2>1. CASE log' = log
    BY <1>0, <2>1 DEF RecorderTypes
  <2>2. CASE log' = [log EXCEPT ![p].last = "prune_failed"]
    <3> DEFINE l == [log[p] EXCEPT !.last = "prune_failed"]
    <3>1. l \in LogRecs /\ l.last = "prune_failed" /\ l.prefix = log[p].prefix
      <4> HIDE DEF p
      <4> QED BY <1>4 DEF LogRecs
    <3>2. log' = [log EXCEPT ![p] = l]
      BY <2>2, <1>0, <1>4 DEF RecorderTypes
    <3> HIDE DEF l, p
    <3> QED BY <1>0, <1>4, <3>1, <3>2 DEF RecorderTypes
  <2> QED BY <1>3, <2>1, <2>2
<1>8. present' \subseteq present /\ kept \subseteq kept' /\ mishaps' \in Nat /\ mishaps <= mishaps'
  BY <1>3, <1>4
<1>9. p \notin present' \/ p \in kept'
  BY <1>3
<1>10. \A x \in Paths \ {p} : (x \in present' <=> x \in present) /\ (x \in kept' <=> x \in kept)
  BY <1>3
<1> HIDE DEF p
<1>11. RecorderTypes'
  BY <1>0, <1>1, <1>6, <1>7, <1>8 DEF RecorderTypes
<1>12. CapsOK'
  BY <1>0, <1>1 DEF CapsOK
<1>13. StagesOK'
  BY <1>0, <1>1, <1>2, <1>6 DEF StagesOK, Deleting, Pruning
<1>14. JournalOK'
  <2>1. \A x \in Paths \ DOMAIN disk' : log'[x] = NoLog
    BY <1>0, <1>1, <1>4, <1>7 DEF JournalOK
  <2>2. \A x \in Paths : log'[x].prefix # <<>> => log'[x].last # "none"
    BY <1>0, <1>7 DEF JournalOK
  <2>3. /\ \A x \in DOMAIN jfiles' \ unrecorded' : jfiles'[x] = log'[x].prefix /\ jfiles'[x] # <<>>
        /\ \A x \in DOMAIN jfiles' : Len(jfiles'[x]) <= Len(disk'[x])
        /\ \A x \in DOMAIN jfiles' \ touched' : Begins(jfiles'[x], disk'[x])
        /\ \A x \in DOMAIN jfiles' \ unseen' : Begins(log'[x].prefix, jfiles'[x])
    <3>1. \A x \in DOMAIN jfiles' : x \in Paths /\ log'[x].prefix = log[x].prefix
      BY <1>1, <1>6, <1>7
    <3> QED BY <1>0, <1>1, <3>1 DEF JournalOK
  <2>4. /\ \A x \in DOMAIN disk' : Len(log'[x].prefix) <= Len(disk'[x])
        /\ \A x \in DOMAIN disk' \ touched' : Begins(log'[x].prefix, disk'[x])
    BY <1>0, <1>1, <1>6, <1>7 DEF JournalOK
  <2>5. \A x \in DOMAIN disk' \ (unseen' \cup DOMAIN jfiles') : InUse(x)' => log'[x].prefix = <<>>
    BY <1>0, <1>1, <1>6, <1>7 DEF JournalOK
  <2>6. ASSUME NEW x \in own' \ DOMAIN jfiles'
        PROVE  \/ log'[x].prefix = <<>> \/ x \in kept' \/ x \notin present'
               \/ loop' = "remove" /\ cur'.path = x
    <3>1. x \in Paths /\ x \in own \ DOMAIN jfiles
      BY <1>1, <1>6
    <3>2. CASE x = p
      BY <1>9, <3>2
    <3>3. CASE x # p
      BY <1>0, <1>1, <1>7, <1>10, <3>1, <3>3 DEF JournalOK, p
    <3> QED BY <3>2, <3>3
  <2>7. knows' => \A x \in DOMAIN known' \ own' : x \in Paths /\ known'[x] = Len(log'[x].prefix)
    BY <1>0, <1>1, <1>7 DEF JournalOK
  <2> QED BY <2>1, <2>2, <2>3, <2>4, <2>5, <2>6, <2>7 DEF JournalOK
<1>15. PruneOK'
  <2> SUFFICES ASSUME NEW x \in DOMAIN disk' \ (touched' \cup unseen' \cup unrecorded')
               PROVE  /\ x \notin present' => Settled(log'[x], disk'[x], x \in kept') /\ ~InUse(x)'
                      /\ cur'.path = x =>
                            /\ loop' \in Deleting => CandOK(cur', disk'[x], log'[x].prefix, x \in kept')
                            /\ loop' \in {"record", "remove"} => x \in present' /\ cur'.sha = disk'[x]
                            /\ loop' = "remove" => Settled(log'[x], disk'[x], x \in kept')
                      /\ \A y \in todo' : (y.path = x /\ x <= seen' /\ x \notin active') =>
                                            CandOK(y, disk'[x], log'[x].prefix, x \in kept')
    BY DEF PruneOK
  <2>0. x \in Paths /\ x \in DOMAIN disk \ (touched \cup unseen \cup unrecorded)
    BY <1>1, <1>6
  <2>1. /\ x \notin present => Settled(log[x], disk[x], x \in kept) /\ ~InUse(x)
        /\ x = p => x \in present /\ Settled(log[x], disk[x], x \in kept)
        /\ \A y \in todo : (y.path = x /\ x <= seen /\ x \notin active) =>
                              CandOK(y, disk[x], log[x].prefix, x \in kept)
    BY <1>0, <1>1, <2>0 DEF PruneOK, p
  <2>2. x \notin present' => Settled(log'[x], disk'[x], x \in kept') /\ ~InUse(x)'
    <3>1. CASE x # p
      BY <1>1, <1>6, <1>7, <1>10, <2>0, <2>1, <3>1
    <3>2. CASE x = p
      <4> SUFFICES ASSUME x \notin present'
                   PROVE  Settled(log'[x], disk'[x], x \in kept') /\ ~InUse(x)'
        OBVIOUS
      <4>1. UNCHANGED <<log, kept>>
        BY <1>3, <2>1, <3>2 DEF p
      <4> QED BY <1>1, <1>5, <1>6, <2>0, <2>1, <3>2, <4>1
    <3> QED BY <3>1, <3>2
  <2>3. \A y \in todo' : (y.path = x /\ x <= seen' /\ x \notin active') =>
                            CandOK(y, disk'[x], log'[x].prefix, x \in kept')
    BY <1>1, <1>7, <1>8, <2>0, <2>1 DEF CandOK
  <2> QED BY <1>1, <2>2, <2>3 DEF Deleting
<1>16. TamperOK'
  <2>1. ASSUME NEW x \in altered' \ unseen'
        PROVE  /\ log'[x].last # "none"
               /\ x \in present' => Tampered(disk'[x], log'[x].prefix)
               /\ log'[x].last = "prune" => Mismatch(log'[x].prefix, log'[x].prune)
               /\ cur'.path = x /\ loop' \in {"record", "remove"} => Tampered(cur'.sha, log'[x].prefix)
    <3>0. x \in altered \ unseen /\ x \in DOMAIN disk /\ x \in Paths
      BY <1>0, <1>1, <1>6 DEF TamperOK
    <3>1. /\ log[x].last # "none"
          /\ x \in present => Tampered(disk[x], log[x].prefix)
          /\ log[x].last = "prune" => Mismatch(log[x].prefix, log[x].prune)
      BY <1>0, <3>0 DEF TamperOK
    <3> QED BY <1>1, <1>7, <1>8, <3>0, <3>1
  <2>2. ASSUME NEW x \in DOMAIN disk' \ unseen'
        PROVE  /\ Raw(log'[x].prefix, 1, Len(log'[x].prefix))
               /\ Raw(disk'[x], Len(log'[x].prefix) + 1, Len(disk'[x]))
    BY <1>0, <1>1, <1>6, <1>7 DEF TamperOK
  <2>3. \A x \in DOMAIN jfiles' \ unseen' : Raw(jfiles'[x], 1, Len(jfiles'[x]))
    BY <1>0, <1>1 DEF TamperOK
  <2> QED BY <1>0, <1>1, <2>1, <2>2, <2>3 DEF TamperOK
<1>17. StopOK'
  <2> SUFFICES ASSUME mishaps' = 0
               PROVE  /\ touched' = {} /\ unrecorded' = {}
                      /\ \A x \in DOMAIN jfiles' : log'[x].last = "append"
                      /\ loop' \in {"record", "remove"} => cur'.path \in present'
                      /\ \A x \in own' \cap present' :
                            \/ Awaits(x)'
                            \/ log'[x].last = "append" /\ log'[x].prefix = disk'[x]
                            \/ loop' = "remove" /\ cur'.path = x
    BY DEF StopOK
  <2>0. mishaps = 0
    BY <1>4, <1>8
  <2>1. /\ touched = {} /\ unrecorded = {} /\ p \in present
        /\ \A x \in DOMAIN jfiles : log[x].last = "append"
        /\ \A x \in own \cap present : x # p =>
              Awaits(x) \/ (log[x].last = "append" /\ log[x].prefix = disk[x])
    BY <1>0, <1>1, <2>0 DEF StopOK, p
  <2>2. p \notin present' /\ log' = log
    <3>1. mishaps' # mishaps + 1
      BY <2>0
    <3> QED BY <1>3, <2>1, <3>1 DEF p
  <2> QED BY <1>1, <1>6, <1>8, <2>1, <2>2
<1> QED BY <1>11, <1>12, <1>13, <1>14, <1>15, <1>16, <1>17 DEF RInvariant, RBase

\* The program ends, or dies: what it had in memory is gone.
LEMMA REnds ==
    ASSUME RInvariant, Ends
    PROVE  RInvariant'
<1>0. RecorderTypes /\ CapsOK /\ JournalOK /\ StagesOK /\ PruneOK /\ TamperOK /\ StopOK
  BY DEF RInvariant, RBase
<1>1. /\ UNCHANGED <<disk, present, log, touched, altered, kept, unseen, mishaps>>
      /\ loop' = "wait" /\ todo' = {} /\ cur' = NoFile /\ own' = {} /\ jclosed' = FALSE
      /\ known' = <<>> /\ knows' = FALSE /\ jfiles' = <<>> /\ stop' = "run" /\ seen' = 0
      /\ cap' = [c \in Captures |-> Closed]
      /\ unrecorded' = unrecorded \ present
  BY DEF Ends, Reopened, files
<1>2. /\ Closed \in CapRecs /\ Closed.path = NoPath /\ Closed.open = FALSE /\ Closed.closed = FALSE
      /\ Closed.journaled = 0 /\ Closed.written = 0 /\ NoFile \in FileRecs
  BY DEF Closed, CapRecs, NoFile, FileRecs, NoPath, FileTexts
<1>3. /\ Len(disk) \in Nat /\ DOMAIN <<>> = {} /\ <<>> \in [{} -> FileTexts] /\ <<>> \in [{} -> Nat]
  BY <1>0, RDomains
<1>4. \A x : ~InUse(x)'
  BY <1>1, <1>2 DEF InUse
<1>5. RecorderTypes'
  <2>1. jfiles' \in [DOMAIN jfiles' -> FileTexts] /\ DOMAIN jfiles' = {}
        /\ known' \in [DOMAIN known' -> Nat]
    BY <1>1, <1>3
  <2> QED BY <1>0, <1>1, <1>2, <2>1 DEF RecorderTypes
<1>6. CapsOK'
  BY <1>1, <1>2 DEF CapsOK, CapOK, Captures
<1>7. StagesOK'
  BY <1>1, <1>3, <1>4 DEF StagesOK, Deleting, Pruning
<1>8. JournalOK'
  BY <1>0, <1>1, <1>3, <1>4 DEF JournalOK
<1>9. PruneOK'
  <2>1. \A p \in DOMAIN disk' \ (touched' \cup unseen' \cup unrecorded') :
           p \notin present => p \in DOMAIN disk \ (touched \cup unseen \cup unrecorded)
    BY <1>1
  <2> QED BY <1>0, <1>1, <1>4, <2>1 DEF PruneOK, Deleting
<1>10. TamperOK'
  BY <1>0, <1>1, <1>3 DEF TamperOK
<1>11. StopOK'
  BY <1>0, <1>1, <1>3 DEF StopOK
<1> QED BY <1>5, <1>6, <1>7, <1>8, <1>9, <1>10, <1>11 DEF RInvariant, RBase

LEMMA RAlter ==
    ASSUME RInvariant, NEW p \in present, Alter(p)
    PROVE  RInvariant'
<1>0. RecorderTypes /\ CapsOK /\ JournalOK /\ StagesOK /\ PruneOK /\ TamperOK /\ mishaps \in Nat
  BY DEF RInvariant, RBase, RecorderTypes
<1>1. /\ UNCHANGED <<present, cap, own, jfiles, log, jclosed, known, knows, loop, active, todo, cur, stop,
                    kept, seen, unseen, unrecorded>>
      /\ mishaps' = mishaps + 1 /\ touched' = touched \cup {p}
      /\ altered' = IF Accounted(p) THEN altered ELSE altered \cup {p}
  BY DEF Alter, Mishap, journal, scope, pruning, ended
<1>2. PICK i \in 1 .. Len(log[p].prefix) : disk' = [disk EXCEPT ![p][i] = "altered"]
  BY DEF Alter
<1>3. /\ p \in DOMAIN disk /\ p \in Paths /\ disk[p] \in FileTexts /\ log[p].prefix \in FileTexts
      /\ Len(log[p].prefix) <= Len(disk[p]) /\ DOMAIN disk \subseteq Paths
      /\ Len(disk[p]) \in Nat /\ Len(log[p].prefix) \in Nat
      /\ own \subseteq DOMAIN disk /\ DOMAIN jfiles \subseteq DOMAIN disk
  BY <1>0, RDomains, RText DEF RecorderTypes, JournalOK
<1>4. /\ DOMAIN disk' = DOMAIN disk /\ disk' \in Seq(FileTexts) /\ Len(disk') = Len(disk)
      /\ \A x \in DOMAIN disk : Len(disk'[x]) = Len(disk[x])
      /\ \A x \in DOMAIN disk \ {p} : disk'[x] = disk[x]
      /\ disk'[p][i] = "altered"
      /\ \A y \in 1 .. Len(disk[p]) : y # i => disk'[p][y] = disk[p][y]
  <2> DEFINE t == [disk[p] EXCEPT ![i] = "altered"]
  <2>1. i \in 1 .. Len(disk[p])
    BY <1>3
  <2>2. t \in FileTexts /\ Len(t) = Len(disk[p]) /\ t[i] = "altered"
        /\ \A y \in 1 .. Len(disk[p]) : y # i => t[y] = disk[p][y]
    BY <1>3, <2>1 DEF FileTexts, LineKinds
  <2>3. disk' = [disk EXCEPT ![p] = t]
    BY <1>2
  <2> HIDE DEF t
  <2>4. /\ DOMAIN disk' = DOMAIN disk /\ disk' \in Seq(FileTexts) /\ Len(disk') = Len(disk)
        /\ disk'[p] = t /\ \A x \in DOMAIN disk \ {p} : disk'[x] = disk[x]
    BY <1>0, <1>3, <2>2, <2>3 DEF RecorderTypes
  <2> QED BY <2>2, <2>4
<1>5. RecorderTypes'
  BY <1>0, <1>1, <1>4 DEF RecorderTypes
<1>6. CapsOK'
  BY <1>0, <1>1, <1>3, <1>4 DEF CapsOK, CapOK
<1>7. (\A x : InUse(x)' <=> InUse(x)) /\ StagesOK'
  <2>1. \A x : InUse(x)' <=> InUse(x)
    BY <1>1 DEF InUse
  <2> QED BY <1>0, <1>1, <1>4, <2>1 DEF StagesOK
<1>8. JournalOK'
  <2>1. /\ \A x \in DOMAIN jfiles' \ unrecorded' : jfiles'[x] = log'[x].prefix /\ jfiles'[x] # <<>>
        /\ \A x \in DOMAIN jfiles' : Len(jfiles'[x]) <= Len(disk'[x])
        /\ \A x \in DOMAIN jfiles' \ touched' : Begins(jfiles'[x], disk'[x])
        /\ \A x \in DOMAIN jfiles' \ unseen' : Begins(log'[x].prefix, jfiles'[x])
    BY <1>0, <1>1, <1>3, <1>4 DEF JournalOK
  <2> QED BY <1>0, <1>1, <1>4, <1>7, <2>1 DEF JournalOK
<1>9. PruneOK'
  <2>1. \A x \in DOMAIN disk' \ (touched' \cup unseen' \cup unrecorded') :
           x \in DOMAIN disk \ (touched \cup unseen \cup unrecorded) /\ disk'[x] = disk[x]
    BY <1>1, <1>4
  <2> QED BY <1>0, <1>1, <1>7, <2>1 DEF PruneOK
<1>10. TamperOK'
  <2>1. ASSUME NEW x \in DOMAIN disk' \ unseen'
        PROVE  /\ Raw(log'[x].prefix, 1, Len(log'[x].prefix))
               /\ Raw(disk'[x], Len(log'[x].prefix) + 1, Len(disk'[x]))
    <3>1. /\ Raw(log[x].prefix, 1, Len(log[x].prefix))
          /\ Raw(disk[x], Len(log[x].prefix) + 1, Len(disk[x]))
      BY <1>0, <1>1, <1>4, <2>1 DEF TamperOK
    <3>2. CASE x # p
      BY <1>1, <1>4, <3>1, <3>2
    <3>3. CASE x = p
      <4> DEFINE n == Len(log[p].prefix)
                 m == Len(disk[p])
      <4>1. Len(disk'[p]) = m /\ n \in Nat /\ m \in Nat /\ n <= m /\ i \in 1 .. n
        BY <1>3, <1>4
      <4> HIDE DEF n, m
      <4>2. \A y \in n + 1 .. m : y \in 1 .. m /\ y # i
        BY <4>1
      <4>3. Raw(disk'[p], n + 1, m)
        BY <1>4, <3>1, <3>3, <4>2 DEF Raw, n, m
      <4> QED BY <1>1, <3>1, <3>3, <4>1, <4>3 DEF n, m
    <3> QED BY <3>2, <3>3
  <2>2. altered' \subseteq DOMAIN disk'
    BY <1>0, <1>1, <1>3, <1>4 DEF TamperOK
  <2>3. ASSUME NEW x \in altered' \ unseen'
        PROVE  /\ log'[x].last # "none"
               /\ x \in present' => Tampered(disk'[x], log'[x].prefix)
               /\ log'[x].last = "prune" => Mismatch(log'[x].prefix, log'[x].prune)
               /\ cur'.path = x /\ loop' \in {"record", "remove"} => Tampered(cur'.sha, log'[x].prefix)
    <3>1. CASE x # p
      <4>1. x \in altered \ unseen /\ x \in DOMAIN disk
        BY <1>0, <1>1, <3>1 DEF TamperOK
      <4> QED BY <1>0, <1>1, <1>4, <3>1, <4>1 DEF TamperOK
    <3>2. CASE x = p
      <4>1. Raw(log[p].prefix, 1, Len(log[p].prefix))
        BY <1>0, <1>1, <1>3, <3>2 DEF TamperOK
      <4>2. Tampered(disk'[p], log[p].prefix)
        <5>1. i <= Len(disk'[p]) /\ i \in 1 .. Len(log[p].prefix) /\ disk'[p][i] # log[p].prefix[i]
          BY <1>3, <1>4, <4>1 DEF Raw
        <5> QED BY <5>1 DEF Tampered
      <4>3. log[p].last # "none"
        <5>1. log[p].prefix # <<>>
          BY <1>3, RText
        <5> QED BY <1>0, <1>3, <5>1 DEF JournalOK
      <4>4. CASE p \in altered
        BY <1>0, <1>1, <3>2, <4>2, <4>3, <4>4 DEF TamperOK
      <4>5. CASE p \notin altered
        <5>1. ~Accounted(p)
          BY <1>1, <3>2, <4>5
        <5> QED BY <1>1, <3>2, <4>2, <4>3, <5>1 DEF Accounted
      <4> QED BY <4>4, <4>5
    <3> QED BY <3>1, <3>2
  <2>4. \A x \in DOMAIN jfiles' \ unseen' : Raw(jfiles'[x], 1, Len(jfiles'[x]))
    BY <1>0, <1>1 DEF TamperOK
  <2> QED BY <2>1, <2>2, <2>3, <2>4 DEF TamperOK
<1>11. StopOK'
  <2>1. mishaps' # 0
    BY <1>0, <1>1
  <2> QED BY <2>1 DEF StopOK
<1> QED BY <1>5, <1>6, <1>7, <1>8, <1>9, <1>10, <1>11 DEF RInvariant, RBase

LEMMA RVanish ==
    ASSUME RInvariant, NEW p \in present, Vanish(p)
    PROVE  RInvariant'
<1>0. RecorderTypes /\ CapsOK /\ JournalOK /\ StagesOK /\ PruneOK /\ TamperOK /\ mishaps \in Nat
  BY DEF RInvariant, RBase, RecorderTypes
<1>1. /\ UNCHANGED <<disk, cap, own, jfiles, log, jclosed, known, knows, loop, active, todo, cur, stop,
                    kept, seen, unseen, unrecorded>>
      /\ mishaps' = mishaps + 1 /\ present' = present \ {p} /\ touched' = touched \cup {p}
      /\ altered' = IF Accounted(p) \/ log[p].last = "none" THEN altered ELSE altered \cup {p}
  BY DEF Vanish, Mishap, journal, scope, pruning, ended
<1>2. RecorderTypes' /\ p \in DOMAIN disk
  BY <1>0, <1>1 DEF RecorderTypes
<1>3. CapsOK'
  BY <1>0, <1>1 DEF CapsOK
<1>4. (\A x : InUse(x)' <=> InUse(x)) /\ StagesOK'
  <2>1. \A x : InUse(x)' <=> InUse(x)
    BY <1>1 DEF InUse
  <2> QED BY <1>0, <1>1, <2>1 DEF StagesOK
<1>5. JournalOK'
  BY <1>0, <1>1, <1>4 DEF JournalOK
<1>6. PruneOK'
  <2>1. \A x \in DOMAIN disk' \ (touched' \cup unseen' \cup unrecorded') :
           x \in DOMAIN disk \ (touched \cup unseen \cup unrecorded) /\ (x \in present' <=> x \in present)
    BY <1>1
  <2> QED BY <1>0, <1>1, <1>4, <2>1 DEF PruneOK
<1>7. TamperOK'
  <2>1. ASSUME NEW x \in altered' \ unseen'
        PROVE  /\ log'[x].last # "none"
               /\ x \in present' => Tampered(disk'[x], log'[x].prefix)
               /\ log'[x].last = "prune" => Mismatch(log'[x].prefix, log'[x].prune)
               /\ cur'.path = x /\ loop' \in {"record", "remove"} => Tampered(cur'.sha, log'[x].prefix)
    <3>1. CASE x \in altered
      BY <1>0, <1>1, <3>1 DEF TamperOK
    <3>2. CASE x \notin altered
      BY <1>1, <3>2 DEF Accounted
    <3> QED BY <3>1, <3>2
  <2>2. altered' \subseteq DOMAIN disk'
    BY <1>0, <1>1, <1>2 DEF TamperOK
  <2>3. \A x \in DOMAIN disk' \ unseen' :
          /\ Raw(log'[x].prefix, 1, Len(log'[x].prefix))
          /\ Raw(disk'[x], Len(log'[x].prefix) + 1, Len(disk'[x]))
    BY <1>0, <1>1 DEF TamperOK
  <2>4. \A x \in DOMAIN jfiles' \ unseen' : Raw(jfiles'[x], 1, Len(jfiles'[x]))
    BY <1>0, <1>1 DEF TamperOK
  <2> QED BY <2>1, <2>2, <2>3, <2>4 DEF TamperOK
<1>8. StopOK'
  <2>1. mishaps' # 0
    BY <1>0, <1>1
  <2> QED BY <2>1 DEF StopOK
<1> QED BY <1>2, <1>3, <1>4, <1>5, <1>6, <1>7, <1>8 DEF RInvariant, RBase

LEMMA RInit == RecorderInit => RInvariant
<1> SUFFICES ASSUME RecorderInit PROVE RInvariant
  OBVIOUS
<1> USE DEF RecorderInit
<1>1. /\ Closed \in CapRecs /\ Closed.path = NoPath /\ Closed.open = FALSE /\ Closed.closed = FALSE
      /\ Closed.journaled = 0 /\ Closed.written = 0
  BY DEF Closed, CapRecs, NoPath
<1>2. NoFile \in FileRecs /\ <<>> \in FileTexts /\ DOMAIN <<>> = {} /\ Len(<<>>) = 0
      /\ <<>> \in [{} -> FileTexts] /\ <<>> \in [{} -> Nat] /\ <<>> \in Seq(FileTexts)
  BY DEF NoFile, FileRecs, NoPath, FileTexts
<1>3. NoLog \in LogRecs /\ NoLog.prefix = <<>>
  <2>1. NoPrune \in PruneRecs
    BY <1>2 DEF NoPrune, PruneRecs
  <2> QED BY <1>2, <2>1 DEF NoLog, LogRecs
<1>4. DOMAIN disk = {} /\ Len(disk) = 0 /\ DOMAIN jfiles = {} /\ DOMAIN known = {}
  BY <1>2
<1>5. RecorderTypes
  <2>1. cap \in [Captures -> CapRecs] /\ log \in [Paths -> LogRecs]
    BY <1>1, <1>3
  <2>2. jfiles \in [DOMAIN jfiles -> FileTexts] /\ known \in [DOMAIN known -> Nat]
    BY <1>2, <1>4
  <2>3. Len(disk) <= MaxFiles
    BY <1>4, RecorderAssumption
  <2> QED BY <1>2, <1>4, <2>1, <2>2, <2>3 DEF RecorderTypes
<1>6. CapsOK
  BY <1>1 DEF CapsOK, CapOK, Captures
<1>7. StagesOK
  BY <1>4 DEF StagesOK, Deleting, Pruning
<1>8. JournalOK
  BY <1>3, <1>4 DEF JournalOK
<1>9. PruneOK /\ TamperOK
  BY <1>4 DEF PruneOK, TamperOK
<1>10. StopOK
  BY <1>4 DEF StopOK
<1> QED BY <1>5, <1>6, <1>7, <1>8, <1>9, <1>10 DEF RInvariant, RBase

LEMMA RStep == RInvariant /\ [RecorderNext]_recorderVars => RInvariant'
<1> SUFFICES ASSUME RInvariant, [RecorderNext]_recorderVars PROVE RInvariant'
  OBVIOUS
<1>1. CASE CaptureAction
  BY <1>1, RCaptureAction
<1>2. CASE IdleAction
  BY <1>2, RIdleAction
<1>3. CASE PruneBegins
  BY <1>3, RPruneBegins
<1>4. CASE ListCaptures
  BY <1>4, RListCaptures
<1>5. CASE NextCandidate
  BY <1>5, RNextCandidate
<1>6. CASE PruneEnds
  BY <1>6, RPruneEnds
<1>7. CASE Hash
  BY <1>7, RHash
<1>8. CASE RecordPrune
  BY <1>8, RRecordPrune
<1>9. CASE RemoveFile
  BY <1>9, RRemoveFile
<1>10. CASE Exit \/ Crash
  BY <1>10, REnds DEF Exit, Crash
<1>11. ASSUME NEW p \in present, Alter(p) \/ Vanish(p) PROVE RInvariant'
  BY <1>11, RAlter, RVanish
<1>12. CASE UNCHANGED recorderVars
  <2>1. /\ UNCHANGED <<disk, present, own, cap, jfiles, log, touched, altered, kept, unrecorded, mishaps>>
        /\ UNCHANGED <<known, knows, jclosed, active, todo, cur, seen, unseen, stop, loop>>
    BY <1>12 DEF recorderVars, files, journal, scope, pruning, ended, history
  <2>2. Quiet /\ CandidatesRight
    BY <2>1 DEF Quiet, CandidatesRight, RInvariant, PruneOK, TamperOK, StopOK
  <2>3. RecorderTypes'
    BY <2>1 DEF RInvariant, RBase, RecorderTypes
  <2>4. StagesOK'
    <3>1. \A x : InUse(x)' <=> InUse(x)
      BY <2>1 DEF InUse
    <3> QED BY <2>1, <3>1 DEF RInvariant, RBase, StagesOK
  <2>5. knows' => \A p \in DOMAIN known' \ own : p \in Paths /\ known'[p] = Len(log[p].prefix)
    BY <2>1 DEF RInvariant, RBase, JournalOK
  <2> QED BY <2>2, <2>3, <2>4, <2>5, RQuiet
<1>13. LastPoll => CaptureAction \/ IdleAction
  BY DEF LastPoll, CaptureAction, IdleAction
<1> QED
  BY <1>1, <1>2, <1>3, <1>4, <1>5, <1>6, <1>7, <1>8, <1>9, <1>10, <1>11, <1>12, <1>13
     DEF RecorderNext, Loop, Stop, CaptureAction, IdleAction

-----------------------------------------------------------------------------
\* The invariant of the recorder: what the journal, its captures and its retention say
\* of each other, at every step.  recorder.go:344-618, retention.go:125-209.
THEOREM RecorderConsistent == RecorderSpec => []RInvariant
<1>1. RecorderInit => RInvariant
  BY RInit
<1>2. RInvariant /\ [RecorderNext]_recorderVars => RInvariant'
  BY RStep
<1> QED
  BY <1>1, <1>2, PTL DEF RecorderSpec

\* A capture retention deleted is accounted for, across restarts, crashes and flushes
\* that fail at any point, for any number of captures, lines and mishaps; but for one
\* whose last record the journal failed to write in that session, and one that could
\* not be removed before.  retention.go:125-205, journal.go:143-184, check.go:235-290.
THEOREM DeletionsAccounted == RecorderSpec => []PrunedAccounted
<1>1. RInvariant => PrunedAccounted
  <2> SUFFICES ASSUME RInvariant, NEW p \in Gone \ (touched \cup unseen \cup unrecorded), Reported(p)
               PROVE  p \in kept /\ log[p].prefix # disk[p]
    BY DEF PrunedAccounted
  <2>1. p \in DOMAIN disk \ (touched \cup unseen \cup unrecorded) /\ p \notin present
    BY DEF Gone
  <2>2. Settled(log[p], disk[p], p \in kept)
    BY <2>1 DEF RInvariant, PruneOK
  <2> QED BY <2>2 DEF Settled, Reported
<1> QED
  BY <1>1, RecorderConsistent, PTL

\* A capture another hand altered or removed before retention recorded that it goes is
\* reported once it is gone, whatever the recorder did with it since.
\* prune.go:9-22, check.go:235-290.
THEOREM TamperingReported == RecorderSpec => []TamperReported
<1>1. RInvariant => TamperReported
  <2> SUFFICES ASSUME RInvariant, NEW p \in (Gone \cap altered) \ unseen
               PROVE  Reported(p)
    BY DEF TamperReported
  <2> QED BY DEF RInvariant, TamperOK, Reported
<1> QED
  BY <1>1, RecorderConsistent, PTL

\* Without mishaps, all that was captured in a session and is still there is journaled
\* when the journal is closed.  recorder.go:574-618, capture.go:169-180.
THEOREM StopsJournaled == RecorderSpec => []StopJournals
<1>1. RInvariant => StopJournals
  <2> SUFFICES ASSUME RInvariant, jclosed, mishaps = 0, NEW p \in own \cap present
               PROVE  log[p].last = "append" /\ log[p].prefix = disk[p]
    BY DEF StopJournals
  <2>1. /\ loop = "wait"
        /\ \A c \in Captures : cap[c].closed
    BY DEF RInvariant, RBase, StagesOK, Captures
  <2>2. ~Awaits(p)
    <3>1. ASSUME NEW c \in Captures PROVE ~Pending(cap[c])
      BY <2>1, RCapture DEF RInvariant, CapOK
    <3> QED BY <3>1 DEF Awaits
  <2> QED BY <2>1, <2>2 DEF RInvariant, StopOK
<1> QED
  BY <1>1, RecorderConsistent, PTL
=============================================================================
