---------------------------- MODULE SequenceGaps ----------------------------
(***************************************************************************)
(* How a recording source accounts for the records it lost                 *)
(* (internal/recorder/source.go): auditd and eslogger number their         *)
(* records, a jump in the numbers opens a range of missing ones, a late    *)
(* record fills its place in the range, and a range the numbers have left  *)
(* far behind is final.                                                    *)
(*                                                                         *)
(* The state of one Source is a record, and a line's number takes it to    *)
(* the next by SeqStep; the modules that feed a source lines use it.       *)
(* Numbers are naturals: parseSeq takes at most 19 digits, so that         *)
(* none of the sums below comes near 2^64.                                 *)
(***************************************************************************)
EXTENDS Naturals, FiniteSets, FiniteSetsExt

CONSTANTS
    PendingWindow,  \* numbers this far behind the greatest are final
    MaxPending      \* missing numbers waited for one by one

ASSUME GapsAssumption == PendingWindow \in Nat /\ MaxPending \in Nat

\* A jump left the numbers from .. to out; left of them are still missing.
GapRange(from, to, left) == [from |-> from, to |-> to, left |-> left]
Span(r) == r.from .. r.to

Source(known, max, pending, ranges, gaps, missing, resets) ==
    [known |-> known, max |-> max, pending |-> pending, ranges |-> ranges,
     gaps |-> gaps, missing |-> missing, resets |-> resets]

NewSource == Source(FALSE, 0, {}, {}, 0, 0, 0)

Left(ranges) == MapThenSumSet(LAMBDA r : r.left, ranges)
Open(ranges) == {r \in ranges : r.left > 0}

\* finalize, for the ranges in old: counted for good, and no longer waited for.
Settle(s, old) ==
    Source(s.known, s.max,
           s.pending \ UNION {Span(r) : r \in {q \in old : q.to - q.from < MaxPending}},
           s.ranges \ old,
           s.gaps + Cardinality(Open(old)), s.missing + Left(old), s.resets)

Expired(s)  == {r \in s.ranges : s.max - r.to > PendingWindow}
Finalize(s) == Settle(s, Expired(s))

\* Mutant: a jump is final at once.
WaitableNever(s, n) == FALSE

\* A jump small enough to be waited for, or so large that it is final now.
Waitable(s, n) == n <= MaxPending /\ Cardinality(s.pending) + n <= MaxPending

Jump(s, v) ==
    LET n == v - s.max - 1 IN
    IF Waitable(s, n)
    THEN Source(s.known, v, s.pending \cup (s.max + 1 .. v - 1),
                s.ranges \cup {GapRange(s.max + 1, v - 1, n)},
                s.gaps, s.missing, s.resets)
    ELSE Source(s.known, v, s.pending, s.ranges, s.gaps + 1, s.missing + n, s.resets)

\* Mutant: a late number does not count for its range.
FillNot(r, v) == r

\* A late number fills its place, if its range is still waited for.
Fill(r, v) == IF v \in Span(r) THEN GapRange(r.from, r.to, r.left - 1) ELSE r

Late(s, v) ==
    IF v \in s.pending
    THEN Source(s.known, s.max, s.pending \ {v}, {Fill(r, v) : r \in s.ranges},
                s.gaps, s.missing, s.resets)
    ELSE s

\* A number far behind the greatest: the source started again.
Restart(s, v) ==
    LET t == Settle(s, s.ranges)
    IN  Source(t.known, v, t.pending, t.ranges, t.gaps, t.missing, t.resets + 1)

Place(s, v) ==
    CASE v = s.max                                -> s
      [] v = s.max + 1                            -> [s EXCEPT !.max = v]
      [] v > s.max + 1                            -> Jump(s, v)
      [] v < s.max /\ s.max - v <= PendingWindow  -> Late(s, v)
      [] v < s.max /\ s.max - v > PendingWindow   -> Restart(s, v)

SeqStep(s, v) ==
    IF s.known THEN Finalize(Place(s, v)) ELSE [s EXCEPT !.known = TRUE, !.max = v]

\* What Snapshot reports: the final counts, and those of the ranges still open.
ReportedGaps(s)    == s.gaps + Cardinality(Open(s.ranges))
ReportedMissing(s) == s.missing + Left(s.ranges)
-----------------------------------------------------------------------------
\* Ranges are apart and below the greatest number, every pending number lies in
\* one of them, and the range counts exactly the pending numbers it holds.
RangesApart(s) ==
    \A r, q \in s.ranges : r = q \/ r.to < q.from \/ q.to < r.from

RangesCount(s) ==
    \A r \in s.ranges : /\ r.to < s.max
                        /\ r.left = Cardinality(s.pending \cap Span(r))

PendingInRanges(s) == s.pending \subseteq UNION {Span(r) : r \in s.ranges}

\* However many records are lost, no more than MaxPending numbers are kept.
PendingBounded(s) == Cardinality(s.pending) <= MaxPending

RangesConsistent(s) ==
    RangesApart(s) /\ RangesCount(s) /\ PendingInRanges(s) /\ PendingBounded(s)
=============================================================================
