-------------------------------- MODULE Dedup --------------------------------
(***************************************************************************)
(* De-duplication of overlapping slices of log lines                       *)
(* (pkg/loglines/dedup.go).  A line is identified by its Full text, which  *)
(* begins with its timestamp; here a line is a number, its place in the    *)
(* log, and slices are sequences of lines.                                 *)
(*                                                                         *)
(* Indices are Go's: the first is 0, and -1 says "not found".  A run-time  *)
(* panic (an index out of range) is the outcome Panic.                     *)
(***************************************************************************)
EXTENDS Integers, SequencesExt

At(s, i) == s[i + 1]                       \* s[i]
From(s, i) == SubSeq(s, i + 1, Len(s))     \* s[i:]
Upto(s, i) == SubSeq(s, 1, i)              \* s[:i]

\* The least index in 0..n-1 that satisfies P, or -1.
LeastIndex(n, P(_)) ==
  IF \E i \in 0..(n - 1) : P(i)
    THEN CHOOSE i \in 0..(n - 1) : P(i) /\ \A j \in 0..(i - 1) : ~P(j)
    ELSE -1

findLineIndex(needle, list) ==
  LET Found(i) == At(list, i) = needle IN LeastIndex(Len(list), Found)

\* The first index where both have a line and the lines differ.
findFirstIssueIndex(x, y) ==
  LET shorter == IF Len(x) < Len(y) THEN Len(x) ELSE Len(y)
      Differ(i) == At(x, i) # At(y, i)
  IN  LeastIndex(shorter, Differ)

\* The first line of a that is in b, and where it is there; offset Len(a)
\* and index -1 when a and b have no line in common.
findNextMatching(a, b) ==
  LET InB(i) == findLineIndex(At(a, i), b) # -1
      offset == LeastIndex(Len(a), InB)
  IN  IF offset = -1
        THEN [offset |-> Len(a), index |-> -1]
        ELSE [offset |-> offset, index |-> findLineIndex(At(a, offset), b)]

\* The lines of y that x lacks at index i go in front of x's next line that
\* both have; what x has before that line is skipped.
Stitch(x, y, i) ==
  LET next == findNextMatching(From(y, i), From(x, i))
  IN  Upto(x, i) \o SubSeq(y, i + 1, i + next.offset) \o From(x, i + next.index)

\* From(x, -1) panics: no line in common and nothing before the issue.
StitchPanics(x, y, i) ==
  i + findNextMatching(From(y, i), From(x, i)).index < 0

Lacks(x, y, i) == findLineIndex(At(y, i), From(x, i)) = -1

\* Faulty variant: lines missing in x are not inserted, only those in y.
fixLinesOneWay(x, y, i) ==
  IF At(x, i) # At(y, i) /\ Lacks(y, x, i) /\ ~StitchPanics(y, x, i)
    THEN [x |-> x, y |-> Stitch(y, x, i), changed |-> TRUE, panic |-> FALSE]
    ELSE [x |-> x, y |-> y, changed |-> FALSE, panic |-> FALSE]

fixLines(x, y, i) ==
  CASE At(x, i) = At(y, i) ->
         [x |-> x, y |-> y, changed |-> FALSE, panic |-> FALSE]
    [] At(x, i) # At(y, i) /\ Lacks(x, y, i) ->
         IF StitchPanics(x, y, i)
           THEN [x |-> x, y |-> y, changed |-> FALSE, panic |-> TRUE]
           ELSE [x |-> Stitch(x, y, i), y |-> y, changed |-> TRUE, panic |-> FALSE]
    [] At(x, i) # At(y, i) /\ ~Lacks(x, y, i) /\ Lacks(y, x, i) ->
         IF StitchPanics(y, x, i)
           THEN [x |-> x, y |-> y, changed |-> FALSE, panic |-> TRUE]
           ELSE [x |-> x, y |-> Stitch(y, x, i), changed |-> TRUE, panic |-> FALSE]
    [] OTHER -> [x |-> x, y |-> y, changed |-> FALSE, panic |-> FALSE]

\* What DedupAB returns: its two results, or a panic.
Panic == [first |-> <<>>, second |-> <<>>, panic |-> TRUE]
Result(first, second) == [first |-> first, second |-> second, panic |-> FALSE]

\* The loop of processOverlap: fix the first issue until none is left, or
\* until a fix changes nothing.
FixAll[p \in Seq(Nat) \X Seq(Nat)] ==
  LET x == p[1]
      y == p[2]
      i == findFirstIssueIndex(x, y)
      fixed == fixLines(x, y, i)
  IN  IF i = -1
        THEN [x |-> x, y |-> y, issue |-> -1, panic |-> FALSE]
        ELSE IF fixed.panic \/ ~fixed.changed
          THEN [x |-> x, y |-> y, issue |-> i, panic |-> fixed.panic]
          ELSE FixAll[<<fixed.x, fixed.y>>]

\* processOverlap and, when it reports that it failed, the split and retry
\* with dedup.  DedupAB has seen a[k:] and b disagree, which a and b need not
\* do: then processOverlap returns them as they are.
handleIncompleteOverlap(a, b, dedup) ==
  LET Retry(fixed) ==
        IF fixed.panic THEN Panic
        ELSE IF fixed.issue # -1
          THEN dedup[<<Upto(fixed.x, fixed.issue), From(fixed.y, fixed.issue)>>]
          ELSE dedup[<<fixed.x, fixed.y>>]
  IN  IF findFirstIssueIndex(a, b) = -1 THEN Result(a, b)
                                        ELSE Retry(FixAll[<<a, b>>])

\* DedupAB, as a recursive function of the two slices.
DedupPair[p \in Seq(Nat) \X Seq(Nat)] ==
  LET a == p[1]
      b == p[2]
      bFirst == findLineIndex(At(b, 0), a)
      overlap == IF bFirst = -1
                   THEN findLineIndex(At(a, Len(a) - 1), b) # -1
                   ELSE findFirstIssueIndex(From(a, bFirst), b) >= 0
  IN  IF b = <<>> \/ (bFirst = -1 /\ a = <<>>) THEN Panic
      ELSE IF overlap THEN handleIncompleteOverlap(a, b, DedupPair)
      ELSE IF bFirst = -1 THEN Result(a, b)
      ELSE Result(Upto(a, bFirst), b)

\* Faulty variant: the line both have is left in a.
DedupABKeepsMatch(a, b) ==
  LET bFirst == findLineIndex(At(b, 0), a)
  IN  IF bFirst = -1 THEN Result(a, b) ELSE Result(Upto(a, bFirst + 1), b)

\* Faulty variant: slices without any common line are stitched too.
DedupABAssumesOverlap(a, b) ==
  LET bFirst == findLineIndex(At(b, 0), a)
  IN  IF bFirst = -1 THEN handleIncompleteOverlap(a, b, DedupPair)
                     ELSE Result(Upto(a, bFirst), b)

DedupAB(a, b) == DedupPair[<<a, b>>]

-----------------------------------------------------------------------------
(* Slices with a generation: [lines |-> ..., generation |-> ...].          *)

MakeSliceFromLines(lines, generation) ==
  [lines |-> lines, generation |-> generation]

\* The elements of a finite set in the order of Before: the one that k - 1
\* others come before is the k-th.
Arranged(S, Before(_, _)) ==
  [k \in 1..Cardinality(S) |->
     CHOOSE x \in S : Cardinality({y \in S : Before(y, x)}) = k - 1]

\* Sort by start, then end; slices that have both in common keep their order.
SortedSlices(slices) ==
  LET zero == 0   \* the zero time, for a slice without lines
      Start(i) == Head(slices[i].lines \o <<zero>>)
      End(i) == Last(<<zero>> \o slices[i].lines)
      Before(i, j) == \/ Start(i) < Start(j)
                      \/ Start(i) = Start(j) /\ End(i) < End(j)
                      \/ Start(i) = Start(j) /\ End(i) = End(j) /\ i < j
      order == Arranged(DOMAIN slices, Before)
  IN  [i \in DOMAIN slices |-> slices[order[i]]]

\* The backward pass over the slices before the last two: res are the lines
\* to release, reference the lines an earlier slice is compared with.
DedupEarlier(slice, acc) ==
  LET Before(r) == [res |-> r.first \o acc.res, reference |-> r.first \o r.second,
                    panic |-> acc.panic \/ r.panic]
  IN  Before(DedupAB(slice.lines, acc.reference))

\* The lines before the last slice, without duplicates, and the last slice.
DedupLineSlices(unsorted) ==
  LET Released(last, acc) ==
        [result |-> acc.res, last |-> last, panic |-> acc.panic]
      LastTwo(slices, n, r) ==
        Released(MakeSliceFromLines(r.second, slices[n].generation),
                 FoldRight(DedupEarlier, SubSeq(slices, 1, n - 2),
                   [res |-> r.first, reference |-> r.first \o r.second,
                    panic |-> r.panic]))
      Sorted(slices, n) ==
        IF n = 1
          THEN [result |-> <<>>, last |-> slices[1], panic |-> FALSE]
          ELSE LastTwo(slices, n, DedupAB(slices[n - 1].lines, slices[n].lines))
  IN  Sorted(SortedSlices(unsorted), Len(unsorted))

\* One slice out of the slices of one generation.
dedupGeneration(slices) ==
  LET OneSlice(r) ==
        [slice |-> MakeSliceFromLines(r.result \o r.last.lines, r.last.generation),
         panic |-> r.panic]
  IN  OneSlice(DedupLineSlices(slices))

=============================================================================
