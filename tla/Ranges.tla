------------------------------- MODULE Ranges -------------------------------
(***************************************************************************)
(* Ranges of sequence numbers, Range in range.go: a range is a position    *)
(* and a length, and stands for the positions from the one up to, but not  *)
(* including, their sum.                                                   *)
(***************************************************************************)
EXTENDS Integers

min(a, b) == IF a > b THEN b ELSE a
max(a, b) == IF a > b THEN a ELSE b

MakeRange(first, end) == [pos |-> first, len |-> end - first]

End(r) == r.pos + r.len

Positions(r) == r.pos .. End(r) - 1

RangeType == [pos : Nat, len : Nat]

NoRange == [pos |-> 0, len |-> 0]

RangeIntersect(a, b) ==
  LET f == IF a.pos <= b.pos THEN a ELSE b
      g == IF a.pos <= b.pos THEN b ELSE a
  IN  IF End(f) > g.pos THEN MakeRange(g.pos, min(End(f), End(g))) ELSE NoRange

\* Mutant: ranges that only touch stay apart.
CanMergeOverlapping(a, b) ==
  max(End(a), End(b)) - min(a.pos, b.pos) < a.len + b.len

CanRangeMerge(a, b) ==
  max(End(a), End(b)) - min(a.pos, b.pos) <= a.len + b.len

\* The code panics when the ranges cannot be merged.
RangeMerge(a, b) ==
  MakeRange(min(a.pos, b.pos), max(End(a), End(b)))
=============================================================================
