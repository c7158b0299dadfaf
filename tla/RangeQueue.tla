----------------------------- MODULE RangeQueue -----------------------------
(***************************************************************************)
(* RangeQueue in range.go: a list of ranges, kept in order and apart from  *)
(* each other, under the operations flows use on it.                       *)
(***************************************************************************)
EXTENDS Ranges, Sequences, FiniteSetsExt
List == INSTANCE SequencesExt

CONSTANTS
  Queues,          \* the queues at hand
  MaxPos           \* bound: positions are below MaxPos

ASSUME RangeQueueAssumption == MaxPos \in Nat \ {0}

VARIABLE ranges    \* the list of each queue

\* What the callers make of sequence numbers; the empty range is one of them.
RangeArgs == {MakeRange(f, e) : f, e \in 0 .. MaxPos} \cap RangeType

(***************************************************************************)
(* concat walks the list and merges each range with the next as long as    *)
(* they can be merged.                                                     *)
(***************************************************************************)
AppendMerged(done, r) ==
  IF done # <<>> /\ CanRangeMerge(List!Last(done), r)
  THEN Append(List!Front(done), RangeMerge(List!Last(done), r))
  ELSE Append(done, r)

concat(list) == List!FoldLeft(AppendMerged, <<>>, list)

(***************************************************************************)
(* AddRange inserts before the first range that it can be merged with, or  *)
(* that lies after it.                                                     *)
(***************************************************************************)
AddRange(list, r) ==
  LET stops == {i \in DOMAIN list : CanRangeMerge(list[i], r) \/ r.pos < list[i].pos}
      i     == Min(stops)
  IN  IF r.len = 0 THEN list
      ELSE IF stops = {} THEN Append(list, r)
      ELSE IF CanRangeMerge(list[i], r) THEN concat(List!InsertAt(list, i, r))
      ELSE List!InsertAt(list, i, r)

(***************************************************************************)
(* SubstractRange leaves of each range what lies before and after the      *)
(* argument, and stops at the first range that begins after its end.       *)
(***************************************************************************)
Filled(r) == IF r.len > 0 THEN <<r>> ELSE <<>>

\* Mutant: only the part before the argument is left.
LeftBefore(v, r) ==
  LET ir == RangeIntersect(v, r)
  IN  IF ir.len = 0 THEN <<v>> ELSE Filled(MakeRange(v.pos, ir.pos))

Left(v, r) ==
  LET ir == RangeIntersect(v, r)
  IN  IF ir.len = 0 THEN <<v>>
      ELSE Filled(MakeRange(v.pos, ir.pos)) \o Filled(MakeRange(End(ir), End(v)))

SubstractRange(list, r) ==
  LET stops == {i \in DOMAIN list : End(r) < list[i].pos} \cup {Len(list)}
      n     == Min(stops)
  IN  List!FoldLeft(LAMBDA kept, v : kept \o Left(v, r), <<>>, SubSeq(list, 1, n))
        \o SubSeq(list, n + 1, Len(list))

AddRangeQueue(list, other) == List!FoldLeft(AddRange, list, other)

SubstractRangeQueue(list, other) == List!FoldLeft(SubstractRange, list, other)

\* What r has in common with each range of the list b is added to the list.
AddMeets(list, r, b) ==
  List!FoldLeft(LAMBDA met, s : AddRange(met, RangeIntersect(r, s)), list, b)

RangeQueueIntersect(a, b) ==
  List!FoldLeft(LAMBDA met, r : AddMeets(met, r, b), <<>>, a)

Equals(a, b) == Len(a) = Len(b) /\ \A i \in DOMAIN a : a[i] = b[i]

Contain(list, x) == \E i \in DOMAIN list : x >= list[i].pos /\ x < End(list[i])

(***************************************************************************)
(* One operation on one of the queues.                                     *)
(***************************************************************************)
QueueInit == ranges = [q \in Queues |-> <<>>]

Put(q, list) == ranges' = [ranges EXCEPT ![q] = list]

QueueNext ==
  \E q \in Queues :
    \/ \E r \in RangeArgs :
         Put(q, AddRange(ranges[q], r)) \/ Put(q, SubstractRange(ranges[q], r))
    \/ \E p \in Queues \ {q} :         \* no caller combines a queue with itself
         \/ Put(q, AddRangeQueue(ranges[q], ranges[p]))
         \/ Put(q, SubstractRangeQueue(ranges[q], ranges[p]))
    \/ \E p, s \in Queues : Put(q, RangeQueueIntersect(ranges[p], ranges[s]))

QueueSpec == QueueInit /\ [][QueueNext]_ranges
-----------------------------------------------------------------------------
Held(list) == {x \in 0 .. MaxPos : Contain(list, x)}

(***************************************************************************)
(* Every queue is a list of ranges in order, none of them empty, with a    *)
(* gap between each and the next: AddRange and SubstractRange leave it so. *)
(* Therefore two queues are Equals exactly when they contain the same      *)
(* positions, however they were built.                                     *)
(***************************************************************************)
Canonical ==
  /\ \A q \in Queues :
       /\ \A i \in DOMAIN ranges[q] : ranges[q][i].len > 0
       /\ \A i \in 1 .. Len(ranges[q]) - 1 : End(ranges[q][i]) < ranges[q][i + 1].pos
  /\ \A p, q \in Queues :
       Equals(ranges[p], ranges[q]) <=> Held(ranges[p]) = Held(ranges[q])

(***************************************************************************)
(* Queues implement sets of positions: what Contain answers after any      *)
(* calls is what the union, difference and intersection of sets give.      *)
(***************************************************************************)
Sets ==
  INSTANCE RangeSet WITH
    Segments <- {Positions(r) : r \in RangeArgs},
    held <- [q \in Queues |-> Held(ranges[q])]

IsRangeSet == Sets!Spec
=============================================================================
