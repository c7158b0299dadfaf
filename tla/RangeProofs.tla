----------------------------- MODULE RangeProofs -----------------------------
(***************************************************************************)
(* A range queue is a set: its list of ranges stays in order and apart,    *)
(* and any calls leave it with the positions that the same operations on   *)
(* sets of positions give (module RangeSet), for every number of queues    *)
(* and of positions.                                                       *)
(***************************************************************************)
EXTENDS RangeQueue, SequenceTheorems, WellFoundedInduction, TLAPS

-----------------------------------------------------------------------------
(***************************************************************************)
(* Induction, for sets of natural numbers.  The library states it for a    *)
(* predicate; here the predicate is a set.                                 *)
(***************************************************************************)
Lower == {p \in Nat \X Nat : p[1] < p[2]}

LEMMA Least ==
  ASSUME NEW S \in SUBSET Nat, S # {}
  PROVE  \E n \in S : \A m \in S : n <= m
<1>1. IsWellFoundedOn(Lower, Nat)
  BY NatLessThanWellFounded DEF OpToRel, Lower
<1>2. PICK n \in S : \A m \in S : ~ (<<m, n>> \in Lower)
  BY <1>1, WFMin, Zenon
<1>3. \A m \in S : ~ (m < n)
  BY <1>2 DEF Lower
<1> QED
  BY <1>2, <1>3

LEMMA SetInduction ==
  ASSUME NEW S \in SUBSET Nat, 0 \in S, \A n \in S : n + 1 \in S
  PROVE  S = Nat
<1> SUFFICES ASSUME NEW T, T = Nat \ S, T # {} PROVE FALSE
  OBVIOUS
<1>1. PICK n \in T : \A m \in T : n <= m
  BY Least
<1>2. n # 0 /\ n - 1 \in Nat /\ n - 1 \notin T
  BY <1>1
<1> QED
  BY <1>1, <1>2

\* The same up to a bound.
LEMMA BoundedInduction ==
  ASSUME NEW N \in Nat, NEW S \in SUBSET (0 .. N), 0 \in S,
         \A n \in S : n < N => n + 1 \in S
  PROVE  S = 0 .. N
<1> DEFINE T == {n \in Nat : n <= N => n \in S}
<1>1. 0 \in T /\ \A n \in T : n + 1 \in T
  OBVIOUS
<1>2. T = Nat
  <2>1. T \in SUBSET Nat
    OBVIOUS
  <2> HIDE DEF T
  <2> QED
    BY <1>1, <2>1, SetInduction
<1>3. \A n \in 0 .. N : n \in T /\ n <= N
  BY <1>2
<1> QED
  BY <1>3

-----------------------------------------------------------------------------
(***************************************************************************)
(* FoldLeft walks a sequence: where it is after n elements follows from    *)
(* where it was before the last of them, as long as each step stays in S.  *)
(***************************************************************************)
IsWalk(it, N, base, step) ==
  it = [s \in SUBSET (1 .. N) |->
          IF s = {} THEN base ELSE step[<<it[s \ {Max(s)}], Max(s)>>]]

LEMMA MaxOf ==
  ASSUME NEW N \in Nat, NEW s \in SUBSET (1 .. N), s # {}
  PROVE  Max(s) \in s /\ \A x \in s : x <= Max(s)
<1> DEFINE U == {n \in 0 .. N : \A x \in s : x <= n}
<1>1. U \in SUBSET Nat /\ N \in U
  OBVIOUS
<1>2. PICK n \in U : \A m \in U : n <= m
  BY <1>1, Least
<1>3. n \in s
  <2> SUFFICES ASSUME n \notin s PROVE FALSE
    OBVIOUS
  <2>1. n \in Nat /\ n # 0
    <3>1. PICK x \in s : TRUE
      OBVIOUS
    <3>2. x \in 1 .. N /\ x <= n /\ n \in 0 .. N
      BY <1>2, <3>1
    <3> QED
      BY <3>2
  <2>2. n - 1 \in 0 .. N /\ \A x \in s : x <= n - 1
    BY <2>1
  <2>3. n - 1 \in U
    BY <2>2
  <2> QED
    BY <1>2, <2>1, <2>3
<1>4. \E x \in s : \A y \in s : x >= y
  BY <1>2, <1>3
<1> QED
  BY <1>4 DEF Max

LEMMA WalkExists ==
  ASSUME NEW S, NEW base \in S, NEW N \in Nat, NEW step \in [S \X Nat -> S]
  PROVE  \E it \in [SUBSET (1 .. N) -> S] : IsWalk(it, N, base, step)
<1> DEFINE Good == {M \in Nat : \E it \in [SUBSET (1 .. M) -> S] : IsWalk(it, M, base, step)}
<1>1. 0 \in Good
  <2> DEFINE it == [s \in SUBSET (1 .. 0) |-> base]
  <2>1. \A s \in SUBSET (1 .. 0) : s = {}
    OBVIOUS
  <2>2. it \in [SUBSET (1 .. 0) -> S]
    OBVIOUS
  <2>3. IsWalk(it, 0, base, step)
    BY <2>1 DEF IsWalk
  <2> QED
    BY <2>2, <2>3
<1>2. ASSUME NEW M \in Good PROVE M + 1 \in Good
  <2>1. PICK it \in [SUBSET (1 .. M) -> S] : IsWalk(it, M, base, step)
    OBVIOUS
  <2>2. M \in Nat /\ M + 1 \in Nat
    OBVIOUS
  <2> DEFINE D == SUBSET (1 .. M + 1)
             next == [s \in D |-> IF M + 1 \in s THEN step[<<it[s \ {M + 1}], M + 1>>] ELSE it[s]]
  <2>3. ASSUME NEW s \in D
        PROVE  /\ s \ {M + 1} \in SUBSET (1 .. M)
               /\ M + 1 \in s => Max(s) = M + 1
               /\ M + 1 \notin s => s \in SUBSET (1 .. M)
    <3>1. s \ {M + 1} \in SUBSET (1 .. M) /\ (M + 1 \notin s => s \in SUBSET (1 .. M))
      BY <2>2
    <3>2. ASSUME M + 1 \in s PROVE Max(s) = M + 1
      <4>1. Max(s) \in s /\ \A x \in s : x <= Max(s)
        BY <2>2, <3>2, MaxOf
      <4>2. Max(s) \in 1 .. M + 1 /\ M + 1 <= Max(s)
        BY <3>2, <4>1
      <4> QED
        BY <2>2, <4>2
    <3> QED
      BY <3>1, <3>2
  <2>4. next \in [D -> S]
    BY <2>1, <2>2, <2>3
  <2>5. ASSUME NEW s \in D
        PROVE  next[s] = IF s = {} THEN base ELSE step[<<next[s \ {Max(s)}], Max(s)>>]
    <3>1. CASE M + 1 \in s
      <4>1. s \ {M + 1} \in D /\ M + 1 \notin s \ {M + 1}
        BY <2>2, <2>3
      <4>2. next[s \ {M + 1}] = it[s \ {M + 1}]
        BY <4>1
      <4> QED
        BY <2>3, <3>1, <4>2
    <3>2. CASE M + 1 \notin s
      <4>1. s \in SUBSET (1 .. M) /\ next[s] = it[s]
        BY <2>3, <3>2
      <4>2. it[s] = IF s = {} THEN base ELSE step[<<it[s \ {Max(s)}], Max(s)>>]
        BY <2>1, <4>1 DEF IsWalk
      <4>3. s \ {Max(s)} \in D /\ M + 1 \notin s \ {Max(s)}
        BY <3>2
      <4>4. next[s \ {Max(s)}] = it[s \ {Max(s)}]
        BY <4>3
      <4> QED
        BY <4>1, <4>2, <4>4
    <3> QED
      BY <3>1, <3>2
  <2>6. IsWalk(next, M + 1, base, step)
    <3> HIDE DEF D
    <3>1. next = [s \in D |-> next[s]]
      OBVIOUS
    <3> HIDE DEF next
    <3>2. next = [s \in D |-> IF s = {} THEN base ELSE step[<<next[s \ {Max(s)}], Max(s)>>]]
      BY <2>5, <3>1
    <3> QED
      BY <3>2 DEF IsWalk, D
  <2> QED
    BY <2>2, <2>4, <2>6
<1> HIDE DEF Good
<1>3. Good = Nat
  <2>1. Good \in SUBSET Nat
    BY DEF Good
  <2> QED
    BY <1>1, <1>2, <2>1, SetInduction
<1> QED
  BY <1>3 DEF Good

\* The elements walked over first.
LEMMA MaxOfFirst ==
  ASSUME NEW n \in Nat, n # 0
  PROVE  Max(1 .. n) = n /\ (1 .. n) \ {n} = 1 .. n - 1
<1>1. 1 .. n \in SUBSET (1 .. n) /\ n \in 1 .. n
  OBVIOUS
<1>2. Max(1 .. n) \in 1 .. n /\ n <= Max(1 .. n)
  BY <1>1, MaxOf
<1>3. Max(1 .. n) = n
  BY <1>2
<1>4. (1 .. n) \ {n} = 1 .. n - 1
  OBVIOUS
<1> QED
  BY <1>3, <1>4

\* The walk at its n-th element.
LEMMA WalkPoint ==
  ASSUME NEW N \in Nat, NEW n \in 1 .. N
  PROVE  /\ n - 1 \in 0 .. N /\ n \in 0 .. N /\ 1 .. n \in SUBSET (1 .. N) /\ 1 .. n # {}
         /\ Max(1 .. n) = n /\ (1 .. n) \ {n} = 1 .. n - 1
<1>1. n \in Nat /\ n # 0 /\ n - 1 \in 0 .. N /\ n \in 0 .. N
      /\ 1 .. n \in SUBSET (1 .. N) /\ 1 .. n # {}
  OBVIOUS
<1> QED
  BY <1>1, MaxOfFirst

-----------------------------------------------------------------------------
(***************************************************************************)
(* Ranges as sets of positions.                                            *)
(***************************************************************************)
LEMMA RangeFacts ==
  ASSUME NEW r \in RangeType
  PROVE  /\ r.pos \in Nat /\ r.len \in Nat /\ End(r) \in Nat /\ End(r) = r.pos + r.len
         /\ \A x \in Int : x \in Positions(r) <=> r.pos <= x /\ x < End(r)
         /\ Positions(r) \subseteq Nat
  BY DEF RangeType, End, Positions

\* CanRangeMerge and RangeMerge: ranges that overlap or touch make one range.
LEMMA MergeFacts ==
  ASSUME NEW a \in RangeType, NEW b \in RangeType
  PROVE  /\ RangeMerge(a, b) \in RangeType
         /\ CanRangeMerge(a, b) <=> a.pos <= End(b) /\ b.pos <= End(a)
         /\ LET m == RangeMerge(a, b)
            IN  /\ m.pos = IF a.pos <= b.pos THEN a.pos ELSE b.pos
                /\ End(m) = IF End(a) <= End(b) THEN End(b) ELSE End(a)
  BY DEF RangeType, RangeMerge, MakeRange, CanRangeMerge, End, min, max

\* RangeIntersect: what two ranges have in common, or an empty range.
LEMMA IntersectFacts ==
  ASSUME NEW a \in RangeType, NEW b \in RangeType
  PROVE  LET m == RangeIntersect(a, b)
         IN  /\ m \in RangeType
             /\ m.len = 0 => End(a) <= b.pos \/ End(b) <= a.pos \/ a.len = 0 \/ b.len = 0
             /\ m.len > 0 => /\ m.pos = IF a.pos <= b.pos THEN b.pos ELSE a.pos
                             /\ End(m) = IF End(a) <= End(b) THEN End(a) ELSE End(b)
  BY DEF RangeType, RangeIntersect, MakeRange, NoRange, End, min

LEMMA IntersectPositions ==
  ASSUME NEW a \in RangeType, NEW b \in RangeType
  PROVE  Positions(RangeIntersect(a, b)) = Positions(a) \cap Positions(b)
<1> DEFINE m == RangeIntersect(a, b)
<1>1. /\ m \in RangeType
      /\ m.len = 0 => End(a) <= b.pos \/ End(b) <= a.pos \/ a.len = 0 \/ b.len = 0
      /\ m.len > 0 => /\ m.pos = IF a.pos <= b.pos THEN b.pos ELSE a.pos
                      /\ End(m) = IF End(a) <= End(b) THEN End(a) ELSE End(b)
  BY IntersectFacts
<1> HIDE DEF m
<1>2. /\ m.pos \in Nat /\ m.len \in Nat /\ End(m) = m.pos + m.len
      /\ a.pos \in Nat /\ a.len \in Nat /\ End(a) = a.pos + a.len
      /\ b.pos \in Nat /\ b.len \in Nat /\ End(b) = b.pos + b.len
  BY <1>1, RangeFacts
<1>3. \A x \in Int : x \in Positions(m) <=> x \in Positions(a) /\ x \in Positions(b)
  <2> TAKE x \in Int
  <2>1. /\ x \in Positions(m) <=> m.pos <= x /\ x < End(m)
        /\ x \in Positions(a) <=> a.pos <= x /\ x < End(a)
        /\ x \in Positions(b) <=> b.pos <= x /\ x < End(b)
    BY <1>1, RangeFacts
  <2>2. CASE m.len = 0
    BY <1>1, <1>2, <2>1, <2>2
  <2>3. CASE m.len > 0
    BY <1>1, <1>2, <2>1, <2>3
  <2> QED
    BY <1>2, <2>2, <2>3
<1>4. Positions(m) \subseteq Int /\ Positions(a) \subseteq Int
  BY <1>1, RangeFacts
<1> QED
  BY <1>3, <1>4 DEF m

LEMMA MergePositions ==
  ASSUME NEW a \in RangeType, NEW b \in RangeType, CanRangeMerge(a, b)
  PROVE  Positions(RangeMerge(a, b)) = Positions(a) \cup Positions(b)
<1> DEFINE m == RangeMerge(a, b)
<1>1. /\ m \in RangeType
      /\ a.pos <= End(b) /\ b.pos <= End(a)
      /\ m.pos = IF a.pos <= b.pos THEN a.pos ELSE b.pos
      /\ End(m) = IF End(a) <= End(b) THEN End(b) ELSE End(a)
  BY MergeFacts
<1> HIDE DEF m
<1>2. /\ a.pos \in Nat /\ a.len \in Nat /\ End(a) = a.pos + a.len
      /\ b.pos \in Nat /\ b.len \in Nat /\ End(b) = b.pos + b.len
  BY RangeFacts
<1>3. \A x \in Int : x \in Positions(m) <=> x \in Positions(a) \/ x \in Positions(b)
  <2> TAKE x \in Int
  <2>1. /\ x \in Positions(m) <=> m.pos <= x /\ x < End(m)
        /\ x \in Positions(a) <=> a.pos <= x /\ x < End(a)
        /\ x \in Positions(b) <=> b.pos <= x /\ x < End(b)
    BY <1>1, RangeFacts
  <2> QED
    BY <1>1, <1>2, <2>1
<1>4. Positions(m) \subseteq Int /\ Positions(a) \subseteq Int /\ Positions(b) \subseteq Int
  BY <1>1, RangeFacts
<1> QED
  BY <1>3, <1>4 DEF m

-----------------------------------------------------------------------------
(***************************************************************************)
(* Lists of ranges.  A list is canonical when its ranges are not empty and *)
(* lie in order and apart; it stands for the positions in its ranges.      *)
(***************************************************************************)
Canon(list) ==
  /\ list \in Seq(RangeType)
  /\ \A i \in 1 .. Len(list) : list[i].len > 0
  /\ \A i, j \in 1 .. Len(list) : i < j => End(list[i]) < list[j].pos

CanonLists == {list \in Seq(RangeType) : Canon(list)}

Of(list) == UNION {Positions(list[i]) : i \in 1 .. Len(list)}

LEMMA ListFacts ==
  ASSUME NEW list \in Seq(RangeType)
  PROVE  /\ Len(list) \in Nat /\ DOMAIN list = 1 .. Len(list)
         /\ \A i \in 1 .. Len(list) :
              /\ list[i] \in RangeType
              /\ list[i].pos \in Nat /\ list[i].len \in Nat
              /\ End(list[i]) \in Nat /\ End(list[i]) = list[i].pos + list[i].len
         /\ Of(list) \subseteq Nat
         /\ \A x \in Int : x \in Of(list) <=>
              \E i \in 1 .. Len(list) : list[i].pos <= x /\ x < End(list[i])
<1>1. Len(list) \in Nat /\ DOMAIN list = 1 .. Len(list)
      /\ \A i \in 1 .. Len(list) : list[i] \in RangeType
  OBVIOUS
<1>2. \A i \in 1 .. Len(list) :
        /\ list[i].pos \in Nat /\ list[i].len \in Nat
        /\ End(list[i]) \in Nat /\ End(list[i]) = list[i].pos + list[i].len
        /\ Positions(list[i]) \subseteq Nat
        /\ \A x \in Int : x \in Positions(list[i]) <=> list[i].pos <= x /\ x < End(list[i])
  BY <1>1, RangeFacts
<1>3. Of(list) \subseteq Nat
  BY <1>2 DEF Of
<1>4. \A x \in Int : x \in Of(list) <=>
        \E i \in 1 .. Len(list) : list[i].pos <= x /\ x < End(list[i])
  BY <1>2 DEF Of
<1> QED
  BY <1>1, <1>2, <1>3, <1>4

LEMMA EmptyList == Canon(<<>>) /\ <<>> \in CanonLists /\ Of(<<>>) = {}
<1>1. <<>> \in Seq(RangeType) /\ Len(<<>>) = 0 /\ 1 .. 0 = {}
  OBVIOUS
<1> QED
  BY <1>1 DEF Canon, CanonLists, Of

-----------------------------------------------------------------------------
(***************************************************************************)
(* concat.                                                                 *)
(***************************************************************************)
LEMMA AppendMergedFacts ==
  ASSUME NEW list \in Seq(RangeType), NEW r \in RangeType
  PROVE  LET n == Len(list)
             q == AppendMerged(list, r)
         IN  /\ q \in Seq(RangeType)
             /\ n > 0 /\ CanRangeMerge(list[n], r)
                  => /\ Len(q) = n /\ q[n] = RangeMerge(list[n], r)
                     /\ \A i \in 1 .. n - 1 : q[i] = list[i]
             /\ ~ (n > 0 /\ CanRangeMerge(list[n], r))
                  => /\ Len(q) = n + 1 /\ q[n + 1] = r
                     /\ \A i \in 1 .. n : q[i] = list[i]
<1> DEFINE n == Len(list)
           q == AppendMerged(list, r)
           front == SubSeq(list, 1, n - 1)
<1>1. n \in Nat /\ (n > 0 <=> list # <<>>) /\ \A i \in 1 .. n : list[i] \in RangeType
  BY EmptySeq
<1>2. CASE n > 0 /\ CanRangeMerge(list[n], r)
  <2>1. q = Append(front, RangeMerge(list[n], r))
    BY <1>1, <1>2 DEF AppendMerged, List!Last, List!Front
  <2>2. front \in Seq(RangeType) /\ Len(front) = n - 1 /\ \A i \in 1 .. n - 1 : front[i] = list[i]
    <3>1. n - 1 \in Nat /\ n - 1 <= Len(list) /\ 1 \in 1 .. Len(list) + 1
      BY <1>1, <1>2
    <3>2. \A i \in 1 .. n - 1 : list[i] \in RangeType
      BY <1>1
    <3>3. front = [i \in 1 .. n - 1 |-> list[i]]
      BY <3>1 DEF front
    <3> HIDE DEF front
    <3>4. front \in Seq(RangeType) /\ Len(front) = n - 1
      BY <3>1, <3>2, <3>3
    <3> QED
      BY <3>3, <3>4
  <2>3. RangeMerge(list[n], r) \in RangeType
    BY <1>1, <1>2, MergeFacts
  <2> HIDE DEF front
  <2> QED
    BY <1>1, <1>2, <2>1, <2>2, <2>3, AppendProperties
<1>3. CASE ~ (n > 0 /\ CanRangeMerge(list[n], r))
  <2>1. q = Append(list, r)
    BY <1>1, <1>3 DEF AppendMerged, List!Last
  <2> QED
    BY <1>1, <1>3, <2>1, AppendProperties
<1> QED
  BY <1>2, <1>3

\* Appending keeps a canonical list canonical when the new range does not
\* reach below the last, or is merged with it alone.
LEMMA AppendMergedCanon ==
  ASSUME NEW list, Canon(list), NEW r \in RangeType, r.len > 0,
         Len(list) > 0 => \/ list[Len(list)].pos <= r.pos
                          \/ CanRangeMerge(list[Len(list)], r),
         \A i \in 1 .. Len(list) - 1 : End(list[i]) < r.pos
  PROVE  LET q == AppendMerged(list, r)
         IN  /\ Canon(q) /\ Of(q) = Of(list) \cup Positions(r)
             /\ Len(q) > 0 /\ q[Len(q)].pos <= r.pos
<1> DEFINE n == Len(list)
           q == AppendMerged(list, r)
<1>1. /\ list \in Seq(RangeType) /\ n \in Nat
      /\ \A i \in 1 .. n : /\ list[i] \in RangeType /\ list[i].pos \in Nat /\ list[i].len > 0
                           /\ list[i].len \in Nat
                           /\ End(list[i]) \in Nat /\ End(list[i]) = list[i].pos + list[i].len
      /\ \A i, j \in 1 .. n : i < j => End(list[i]) < list[j].pos
  BY ListFacts DEF Canon
<1>2. r.pos \in Nat /\ r.len \in Nat /\ End(r) \in Nat /\ End(r) = r.pos + r.len
  BY RangeFacts
<1>3. CASE n > 0 /\ CanRangeMerge(list[n], r)
  <2> DEFINE m == RangeMerge(list[n], r)
  <2>1. /\ q \in Seq(RangeType) /\ Len(q) = n /\ q[n] = m
        /\ \A i \in 1 .. n - 1 : q[i] = list[i]
    BY <1>1, <1>3, AppendMergedFacts
  <2>2. /\ m \in RangeType /\ Positions(m) = Positions(list[n]) \cup Positions(r)
        /\ m.pos = IF list[n].pos <= r.pos THEN list[n].pos ELSE r.pos
        /\ End(m) = IF End(list[n]) <= End(r) THEN End(r) ELSE End(list[n])
    BY <1>1, <1>3, MergeFacts, MergePositions
  <2>3. m.pos \in Nat /\ m.len \in Nat /\ End(m) = m.pos + m.len
    BY <2>2, RangeFacts
  <2> HIDE DEF m, q
  <2>4. m.len > 0 /\ m.pos <= r.pos
    BY <1>1, <1>2, <1>3, <2>2, <2>3
  <2>5. \A i \in 1 .. n - 1 : End(list[i]) < m.pos
    BY <1>1, <1>2, <1>3, <2>2, SMTT(30)
  <2>6. Canon(q)
    <3>1. \A i \in 1 .. n : q[i].len > 0
      BY <1>1, <2>1, <2>4, SMTT(30)
    <3>2. ASSUME NEW i \in 1 .. n, NEW j \in 1 .. n, i < j PROVE End(q[i]) < q[j].pos
      BY <1>1, <2>1, <2>5, <3>2
    <3> QED
      BY <2>1, <3>1, <3>2 DEF Canon
  <2>7. Of(q) = Of(list) \cup Positions(r)
    <3>1. Positions(q[n]) = Positions(list[n]) \cup Positions(r)
      BY <2>1, <2>2
    <3>2. n \in 1 .. n /\ \A i \in 1 .. n : i = n \/ q[i] = list[i]
      BY <1>1, <1>3, <2>1
    <3>3. \A x : (\E i \in 1 .. n : x \in Positions(q[i]))
                  <=> x \in Positions(r) \/ \E i \in 1 .. n : x \in Positions(list[i])
      BY <3>1, <3>2, Zenon
    <3>4. \A x : x \in Of(q) <=> x \in Of(list) \cup Positions(r)
      BY <2>1, <3>3, Zenon DEF Of
    <3> QED
      BY <3>4
  <2> QED
    BY <1>3, <2>1, <2>4, <2>6, <2>7 DEF q
<1>4. CASE ~ (n > 0 /\ CanRangeMerge(list[n], r))
  <2>1. /\ q \in Seq(RangeType) /\ Len(q) = n + 1 /\ q[n + 1] = r
        /\ \A i \in 1 .. n : q[i] = list[i]
    BY <1>1, <1>4, AppendMergedFacts
  <2> HIDE DEF q
  <2>2. \A i \in 1 .. n : End(list[i]) < r.pos
    <3>1. n > 0 => End(list[n]) < r.pos
      <4>1. SUFFICES ASSUME n > 0 PROVE End(list[n]) < r.pos
        OBVIOUS
      <4>2. list[n] \in RangeType /\ n \in 1 .. n
        BY <1>1, <4>1
      <4>3. CanRangeMerge(list[n], r) <=> list[n].pos <= End(r) /\ r.pos <= End(list[n])
        BY <4>2, MergeFacts
      <4>4. list[n].pos <= r.pos
        BY <1>4, <4>1
      <4> QED
        BY <1>1, <1>2, <1>4, <4>1, <4>2, <4>3, <4>4
    <3> QED
      BY <1>1, <3>1
  <2>3. Canon(q)
    <3>1. \A i \in 1 .. n + 1 : q[i].len > 0
      BY <1>1, <2>1
    <3>2. ASSUME NEW i \in 1 .. n + 1, NEW j \in 1 .. n + 1, i < j PROVE End(q[i]) < q[j].pos
      <4>1. CASE j = n + 1
        BY <1>1, <2>1, <2>2, <3>2, <4>1
      <4>2. CASE j \in 1 .. n
        <5>1. i \in 1 .. n
          BY <1>1, <3>2, <4>2
        <5> QED
          BY <1>1, <2>1, <3>2, <4>2, <5>1
      <4> QED
        BY <1>1, <4>1, <4>2
    <3> QED
      BY <2>1, <3>1, <3>2 DEF Canon
  <2>4. Of(q) = Of(list) \cup Positions(r)
    <3>1. 1 .. Len(q) = (1 .. n) \cup {n + 1}
      BY <1>1, <2>1
    <3> QED
      BY <2>1, <3>1 DEF Of
  <2> QED
    BY <1>1, <1>2, <2>1, <2>3, <2>4 DEF q
<1> QED
  BY <1>3, <1>4

\* The fold of concat walks the list.
LEMMA ConcatWalk ==
  ASSUME NEW list \in Seq(RangeType)
  PROVE  \E at : /\ at[0] = <<>>
                 /\ \A n \in 1 .. Len(list) : at[n] = AppendMerged(at[n - 1], list[n])
                 /\ concat(list) = at[Len(list)]
<1> DEFINE S == Seq(RangeType)
           N == Len(list)
           Eq(it) == it = [s \in SUBSET (1 .. N) |->
                             IF s = {} THEN <<>>
                             ELSE AppendMerged(it[s \ {Max(s)}], list[Max(s)])]
           step == [p \in S \X Nat |-> IF p[2] \in 1 .. N THEN AppendMerged(p[1], list[p[2]])
                                       ELSE p[1]]
           g == CHOOSE it : Eq(it)
<1>1. N \in Nat /\ DOMAIN list = 1 .. N /\ <<>> \in S
  OBVIOUS
<1>2. step \in [S \X Nat -> S]
  <2>1. \A a \in S, n \in Nat : n \in 1 .. N => AppendMerged(a, list[n]) \in S
    BY AppendMergedFacts
  <2> HIDE DEF S
  <2> QED
    BY <2>1
<1>3. \E it : Eq(it)
  <2> HIDE DEF S, step
  <2>1. PICK it \in [SUBSET (1 .. N) -> S] : IsWalk(it, N, <<>>, step)
    BY <1>1, <1>2, WalkExists
  <2>2. \A s \in SUBSET (1 .. N) :
          s # {} => step[<<it[s \ {Max(s)}], Max(s)>>] = AppendMerged(it[s \ {Max(s)}], list[Max(s)])
    <3> TAKE s \in SUBSET (1 .. N)
    <3>1. HAVE s # {}
    <3>2. Max(s) \in 1 .. N /\ s \ {Max(s)} \in SUBSET (1 .. N)
      BY <1>1, <3>1, MaxOf
    <3>3. it[s \ {Max(s)}] \in S /\ Max(s) \in Nat
      BY <1>1, <2>1, <3>2
    <3> QED
      BY <3>2, <3>3 DEF step
  <2>3. Eq(it)
    BY <2>1, <2>2 DEF IsWalk
  <2> QED
    BY <2>3
<1>4. Eq(g)
  BY <1>3
<1>5. concat(list) = g[1 .. N]
  BY <1>1 DEF concat, List!FoldLeft, List!MapThenFoldSet, List!Max, Max
<1> HIDE DEF g
<1> DEFINE at == [n \in 0 .. N |-> g[1 .. n]]
<1>6. at[0] = <<>>
  <2>1. 1 .. 0 = {}
    OBVIOUS
  <2> QED
    BY <1>1, <1>4, <2>1
<1>7. \A n \in 1 .. N : at[n] = AppendMerged(at[n - 1], list[n])
  <2> TAKE n \in 1 .. N
  <2>1. n - 1 \in 0 .. N /\ n \in 0 .. N /\ 1 .. n \in SUBSET (1 .. N) /\ 1 .. n # {}
        /\ Max(1 .. n) = n /\ (1 .. n) \ {n} = 1 .. n - 1
    BY <1>1, WalkPoint
  <2>2. g[1 .. n] = AppendMerged(g[(1 .. n) \ {Max(1 .. n)}], list[Max(1 .. n)])
    BY <1>4, <2>1
  <2> QED
    BY <2>1, <2>2
<1>8. concat(list) = at[N]
  BY <1>1, <1>5
<1> HIDE DEF at
<1> QED
  BY <1>6, <1>7, <1>8

\* Lists that are in order but for one range, which merges with the next.
Mergeable(q, i) ==
  /\ q \in Seq(RangeType) /\ i \in 1 .. Len(q) - 1
  /\ \A j \in 1 .. Len(q) : q[j].len > 0
  /\ \A j, k \in 1 .. i : j < k => End(q[j]) < q[k].pos
  /\ CanRangeMerge(q[i], q[i + 1])
  /\ \A j \in 1 .. i - 1 : End(q[j]) < q[i + 1].pos
  /\ \A j, k \in i + 1 .. Len(q) : j < k => q[j].pos < q[k].pos

LEMMA ConcatCanon ==
  ASSUME NEW q, NEW i, Mergeable(q, i)
  PROVE  Canon(concat(q)) /\ Of(concat(q)) = Of(q)
<1> DEFINE N == Len(q)
           First(n) == UNION {Positions(q[k]) : k \in 1 .. n}
<1>1. /\ q \in Seq(RangeType) /\ N \in Nat /\ i \in 1 .. N - 1 /\ i \in Nat
      /\ \A j \in 1 .. N : /\ q[j] \in RangeType /\ q[j].pos \in Nat /\ q[j].len > 0
                           /\ End(q[j]) \in Nat /\ End(q[j]) = q[j].pos + q[j].len
                           /\ q[j].len \in Nat
      /\ \A j, k \in 1 .. i : j < k => End(q[j]) < q[k].pos
      /\ CanRangeMerge(q[i], q[i + 1])
      /\ \A j \in 1 .. i - 1 : End(q[j]) < q[i + 1].pos
      /\ \A j, k \in i + 1 .. N : j < k => q[j].pos < q[k].pos
  BY ListFacts DEF Mergeable
<1>2. PICK at : /\ at[0] = <<>>
                /\ \A n \in 1 .. N : at[n] = AppendMerged(at[n - 1], q[n])
                /\ concat(q) = at[N]
  BY <1>1, ConcatWalk
<1> DEFINE Good == {n \in 0 .. N :
                      /\ Canon(at[n]) /\ Of(at[n]) = First(n)
                      /\ n >= 1 => Len(at[n]) > 0 /\ at[n][Len(at[n])].pos <= q[n].pos
                      /\ n <= i => Len(at[n]) = n /\ \A k \in 1 .. n : at[n][k] = q[k]}
<1>3. 0 \in Good
  <2>1. First(0) = {} /\ Len(<<>>) = 0
    OBVIOUS
  <2> QED
    BY <1>1, <1>2, <2>1, EmptyList
<1>4. ASSUME NEW n \in Good, n < N PROVE n + 1 \in Good
  <2> DEFINE d == at[n]
             e == at[n + 1]
             r == q[n + 1]
             m == Len(d)
  <2>1. /\ n \in Nat /\ n + 1 \in 1 .. N /\ (n + 1) - 1 = n
        /\ e = AppendMerged(d, r)
        /\ r \in RangeType /\ r.len > 0 /\ r.pos \in Nat
    BY <1>1, <1>2, <1>4
  <2>2. /\ Canon(d) /\ Of(d) = First(n)
        /\ n >= 1 => m > 0 /\ d[m].pos <= q[n].pos
        /\ n <= i => m = n /\ \A k \in 1 .. n : d[k] = q[k]
    OBVIOUS
  <2>e. First(n + 1) = First(n) \cup Positions(r)
    <3>1. 1 .. n + 1 = (1 .. n) \cup {n + 1}
      BY <2>1
    <3> QED
      BY <3>1
  <2>g. n + 1 \in Good <=>
          /\ Canon(e) /\ Of(e) = First(n + 1)
          /\ Len(e) > 0 /\ e[Len(e)].pos <= r.pos
          /\ n + 1 <= i => Len(e) = n + 1 /\ \A k \in 1 .. n + 1 : e[k] = q[k]
    <3> HIDE DEF First
    <3> QED
      BY <2>1
  <2>r. r = q[n + 1] /\ m = Len(d)
    OBVIOUS
  <2> HIDE DEF d, e, r, m, Good, First
  <2>3. /\ d \in Seq(RangeType) /\ m \in Nat
        /\ \A k \in 1 .. m : d[k].pos \in Nat /\ End(d[k]) \in Nat
        /\ \A j, k \in 1 .. m : j < k => End(d[j]) < d[k].pos
    BY <2>2, <2>r, ListFacts DEF Canon
  <2>4. CASE n < i
    <3>1. m = n /\ \A k \in 1 .. m : d[k] = q[k] /\ k \in 1 .. i /\ k < n + 1 /\ k \in 1 .. N
      BY <1>1, <2>1, <2>2, <2>4
    <3>2. \A k \in 1 .. m : End(d[k]) < r.pos /\ d[k].pos <= End(d[k])
      <4> SUFFICES ASSUME NEW k \in 1 .. m PROVE End(d[k]) < r.pos /\ d[k].pos <= End(d[k])
        OBVIOUS
      <4>1. d[k] = q[k] /\ k \in 1 .. i /\ k < n + 1 /\ k \in 1 .. N /\ n + 1 \in 1 .. i
        BY <1>1, <2>1, <2>4, <3>1
      <4>2. End(q[k]) < q[n + 1].pos /\ q[k].pos <= End(q[k])
        BY <1>1, <4>1
      <4> QED
        BY <2>r, <4>1, <4>2
    <3>3. m > 0 => ~ CanRangeMerge(d[m], r)
      <4> SUFFICES ASSUME m > 0 PROVE ~ CanRangeMerge(d[m], r)
        OBVIOUS
      <4>1. m \in 1 .. m /\ d[m] \in RangeType
        BY <2>3, <2>r
      <4>2. CanRangeMerge(d[m], r) <=> d[m].pos <= End(r) /\ r.pos <= End(d[m])
        BY <2>1, <4>1, MergeFacts
      <4>3. End(d[m]) < r.pos
        BY <3>2, <4>1
      <4> QED
        BY <2>1, <2>3, <4>1, <4>2, <4>3
    <3>4. Len(e) = m + 1 /\ e[m + 1] = r /\ \A k \in 1 .. m : e[k] = d[k]
      <4>1. ~ (Len(d) > 0 /\ CanRangeMerge(d[Len(d)], r))
        BY <2>r, <3>3
      <4>2. /\ Len(e) = Len(d) + 1 /\ e[Len(d) + 1] = r
            /\ \A k \in 1 .. Len(d) : e[k] = d[k]
        BY <2>1, <2>3, <4>1, AppendMergedFacts
      <4> QED
        BY <2>r, <4>2
    <3>5. Canon(e) /\ Of(e) = Of(d) \cup Positions(r) /\ Len(e) > 0 /\ e[Len(e)].pos <= r.pos
      <4>1. m > 0 => d[m].pos <= r.pos
        <5>1. m > 0 => m \in 1 .. m
          BY <2>3
        <5>2. \A k \in 1 .. m : d[k].pos <= r.pos
          BY <2>1, <2>3, <3>2, SMTT(30)
        <5> QED
          BY <5>1, <5>2
      <4>2. \A k \in 1 .. m - 1 : End(d[k]) < r.pos
        BY <2>3, <3>2
      <4> QED
        BY <2>1, <2>2, <2>r, <4>1, <4>2, AppendMergedCanon
    <3>6. \A k \in 1 .. n + 1 : e[k] = q[k]
      BY <2>1, <2>r, <3>1, <3>4
    <3> QED
      BY <2>2, <2>e, <2>g, <3>1, <3>4, <3>5, <3>6
  <2>5. CASE n >= i
    <3>1. m > 0 /\ d[m].pos <= q[n].pos /\ n \in 1 .. N
      BY <1>1, <2>1, <2>2, <2>5
    <3>2. d[m].pos <= r.pos \/ CanRangeMerge(d[m], r)
      <4>1. CASE n = i
        <5>1. m = i /\ r = q[i + 1] /\ d[m] = q[i]
          BY <1>1, <2>1, <2>2, <2>r, <3>1, <4>1
        <5> QED
          BY <1>1, <5>1
      <4>2. CASE n > i
        <5>1. n \in i + 1 .. N /\ n + 1 \in i + 1 .. N
          BY <1>1, <2>1, <4>2
        <5>2. q[n].pos < r.pos /\ q[n].pos \in Nat /\ d[m].pos \in Nat
          BY <1>1, <2>1, <2>3, <2>r, <3>1, <5>1
        <5> QED
          BY <2>1, <3>1, <5>2
      <4> QED
        BY <1>1, <2>1, <2>5, <4>1, <4>2
    <3>3. \A k \in 1 .. m - 1 : End(d[k]) < r.pos
      <4>1. CASE n = i
        <5>1. m = i /\ r = q[i + 1] /\ \A k \in 1 .. m - 1 : d[k] = q[k]
          BY <1>1, <2>1, <2>2, <2>r, <4>1
        <5> QED
          BY <1>1, <5>1
      <4>2. CASE n > i
        <5>1. n \in i + 1 .. N /\ n + 1 \in i + 1 .. N
          BY <1>1, <2>1, <4>2
        <5>2. q[n].pos < r.pos /\ q[n].pos \in Nat /\ d[m].pos \in Nat /\ m \in 1 .. m
          BY <1>1, <2>1, <2>3, <2>r, <3>1, <5>1
        <5>3. \A k \in 1 .. m - 1 : End(d[k]) < d[m].pos /\ End(d[k]) \in Nat
          BY <2>3, <3>1
        <5> QED
          BY <2>1, <3>1, <5>2, <5>3
      <4> QED
        BY <1>1, <2>1, <2>5, <4>1, <4>2
    <3>4. Canon(e) /\ Of(e) = Of(d) \cup Positions(r) /\ Len(e) > 0 /\ e[Len(e)].pos <= r.pos
      BY <2>1, <2>2, <2>r, <3>2, <3>3, AppendMergedCanon
    <3>5. ~ (n + 1 <= i)
      BY <1>1, <2>1, <2>5
    <3> QED
      BY <2>2, <2>e, <2>g, <3>4, <3>5
  <2> QED
    BY <1>1, <2>1, <2>4, <2>5
<1>5. Good = 0 .. N
  <2>1. Good \in SUBSET (0 .. N)
    OBVIOUS
  <2> HIDE DEF Good
  <2> QED
    BY <1>1, <1>3, <1>4, <2>1, BoundedInduction
<1>6. N \in Good
  <2> HIDE DEF Good
  <2> QED
    BY <1>1, <1>5
<1>7. First(N) = Of(q)
  BY DEF Of
<1> QED
  BY <1>2, <1>6, <1>7

-----------------------------------------------------------------------------
(***************************************************************************)
(* AddRange.                                                               *)
(***************************************************************************)
LEMMA MinOf ==
  ASSUME NEW N \in Nat, NEW s \in SUBSET (0 .. N), s # {}
  PROVE  Min(s) \in s /\ \A x \in s : Min(s) <= x
<1>1. \E x \in s : \A y \in s : x <= y
  BY Least
<1> QED
  BY <1>1 DEF Min

LEMMA InsertFacts ==
  ASSUME NEW S, NEW q \in Seq(S), NEW i \in 1 .. Len(q) + 1, NEW e \in S
  PROVE  LET p == List!InsertAt(q, i, e)
         IN  /\ p \in Seq(S) /\ Len(p) = Len(q) + 1
             /\ \A j \in 1 .. i - 1 : p[j] = q[j]
             /\ p[i] = e
             /\ \A j \in i .. Len(q) : p[j + 1] = q[j]
<1> DEFINE a == SubSeq(q, 1, i - 1)
           b == SubSeq(q, i, Len(q))
           c == a \o <<e>>
<1>1. Len(q) \in Nat /\ i \in Nat /\ 1 <= i /\ i <= Len(q) + 1
      /\ \A j \in 1 .. Len(q) : q[j] \in S
  OBVIOUS
<1>2. a \in Seq(S) /\ Len(a) = i - 1 /\ \A j \in 1 .. i - 1 : a[j] = q[j]
  <2>1. \A j \in 1 .. i - 1 : q[j] \in S
    BY <1>1
  <2>2. /\ a \in Seq(S) /\ Len(a) = IF 1 <= i - 1 THEN i - 1 - 1 + 1 ELSE 0
        /\ \A j \in 1 .. i - 1 - 1 + 1 : a[j] = q[1 + j - 1]
    BY <1>1, <2>1, SubSeqProperties
  <2> QED
    BY <1>1, <2>2
<1>3. b \in Seq(S) /\ Len(b) = Len(q) - i + 1 /\ \A j \in 1 .. Len(q) - i + 1 : b[j] = q[i + j - 1]
  <2>1. \A j \in i .. Len(q) : q[j] \in S
    BY <1>1
  <2>2. /\ b \in Seq(S) /\ Len(b) = IF i <= Len(q) THEN Len(q) - i + 1 ELSE 0
        /\ \A j \in 1 .. Len(q) - i + 1 : b[j] = q[i + j - 1]
    BY <1>1, <2>1, SubSeqProperties
  <2> QED
    BY <1>1, <2>2
<1>4. List!InsertAt(q, i, e) = c \o b
  BY DEF List!InsertAt
<1> HIDE DEF a, b
<1>5. /\ c \in Seq(S) /\ Len(c) = i /\ c[i] = e
      /\ \A j \in 1 .. i - 1 : c[j] = q[j]
  <2>1. c = Append(a, e)
    BY <1>2
  <2> HIDE DEF c
  <2>2. /\ c \in Seq(S) /\ Len(c) = Len(a) + 1 /\ c[Len(a) + 1] = e
        /\ \A j \in 1 .. Len(a) : c[j] = a[j]
    BY <1>2, <2>1, AppendProperties
  <2> QED
    BY <1>1, <1>2, <2>2
<1> HIDE DEF c
<1>6. /\ c \o b \in Seq(S) /\ Len(c \o b) = Len(c) + Len(b)
      /\ \A j \in 1 .. Len(c) + Len(b) :
           (c \o b)[j] = IF j <= Len(c) THEN c[j] ELSE b[j - Len(c)]
  BY <1>3, <1>5, ConcatProperties
<1> DEFINE p == c \o b
<1> HIDE DEF p
<1>7. /\ p \in Seq(S) /\ Len(p) = Len(q) + 1
      /\ \A j \in 1 .. Len(q) + 1 : p[j] = IF j <= i THEN c[j] ELSE b[j - i]
  BY <1>1, <1>3, <1>5, <1>6 DEF p
<1>8. p[i] = e /\ \A j \in 1 .. i - 1 : p[j] = q[j]
  BY <1>1, <1>5, <1>7
<1>9. ASSUME NEW j \in i .. Len(q) PROVE p[j + 1] = q[j]
  <2>1. /\ j + 1 \in 1 .. Len(q) + 1 /\ ~ (j + 1 <= i) /\ (j + 1) - i \in 1 .. Len(q) - i + 1
        /\ i + ((j + 1) - i) - 1 = j
    BY <1>1
  <2>2. p[j + 1] = b[(j + 1) - i]
    BY <1>7, <2>1
  <2>3. b[(j + 1) - i] = q[i + ((j + 1) - i) - 1]
    BY <1>3, <2>1
  <2> QED
    BY <2>1, <2>2, <2>3
<1> QED
  BY <1>4, <1>7, <1>8, <1>9 DEF p

\* A range put into a list adds its positions.
LEMMA InsertOf ==
  ASSUME NEW list \in Seq(RangeType), NEW i \in 1 .. Len(list) + 1, NEW r \in RangeType
  PROVE  Of(List!InsertAt(list, i, r)) = Of(list) \cup Positions(r)
<1> DEFINE q == List!InsertAt(list, i, r)
<1>1. Len(list) \in Nat /\ i \in Nat /\ 1 <= i /\ i <= Len(list) + 1
  OBVIOUS
<1>2. /\ q \in Seq(RangeType) /\ Len(q) = Len(list) + 1
      /\ \A j \in 1 .. i - 1 : q[j] = list[j]
      /\ q[i] = r
      /\ \A j \in i .. Len(list) : q[j + 1] = list[j]
  BY InsertFacts
<1> HIDE DEF q
<1>3. ASSUME NEW k \in 1 .. Len(q) PROVE q[k] = r \/ \E j \in 1 .. Len(list) : q[k] = list[j]
  <2>1. CASE k < i
    <3>1. k \in 1 .. i - 1 /\ k \in 1 .. Len(list)
      BY <1>1, <1>2, <2>1
    <3> QED
      BY <1>2, <3>1
  <2>2. CASE k > i
    <3>1. k - 1 \in i .. Len(list) /\ k - 1 \in 1 .. Len(list) /\ (k - 1) + 1 = k
      BY <1>1, <1>2, <2>2
    <3>2. q[(k - 1) + 1] = list[k - 1]
      BY <1>2, <3>1
    <3> QED
      BY <3>1, <3>2
  <2> QED
    BY <1>1, <1>2, <2>1, <2>2
<1>4. ASSUME NEW j \in 1 .. Len(list) PROVE \E k \in 1 .. Len(q) : q[k] = list[j]
  <2>1. CASE j < i
    <3>1. j \in 1 .. i - 1 /\ j \in 1 .. Len(q)
      BY <1>1, <1>2, <2>1
    <3> QED
      BY <1>2, <3>1
  <2>2. CASE j >= i
    <3>1. j \in i .. Len(list) /\ j + 1 \in 1 .. Len(q)
      BY <1>1, <1>2, <2>2
    <3> QED
      BY <1>2, <3>1
  <2> QED
    BY <1>1, <2>1, <2>2
<1>5. i \in 1 .. Len(q)
  BY <1>1, <1>2
<1>6. \A x : x \in Of(q) <=> x \in Of(list) \/ x \in Positions(r)
  BY <1>2, <1>3, <1>4, <1>5, SMTT(30) DEF Of
<1> QED
  BY <1>6 DEF q

LEMMA AddRangeCanon ==
  ASSUME NEW list, Canon(list), NEW r \in RangeType
  PROVE  Canon(AddRange(list, r)) /\ Of(AddRange(list, r)) = Of(list) \cup Positions(r)
<1> DEFINE N == Len(list)
           stops == {i \in DOMAIN list : CanRangeMerge(list[i], r) \/ r.pos < list[i].pos}
           i == Min(stops)
           q == List!InsertAt(list, i, r)
<1>1. /\ list \in Seq(RangeType) /\ N \in Nat /\ DOMAIN list = 1 .. N
      /\ \A j \in 1 .. N : /\ list[j] \in RangeType /\ list[j].pos \in Nat /\ list[j].len > 0
                           /\ list[j].len \in Nat
                           /\ End(list[j]) \in Nat /\ End(list[j]) = list[j].pos + list[j].len
      /\ \A j, k \in 1 .. N : j < k => End(list[j]) < list[k].pos
  BY ListFacts DEF Canon
<1>2. r.pos \in Nat /\ r.len \in Nat /\ End(r) \in Nat /\ End(r) = r.pos + r.len
  BY RangeFacts
<1>3. \A j \in 1 .. N :
        CanRangeMerge(list[j], r) <=> list[j].pos <= End(r) /\ r.pos <= End(list[j])
  BY <1>1, MergeFacts
<1>4. CASE r.len = 0
  <2>1. Positions(r) = {}
    <3>1. \A x \in Positions(r) : x \in Nat /\ r.pos <= x /\ x < End(r)
      BY RangeFacts
    <3> QED
      BY <1>2, <1>4, <3>1
  <2> QED
    BY <1>4, <2>1 DEF AddRange
<1>5. CASE r.len # 0 /\ stops = {}
  <2>1. AddRange(list, r) = Append(list, r)
    BY <1>5 DEF AddRange
  <2>2. \A j \in 1 .. N : End(list[j]) < r.pos
    BY <1>1, <1>2, <1>3, <1>5, SMTT(30)
  <2> DEFINE a == Append(list, r)
  <2>3. /\ a \in Seq(RangeType) /\ Len(a) = N + 1 /\ a[N + 1] = r
        /\ \A j \in 1 .. N : a[j] = list[j]
    BY <1>1, AppendProperties
  <2> HIDE DEF a
  <2>4. Canon(a)
    <3>1. \A j \in 1 .. N + 1 : a[j].len > 0
      BY <1>1, <1>2, <1>5, <2>3
    <3>2. ASSUME NEW j \in 1 .. N + 1, NEW k \in 1 .. N + 1, j < k PROVE End(a[j]) < a[k].pos
      <4>1. j \in 1 .. N
        BY <1>1, <3>2
      <4>2. CASE k = N + 1
        BY <2>2, <2>3, <4>1, <4>2
      <4>3. CASE k \in 1 .. N
        BY <1>1, <2>3, <3>2, <4>1, <4>3
      <4> QED
        BY <1>1, <4>2, <4>3
    <3> QED
      BY <2>3, <3>1, <3>2 DEF Canon
  <2>5. Of(a) = Of(list) \cup Positions(r)
    <3>1. 1 .. Len(a) = (1 .. N) \cup {N + 1}
      BY <1>1, <2>3
    <3> QED
      BY <2>3, <3>1 DEF Of
  <2> QED
    BY <2>1, <2>4, <2>5 DEF a
<1>6. CASE r.len # 0 /\ stops # {}
  <2>1. i \in stops /\ \A j \in stops : i <= j
    <3>1. stops \in SUBSET (0 .. N)
      BY <1>1
    <3> HIDE DEF stops
    <3> QED
      BY <1>1, <1>6, <3>1, MinOf
  <2>m. i = Min(stops)
    OBVIOUS
  <2> HIDE DEF i
  <2>2. i \in 1 .. N /\ (CanRangeMerge(list[i], r) \/ r.pos < list[i].pos)
    BY <1>1, <2>1
  <2>3. \A j \in 1 .. N : j < i => ~ CanRangeMerge(list[j], r) /\ ~ (r.pos < list[j].pos)
    BY <1>1, <2>1, <2>2
  <2>a. AddRange(list, r) = IF CanRangeMerge(list[i], r) THEN concat(q) ELSE q
    BY <1>6 DEF AddRange, i
  <2> HIDE DEF stops
  <2>4. \A j \in 1 .. N : j < i => End(list[j]) < r.pos
    <3> SUFFICES ASSUME NEW j \in 1 .. N, j < i PROVE End(list[j]) < r.pos
      OBVIOUS
    <3>1. ~ (list[j].pos <= End(r) /\ r.pos <= End(list[j])) /\ ~ (r.pos < list[j].pos)
      BY <1>3, <2>3
    <3>2. list[j].pos \in Nat /\ End(list[j]) \in Nat
      BY <1>1
    <3> QED
      BY <1>2, <3>1, <3>2
  <2>5. /\ q \in Seq(RangeType) /\ Len(q) = N + 1
        /\ \A j \in 1 .. i - 1 : q[j] = list[j]
        /\ q[i] = r
        /\ \A j \in i .. N : q[j + 1] = list[j]
    <3>1. list \in Seq(RangeType) /\ i \in 1 .. Len(list) + 1 /\ i \in 1 .. N + 1
      BY <1>1, <2>2
    <3>2. /\ q \in Seq(RangeType) /\ Len(q) = Len(list) + 1
          /\ \A j \in 1 .. i - 1 : q[j] = list[j]
          /\ q[i] = r
          /\ \A j \in i .. Len(list) : q[j + 1] = list[j]
      BY <3>1, InsertFacts
    <3> QED
      BY <3>2
  <2>6. Of(q) = Of(list) \cup Positions(r)
    <3>1. i \in 1 .. N + 1
      BY <1>1, <2>2
    <3> QED
      BY <1>1, <3>1, InsertOf
  <2> HIDE DEF q
  <2>7. ASSUME NEW k \in 1 .. N + 1
        PROVE  \/ k < i /\ k \in 1 .. N /\ q[k] = list[k]
               \/ k = i /\ q[k] = r
               \/ k > i /\ k - 1 \in i .. N /\ k - 1 \in 1 .. N /\ q[k] = list[k - 1]
    <3>1. CASE k < i
      BY <1>1, <2>2, <2>5, <3>1
    <3>2. CASE k > i
      <4>1. k - 1 \in i .. N /\ k - 1 \in 1 .. N /\ (k - 1) + 1 = k
        BY <1>1, <2>2, <3>2
      <4>2. q[(k - 1) + 1] = list[k - 1]
        BY <2>5, <4>1
      <4> QED
        BY <3>2, <4>1, <4>2
    <3> QED
      BY <1>1, <2>2, <2>5, <3>1, <3>2
  <2>8. \A k \in 1 .. N + 1 : q[k].len > 0
    BY <1>1, <1>2, <1>6, <2>7
  <2>9. \A j, k \in 1 .. N + 1 : j < k /\ k <= i => End(q[j]) < q[k].pos
    <3> SUFFICES ASSUME NEW j \in 1 .. N + 1, NEW k \in 1 .. N + 1, j < k, k <= i
                 PROVE  End(q[j]) < q[k].pos
      OBVIOUS
    <3>1. j < i /\ j \in 1 .. N /\ q[j] = list[j]
      BY <1>1, <2>2, <2>7
    <3>2. CASE k = i
      BY <2>4, <2>5, <3>1, <3>2
    <3>3. CASE k < i
      <4>1. k \in 1 .. N /\ q[k] = list[k]
        BY <1>1, <2>2, <2>7, <3>3
      <4> QED
        BY <1>1, <3>1, <4>1
    <3> QED
      BY <1>1, <2>2, <3>2, <3>3
  <2>10. \A j, k \in 1 .. N + 1 : i < j /\ j < k => End(q[j]) < q[k].pos
    <3> SUFFICES ASSUME NEW j \in 1 .. N + 1, NEW k \in 1 .. N + 1, i < j, j < k
                 PROVE  End(q[j]) < q[k].pos
      OBVIOUS
    <3>1. j - 1 \in 1 .. N /\ q[j] = list[j - 1]
      BY <1>1, <2>2, <2>7, SMTT(30)
    <3>2. i < k
      BY <1>1, <2>2
    <3>3. k - 1 \in 1 .. N /\ q[k] = list[k - 1]
      BY <1>1, <2>2, <2>7, <3>2
    <3>4. j - 1 < k - 1
      BY <1>1
    <3> QED
      BY <1>1, <3>1, <3>3, <3>4
  <2>11. \A j, k \in 1 .. N + 1 : j < i /\ i < k => End(q[j]) < q[k].pos
    <3> SUFFICES ASSUME NEW j \in 1 .. N + 1, NEW k \in 1 .. N + 1, j < i, i < k
                 PROVE  End(q[j]) < q[k].pos
      OBVIOUS
    <3>1. j \in 1 .. N /\ q[j] = list[j] /\ k - 1 \in 1 .. N /\ q[k] = list[k - 1]
          /\ j < k - 1
      BY <1>1, <2>2, <2>7
    <3> QED
      BY <1>1, <3>1
  <2>12. CASE CanRangeMerge(list[i], r)
    <3>1. Mergeable(q, i)
      <4>1. i \in 1 .. Len(q) - 1 /\ i \in Nat
        BY <1>1, <2>2, <2>5
      <4>2. \A j, k \in 1 .. i : j < k => End(q[j]) < q[k].pos
        BY <1>1, <2>2, <2>9
      <4>3. q[i] = r /\ q[i + 1] = list[i]
        BY <1>1, <2>2, <2>5
      <4>4. CanRangeMerge(q[i], q[i + 1])
        <5>1. CanRangeMerge(r, list[i]) <=> r.pos <= End(list[i]) /\ list[i].pos <= End(r)
          BY <1>1, <2>2, MergeFacts
        <5> QED
          BY <1>3, <2>2, <2>12, <4>3, <5>1
      <4>5. \A j \in 1 .. i - 1 : End(q[j]) < q[i + 1].pos
        <5> SUFFICES ASSUME NEW j \in 1 .. i - 1 PROVE End(q[j]) < q[i + 1].pos
          OBVIOUS
        <5>1. j \in 1 .. N + 1 /\ i + 1 \in 1 .. N + 1 /\ j < i /\ i < i + 1
          BY <1>1, <2>2
        <5> QED
          BY <2>11, <5>1
      <4>6. \A j, k \in i + 1 .. N + 1 : j < k => q[j].pos < q[k].pos
        <5> SUFFICES ASSUME NEW j \in i + 1 .. N + 1, NEW k \in i + 1 .. N + 1, j < k
                     PROVE  q[j].pos < q[k].pos
          OBVIOUS
        <5>1. j \in 1 .. N + 1 /\ k \in 1 .. N + 1 /\ i < j
          BY <1>1, <2>2
        <5>2. End(q[j]) < q[k].pos
          BY <2>10, <5>1
        <5>3. q[j] \in RangeType /\ q[k] \in RangeType
          BY <2>5, <5>1
        <5>4. q[j].pos \in Nat /\ q[j].len \in Nat /\ End(q[j]) = q[j].pos + q[j].len
              /\ q[k].pos \in Nat
          BY <5>3, RangeFacts
        <5> QED
          BY <5>2, <5>4
      <4> QED
        BY <2>5, <2>8, <4>1, <4>2, <4>4, <4>5, <4>6 DEF Mergeable
    <3> QED
      BY <2>6, <2>12, <2>a, <3>1, ConcatCanon
  <2>13. CASE ~ CanRangeMerge(list[i], r)
    <3>1. End(r) < list[i].pos
      <4>1. ~ (list[i].pos <= End(r) /\ r.pos <= End(list[i])) /\ r.pos < list[i].pos
        BY <1>3, <2>2, <2>13
      <4>2. list[i].pos \in Nat /\ End(list[i]) \in Nat /\ list[i].pos <= End(list[i])
        BY <1>1, <2>2, SMTT(30)
      <4> QED
        BY <1>2, <4>1, <4>2
    <3>2. ASSUME NEW k \in 1 .. N + 1, i < k PROVE End(r) < q[k].pos
      <4>1. k - 1 \in 1 .. N /\ q[k] = list[k - 1] /\ i <= k - 1
        BY <1>1, <2>2, <2>7, <3>2
      <4>2. list[i].pos <= list[k - 1].pos
        <5>1. CASE i = k - 1
          BY <1>1, <4>1, <5>1
        <5>2. CASE i < k - 1
          <6>1. End(list[i]) < list[k - 1].pos
            BY <1>1, <2>2, <4>1, <5>2
          <6>2. /\ list[i].pos \in Nat /\ list[i].len \in Nat /\ End(list[i]) \in Nat
                /\ End(list[i]) = list[i].pos + list[i].len
            BY <1>1, <2>2
          <6>3. list[k - 1].pos \in Nat
            BY <1>1, <4>1
          <6> QED
            BY <6>1, <6>2, <6>3
        <5> QED
          BY <1>1, <2>2, <4>1, <5>1, <5>2
      <4> QED
        BY <1>1, <1>2, <2>2, <3>1, <4>1, <4>2, SMTT(30)
    <3>3. \A j, k \in 1 .. N + 1 : j < k => End(q[j]) < q[k].pos
      <4> SUFFICES ASSUME NEW j \in 1 .. N + 1, NEW k \in 1 .. N + 1, j < k
                   PROVE  End(q[j]) < q[k].pos
        OBVIOUS
      <4>1. CASE k <= i
        BY <2>9, <4>1
      <4>2. CASE i < j
        BY <2>10, <4>2
      <4>3. CASE j < i /\ i < k
        BY <2>11, <4>3
      <4>4. CASE j = i
        BY <2>5, <3>2, <4>4
      <4> QED
        BY <1>1, <2>2, <4>1, <4>2, <4>3, <4>4
    <3>4. Canon(q)
      BY <2>5, <2>8, <3>3 DEF Canon
    <3> QED
      BY <2>6, <2>13, <2>a, <3>4
  <2> QED
    BY <2>12, <2>13
<1> QED
  BY <1>4, <1>5, <1>6

-----------------------------------------------------------------------------
(***************************************************************************)
(* SubstractRange.                                                         *)
(***************************************************************************)
LEMMA ConcatFacts ==
  ASSUME NEW S, NEW a \in Seq(S), NEW b \in Seq(S)
  PROVE  LET c == a \o b
         IN  /\ c \in Seq(S) /\ Len(c) = Len(a) + Len(b)
             /\ \A i \in 1 .. Len(a) : c[i] = a[i]
             /\ \A i \in 1 .. Len(b) : c[Len(a) + i] = b[i]
             /\ \A k \in 1 .. Len(c) :
                  \/ k \in 1 .. Len(a) /\ c[k] = a[k]
                  \/ k > Len(a) /\ k - Len(a) \in 1 .. Len(b) /\ c[k] = b[k - Len(a)]
<1> DEFINE c == a \o b
<1>1. Len(a) \in Nat /\ Len(b) \in Nat
  OBVIOUS
<1>2. /\ c \in Seq(S) /\ Len(c) = Len(a) + Len(b)
      /\ \A j \in 1 .. Len(a) + Len(b) : c[j] = IF j <= Len(a) THEN a[j] ELSE b[j - Len(a)]
  BY ConcatProperties
<1> HIDE DEF c
<1>3. \A i \in 1 .. Len(a) : c[i] = a[i]
  BY <1>1, <1>2
<1>4. ASSUME NEW i \in 1 .. Len(b) PROVE c[Len(a) + i] = b[i]
  <2>1. Len(a) + i \in 1 .. Len(a) + Len(b) /\ ~ (Len(a) + i <= Len(a)) /\ (Len(a) + i) - Len(a) = i
    BY <1>1
  <2>2. c[Len(a) + i] = b[(Len(a) + i) - Len(a)]
    BY <1>2, <2>1
  <2> QED
    BY <2>1, <2>2
<1>5. ASSUME NEW k \in 1 .. Len(c)
      PROVE  \/ k \in 1 .. Len(a) /\ c[k] = a[k]
             \/ k > Len(a) /\ k - Len(a) \in 1 .. Len(b) /\ c[k] = b[k - Len(a)]
  <2>1. CASE k <= Len(a)
    BY <1>1, <1>2, <1>3, <2>1
  <2>2. CASE k > Len(a)
    <3>1. k \in 1 .. Len(a) + Len(b) /\ ~ (k <= Len(a)) /\ k - Len(a) \in 1 .. Len(b)
      BY <1>1, <1>2, <2>2
    <3> QED
      BY <1>2, <2>2, <3>1
  <2> QED
    BY <1>1, <2>1, <2>2
<1> QED
  BY <1>2, <1>3, <1>4, <1>5 DEF c

\* Two canonical lists make one when the first ends before the second begins.
LEMMA CanonConcat ==
  ASSUME NEW a, NEW b, Canon(a), Canon(b),
         \A i \in 1 .. Len(a), j \in 1 .. Len(b) : End(a[i]) < b[j].pos
  PROVE  Canon(a \o b)
<1> DEFINE c == a \o b
<1>1. a \in Seq(RangeType) /\ b \in Seq(RangeType) /\ Len(a) \in Nat /\ Len(b) \in Nat
  BY DEF Canon
<1>2. /\ c \in Seq(RangeType)
      /\ \A k \in 1 .. Len(c) :
           \/ k \in 1 .. Len(a) /\ c[k] = a[k]
           \/ k > Len(a) /\ k - Len(a) \in 1 .. Len(b) /\ c[k] = b[k - Len(a)]
  BY <1>1, ConcatFacts
<1> HIDE DEF c
<1>3. \A k \in 1 .. Len(c) : c[k].len > 0
  BY <1>2 DEF Canon
<1>4. ASSUME NEW j \in 1 .. Len(c), NEW k \in 1 .. Len(c), j < k PROVE End(c[j]) < c[k].pos
  <2>1. CASE k \in 1 .. Len(a) /\ c[k] = a[k]
    <3>1. j \in 1 .. Len(a) /\ c[j] = a[j]
      BY <1>1, <1>2, <1>4, <2>1
    <3> QED
      BY <1>4, <2>1, <3>1 DEF Canon
  <2>2. CASE k > Len(a) /\ k - Len(a) \in 1 .. Len(b) /\ c[k] = b[k - Len(a)]
    <3>1. CASE j \in 1 .. Len(a) /\ c[j] = a[j]
      BY <2>2, <3>1
    <3>2. CASE j > Len(a) /\ j - Len(a) \in 1 .. Len(b) /\ c[j] = b[j - Len(a)]
      <4>1. j - Len(a) < k - Len(a)
        BY <1>1, <1>4
      <4> QED
        BY <2>2, <3>2, <4>1 DEF Canon
    <3> QED
      BY <1>2, <3>1, <3>2
  <2> QED
    BY <1>2, <2>1, <2>2
<1> QED
  BY <1>2, <1>3, <1>4 DEF Canon, c

LEMMA ConcatOf ==
  ASSUME NEW a \in Seq(RangeType), NEW b \in Seq(RangeType)
  PROVE  Of(a \o b) = Of(a) \cup Of(b)
<1> DEFINE c == a \o b
<1>1. Len(a) \in Nat /\ Len(b) \in Nat
  OBVIOUS
<1>2. /\ Len(c) = Len(a) + Len(b)
      /\ \A i \in 1 .. Len(a) : c[i] = a[i]
      /\ \A i \in 1 .. Len(b) : c[Len(a) + i] = b[i]
      /\ \A k \in 1 .. Len(c) :
           \/ k \in 1 .. Len(a) /\ c[k] = a[k]
           \/ k > Len(a) /\ k - Len(a) \in 1 .. Len(b) /\ c[k] = b[k - Len(a)]
  BY ConcatFacts
<1> HIDE DEF c
<1>3. \A i \in 1 .. Len(a) : i \in 1 .. Len(c) /\ c[i] = a[i]
  BY <1>1, <1>2
<1>4. \A i \in 1 .. Len(b) : \E k \in 1 .. Len(c) : c[k] = b[i]
  <2> TAKE i \in 1 .. Len(b)
  <2>1. Len(a) + i \in 1 .. Len(c)
    BY <1>1, <1>2
  <2> QED
    BY <1>2, <2>1
<1>5. \A k \in 1 .. Len(c) : \/ \E i \in 1 .. Len(a) : c[k] = a[i]
                             \/ \E i \in 1 .. Len(b) : c[k] = b[i]
  BY <1>2, Zenon
<1>6. \A x : x \in Of(c) <=> x \in Of(a) \/ x \in Of(b)
  BY <1>3, <1>4, <1>5, Zenon DEF Of
<1> QED
  BY <1>6 DEF c

LEMMA FilledFacts ==
  ASSUME NEW r \in RangeType
  PROVE  /\ Canon(Filled(r)) /\ Filled(r) \in Seq(RangeType)
         /\ Of(Filled(r)) = Positions(r)
         /\ \A i \in 1 .. Len(Filled(r)) : Filled(r)[i] = r /\ r.len > 0
<1>1. r.pos \in Nat /\ r.len \in Nat /\ End(r) = r.pos + r.len
      /\ Positions(r) \subseteq Nat
      /\ \A x \in Int : x \in Positions(r) <=> r.pos <= x /\ x < End(r)
  BY RangeFacts
<1>2. CASE r.len > 0
  <2>1. Filled(r) = <<r>>
    BY <1>2 DEF Filled
  <2>2. <<r>> \in Seq(RangeType) /\ Len(<<r>>) = 1 /\ <<r>>[1] = r /\ 1 .. 1 = {1}
    OBVIOUS
  <2> DEFINE p == <<r>>
  <2> HIDE DEF p
  <2>3. p \in Seq(RangeType) /\ Len(p) = 1 /\ p[1] = r /\ \A i \in 1 .. Len(p) : i = 1
    BY <2>2 DEF p
  <2>4. Canon(p)
    BY <1>2, <2>3 DEF Canon
  <2>5. Of(p) = Positions(r)
    BY <2>2, <2>3 DEF Of
  <2> QED
    BY <1>2, <2>1, <2>3, <2>4, <2>5 DEF p
<1>3. CASE ~ (r.len > 0)
  <2>1. Filled(r) = <<>>
    BY <1>3 DEF Filled
  <2>2. Positions(r) = {}
    BY <1>1, <1>3
  <2>3. Len(<<>>) = 0 /\ 1 .. 0 = {} /\ <<>> \in Seq(RangeType)
    OBVIOUS
  <2> QED
    BY <2>1, <2>2, <2>3, EmptyList
<1> QED
  BY <1>2, <1>3

\* What is left of one range.
LEMMA LeftFacts ==
  ASSUME NEW v \in RangeType, NEW r \in RangeType
  PROVE  /\ Left(v, r) \in Seq(RangeType)
         /\ v.len > 0 =>
              /\ Canon(Left(v, r))
              /\ Of(Left(v, r)) = Positions(v) \ Positions(r)
              /\ \A i \in 1 .. Len(Left(v, r)) :
                   v.pos <= Left(v, r)[i].pos /\ End(Left(v, r)[i]) <= End(v)
<1> DEFINE m == RangeIntersect(v, r)
           a == MakeRange(v.pos, m.pos)
           b == MakeRange(End(m), End(v))
<1>1. /\ m \in RangeType
      /\ m.len > 0 => /\ m.pos = IF v.pos <= r.pos THEN r.pos ELSE v.pos
                      /\ End(m) = IF End(v) <= End(r) THEN End(v) ELSE End(r)
      /\ Positions(m) = Positions(v) \cap Positions(r)
  BY IntersectFacts, IntersectPositions
<1>d. Left(v, r) = IF m.len = 0 THEN <<v>> ELSE Filled(a) \o Filled(b)
  BY DEF Left
<1> HIDE DEF m
<1>2. /\ v.pos \in Nat /\ v.len \in Nat /\ End(v) = v.pos + v.len /\ End(v) \in Nat
      /\ r.pos \in Nat /\ r.len \in Nat /\ End(r) = r.pos + r.len /\ End(r) \in Nat
      /\ m.pos \in Nat /\ m.len \in Nat /\ End(m) = m.pos + m.len /\ End(m) \in Nat
  BY <1>1, RangeFacts
<1>3. CASE m.len = 0
  <2>1. Left(v, r) = <<v>> /\ <<v>> \in Seq(RangeType)
    BY <1>d, <1>3
  <2>2. ASSUME v.len > 0
        PROVE  /\ Canon(Left(v, r))
               /\ Of(Left(v, r)) = Positions(v) \ Positions(r)
               /\ \A i \in 1 .. Len(Left(v, r)) :
                    v.pos <= Left(v, r)[i].pos /\ End(Left(v, r)[i]) <= End(v)
    <3>1. Left(v, r) = Filled(v)
      BY <2>1, <2>2 DEF Filled
    <3>2. Positions(m) = {}
      <4>1. \A x \in Positions(m) : x \in Nat /\ m.pos <= x /\ x < End(m)
        BY <1>1, RangeFacts
      <4> QED
        BY <1>2, <1>3, <4>1
    <3>3. Positions(v) = Positions(v) \ Positions(r)
      BY <1>1, <3>2
    <3>4. /\ Canon(Filled(v)) /\ Of(Filled(v)) = Positions(v)
          /\ \A i \in 1 .. Len(Filled(v)) : Filled(v)[i] = v
      BY FilledFacts
    <3>5. v.pos <= v.pos /\ End(v) <= End(v)
      BY <1>2
    <3> QED
      BY <3>1, <3>3, <3>4, <3>5
  <2> QED
    BY <2>1, <2>2
<1>4. CASE m.len > 0
  <2>1. v.pos <= m.pos /\ End(m) <= End(v) /\ m.pos < End(m)
    BY <1>1, <1>2, <1>4
  <2>2. a \in RangeType /\ b \in RangeType
        /\ a.pos = v.pos /\ End(a) = m.pos /\ b.pos = End(m) /\ End(b) = End(v)
    <3>1. a = [pos |-> v.pos, len |-> m.pos - v.pos] /\ b = [pos |-> End(m), len |-> End(v) - End(m)]
      BY DEF MakeRange
    <3> QED
      BY <1>2, <2>1, <3>1 DEF RangeType, End
  <2> HIDE DEF a, b
  <2> DEFINE fa == Filled(a)
             fb == Filled(b)
             c == fa \o fb
  <2>3. /\ Canon(fa) /\ fa \in Seq(RangeType) /\ Of(fa) = Positions(a)
        /\ \A i \in 1 .. Len(fa) : fa[i] = a /\ a.len > 0
        /\ Canon(fb) /\ fb \in Seq(RangeType) /\ Of(fb) = Positions(b)
        /\ \A i \in 1 .. Len(fb) : fb[i] = b /\ b.len > 0
    BY <2>2, FilledFacts
  <2> HIDE DEF fa, fb
  <2>4. /\ c \in Seq(RangeType)
        /\ \A k \in 1 .. Len(c) :
             \/ k \in 1 .. Len(fa) /\ c[k] = fa[k]
             \/ k > Len(fa) /\ k - Len(fa) \in 1 .. Len(fb) /\ c[k] = fb[k - Len(fa)]
    BY <2>3, ConcatFacts
  <2>5. Canon(c)
    <3>1. \A i \in 1 .. Len(fa), j \in 1 .. Len(fb) : End(fa[i]) < fb[j].pos
      BY <2>1, <2>2, <2>3
    <3> QED
      BY <2>3, <3>1, CanonConcat
  <2>6. Of(c) = Positions(a) \cup Positions(b)
    BY <2>3, ConcatOf
  <2>7. Positions(a) \cup Positions(b) = Positions(v) \ Positions(r)
    <3>1. \A x \in Int : x \in Positions(a) \/ x \in Positions(b)
                            <=> x \in Positions(v) /\ ~ (x \in Positions(m))
      <4> TAKE x \in Int
      <4>1. /\ x \in Positions(a) <=> a.pos <= x /\ x < End(a)
            /\ x \in Positions(b) <=> b.pos <= x /\ x < End(b)
            /\ x \in Positions(v) <=> v.pos <= x /\ x < End(v)
            /\ x \in Positions(m) <=> m.pos <= x /\ x < End(m)
        BY <1>1, <2>2, RangeFacts
      <4> QED
        BY <1>2, <2>1, <2>2, <4>1
    <3>2. Positions(a) \subseteq Int /\ Positions(b) \subseteq Int /\ Positions(v) \subseteq Int
      BY <2>2, RangeFacts
    <3> QED
      BY <1>1, <3>1, <3>2
  <2>8. \A k \in 1 .. Len(c) : v.pos <= c[k].pos /\ End(c[k]) <= End(v)
    <3>1. \A k \in 1 .. Len(c) : c[k] = a \/ c[k] = b
      BY <2>3, <2>4
    <3>2. v.pos <= a.pos /\ End(a) <= End(v) /\ v.pos <= b.pos /\ End(b) <= End(v)
      BY <1>2, <2>1, <2>2
    <3> QED
      BY <3>1, <3>2
  <2>9. Left(v, r) = c
    BY <1>2, <1>4, <1>d DEF fa, fb
  <2> HIDE DEF c
  <2> QED
    BY <2>4, <2>5, <2>6, <2>7, <2>8, <2>9
<1> QED
  BY <1>2, <1>3, <1>4

\* The fold of SubstractRange walks the list.
LEMMA LeftWalk ==
  ASSUME NEW list \in Seq(RangeType), NEW r \in RangeType
  PROVE  \E at : /\ at[0] = <<>>
                 /\ \A n \in 1 .. Len(list) : at[n] = at[n - 1] \o Left(list[n], r)
                 /\ List!FoldLeft(LAMBDA kept, v : kept \o Left(v, r), <<>>, list) = at[Len(list)]
<1> DEFINE S == Seq(RangeType)
           N == Len(list)
           Eq(it) == it = [s \in SUBSET (1 .. N) |->
                             IF s = {} THEN <<>>
                             ELSE it[s \ {Max(s)}] \o Left(list[Max(s)], r)]
           step == [p \in S \X Nat |-> IF p[2] \in 1 .. N THEN p[1] \o Left(list[p[2]], r)
                                       ELSE p[1]]
           g == CHOOSE it : Eq(it)
<1>1. N \in Nat /\ DOMAIN list = 1 .. N /\ <<>> \in S
  OBVIOUS
<1>2. step \in [S \X Nat -> S]
  <2>1. \A n \in 1 .. N : Left(list[n], r) \in S
    BY LeftFacts
  <2>2. \A a \in S, n \in Nat : n \in 1 .. N => a \o Left(list[n], r) \in S
    BY <2>1, ConcatProperties
  <2> HIDE DEF S
  <2> QED
    BY <2>2
<1>3. \E it : Eq(it)
  <2> HIDE DEF S, step
  <2>1. PICK it \in [SUBSET (1 .. N) -> S] : IsWalk(it, N, <<>>, step)
    BY <1>1, <1>2, WalkExists
  <2>2. \A s \in SUBSET (1 .. N) :
          s # {} => step[<<it[s \ {Max(s)}], Max(s)>>] = it[s \ {Max(s)}] \o Left(list[Max(s)], r)
    <3> TAKE s \in SUBSET (1 .. N)
    <3>1. HAVE s # {}
    <3>2. Max(s) \in 1 .. N /\ s \ {Max(s)} \in SUBSET (1 .. N)
      BY <1>1, <3>1, MaxOf
    <3>3. it[s \ {Max(s)}] \in S /\ Max(s) \in Nat
      BY <1>1, <2>1, <3>2
    <3> QED
      BY <3>2, <3>3 DEF step
  <2>3. Eq(it)
    BY <2>1, <2>2 DEF IsWalk
  <2> QED
    BY <2>3
<1>4. Eq(g)
  BY <1>3
<1>5. List!FoldLeft(LAMBDA kept, v : kept \o Left(v, r), <<>>, list) = g[1 .. N]
  BY <1>1 DEF List!FoldLeft, List!MapThenFoldSet, List!Max, Max
<1> HIDE DEF g
<1> DEFINE at == [n \in 0 .. N |-> g[1 .. n]]
<1>6. at[0] = <<>>
  <2>1. 1 .. 0 = {}
    OBVIOUS
  <2> QED
    BY <1>1, <1>4, <2>1
<1>7. \A n \in 1 .. N : at[n] = at[n - 1] \o Left(list[n], r)
  <2> TAKE n \in 1 .. N
  <2> HIDE DEF N
  <2>1. n - 1 \in 0 .. N /\ n \in 0 .. N /\ 1 .. n \in SUBSET (1 .. N) /\ 1 .. n # {}
        /\ Max(1 .. n) = n /\ (1 .. n) \ {n} = 1 .. n - 1
    BY <1>1, WalkPoint
  <2>2. g[1 .. n] = g[(1 .. n) \ {Max(1 .. n)}] \o Left(list[Max(1 .. n)], r)
    BY <1>4, <2>1
  <2> QED
    BY <2>1, <2>2
<1>8. List!FoldLeft(LAMBDA kept, v : kept \o Left(v, r), <<>>, list) = at[N]
  <2>1. at[N] = g[1 .. N]
    BY <1>1
  <2> QED
    BY <1>5, <2>1
<1> HIDE DEF at
<1> QED
  BY <1>6, <1>7, <1>8

\* What the fold leaves of a canonical list.
LEMMA LeftCanon ==
  ASSUME NEW q, Canon(q), NEW r \in RangeType
  PROVE  LET p == List!FoldLeft(LAMBDA kept, v : kept \o Left(v, r), <<>>, q)
         IN  /\ Canon(p) /\ Of(p) = Of(q) \ Positions(r)
             /\ \A j \in 1 .. Len(p) : \E m \in 1 .. Len(q) : End(p[j]) <= End(q[m])
<1> DEFINE N == Len(q)
           First(n) == UNION {Positions(q[k]) : k \in 1 .. n}
           p == List!FoldLeft(LAMBDA kept, v : kept \o Left(v, r), <<>>, q)
<1>1. /\ q \in Seq(RangeType) /\ N \in Nat
      /\ \A j \in 1 .. N : q[j] \in RangeType /\ q[j].pos \in Nat /\ q[j].len > 0
                           /\ End(q[j]) \in Nat
      /\ \A j, k \in 1 .. N : j < k => End(q[j]) < q[k].pos
  BY ListFacts DEF Canon
<1>2. PICK at : /\ at[0] = <<>>
                /\ \A n \in 1 .. N : at[n] = at[n - 1] \o Left(q[n], r)
                /\ p = at[N]
  BY <1>1, LeftWalk
<1> HIDE DEF p
<1> DEFINE Good == {n \in 0 .. N :
                      /\ Canon(at[n]) /\ Of(at[n]) = First(n) \ Positions(r)
                      /\ \A j \in 1 .. Len(at[n]) : \E m \in 1 .. n : End(at[n][j]) <= End(q[m])}
<1>3. 0 \in Good
  <2>1. First(0) = {} /\ Len(<<>>) = 0 /\ 1 .. 0 = {}
    OBVIOUS
  <2> QED
    BY <1>1, <1>2, <2>1, EmptyList
<1>4. ASSUME NEW n \in Good, n < N PROVE n + 1 \in Good
  <2> DEFINE d == at[n]
             e == at[n + 1]
             v == q[n + 1]
             w == Left(v, r)
  <2>n. n \in Nat /\ n + 1 \in 1 .. N /\ (n + 1) - 1 = n
    BY <1>1, <1>4
  <2>a. e = d \o w
    BY <1>2, <2>n
  <2>1. v \in RangeType /\ v.len > 0 /\ v.pos \in Nat /\ End(v) \in Nat
    BY <1>1, <2>n
  <2>2. /\ Canon(d) /\ Of(d) = First(n) \ Positions(r)
        /\ \A j \in 1 .. Len(d) : \E m \in 1 .. n : End(d[j]) <= End(q[m])
    OBVIOUS
  <2>3. First(n + 1) = First(n) \cup Positions(v)
    <3>1. 1 .. n + 1 = (1 .. n) \cup {n + 1}
      BY <2>n
    <3> QED
      BY <3>1
  <2>4. /\ w \in Seq(RangeType) /\ Canon(w) /\ Of(w) = Positions(v) \ Positions(r)
        /\ \A i \in 1 .. Len(w) : v.pos <= w[i].pos /\ End(w[i]) <= End(v)
    BY <2>1, LeftFacts
  <2>5. n + 1 \in Good <=>
          /\ Canon(e) /\ Of(e) = First(n + 1) \ Positions(r)
          /\ \A j \in 1 .. Len(e) : \E m \in 1 .. n + 1 : End(e[j]) <= End(q[m])
    <3> HIDE DEF First, v, w, d
    <3> QED
      BY <1>1, <2>n
  <2>v. v = q[n + 1]
    OBVIOUS
  <2> HIDE DEF d, e, v, w, First, Good
  <2>6. d \in Seq(RangeType) /\ \A j \in 1 .. Len(d) : End(d[j]) \in Nat
    BY <2>2, ListFacts DEF Canon
  <2>7. \A j \in 1 .. Len(w) : w[j].pos \in Nat /\ End(w[j]) \in Nat
    BY <2>4, ListFacts
  <2>8. \A i \in 1 .. Len(d), j \in 1 .. Len(w) : End(d[i]) < w[j].pos
    <3> TAKE i \in 1 .. Len(d), j \in 1 .. Len(w)
    <3>1. PICK m \in 1 .. n : End(d[i]) <= End(q[m])
      BY <2>2
    <3>2. m \in 1 .. N /\ m < n + 1
      BY <1>1, <2>n
    <3>3. End(q[m]) < v.pos /\ End(q[m]) \in Nat
      BY <1>1, <2>n, <2>v, <3>2
    <3>4. v.pos <= w[j].pos /\ w[j].pos \in Nat /\ End(d[i]) \in Nat
      BY <2>4, <2>6, <2>7
    <3> QED
      BY <2>1, <3>1, <3>3, <3>4
  <2>9. Canon(e)
    BY <2>a, <2>2, <2>4, <2>8, CanonConcat
  <2>10. Of(e) = First(n + 1) \ Positions(r)
    <3>1. Of(e) = Of(d) \cup Of(w)
      BY <2>a, <2>4, <2>6, ConcatOf
    <3> QED
      BY <2>2, <2>3, <2>4, <3>1
  <2>11. ASSUME NEW j \in 1 .. Len(e) PROVE \E m \in 1 .. n + 1 : End(e[j]) <= End(q[m])
    <3>1. \/ j \in 1 .. Len(d) /\ e[j] = d[j]
          \/ j > Len(d) /\ j - Len(d) \in 1 .. Len(w) /\ e[j] = w[j - Len(d)]
      BY <2>a, <2>4, <2>6, ConcatFacts
    <3>2. CASE j \in 1 .. Len(d) /\ e[j] = d[j]
      <4>1. PICK m \in 1 .. n : End(d[j]) <= End(q[m])
        BY <2>2, <3>2
      <4>2. m \in 1 .. n + 1
        BY <2>n
      <4> QED
        BY <3>2, <4>1, <4>2
    <3>3. CASE j - Len(d) \in 1 .. Len(w) /\ e[j] = w[j - Len(d)]
      <4>1. n + 1 \in 1 .. n + 1
        BY <2>n
      <4>2. End(e[j]) <= End(q[n + 1])
        BY <2>4, <2>v, <3>3
      <4> QED
        BY <4>1, <4>2
    <3> QED
      BY <3>1, <3>2, <3>3
  <2> QED
    BY <2>5, <2>9, <2>10, <2>11
<1>5. Good = 0 .. N
  <2>1. Good \in SUBSET (0 .. N)
    OBVIOUS
  <2> HIDE DEF Good
  <2> QED
    BY <1>1, <1>3, <1>4, <2>1, BoundedInduction
<1>6. N \in Good
  <2> HIDE DEF Good
  <2> QED
    BY <1>1, <1>5
<1>7. First(N) = Of(q)
  BY DEF Of
<1> QED
  BY <1>2, <1>6, <1>7 DEF p

\* A list cut in two.
LEMMA SplitFacts ==
  ASSUME NEW S, NEW q \in Seq(S), NEW n \in 0 .. Len(q)
  PROVE  LET a == SubSeq(q, 1, n)
             b == SubSeq(q, n + 1, Len(q))
         IN  /\ a \in Seq(S) /\ Len(a) = n /\ \A j \in 1 .. n : a[j] = q[j]
             /\ b \in Seq(S) /\ Len(b) = Len(q) - n
             /\ \A j \in 1 .. Len(q) - n : b[j] = q[n + j] /\ n + j \in 1 .. Len(q)
             /\ q = a \o b
<1> DEFINE a == SubSeq(q, 1, n)
           b == SubSeq(q, n + 1, Len(q))
<1>1. Len(q) \in Nat /\ n \in Nat /\ n <= Len(q) /\ \A j \in 1 .. Len(q) : q[j] \in S
  OBVIOUS
<1>2. a \in Seq(S) /\ Len(a) = n /\ \A j \in 1 .. n : a[j] = q[j]
  <2>1. \A j \in 1 .. n : q[j] \in S
    BY <1>1
  <2>2. /\ a \in Seq(S) /\ Len(a) = IF 1 <= n THEN n - 1 + 1 ELSE 0
        /\ \A j \in 1 .. n - 1 + 1 : a[j] = q[1 + j - 1]
    BY <1>1, <2>1, SubSeqProperties
  <2> QED
    BY <1>1, <2>2
<1>3. b \in Seq(S) /\ Len(b) = Len(q) - n
      /\ \A j \in 1 .. Len(q) - n : b[j] = q[n + j] /\ n + j \in 1 .. Len(q)
  <2>1. \A j \in n + 1 .. Len(q) : q[j] \in S
    BY <1>1
  <2>2. /\ b \in Seq(S) /\ Len(b) = IF n + 1 <= Len(q) THEN Len(q) - (n + 1) + 1 ELSE 0
        /\ \A j \in 1 .. Len(q) - (n + 1) + 1 : b[j] = q[(n + 1) + j - 1]
    BY <1>1, <2>1, SubSeqProperties
  <2>3. Len(b) = Len(q) - n /\ Len(q) - (n + 1) + 1 = Len(q) - n
    BY <1>1, <2>2
  <2>4. \A j \in 1 .. Len(q) - n : (n + 1) + j - 1 = n + j /\ n + j \in 1 .. Len(q)
    BY <1>1
  <2> HIDE DEF b
  <2> QED
    BY <2>2, <2>3, <2>4
<1> HIDE DEF a, b
<1>4. q = a \o b
  <2> DEFINE c == a \o b
  <2>1. /\ c \in Seq(S) /\ Len(c) = Len(a) + Len(b)
        /\ \A k \in 1 .. Len(c) :
             \/ k \in 1 .. Len(a) /\ c[k] = a[k]
             \/ k > Len(a) /\ k - Len(a) \in 1 .. Len(b) /\ c[k] = b[k - Len(a)]
    <3>1. a \in Seq(S) /\ b \in Seq(S)
      BY <1>2, <1>3
    <3> QED
      BY <3>1, ConcatFacts
  <2> HIDE DEF c
  <2>2. Len(c) = Len(q)
    BY <1>1, <1>2, <1>3, <2>1
  <2>3. ASSUME NEW k \in 1 .. Len(q) PROVE c[k] = q[k]
    <3>1. CASE k \in 1 .. Len(a) /\ c[k] = a[k]
      BY <1>2, <3>1
    <3>2. CASE k > Len(a) /\ k - Len(a) \in 1 .. Len(b) /\ c[k] = b[k - Len(a)]
      <4>1. k - n \in 1 .. Len(q) - n /\ n + (k - n) = k
        BY <1>1, <1>2, <1>3, <3>2
      <4> QED
        BY <1>2, <1>3, <3>2, <4>1
    <3> QED
      BY <2>1, <2>2, <3>1, <3>2
  <2>4. c = q
    BY <2>1, <2>2, <2>3, SeqEqual
  <2> QED
    BY <2>4 DEF c
<1> QED
  BY <1>2, <1>3, <1>4 DEF a, b

LEMMA SubstractRangeCanon ==
  ASSUME NEW list, Canon(list), NEW r \in RangeType
  PROVE  /\ Canon(SubstractRange(list, r))
         /\ Of(SubstractRange(list, r)) = Of(list) \ Positions(r)
<1> DEFINE N == Len(list)
           stops == {i \in DOMAIN list : End(r) < list[i].pos} \cup {Len(list)}
           n == Min(stops)
           a == SubSeq(list, 1, n)
           b == SubSeq(list, n + 1, N)
           p == List!FoldLeft(LAMBDA kept, v : kept \o Left(v, r), <<>>, a)
<1>1. /\ list \in Seq(RangeType) /\ N \in Nat /\ DOMAIN list = 1 .. N
      /\ \A j \in 1 .. N : list[j] \in RangeType /\ list[j].pos \in Nat /\ list[j].len > 0
                           /\ list[j].len \in Nat
                           /\ End(list[j]) \in Nat /\ End(list[j]) = list[j].pos + list[j].len
      /\ \A j, k \in 1 .. N : j < k => End(list[j]) < list[k].pos
  BY ListFacts DEF Canon
<1>2. r.pos \in Nat /\ End(r) \in Nat
  BY RangeFacts
<1>3. n \in stops
  <2>1. stops \in SUBSET (0 .. N) /\ stops # {}
    BY <1>1
  <2> HIDE DEF stops
  <2> QED
    BY <1>1, <2>1, MinOf
<1>4. /\ n \in 0 .. N
      /\ n = N \/ (n \in 1 .. N /\ End(r) < list[n].pos)
  <2> HIDE DEF n
  <2> QED
    BY <1>1, <1>3
<1>5. SubstractRange(list, r) = p \o b
  BY DEF SubstractRange
<1> HIDE DEF n
<1>6. /\ a \in Seq(RangeType) /\ Len(a) = n /\ \A j \in 1 .. n : a[j] = list[j]
      /\ b \in Seq(RangeType) /\ Len(b) = N - n
      /\ \A j \in 1 .. N - n : b[j] = list[n + j] /\ n + j \in 1 .. N
      /\ list = a \o b
  BY <1>1, <1>4, SplitFacts
<1> HIDE DEF a, b
<1>7. Canon(a)
  <2>1. \A j \in 1 .. n : j \in 1 .. N
    <3>1. N \in Nat /\ n \in 0 .. N
      BY <1>1, <1>4
    <3> HIDE DEF N
    <3> QED
      BY <3>1
  <2> QED
    BY <1>1, <1>6, <2>1 DEF Canon
<1>8. Canon(b)
  <2>1. \A j \in 1 .. Len(b) : b[j].len > 0
    BY <1>1, <1>6
  <2>2. ASSUME NEW j \in 1 .. Len(b), NEW k \in 1 .. Len(b), j < k PROVE End(b[j]) < b[k].pos
    <3>1. n + j \in 1 .. N /\ n + k \in 1 .. N /\ b[j] = list[n + j] /\ b[k] = list[n + k]
      BY <1>6
    <3>2. n + j < n + k
      BY <1>1, <1>4, <1>6, <2>2
    <3> QED
      BY <1>1, <3>1, <3>2
  <2> QED
    BY <1>6, <2>1, <2>2 DEF Canon
<1>9. /\ Canon(p) /\ Of(p) = Of(a) \ Positions(r)
      /\ \A j \in 1 .. Len(p) : \E m \in 1 .. Len(a) : End(p[j]) <= End(a[m])
  BY <1>7, LeftCanon
<1> HIDE DEF p
<1>10. p \in Seq(RangeType) /\ \A j \in 1 .. Len(p) : End(p[j]) \in Nat
  BY <1>9, ListFacts DEF Canon
<1>11. \A i \in 1 .. Len(p), j \in 1 .. Len(b) : End(p[i]) < b[j].pos
  <2> TAKE i \in 1 .. Len(p), j \in 1 .. Len(b)
  <2>1. PICK m \in 1 .. Len(a) : End(p[i]) <= End(a[m])
    BY <1>9
  <2>2. m \in 1 .. N /\ n + j \in 1 .. N /\ m < n + j /\ a[m] = list[m] /\ b[j] = list[n + j]
    BY <1>1, <1>4, <1>6, SMTT(30)
  <2>3. End(list[m]) < list[n + j].pos /\ End(list[m]) \in Nat /\ list[n + j].pos \in Nat
    BY <1>1, <2>2
  <2> QED
    BY <1>10, <2>1, <2>2, <2>3
<1>12. Of(b) \cap Positions(r) = {}
  <2> SUFFICES ASSUME NEW x \in Of(b), x \in Positions(r) PROVE FALSE
    OBVIOUS
  <2>1. x \in Nat /\ x < End(r)
    BY RangeFacts
  <2>2. PICK j \in 1 .. Len(b) : b[j].pos <= x
    BY <1>6, <2>1, ListFacts
  <2>3. n + j \in 1 .. N /\ b[j] = list[n + j] /\ j \in Nat /\ j >= 1
    BY <1>1, <1>6
  <2>4. n \in 1 .. N /\ End(r) < list[n].pos /\ n < n + j
    <3>1. n # N /\ n < n + j
      <4>1. N \in Nat
        BY <1>1
      <4> HIDE DEF N
      <4>2. n \in 0 .. N
        BY <1>4
      <4>3. n + j \in 1 .. N /\ j \in Nat /\ j >= 1
        BY <2>3
      <4> QED
        BY <4>1, <4>2, <4>3
    <3> QED
      BY <1>4, <3>1
  <2>5. End(list[n]) < list[n + j].pos /\ End(list[n]) = list[n].pos + list[n].len
        /\ list[n].pos \in Nat /\ list[n].len \in Nat /\ list[n + j].pos \in Nat
    BY <1>1, <2>3, <2>4
  <2> QED
    BY <1>2, <2>1, <2>2, <2>3, <2>4, <2>5, SMTT(30)
<1>13. Canon(p \o b)
  BY <1>8, <1>9, <1>11, CanonConcat
<1>14. Of(p \o b) = Of(p) \cup Of(b) /\ Of(list) = Of(a) \cup Of(b)
  BY <1>6, <1>10, ConcatOf
<1> QED
  BY <1>5, <1>9, <1>12, <1>13, <1>14

-----------------------------------------------------------------------------
(***************************************************************************)
(* The operations on two queues.                                           *)
(***************************************************************************)
LEMMA CanonFacts ==
  ASSUME NEW list
  PROVE  Canon(list) <=> list \in CanonLists
  BY DEF Canon, CanonLists

\* The fold of AddRangeQueue walks the list it adds.
LEMMA AddWalk ==
  ASSUME NEW base \in CanonLists, NEW list \in Seq(RangeType)
  PROVE  \E at : /\ at[0] = base
                 /\ \A n \in 1 .. Len(list) : at[n] = AddRange(at[n - 1], list[n])
                 /\ AddRangeQueue(base, list) = at[Len(list)]
<1> DEFINE S == CanonLists
           N == Len(list)
           Eq(it) == it = [s \in SUBSET (1 .. N) |->
                             IF s = {} THEN base ELSE AddRange(it[s \ {Max(s)}], list[Max(s)])]
           step == [p \in S \X Nat |-> IF p[2] \in 1 .. N THEN AddRange(p[1], list[p[2]])
                                       ELSE p[1]]
           g == CHOOSE it : Eq(it)
<1>1. N \in Nat /\ DOMAIN list = 1 .. N /\ base \in S
  OBVIOUS
<1>2. step \in [S \X Nat -> S]
  <2>1. \A n \in 1 .. N : list[n] \in RangeType
    OBVIOUS
  <2>2. \A a \in S, n \in Nat : n \in 1 .. N => AddRange(a, list[n]) \in S
    BY <2>1, CanonFacts, AddRangeCanon
  <2> HIDE DEF S
  <2> QED
    BY <2>2
<1>3. \E it : Eq(it)
  <2> HIDE DEF S, step
  <2>1. PICK it \in [SUBSET (1 .. N) -> S] : IsWalk(it, N, base, step)
    BY <1>1, <1>2, WalkExists
  <2>2. \A s \in SUBSET (1 .. N) :
          s # {} => step[<<it[s \ {Max(s)}], Max(s)>>] = AddRange(it[s \ {Max(s)}], list[Max(s)])
    <3> TAKE s \in SUBSET (1 .. N)
    <3>1. HAVE s # {}
    <3>2. Max(s) \in 1 .. N /\ s \ {Max(s)} \in SUBSET (1 .. N)
      BY <1>1, <3>1, MaxOf
    <3>3. it[s \ {Max(s)}] \in S /\ Max(s) \in Nat
      BY <1>1, <2>1, <3>2
    <3> QED
      BY <3>2, <3>3 DEF step
  <2>3. Eq(it)
    BY <2>1, <2>2 DEF IsWalk
  <2> QED
    BY <2>3
<1>4. Eq(g)
  BY <1>3
<1>5. AddRangeQueue(base, list) = g[1 .. N]
  BY <1>1 DEF AddRangeQueue, List!FoldLeft, List!MapThenFoldSet, List!Max, Max
<1> HIDE DEF g
<1> DEFINE at == [n \in 0 .. N |-> g[1 .. n]]
<1>6. at[0] = base
  <2>1. 1 .. 0 = {}
    OBVIOUS
  <2> QED
    BY <1>1, <1>4, <2>1
<1>7. \A n \in 1 .. N : at[n] = AddRange(at[n - 1], list[n])
  <2> TAKE n \in 1 .. N
  <2> HIDE DEF N
  <2>1. n - 1 \in 0 .. N /\ n \in 0 .. N /\ 1 .. n \in SUBSET (1 .. N) /\ 1 .. n # {}
        /\ Max(1 .. n) = n /\ (1 .. n) \ {n} = 1 .. n - 1
    BY <1>1, WalkPoint
  <2>2. g[1 .. n] = AddRange(g[(1 .. n) \ {Max(1 .. n)}], list[Max(1 .. n)])
    BY <1>4, <2>1
  <2> QED
    BY <2>1, <2>2
<1>8. AddRangeQueue(base, list) = at[N]
  <2>1. at[N] = g[1 .. N]
    BY <1>1
  <2> QED
    BY <1>5, <2>1
<1> HIDE DEF at
<1> QED
  BY <1>6, <1>7, <1>8

\* The positions of the first n ranges of a list.
FirstOf(list, n) == UNION {Positions(list[k]) : k \in 1 .. n}

LEMMA FirstFacts ==
  ASSUME NEW list
  PROVE  /\ FirstOf(list, 0) = {} /\ FirstOf(list, Len(list)) = Of(list)
         /\ \A n \in Nat : FirstOf(list, n + 1) = FirstOf(list, n) \cup Positions(list[n + 1])
<1>1. 1 .. 0 = {} /\ \A n \in Nat : 1 .. n + 1 = (1 .. n) \cup {n + 1}
  OBVIOUS
<1>2. FirstOf(list, 0) = {}
  BY <1>1 DEF FirstOf
<1>3. \A n \in Nat : FirstOf(list, n + 1) = FirstOf(list, n) \cup Positions(list[n + 1])
  BY <1>1 DEF FirstOf
<1> QED
  BY <1>2, <1>3 DEF FirstOf, Of

LEMMA AddRangeQueueCanon ==
  ASSUME NEW base, Canon(base), NEW list \in Seq(RangeType)
  PROVE  Canon(AddRangeQueue(base, list)) /\ Of(AddRangeQueue(base, list)) = Of(base) \cup Of(list)
<1> DEFINE N == Len(list)
<1>1. N \in Nat /\ \A n \in 1 .. N : list[n] \in RangeType
  OBVIOUS
<1>2. PICK at : /\ at[0] = base
                /\ \A n \in 1 .. N : at[n] = AddRange(at[n - 1], list[n])
                /\ AddRangeQueue(base, list) = at[N]
  BY AddWalk, CanonFacts
<1> DEFINE Good == {n \in 0 .. N : Canon(at[n]) /\ Of(at[n]) = Of(base) \cup FirstOf(list, n)}
<1>3. 0 \in Good
  BY <1>1, <1>2, FirstFacts
<1>4. ASSUME NEW n \in Good, n < N PROVE n + 1 \in Good
  <2>1. n \in Nat /\ n + 1 \in 0 .. N /\ n + 1 \in 1 .. N /\ (n + 1) - 1 = n
    BY <1>1, <1>4
  <2>2. at[n + 1] = AddRange(at[n], list[n + 1]) /\ list[n + 1] \in RangeType
    BY <1>1, <1>2, <2>1
  <2>3. Canon(at[n + 1]) /\ Of(at[n + 1]) = Of(at[n]) \cup Positions(list[n + 1])
    BY <2>2, AddRangeCanon
  <2>4. FirstOf(list, n + 1) = FirstOf(list, n) \cup Positions(list[n + 1])
    BY <2>1, FirstFacts
  <2> QED
    BY <2>1, <2>3, <2>4
<1>5. N \in Good
  <2>1. Good \in SUBSET (0 .. N)
    OBVIOUS
  <2> HIDE DEF Good
  <2>2. Good = 0 .. N
    BY <1>1, <1>3, <1>4, <2>1, BoundedInduction
  <2> QED
    BY <1>1, <2>2
<1> QED
  BY <1>2, <1>5, FirstFacts

\* The fold of SubstractRangeQueue walks the list it takes away.
LEMMA SubstractWalk ==
  ASSUME NEW base \in CanonLists, NEW list \in Seq(RangeType)
  PROVE  \E at : /\ at[0] = base
                 /\ \A n \in 1 .. Len(list) : at[n] = SubstractRange(at[n - 1], list[n])
                 /\ SubstractRangeQueue(base, list) = at[Len(list)]
<1> DEFINE S == CanonLists
           N == Len(list)
           Eq(it) == it = [s \in SUBSET (1 .. N) |->
                             IF s = {} THEN base
                             ELSE SubstractRange(it[s \ {Max(s)}], list[Max(s)])]
           step == [p \in S \X Nat |-> IF p[2] \in 1 .. N THEN SubstractRange(p[1], list[p[2]])
                                       ELSE p[1]]
           g == CHOOSE it : Eq(it)
<1>1. N \in Nat /\ DOMAIN list = 1 .. N /\ base \in S
  OBVIOUS
<1>2. step \in [S \X Nat -> S]
  <2>1. \A n \in 1 .. N : list[n] \in RangeType
    OBVIOUS
  <2>2. \A a \in S, n \in Nat : n \in 1 .. N => SubstractRange(a, list[n]) \in S
    BY <2>1, CanonFacts, SubstractRangeCanon
  <2> HIDE DEF S
  <2> QED
    BY <2>2
<1>3. \E it : Eq(it)
  <2> HIDE DEF S, step
  <2>1. PICK it \in [SUBSET (1 .. N) -> S] : IsWalk(it, N, base, step)
    BY <1>1, <1>2, WalkExists
  <2>2. \A s \in SUBSET (1 .. N) :
          s # {} => step[<<it[s \ {Max(s)}], Max(s)>>]
                      = SubstractRange(it[s \ {Max(s)}], list[Max(s)])
    <3> TAKE s \in SUBSET (1 .. N)
    <3>1. HAVE s # {}
    <3>2. Max(s) \in 1 .. N /\ s \ {Max(s)} \in SUBSET (1 .. N)
      BY <1>1, <3>1, MaxOf
    <3>3. it[s \ {Max(s)}] \in S /\ Max(s) \in Nat
      BY <1>1, <2>1, <3>2
    <3> QED
      BY <3>2, <3>3 DEF step
  <2>3. Eq(it)
    BY <2>1, <2>2 DEF IsWalk
  <2> QED
    BY <2>3
<1>4. Eq(g)
  BY <1>3
<1>5. SubstractRangeQueue(base, list) = g[1 .. N]
  BY <1>1 DEF SubstractRangeQueue, List!FoldLeft, List!MapThenFoldSet, List!Max, Max
<1> HIDE DEF g
<1> DEFINE at == [n \in 0 .. N |-> g[1 .. n]]
<1>6. at[0] = base
  <2>1. 1 .. 0 = {}
    OBVIOUS
  <2> QED
    BY <1>1, <1>4, <2>1
<1>7. \A n \in 1 .. N : at[n] = SubstractRange(at[n - 1], list[n])
  <2> TAKE n \in 1 .. N
  <2> HIDE DEF N
  <2>1. n - 1 \in 0 .. N /\ n \in 0 .. N /\ 1 .. n \in SUBSET (1 .. N) /\ 1 .. n # {}
        /\ Max(1 .. n) = n /\ (1 .. n) \ {n} = 1 .. n - 1
    BY <1>1, WalkPoint
  <2>2. g[1 .. n] = SubstractRange(g[(1 .. n) \ {Max(1 .. n)}], list[Max(1 .. n)])
    BY <1>4, <2>1
  <2> QED
    BY <2>1, <2>2
<1>8. SubstractRangeQueue(base, list) = at[N]
  <2>1. at[N] = g[1 .. N]
    BY <1>1
  <2> QED
    BY <1>5, <2>1
<1> HIDE DEF at
<1> QED
  BY <1>6, <1>7, <1>8

LEMMA SubstractRangeQueueCanon ==
  ASSUME NEW base, Canon(base), NEW list \in Seq(RangeType)
  PROVE  /\ Canon(SubstractRangeQueue(base, list))
         /\ Of(SubstractRangeQueue(base, list)) = Of(base) \ Of(list)
<1> DEFINE N == Len(list)
<1>1. N \in Nat /\ \A n \in 1 .. N : list[n] \in RangeType
  OBVIOUS
<1>2. PICK at : /\ at[0] = base
                /\ \A n \in 1 .. N : at[n] = SubstractRange(at[n - 1], list[n])
                /\ SubstractRangeQueue(base, list) = at[N]
  BY SubstractWalk, CanonFacts
<1> DEFINE Good == {n \in 0 .. N : Canon(at[n]) /\ Of(at[n]) = Of(base) \ FirstOf(list, n)}
<1>3. 0 \in Good
  BY <1>1, <1>2, FirstFacts
<1>4. ASSUME NEW n \in Good, n < N PROVE n + 1 \in Good
  <2>1. n \in Nat /\ n + 1 \in 0 .. N /\ n + 1 \in 1 .. N /\ (n + 1) - 1 = n
    BY <1>1, <1>4
  <2>2. at[n + 1] = SubstractRange(at[n], list[n + 1]) /\ list[n + 1] \in RangeType
    BY <1>1, <1>2, <2>1
  <2>3. Canon(at[n + 1]) /\ Of(at[n + 1]) = Of(at[n]) \ Positions(list[n + 1])
    BY <2>2, SubstractRangeCanon
  <2>4. FirstOf(list, n + 1) = FirstOf(list, n) \cup Positions(list[n + 1])
    BY <2>1, FirstFacts
  <2> QED
    BY <2>1, <2>3, <2>4
<1>5. N \in Good
  <2>1. Good \in SUBSET (0 .. N)
    OBVIOUS
  <2> HIDE DEF Good
  <2>2. Good = 0 .. N
    BY <1>1, <1>3, <1>4, <2>1, BoundedInduction
  <2> QED
    BY <1>1, <2>2
<1> QED
  BY <1>2, <1>5, FirstFacts

\* The fold of AddMeets walks the second list.
LEMMA MeetWalk ==
  ASSUME NEW base \in CanonLists, NEW r \in RangeType, NEW list \in Seq(RangeType)
  PROVE  \E at : /\ at[0] = base
                 /\ \A n \in 1 .. Len(list) : at[n] = AddRange(at[n - 1], RangeIntersect(r, list[n]))
                 /\ AddMeets(base, r, list) = at[Len(list)]
<1> DEFINE S == CanonLists
           N == Len(list)
           Eq(it) == it = [s \in SUBSET (1 .. N) |->
                             IF s = {} THEN base
                             ELSE AddRange(it[s \ {Max(s)}], RangeIntersect(r, list[Max(s)]))]
           step == [p \in S \X Nat |-> IF p[2] \in 1 .. N THEN AddRange(p[1], RangeIntersect(r, list[p[2]]))
                                       ELSE p[1]]
           g == CHOOSE it : Eq(it)
<1>1. N \in Nat /\ DOMAIN list = 1 .. N /\ base \in S
  OBVIOUS
<1>2. step \in [S \X Nat -> S]
  <2>1. \A n \in 1 .. N : RangeIntersect(r, list[n]) \in RangeType
    BY IntersectFacts
  <2>2. \A a \in S, n \in Nat : n \in 1 .. N => AddRange(a, RangeIntersect(r, list[n])) \in S
    BY <2>1, CanonFacts, AddRangeCanon
  <2> HIDE DEF S
  <2> QED
    BY <2>2
<1>3. \E it : Eq(it)
  <2> HIDE DEF S, step
  <2>1. PICK it \in [SUBSET (1 .. N) -> S] : IsWalk(it, N, base, step)
    BY <1>1, <1>2, WalkExists
  <2>2. \A s \in SUBSET (1 .. N) :
          s # {} => step[<<it[s \ {Max(s)}], Max(s)>>]
                      = AddRange(it[s \ {Max(s)}], RangeIntersect(r, list[Max(s)]))
    <3> TAKE s \in SUBSET (1 .. N)
    <3>1. HAVE s # {}
    <3>2. Max(s) \in 1 .. N /\ s \ {Max(s)} \in SUBSET (1 .. N)
      BY <1>1, <3>1, MaxOf
    <3>3. it[s \ {Max(s)}] \in S /\ Max(s) \in Nat
      BY <1>1, <2>1, <3>2
    <3> QED
      BY <3>2, <3>3 DEF step
  <2>3. Eq(it)
    BY <2>1, <2>2 DEF IsWalk
  <2> QED
    BY <2>3
<1>4. Eq(g)
  BY <1>3
<1>5. AddMeets(base, r, list) = g[1 .. N]
  BY <1>1 DEF AddMeets, List!FoldLeft, List!MapThenFoldSet, List!Max, Max
<1> HIDE DEF g
<1> DEFINE at == [n \in 0 .. N |-> g[1 .. n]]
<1>6. at[0] = base
  <2>1. 1 .. 0 = {}
    OBVIOUS
  <2> QED
    BY <1>1, <1>4, <2>1
<1>7. \A n \in 1 .. N : at[n] = AddRange(at[n - 1], RangeIntersect(r, list[n]))
  <2> TAKE n \in 1 .. N
  <2> HIDE DEF N
  <2>1. n - 1 \in 0 .. N /\ n \in 0 .. N /\ 1 .. n \in SUBSET (1 .. N) /\ 1 .. n # {}
        /\ Max(1 .. n) = n /\ (1 .. n) \ {n} = 1 .. n - 1
    BY <1>1, WalkPoint
  <2>2. g[1 .. n] = AddRange(g[(1 .. n) \ {Max(1 .. n)}], RangeIntersect(r, list[Max(1 .. n)]))
    BY <1>4, <2>1
  <2> QED
    BY <2>1, <2>2
<1>8. AddMeets(base, r, list) = at[N]
  <2>1. at[N] = g[1 .. N]
    BY <1>1
  <2> QED
    BY <1>5, <2>1
<1> HIDE DEF at
<1> QED
  BY <1>6, <1>7, <1>8

LEMMA AddMeetsCanon ==
  ASSUME NEW base, Canon(base), NEW r \in RangeType, NEW list \in Seq(RangeType)
  PROVE  /\ Canon(AddMeets(base, r, list))
         /\ Of(AddMeets(base, r, list)) = Of(base) \cup (Positions(r) \cap Of(list))
<1> DEFINE N == Len(list)
<1>1. N \in Nat /\ \A n \in 1 .. N : list[n] \in RangeType
  OBVIOUS
<1>2. PICK at : /\ at[0] = base
                /\ \A n \in 1 .. N : at[n] = AddRange(at[n - 1], RangeIntersect(r, list[n]))
                /\ AddMeets(base, r, list) = at[N]
  BY MeetWalk, CanonFacts
<1> DEFINE Good == {n \in 0 .. N : Canon(at[n]) /\ Of(at[n]) = Of(base) \cup (Positions(r) \cap FirstOf(list, n))}
<1>3. 0 \in Good
  BY <1>1, <1>2, FirstFacts
<1>4. ASSUME NEW n \in Good, n < N PROVE n + 1 \in Good
  <2>1. n \in Nat /\ n + 1 \in 0 .. N /\ n + 1 \in 1 .. N /\ (n + 1) - 1 = n
    BY <1>1, <1>4
  <2>2. at[n + 1] = AddRange(at[n], RangeIntersect(r, list[n + 1])) /\ list[n + 1] \in RangeType
    BY <1>1, <1>2, <2>1
  <2>3. Canon(at[n + 1])
        /\ Of(at[n + 1]) = Of(at[n]) \cup (Positions(r) \cap Positions(list[n + 1]))
    <3>1. RangeIntersect(r, list[n + 1]) \in RangeType
          /\ Positions(RangeIntersect(r, list[n + 1])) = Positions(r) \cap Positions(list[n + 1])
      BY <2>2, IntersectFacts, IntersectPositions
    <3> QED
      BY <2>2, <3>1, AddRangeCanon
  <2>4. FirstOf(list, n + 1) = FirstOf(list, n) \cup Positions(list[n + 1])
    BY <2>1, FirstFacts
  <2> QED
    BY <2>1, <2>3, <2>4
<1>5. N \in Good
  <2>1. Good \in SUBSET (0 .. N)
    OBVIOUS
  <2> HIDE DEF Good
  <2>2. Good = 0 .. N
    BY <1>1, <1>3, <1>4, <2>1, BoundedInduction
  <2> QED
    BY <1>1, <2>2
<1> QED
  BY <1>2, <1>5, FirstFacts

\* The fold of RangeQueueIntersect walks the first list.
LEMMA IntersectWalk ==
  ASSUME NEW b \in Seq(RangeType), NEW list \in Seq(RangeType)
  PROVE  \E at : /\ at[0] = <<>>
                 /\ \A n \in 1 .. Len(list) : at[n] = AddMeets(at[n - 1], list[n], b)
                 /\ RangeQueueIntersect(list, b) = at[Len(list)]
<1> DEFINE S == CanonLists
           N == Len(list)
           Eq(it) == it = [s \in SUBSET (1 .. N) |->
                             IF s = {} THEN <<>>
                             ELSE AddMeets(it[s \ {Max(s)}], list[Max(s)], b)]
           step == [p \in S \X Nat |-> IF p[2] \in 1 .. N THEN AddMeets(p[1], list[p[2]], b)
                                       ELSE p[1]]
           g == CHOOSE it : Eq(it)
<1>1. N \in Nat /\ DOMAIN list = 1 .. N /\ <<>> \in S
  BY EmptyList
<1>2. step \in [S \X Nat -> S]
  <2>1. \A n \in 1 .. N : list[n] \in RangeType
    OBVIOUS
  <2>2. \A a \in S, n \in Nat : n \in 1 .. N => AddMeets(a, list[n], b) \in S
    BY <2>1, CanonFacts, AddMeetsCanon
  <2> HIDE DEF S
  <2> QED
    BY <2>2
<1>3. \E it : Eq(it)
  <2> HIDE DEF S, step
  <2>1. PICK it \in [SUBSET (1 .. N) -> S] : IsWalk(it, N, <<>>, step)
    BY <1>1, <1>2, WalkExists
  <2>2. \A s \in SUBSET (1 .. N) :
          s # {} => step[<<it[s \ {Max(s)}], Max(s)>>]
                      = AddMeets(it[s \ {Max(s)}], list[Max(s)], b)
    <3> TAKE s \in SUBSET (1 .. N)
    <3>1. HAVE s # {}
    <3>2. Max(s) \in 1 .. N /\ s \ {Max(s)} \in SUBSET (1 .. N)
      BY <1>1, <3>1, MaxOf
    <3>3. it[s \ {Max(s)}] \in S /\ Max(s) \in Nat
      BY <1>1, <2>1, <3>2
    <3> QED
      BY <3>2, <3>3 DEF step
  <2>3. Eq(it)
    BY <2>1, <2>2 DEF IsWalk
  <2> QED
    BY <2>3
<1>4. Eq(g)
  BY <1>3
<1>5. RangeQueueIntersect(list, b) = g[1 .. N]
  BY <1>1 DEF RangeQueueIntersect, List!FoldLeft, List!MapThenFoldSet, List!Max, Max
<1> HIDE DEF g
<1> DEFINE at == [n \in 0 .. N |-> g[1 .. n]]
<1>6. at[0] = <<>>
  <2>1. 1 .. 0 = {}
    OBVIOUS
  <2> QED
    BY <1>1, <1>4, <2>1
<1>7. \A n \in 1 .. N : at[n] = AddMeets(at[n - 1], list[n], b)
  <2> TAKE n \in 1 .. N
  <2> HIDE DEF N
  <2>1. n - 1 \in 0 .. N /\ n \in 0 .. N /\ 1 .. n \in SUBSET (1 .. N) /\ 1 .. n # {}
        /\ Max(1 .. n) = n /\ (1 .. n) \ {n} = 1 .. n - 1
    BY <1>1, WalkPoint
  <2>2. g[1 .. n] = AddMeets(g[(1 .. n) \ {Max(1 .. n)}], list[Max(1 .. n)], b)
    BY <1>4, <2>1
  <2> QED
    BY <2>1, <2>2
<1>8. RangeQueueIntersect(list, b) = at[N]
  <2>1. at[N] = g[1 .. N]
    BY <1>1
  <2> QED
    BY <1>5, <2>1
<1> HIDE DEF at
<1> QED
  BY <1>6, <1>7, <1>8

LEMMA IntersectCanon ==
  ASSUME NEW b \in Seq(RangeType), NEW list \in Seq(RangeType)
  PROVE  /\ Canon(RangeQueueIntersect(list, b))
         /\ Of(RangeQueueIntersect(list, b)) = Of(list) \cap Of(b)
<1> DEFINE N == Len(list)
<1>1. N \in Nat /\ \A n \in 1 .. N : list[n] \in RangeType
  OBVIOUS
<1>2. PICK at : /\ at[0] = <<>>
                /\ \A n \in 1 .. N : at[n] = AddMeets(at[n - 1], list[n], b)
                /\ RangeQueueIntersect(list, b) = at[N]
  BY IntersectWalk
<1> DEFINE Good == {n \in 0 .. N : Canon(at[n]) /\ Of(at[n]) = FirstOf(list, n) \cap Of(b)}
<1>3. 0 \in Good
  BY <1>1, <1>2, FirstFacts, EmptyList
<1>4. ASSUME NEW n \in Good, n < N PROVE n + 1 \in Good
  <2>1. n \in Nat /\ n + 1 \in 0 .. N /\ n + 1 \in 1 .. N /\ (n + 1) - 1 = n
    BY <1>1, <1>4
  <2>2. at[n + 1] = AddMeets(at[n], list[n + 1], b) /\ list[n + 1] \in RangeType
    BY <1>1, <1>2, <2>1
  <2>3. Canon(at[n + 1]) /\ Of(at[n + 1]) = Of(at[n]) \cup (Positions(list[n + 1]) \cap Of(b))
    BY <2>2, AddMeetsCanon
  <2>4. FirstOf(list, n + 1) = FirstOf(list, n) \cup Positions(list[n + 1])
    BY <2>1, FirstFacts
  <2> QED
    BY <2>1, <2>3, <2>4
<1>5. N \in Good
  <2>1. Good \in SUBSET (0 .. N)
    OBVIOUS
  <2> HIDE DEF Good
  <2>2. Good = 0 .. N
    BY <1>1, <1>3, <1>4, <2>1, BoundedInduction
  <2> QED
    BY <1>1, <2>2
<1> QED
  BY <1>2, <1>5, FirstFacts

-----------------------------------------------------------------------------
(***************************************************************************)
(* A canonical list is determined by its positions.  Where two lists agree *)
(* on the first n ranges and hold the same positions, they agree on the    *)
(* next: neither can begin or end before the other.                        *)
(***************************************************************************)
Same(a, b, n) ==
  /\ Canon(a) /\ Canon(b) /\ Of(a) = Of(b)
  /\ n \in Nat /\ n <= Len(a) /\ n <= Len(b)
  /\ \A k \in 1 .. n : a[k] = b[k]

LEMMA CanonOrder ==
  ASSUME NEW a, Canon(a)
  PROVE  /\ a \in Seq(RangeType) /\ Len(a) \in Nat
         /\ \A j \in 1 .. Len(a) : /\ a[j] \in RangeType /\ a[j].pos \in Nat /\ a[j].len \in Nat
                                   /\ End(a[j]) \in Nat /\ a[j].pos < End(a[j])
         /\ \A j, k \in 1 .. Len(a) : j < k => End(a[j]) < a[k].pos
         /\ \A j, k \in 1 .. Len(a) : j <= k => a[j].pos <= a[k].pos /\ End(a[j]) <= End(a[k])
<1>1. /\ a \in Seq(RangeType) /\ Len(a) \in Nat
      /\ \A j \in 1 .. Len(a) : /\ a[j] \in RangeType /\ a[j].pos \in Nat /\ a[j].len \in Nat
                                /\ End(a[j]) = a[j].pos + a[j].len /\ a[j].len > 0
      /\ \A j, k \in 1 .. Len(a) : j < k => End(a[j]) < a[k].pos
  BY ListFacts DEF Canon
<1>2. \A j \in 1 .. Len(a) : End(a[j]) \in Nat /\ a[j].pos < End(a[j])
  BY <1>1
<1>3. ASSUME NEW j \in 1 .. Len(a), NEW k \in 1 .. Len(a), j <= k
      PROVE  a[j].pos <= a[k].pos /\ End(a[j]) <= End(a[k])
  <2>1. CASE j = k
    BY <1>1, <1>2, <2>1
  <2>2. CASE j < k
    <3>1. End(a[j]) < a[k].pos
      BY <1>1, <2>2
    <3> QED
      BY <1>1, <1>2, <3>1
  <2> QED
    BY <1>3, <2>1, <2>2
<1> QED
  BY <1>1, <1>2, <1>3

\* The next range of a does not begin before that of b, which exists.
LEMMA SameBegin ==
  ASSUME NEW a, NEW b, NEW n, Same(a, b, n), n < Len(a)
  PROVE  n + 1 <= Len(b) /\ b[n + 1].pos <= a[n + 1].pos
<1>1. /\ Canon(a) /\ Canon(b) /\ Of(a) = Of(b)
      /\ n \in Nat /\ n <= Len(b)
      /\ \A k \in 1 .. n : a[k] = b[k]
  BY DEF Same
<1>2. Len(a) \in Nat /\ Len(b) \in Nat /\ a \in Seq(RangeType) /\ b \in Seq(RangeType)
  BY <1>1, CanonOrder
<1>3. n + 1 \in 1 .. Len(a) /\ \A k \in 1 .. n : k \in 1 .. Len(a) /\ k < n + 1
  BY <1>1, <1>2
<1>4. a[n + 1].pos \in Nat /\ a[n + 1].pos < End(a[n + 1])
  BY <1>1, <1>3, CanonOrder
<1>5. a[n + 1].pos \in Of(b)
  <2>1. a[n + 1].pos <= a[n + 1].pos /\ a[n + 1].pos \in Int
    BY <1>4
  <2>2. \E j \in 1 .. Len(a) : a[j].pos <= a[n + 1].pos /\ a[n + 1].pos < End(a[j])
    BY <1>3, <1>4, <2>1
  <2>3. a[n + 1].pos \in Of(a)
    BY <1>2, <2>1, <2>2, ListFacts
  <2> QED
    BY <1>1, <2>3
<1>6. PICK j \in 1 .. Len(b) : b[j].pos <= a[n + 1].pos /\ a[n + 1].pos < End(b[j])
  <2>1. \A x \in Int : x \in Of(b) <=>
          \E j \in 1 .. Len(b) : b[j].pos <= x /\ x < End(b[j])
    BY <1>2, ListFacts
  <2>2. a[n + 1].pos \in Int
    BY <1>4
  <2> QED
    BY <1>5, <2>1, <2>2
<1>7. j > n
  <2> SUFFICES ASSUME j \in 1 .. n PROVE FALSE
    BY <1>1, <1>2
  <2>1. a[j] = b[j] /\ End(a[j]) < a[n + 1].pos /\ End(a[j]) \in Nat
    BY <1>1, <1>3, CanonOrder
  <2> QED
    BY <1>4, <1>6, <2>1
<1>8. n + 1 \in 1 .. Len(b) /\ n + 1 <= j
  BY <1>1, <1>2, <1>7
<1>9. b[n + 1].pos <= b[j].pos /\ b[n + 1].pos \in Nat /\ b[j].pos \in Nat
  BY <1>1, <1>8, CanonOrder
<1> QED
  BY <1>1, <1>4, <1>6, <1>8, <1>9

\* If both begin at one position, that of b does not end after that of a.
LEMMA SameEnd ==
  ASSUME NEW a, NEW b, NEW n, Same(a, b, n), n < Len(a), n < Len(b),
         a[n + 1].pos = b[n + 1].pos
  PROVE  End(b[n + 1]) <= End(a[n + 1])
<1>1. Canon(a) /\ Canon(b) /\ Of(a) = Of(b) /\ n \in Nat
  BY DEF Same
<1>2. Len(a) \in Nat /\ Len(b) \in Nat /\ a \in Seq(RangeType) /\ b \in Seq(RangeType)
  BY <1>1, CanonOrder
<1>3. n + 1 \in 1 .. Len(a) /\ n + 1 \in 1 .. Len(b)
  BY <1>1, <1>2
<1> DEFINE x == End(a[n + 1])
<1>4. x \in Nat /\ a[n + 1].pos \in Nat /\ a[n + 1].pos < x /\ End(b[n + 1]) \in Nat
  BY <1>1, <1>3, CanonOrder
<1>x. x = End(a[n + 1])
  OBVIOUS
<1> HIDE DEF x
<1> SUFFICES ASSUME x < End(b[n + 1]) PROVE FALSE
  BY <1>4, <1>x
<1>5. x \in Of(b)
  <2>1. b[n + 1].pos <= x
    BY <1>4
  <2> QED
    BY <1>2, <1>3, <1>4, <2>1, ListFacts
<1>6. PICK j \in 1 .. Len(a) : a[j].pos <= x /\ x < End(a[j])
  BY <1>1, <1>2, <1>4, <1>5, ListFacts
<1>7. End(a[j]) \in Nat /\ a[j].pos \in Nat
  BY <1>1, CanonOrder
<1>8. CASE j <= n + 1
  <2>1. End(a[j]) <= x
    BY <1>1, <1>3, <1>8, <1>x, CanonOrder
  <2> QED
    BY <1>4, <1>6, <1>7, <2>1
<1>9. CASE n + 1 < j
  <2>1. x < a[j].pos
    BY <1>1, <1>3, <1>9, <1>x, CanonOrder
  <2> QED
    BY <1>4, <1>6, <1>7, <2>1
<1> QED
  BY <1>1, <1>8, <1>9

LEMMA SameNext ==
  ASSUME NEW a, NEW b, NEW n, Same(a, b, n), n < Len(a)
  PROVE  Same(a, b, n + 1)
<1>1. /\ Canon(a) /\ Canon(b) /\ Of(a) = Of(b)
      /\ n \in Nat /\ n <= Len(b)
      /\ \A k \in 1 .. n : a[k] = b[k]
  BY DEF Same
<1>2. Len(a) \in Nat /\ Len(b) \in Nat
  BY <1>1, CanonOrder
<1>3. n + 1 <= Len(b) /\ b[n + 1].pos <= a[n + 1].pos
  BY SameBegin
<1>4. n < Len(b) /\ Same(b, a, n)
  BY <1>1, <1>2, <1>3 DEF Same
<1>5. a[n + 1].pos <= b[n + 1].pos
  BY <1>4, SameBegin
<1>6. n + 1 \in 1 .. Len(a) /\ n + 1 \in 1 .. Len(b)
  BY <1>1, <1>2, <1>3
<1>7. a[n + 1] \in RangeType /\ b[n + 1] \in RangeType
  BY <1>1, <1>6, CanonOrder
<1>8. /\ a[n + 1].pos \in Nat /\ a[n + 1].len \in Nat
      /\ End(a[n + 1]) = a[n + 1].pos + a[n + 1].len
      /\ b[n + 1].pos \in Nat /\ b[n + 1].len \in Nat
      /\ End(b[n + 1]) = b[n + 1].pos + b[n + 1].len
  BY <1>7, RangeFacts
<1>9. a[n + 1].pos = b[n + 1].pos
  BY <1>3, <1>5, <1>8
<1>10. End(b[n + 1]) <= End(a[n + 1]) /\ End(a[n + 1]) <= End(b[n + 1])
  BY <1>4, <1>9, SameEnd
<1>11. a[n + 1].len = b[n + 1].len
  BY <1>8, <1>9, <1>10
<1>12. a[n + 1] = b[n + 1]
  BY <1>7, <1>9, <1>11 DEF RangeType
<1>13. \A k \in 1 .. n + 1 : a[k] = b[k]
  <2>1. \A k \in 1 .. n + 1 : k \in 1 .. n \/ k = n + 1
    BY <1>1
  <2> QED
    BY <1>1, <1>12, <2>1
<1>14. n + 1 <= Len(a) /\ n + 1 \in Nat
  BY <1>1, <1>2
<1> QED
  BY <1>1, <1>3, <1>13, <1>14 DEF Same

LEMMA SameAll ==
  ASSUME NEW a, NEW b, Canon(a), Canon(b), Of(a) = Of(b)
  PROVE  Same(a, b, Len(a))
<1> DEFINE N == Len(a)
           Good == {n \in 0 .. N : Same(a, b, n)}
<1>1. N \in Nat /\ Len(b) \in Nat
  BY CanonOrder
<1>2. 0 \in Good
  <2>1. 0 \in 0 .. N /\ 0 <= Len(a) /\ 0 <= Len(b) /\ 1 .. 0 = {}
    BY <1>1
  <2> QED
    BY <2>1 DEF Same
<1>3. ASSUME NEW n \in Good, n < N PROVE n + 1 \in Good
  <2>1. n + 1 \in 0 .. N
    BY <1>1, <1>3
  <2> QED
    BY <1>3, <2>1, SameNext
<1>4. N \in Good
  <2>1. Good \in SUBSET (0 .. N)
    OBVIOUS
  <2> HIDE DEF Good
  <2>2. Good = 0 .. N
    BY <1>1, <1>2, <1>3, <2>1, BoundedInduction
  <2> QED
    BY <1>1, <2>2
<1> QED
  BY <1>4

LEMMA CanonUnique ==
  ASSUME NEW a, NEW b, Canon(a), Canon(b), Of(a) = Of(b)
  PROVE  Equals(a, b)
<1>1. Same(a, b, Len(a)) /\ Same(b, a, Len(b))
  BY SameAll
<1>2. Len(a) \in Nat /\ Len(b) \in Nat /\ a \in Seq(RangeType)
  BY CanonOrder
<1>3. Len(a) = Len(b) /\ \A k \in 1 .. Len(a) : a[k] = b[k]
  BY <1>1, <1>2 DEF Same
<1> QED
  BY <1>2, <1>3 DEF Equals

-----------------------------------------------------------------------------
(***************************************************************************)
(* The queues.                                                             *)
(***************************************************************************)
BoundedLists == {list \in CanonLists : Of(list) \subseteq 0 .. MaxPos}

\* Every queue is canonical and holds positions callers have named.
QueueIInv == ranges \in [Queues -> BoundedLists]

LEMMA BoundedFacts ==
  ASSUME NEW list \in BoundedLists
  PROVE  /\ Canon(list) /\ list \in Seq(RangeType) /\ Of(list) \subseteq 0 .. MaxPos
         /\ Held(list) = Of(list)
<1>1. Canon(list) /\ list \in Seq(RangeType) /\ Of(list) \subseteq 0 .. MaxPos
  BY DEF BoundedLists, CanonLists
<1>2. DOMAIN list = 1 .. Len(list)
      /\ \A i \in 1 .. Len(list) : list[i].pos \in Nat /\ End(list[i]) \in Nat
  BY <1>1, ListFacts
<1>3. \A x \in Int : x \in Of(list) <=>
        \E i \in 1 .. Len(list) : list[i].pos <= x /\ x < End(list[i])
  BY <1>1, ListFacts
<1>4. \A x \in 0 .. MaxPos : Contain(list, x) <=> x \in Of(list)
  BY <1>2, <1>3, RangeQueueAssumption DEF Contain
<1> QED
  BY <1>1, <1>4 DEF Held

LEMMA ArgFacts ==
  ASSUME NEW r \in RangeArgs
  PROVE  r \in RangeType /\ Positions(r) \subseteq 0 .. MaxPos
<1>1. PICK f \in 0 .. MaxPos, e \in 0 .. MaxPos : r = MakeRange(f, e)
  BY DEF RangeArgs
<1>2. r \in RangeType /\ End(r) = e
  BY <1>1, RangeQueueAssumption DEF RangeArgs, MakeRange, End
<1>3. \A x \in Positions(r) : x \in Nat /\ x < End(r)
  BY <1>2, RangeFacts
<1> QED
  BY <1>1, <1>2, <1>3, RangeQueueAssumption

\* What a call of QueueNext leaves in a queue.
LEMMA CallFacts ==
  ASSUME NEW a \in BoundedLists, NEW b \in BoundedLists, NEW r \in RangeArgs
  PROVE  /\ AddRange(a, r) \in BoundedLists /\ Of(AddRange(a, r)) = Of(a) \cup Positions(r)
         /\ SubstractRange(a, r) \in BoundedLists
         /\ Of(SubstractRange(a, r)) = Of(a) \ Positions(r)
         /\ AddRangeQueue(a, b) \in BoundedLists /\ Of(AddRangeQueue(a, b)) = Of(a) \cup Of(b)
         /\ SubstractRangeQueue(a, b) \in BoundedLists
         /\ Of(SubstractRangeQueue(a, b)) = Of(a) \ Of(b)
         /\ RangeQueueIntersect(a, b) \in BoundedLists
         /\ Of(RangeQueueIntersect(a, b)) = Of(a) \cap Of(b)
<1>1. /\ Canon(a) /\ a \in Seq(RangeType) /\ Of(a) \subseteq 0 .. MaxPos
      /\ Canon(b) /\ b \in Seq(RangeType) /\ Of(b) \subseteq 0 .. MaxPos
      /\ r \in RangeType /\ Positions(r) \subseteq 0 .. MaxPos
  BY BoundedFacts, ArgFacts
<1>2. Canon(AddRange(a, r)) /\ Of(AddRange(a, r)) = Of(a) \cup Positions(r)
  BY <1>1, AddRangeCanon
<1>3. Canon(SubstractRange(a, r)) /\ Of(SubstractRange(a, r)) = Of(a) \ Positions(r)
  BY <1>1, SubstractRangeCanon
<1>4. Canon(AddRangeQueue(a, b)) /\ Of(AddRangeQueue(a, b)) = Of(a) \cup Of(b)
  BY <1>1, AddRangeQueueCanon
<1>5. Canon(SubstractRangeQueue(a, b)) /\ Of(SubstractRangeQueue(a, b)) = Of(a) \ Of(b)
  BY <1>1, SubstractRangeQueueCanon
<1>6. Canon(RangeQueueIntersect(a, b)) /\ Of(RangeQueueIntersect(a, b)) = Of(a) \cap Of(b)
  BY <1>1, IntersectCanon
<1>7. \A list : Canon(list) /\ Of(list) \subseteq 0 .. MaxPos => list \in BoundedLists
  BY DEF BoundedLists, CanonLists, Canon
<1>8. /\ AddRange(a, r) \in BoundedLists /\ SubstractRange(a, r) \in BoundedLists
  BY <1>1, <1>2, <1>3, <1>7
<1>9. /\ AddRangeQueue(a, b) \in BoundedLists /\ SubstractRangeQueue(a, b) \in BoundedLists
      /\ RangeQueueIntersect(a, b) \in BoundedLists
  BY <1>1, <1>4, <1>5, <1>6, <1>7
<1> QED
  BY <1>2, <1>3, <1>4, <1>5, <1>6, <1>8, <1>9

\* Putting a list in a queue puts its positions in the set.
LEMMA PutHeld ==
  ASSUME QueueIInv, NEW q \in Queues, NEW list \in BoundedLists, Put(q, list)
  PROVE  QueueIInv' /\ Sets!Put(q, Of(list))
<1>1. ranges \in [Queues -> BoundedLists] /\ ranges' = [ranges EXCEPT ![q] = list]
  BY DEF QueueIInv, Put
<1>2. ranges' \in [Queues -> BoundedLists]
  BY <1>1
<1>3. Held(list) = Of(list)
  BY BoundedFacts
<1>4. [p \in Queues |-> Held(ranges'[p])] = [[p \in Queues |-> Held(ranges[p])] EXCEPT ![q] = Of(list)]
  BY <1>1, <1>3, Zenon
<1> QED
  BY <1>2, <1>4 DEF QueueIInv, Sets!Put

LEMMA QueueStart ==
  ASSUME QueueInit
  PROVE  QueueIInv /\ Sets!Init
<1>1. <<>> \in BoundedLists /\ Held(<<>>) = {}
  <2>1. <<>> \in BoundedLists
    BY EmptyList DEF BoundedLists
  <2> QED
    BY <2>1, BoundedFacts, EmptyList
<1>2. ranges = [q \in Queues |-> <<>>]
  BY DEF QueueInit
<1>3. QueueIInv
  BY <1>1, <1>2 DEF QueueIInv
<1>4. [q \in Queues |-> Held(ranges[q])] = [q \in Queues |-> {}]
  BY <1>1, <1>2, Zenon
<1> QED
  BY <1>3, <1>4 DEF Sets!Init

LEMMA QueueStep ==
  ASSUME QueueIInv, [QueueNext]_ranges
  PROVE  QueueIInv' /\ [Sets!Next]_[q \in Queues |-> Held(ranges[q])]
<1>1. CASE UNCHANGED ranges
  <2>1. QueueIInv'
    BY <1>1 DEF QueueIInv
  <2>2. [q \in Queues |-> Held(ranges'[q])] = [q \in Queues |-> Held(ranges[q])]
    BY <1>1
  <2> QED
    BY <2>1, <2>2
<1>2. CASE QueueNext
  <2>1. \A q \in Queues : ranges[q] \in BoundedLists /\ Held(ranges[q]) = Of(ranges[q])
    BY BoundedFacts DEF QueueIInv
  <2>2. \A q \in Queues : [p \in Queues |-> Held(ranges[p])][q] = Of(ranges[q])
    BY <2>1
  <2>3. PICK q \in Queues :
          \/ \E r \in RangeArgs :
               Put(q, AddRange(ranges[q], r)) \/ Put(q, SubstractRange(ranges[q], r))
          \/ \E p \in Queues \ {q} :
               \/ Put(q, AddRangeQueue(ranges[q], ranges[p]))
               \/ Put(q, SubstractRangeQueue(ranges[q], ranges[p]))
          \/ \E p, s \in Queues : Put(q, RangeQueueIntersect(ranges[p], ranges[s]))
    BY <1>2, Zenon DEF QueueNext
  <2> DEFINE held == [p \in Queues |-> Held(ranges[p])]
             Segs == {Positions(r) : r \in RangeArgs}
  <2>n. Sets!Next <=>
          \E t \in Queues :
            \/ \E S \in Segs : Sets!Put(t, held[t] \cup S) \/ Sets!Put(t, held[t] \ S)
            \/ \E p \in Queues :
                 \/ Sets!Put(t, held[t] \cup held[p])
                 \/ Sets!Put(t, held[t] \ held[p])
                 \/ \E r \in Queues : Sets!Put(t, held[p] \cap held[r])
    BY Zenon DEF Sets!Next
  <2> HIDE DEF held, Segs
  <2>h. \A p \in Queues : held[p] = Of(ranges[p])
    BY <2>2 DEF held
  <2>4. ASSUME NEW r \in RangeArgs,
               Put(q, AddRange(ranges[q], r)) \/ Put(q, SubstractRange(ranges[q], r))
        PROVE  QueueIInv' /\ Sets!Next
    <3>1. Positions(r) \in Segs
      BY DEF Segs
    <3>2. /\ AddRange(ranges[q], r) \in BoundedLists
          /\ Of(AddRange(ranges[q], r)) = held[q] \cup Positions(r)
          /\ SubstractRange(ranges[q], r) \in BoundedLists
          /\ Of(SubstractRange(ranges[q], r)) = held[q] \ Positions(r)
      BY <2>1, <2>h, CallFacts
    <3>3. CASE Put(q, AddRange(ranges[q], r))
      <4>1. QueueIInv' /\ Sets!Put(q, held[q] \cup Positions(r))
        BY <3>2, <3>3, PutHeld
      <4> QED
        BY <2>n, <3>1, <4>1, Zenon
    <3>4. CASE Put(q, SubstractRange(ranges[q], r))
      <4>1. QueueIInv' /\ Sets!Put(q, held[q] \ Positions(r))
        BY <3>2, <3>4, PutHeld
      <4> QED
        BY <2>n, <3>1, <4>1, Zenon
    <3> QED
      BY <2>4, <3>3, <3>4
  <2>a. PICK any : any \in RangeArgs
    <3>1. MakeRange(0, 0) \in RangeArgs
      BY RangeQueueAssumption DEF RangeArgs, MakeRange, RangeType
    <3> QED
      BY <3>1
  <2>5. ASSUME NEW p \in Queues,
               \/ Put(q, AddRangeQueue(ranges[q], ranges[p]))
               \/ Put(q, SubstractRangeQueue(ranges[q], ranges[p]))
        PROVE  QueueIInv' /\ Sets!Next
    <3>1. /\ AddRangeQueue(ranges[q], ranges[p]) \in BoundedLists
          /\ Of(AddRangeQueue(ranges[q], ranges[p])) = held[q] \cup held[p]
          /\ SubstractRangeQueue(ranges[q], ranges[p]) \in BoundedLists
          /\ Of(SubstractRangeQueue(ranges[q], ranges[p])) = held[q] \ held[p]
      BY <2>1, <2>a, <2>h, CallFacts
    <3>2. CASE Put(q, AddRangeQueue(ranges[q], ranges[p]))
      <4>1. QueueIInv' /\ Sets!Put(q, held[q] \cup held[p])
        BY <3>1, <3>2, PutHeld
      <4> QED
        BY <2>n, <4>1, Zenon
    <3>3. CASE Put(q, SubstractRangeQueue(ranges[q], ranges[p]))
      <4>1. QueueIInv' /\ Sets!Put(q, held[q] \ held[p])
        BY <3>1, <3>3, PutHeld
      <4> QED
        BY <2>n, <4>1, Zenon
    <3> QED
      BY <2>5, <3>2, <3>3
  <2>6. ASSUME NEW p \in Queues, NEW s \in Queues,
               Put(q, RangeQueueIntersect(ranges[p], ranges[s]))
        PROVE  QueueIInv' /\ Sets!Next
    <3>1. /\ RangeQueueIntersect(ranges[p], ranges[s]) \in BoundedLists
          /\ Of(RangeQueueIntersect(ranges[p], ranges[s])) = held[p] \cap held[s]
      BY <2>1, <2>a, <2>h, CallFacts
    <3>2. QueueIInv' /\ Sets!Put(q, held[p] \cap held[s])
      BY <2>6, <3>1, PutHeld
    <3> QED
      BY <2>n, <3>2, Zenon
  <2>7. QueueIInv' /\ Sets!Next
    BY <2>3, <2>4, <2>5, <2>6, Zenon
  <2> QED
    BY <2>7
<1> QED
  BY <1>1, <1>2

LEMMA QueueIInvCanonical ==
  ASSUME QueueIInv
  PROVE  Canonical
<1>1. \A q \in Queues : ranges[q] \in BoundedLists
  BY DEF QueueIInv
<1>2. ASSUME NEW q \in Queues
      PROVE  /\ \A i \in DOMAIN ranges[q] : ranges[q][i].len > 0
             /\ \A i \in 1 .. Len(ranges[q]) - 1 : End(ranges[q][i]) < ranges[q][i + 1].pos
  <2>1. Canon(ranges[q]) /\ ranges[q] \in Seq(RangeType)
    BY <1>1, BoundedFacts
  <2>2. DOMAIN ranges[q] = 1 .. Len(ranges[q]) /\ Len(ranges[q]) \in Nat
    BY <2>1, ListFacts
  <2>3. \A i \in 1 .. Len(ranges[q]) - 1 :
          i \in 1 .. Len(ranges[q]) /\ i + 1 \in 1 .. Len(ranges[q]) /\ i < i + 1
    BY <2>2
  <2> QED
    BY <2>1, <2>2, <2>3 DEF Canon
<1>3. ASSUME NEW p \in Queues, NEW q \in Queues
      PROVE  Equals(ranges[p], ranges[q]) <=> Held(ranges[p]) = Held(ranges[q])
  <2> DEFINE a == ranges[p]
             b == ranges[q]
  <2>1. /\ Canon(a) /\ a \in Seq(RangeType) /\ Held(a) = Of(a)
        /\ Canon(b) /\ b \in Seq(RangeType) /\ Held(b) = Of(b)
    BY <1>1, BoundedFacts
  <2> HIDE DEF a, b
  <2>2. ASSUME Equals(a, b) PROVE Held(a) = Held(b)
    <3>1. a = b
      BY <2>1, <2>2, SeqEqual DEF Equals
    <3> QED
      BY <3>1
  <2>3. ASSUME Held(a) = Held(b) PROVE Equals(a, b)
    BY <2>1, <2>3, CanonUnique
  <2> QED
    BY <2>2, <2>3 DEF a, b
<1> QED
  BY <1>2, <1>3 DEF Canonical

(***************************************************************************)
(* Every queue stays a list of ranges in order and apart, so that Equals   *)
(* compares the positions of two queues: range.go, whatever calls are made *)
(* on whatever number of queues and of positions.                          *)
(***************************************************************************)
THEOREM QueuesCanonical == QueueSpec => []Canonical
<1>1. QueueInit => QueueIInv
  BY QueueStart
<1>2. QueueIInv /\ [QueueNext]_ranges => QueueIInv'
  BY QueueStep
<1>3. QueueIInv => Canonical
  BY QueueIInvCanonical
<1> QED
  BY <1>1, <1>2, <1>3, PTL DEF QueueSpec

(***************************************************************************)
(* The queues implement sets of positions: AddRange and AddRangeQueue are  *)
(* the union, SubstractRange and SubstractRangeQueue the difference, and   *)
(* RangeQueueIntersect is the intersection, of what Contain answers.       *)
(***************************************************************************)
THEOREM QueuesAreSets == QueueSpec => IsRangeSet
<1>1. QueueInit => QueueIInv /\ Sets!Init
  BY QueueStart
<1>2. QueueIInv /\ [QueueNext]_ranges
        => QueueIInv' /\ [Sets!Next]_[q \in Queues |-> Held(ranges[q])]
  BY QueueStep
<1> QED
  BY <1>1, <1>2, PTL DEF QueueSpec, IsRangeSet, Sets!Spec
=============================================================================
