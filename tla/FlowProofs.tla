----------------------------- MODULE FlowProofs -----------------------------
(***************************************************************************)
(* The safety properties of a flow, for all values of the constants: any   *)
(* segment size, windows, limits, number and sizes of messages, and a      *)
(* network that loses, reorders and duplicates.                            *)
(*                                                                         *)
(* One assumption is added to those of the modules: no message is empty.   *)
(* An empty message is not delivered: recv() takes the empty result of     *)
(* read_message for "no message yet".                                      *)
(*                                                                         *)
(* First come the algebra of Bytes, the sizes of fragments and what        *)
(* try_send does to a queue of chunks, whatever called it; then IInv, with *)
(* one lemma per action, after lemmas that say what an action that leaves  *)
(* a part of the state alone, or only extends it, preserves; then the      *)
(* theorems.                                                               *)
(***************************************************************************)
EXTENDS FlowInv, FiniteSetTheorems, WellFoundedInduction, TLAPS

(***************************************************************************)
(* A set of sequence numbers has a least element and, when it is bounded,  *)
(* a greatest one.                                                         *)
(***************************************************************************)
Less == {p \in Nat \X Nat : p[1] < p[2]}

(***************************************************************************)
(* The order on sequence numbers and indices has no infinite descent.      *)
(***************************************************************************)
LEMMA LessWellFounded == IsWellFoundedOn(Less, Nat)
<1>1. Less = OpToRel(<, Nat)
  BY Zenon DEF OpToRel, Less
<1> QED
  BY <1>1, NatLessThanWellFounded, Zenon

(***************************************************************************)
(* A set of sequence numbers or indices that is not empty has a least one: *)
(* the oldest chunk of a heap, the first end of a message.                 *)
(***************************************************************************)
LEMMA LeastElement ==
  ASSUME NEW S, S \subseteq Nat, S # {}
  PROVE  \E x \in S : \A y \in S : x <= y
<1>1. PICK x \in S : \A y \in S : <<y, x>> \notin Less
  BY LessWellFounded, WFMin
<1>2. \A y \in S : ~ (y < x)
  BY <1>1 DEF Less
<1> QED
  BY <1>1, <1>2

(***************************************************************************)
(* A bounded set of sequence numbers that is not empty has a greatest one: *)
(* the end of a run of chunks.                                             *)
(***************************************************************************)
LEMMA GreatestElement ==
  ASSUME NEW S, NEW n \in Nat, S \subseteq 0 .. n, S # {}
  PROVE  \E x \in S : \A y \in S : y <= x
<1> DEFINE T == {k \in Nat : n - k \in S}
<1>1. T # {}
  <2>1. PICK s \in S : TRUE
    OBVIOUS
  <2>2. n - s \in Nat /\ n - (n - s) = s
    BY <2>1
  <2> QED
    BY <2>1, <2>2
<1>2. PICK k \in T : \A j \in T : k <= j
  BY <1>1, LeastElement
<1>3. \A y \in S : y <= n - k
  <2> SUFFICES ASSUME NEW y \in S PROVE y <= n - k
    OBVIOUS
  <2>1. n - y \in Nat /\ n - (n - y) = y
    OBVIOUS
  <2>2. k <= n - y
    BY <1>2, <2>1
  <2> QED
    BY <2>2
<1> QED
  BY <1>2, <1>3

(***************************************************************************)
(* A finite set of chunks holds a natural number of bytes.                 *)
(***************************************************************************)
LEMMA BytesFinite ==
  ASSUME NEW f, NEW S, IsFiniteSet(S)
  PROVE  IsFiniteSet(BytePositions(f, S)) /\ Bytes(f, S) \in Nat
<1>1. IsFiniteSet(1 .. SMSS)
  BY SMSSAssumption, FS_Interval
<1>2. IsFiniteSet(S \X (1 .. SMSS))
  BY <1>1, FS_Product
<1>3. BytePositions(f, S) \in SUBSET (S \X (1 .. SMSS))
  BY DEF BytePositions
<1>4. IsFiniteSet(BytePositions(f, S))
  BY <1>2, <1>3, FS_Subset
<1> QED
  BY <1>4, FS_CardinalityType DEF Bytes

(***************************************************************************)
(* No chunk, no byte.                                                      *)
(***************************************************************************)
LEMMA BytesEmpty == ASSUME NEW f PROVE Bytes(f, {}) = 0
<1>1. BytePositions(f, {}) = {}
  BY DEF BytePositions
<1> QED
  BY <1>1, FS_EmptySet DEF Bytes

(***************************************************************************)
(* The bytes of two disjoint sets of chunks add up.                        *)
(***************************************************************************)
LEMMA BytesUnion ==
  ASSUME NEW f, NEW S, NEW T, IsFiniteSet(S), IsFiniteSet(T), S \cap T = {}
  PROVE  Bytes(f, S \cup T) = Bytes(f, S) + Bytes(f, T)
<1> DEFINE A == BytePositions(f, S)
           B == BytePositions(f, T)
<1>1. IsFiniteSet(A) /\ IsFiniteSet(B)
  BY BytesFinite
<1>2. A \cap B = {}
  BY DEF BytePositions
<1>3. BytePositions(f, S \cup T) = A \cup B
  BY DEF BytePositions
<1>4. Cardinality(A \cap B) = 0
  BY <1>2, FS_EmptySet
<1>5. Cardinality(A \cup B) = Cardinality(A) + Cardinality(B) - Cardinality(A \cap B)
  BY <1>1, FS_Union
<1>6. Cardinality(A) \in Nat /\ Cardinality(B) \in Nat
  BY <1>1, FS_CardinalityType
<1> HIDE DEF A, B
<1>7. Cardinality(A \cup B) = Cardinality(A) + Cardinality(B)
  BY <1>4, <1>5, <1>6
<1> QED
  BY <1>3, <1>7 DEF Bytes, A, B

(***************************************************************************)
(* The bytes of a set are those of a part of it and those of the rest.     *)
(***************************************************************************)
LEMMA BytesSplit ==
  ASSUME NEW f, NEW S, NEW T, IsFiniteSet(S), T \subseteq S
  PROVE  /\ Bytes(f, S) = Bytes(f, T) + Bytes(f, S \ T)
         /\ Bytes(f, S) - Bytes(f, T) = Bytes(f, S \ T)
         /\ Bytes(f, T) <= Bytes(f, S)
<1>1. IsFiniteSet(T) /\ IsFiniteSet(S \ T)
  BY FS_Subset, FS_Difference
<1>2. T \cup (S \ T) = S /\ T \cap (S \ T) = {}
  OBVIOUS
<1>3. Bytes(f, T \cup (S \ T)) = Bytes(f, T) + Bytes(f, S \ T)
  BY <1>1, <1>2, BytesUnion
<1>4. Bytes(f, T) \in Nat /\ Bytes(f, S \ T) \in Nat
  BY <1>1, BytesFinite
<1>5. Bytes(f, S) = Bytes(f, T) + Bytes(f, S \ T)
  BY <1>2, <1>3, Zenon
<1> QED
  BY <1>4, <1>5

(***************************************************************************)
(* Only the lengths of the chunks counted matter.                          *)
(***************************************************************************)
LEMMA BytesSame ==
  ASSUME NEW f, NEW g, NEW S, \A s \in S : f[s].data.len = g[s].data.len
  PROVE  Bytes(f, S) = Bytes(g, S)
<1>1. BytePositions(f, S) = BytePositions(g, S)
  BY DEF BytePositions
<1> QED
  BY <1>1 DEF Bytes

(***************************************************************************)
(* One chunk holds as many bytes as it is long.                            *)
(***************************************************************************)
LEMMA BytesOne ==
  ASSUME NEW f, NEW s, f[s].data.len \in 0 .. SMSS
  PROVE  Bytes(f, {s}) = f[s].data.len
<1>1. PICK n \in Nat : n = f[s].data.len /\ n <= SMSS
  BY SMSSAssumption
<1>2. BytePositions(f, {s}) = {s} \X (1 .. n)
  BY <1>1, SMSSAssumption DEF BytePositions
<1>3. IsFiniteSet({s}) /\ Cardinality({s}) = 1
  BY FS_Singleton
<1>4. IsFiniteSet(1 .. n) /\ Cardinality(1 .. n) = n
  BY FS_Interval
<1>5. Cardinality({s} \X (1 .. n)) = Cardinality({s}) * Cardinality(1 .. n)
  BY <1>3, <1>4, FS_Product, Zenon
<1>6. Cardinality({s} \X (1 .. n)) = n
  BY <1>3, <1>4, <1>5
<1> QED
  BY <1>1, <1>2, <1>6 DEF Bytes

(***************************************************************************)
(* The chunks of a buffer hold as many bytes as the same chunks counted    *)
(* under other numbers, r further on.                                      *)
(***************************************************************************)
LEMMA BytesShift ==
  ASSUME NEW f, NEW g, NEW r \in Nat, NEW n \in Nat,
         \A i \in 1 .. n : g[i].data.len = f[r + i].data.len
  PROVE  Bytes(g, 1 .. n) = Bytes(f, r + 1 .. r + n)
<1> DEFINE A == BytePositions(g, 1 .. n)
           B == BytePositions(f, r + 1 .. r + n)
           h == [p \in A |-> <<r + p[1], p[2]>>]
<1>1. IsFiniteSet(A)
  BY FS_Interval, BytesFinite
<1>2. h \in [A -> B]
  <2> SUFFICES ASSUME NEW p \in A PROVE <<r + p[1], p[2]>> \in B
    OBVIOUS
  <2>1. p[1] \in 1 .. n /\ p[2] \in 1 .. SMSS /\ p[2] <= g[p[1]].data.len
    BY DEF BytePositions
  <2>2. r + p[1] \in r + 1 .. r + n
    BY <2>1
  <2> QED
    BY <2>1, <2>2 DEF BytePositions
<1>3. \A p, q \in A : h[p] = h[q] => p = q
  <2> SUFFICES ASSUME NEW p \in A, NEW q \in A, h[p] = h[q] PROVE p = q
    OBVIOUS
  <2>1. p[1] \in 1 .. n /\ q[1] \in 1 .. n /\ p = <<p[1], p[2]>> /\ q = <<q[1], q[2]>>
    BY DEF BytePositions
  <2>2. r + p[1] = r + q[1] /\ p[2] = q[2]
    OBVIOUS
  <2> QED
    BY <2>1, <2>2
<1>4. \A b \in B : \E p \in A : h[p] = b
  <2> SUFFICES ASSUME NEW b \in B PROVE \E p \in A : h[p] = b
    OBVIOUS
  <2>1. /\ b[1] \in r + 1 .. r + n /\ b[2] \in 1 .. SMSS
        /\ b[2] <= f[b[1]].data.len /\ b = <<b[1], b[2]>>
    BY DEF BytePositions
  <2> DEFINE i == b[1] - r
  <2>2. i \in 1 .. n /\ r + i = b[1]
    BY <2>1
  <2>3. g[i].data.len = f[b[1]].data.len
    BY <2>2
  <2>4. <<i, b[2]>> \in A
    BY <2>1, <2>2, <2>3 DEF BytePositions
  <2>5. h[<<i, b[2]>>] = b
    BY <2>1, <2>2, <2>4
  <2> QED
    BY <2>4, <2>5
<1>5. h \in Bijection(A, B)
  BY <1>2, <1>3, <1>4 DEF Bijection, Injection, Surjection, IsInjective
<1>6. ExistsBijection(A, B)
  BY <1>5 DEF ExistsBijection
<1>7. Cardinality(B) = Cardinality(A)
  BY <1>1, <1>6, FS_Bijection
<1> QED
  BY <1>7 DEF Bytes

-----------------------------------------------------------------------------
(***************************************************************************)
(* The index of the last fragment of a message of more than a segment: all *)
(* the fragments before it are full, and it is not empty.                  *)
(***************************************************************************)
LEMMA LastFragment ==
  ASSUME NEW len \in Nat, len > SMSS
  PROVE  /\ NumFrags(len) \in Nat \ {0}
         /\ (NumFrags(len) - 1) * SMSS < len
<1> DEFINE a == len + SMSS - 1
           n == a \div SMSS
<1>1. a \in Nat /\ SMSS \in Nat \ {0} /\ a >= SMSS
  BY SMSSAssumption
<1>2. NumFrags(len) = n
  BY SMSSAssumption DEF NumFrags
<1> HIDE DEF a
<1>3. n \in Nat /\ a = n * SMSS + (a % SMSS) /\ a % SMSS \in 0 .. SMSS - 1
  BY <1>1
<1> HIDE DEF n
<1>4. n # 0
  BY <1>1, <1>3
<1>5. (n - 1) * SMSS = n * SMSS - SMSS
  BY <1>1, <1>3
<1>6. (n - 1) * SMSS < len
  BY <1>1, <1>3, <1>5 DEF a
<1> QED
  BY <1>2, <1>3, <1>4, <1>6

(***************************************************************************)
(* A message has at least one fragment, none larger than a segment, and    *)
(* the first is empty only when the message is.                            *)
(***************************************************************************)
LEMMA FragmentSizes ==
  ASSUME NEW len \in Nat
  PROVE  /\ NumFrags(len) \in Nat \ {0}
         /\ \A i \in 1 .. NumFrags(len) : FragLen(len, i) \in 0 .. SMSS
         /\ len > 0 => FragLen(len, 1) > 0
<1>1. FragLen(len, 1) = MinOf(SMSS, len)
  BY SMSSAssumption DEF FragLen
<1>2. len > 0 => FragLen(len, 1) > 0
  BY <1>1, SMSSAssumption DEF MinOf
<1>3. CASE len <= SMSS
  <2>1. NumFrags(len) = 1
    BY <1>3 DEF NumFrags
  <2>2. FragLen(len, 1) \in 0 .. SMSS
    BY <1>1, SMSSAssumption DEF MinOf
  <2> QED
    BY <1>2, <2>1, <2>2
<1>4. CASE len > SMSS
  <2>1. NumFrags(len) \in Nat \ {0} /\ (NumFrags(len) - 1) * SMSS < len
    BY <1>4, LastFragment
  <2>2. ASSUME NEW i \in 1 .. NumFrags(len)
        PROVE  FragLen(len, i) \in 0 .. SMSS
    <3> DEFINE n == NumFrags(len)
    <3>1. n \in Nat /\ (n - 1) * SMSS < len /\ SMSS \in Nat \ {0} /\ i \in 1 .. n
      BY <2>1, SMSSAssumption
    <3> HIDE DEF n
    <3>2. (i - 1) * SMSS <= (n - 1) * SMSS /\ (i - 1) * SMSS \in Nat
      BY <3>1
    <3>3. len - (i - 1) * SMSS \in Nat
      BY <3>1, <3>2
    <3> QED
      BY <3>1, <3>3 DEF FragLen, MinOf
  <2> QED
    BY <1>2, <2>1, <2>2
<1> QED
  BY <1>3, <1>4, SMSSAssumption

-----------------------------------------------------------------------------

(***************************************************************************)
(* A quotient of natural numbers is one, and so is the remainder.          *)
(***************************************************************************)
LEMMA DivisionNat ==
  ASSUME NEW a \in Nat, NEW b \in Nat \ {0}
  PROVE  a \div b \in Nat /\ a % b \in Nat
OBVIOUS

(***************************************************************************)
(* The window arithmetic keeps the congestion window positive.             *)
(***************************************************************************)
LEMMA AIThresholdPositive ==
  ASSUME NEW cw \in Nat, NEW cap \in Nat \ {0}
  PROVE  AIThreshold(cw, cap) \in Nat \ {0}
<1>1. 16 \in Nat \ {0}
  OBVIOUS
<1>2. cw \div 16 \in Nat
  BY <1>1, DivisionNat, Zenon
<1> QED
  BY <1>2, CongestionAssumption DEF AIThreshold, MaxOf, MinOf

(***************************************************************************)
(* The additive increase of the congestion window is a natural number.     *)
(***************************************************************************)
LEMMA IncreaseType ==
  ASSUME NEW acc \in Nat, NEW acked \in Nat, NEW th \in Nat \ {0}, NEW step \in Nat
  PROVE  /\ AdditiveIncrease(acc, acked, th, step).increase \in Nat
         /\ AdditiveIncrease(acc, acked, th, step).acc \in Nat
<1>1. acc + acked \in Nat
  OBVIOUS
<1>2. (acc + acked) \div th \in Nat /\ (acc + acked) % th \in Nat
  BY <1>1, DivisionNat, Zenon
<1>3. step * ((acc + acked) \div th) \in Nat
  BY <1>2
<1> QED
  BY <1>2, <1>3, Zenon DEF AdditiveIncrease

(***************************************************************************)
(* Whatever branch update_congestion_wnd takes, the window grows by a      *)
(* natural number.                                                         *)
(***************************************************************************)
LEMMA GrowthType ==
  ASSUME NEW cw \in Nat, NEW ss, NEW acc \in Nat, NEW acked \in Nat
  PROVE  Growth(cw, ss, acc, acked).increase \in Nat /\ Growth(cw, ss, acc, acked).acc \in Nat
<1>1. AICap \in Nat \ {0} /\ AIStep \in Nat /\ 2 * AIStep \in Nat
      /\ TimeCritical \in BOOLEAN /\ FastGrow \in BOOLEAN
  BY CongestionAssumption
<1>2. AICap \div 2 \in Nat \ {0}
  BY CongestionAssumption
<1>3. (acked + 3) \div 4 \in Nat
  BY DivisionNat
<1> DEFINE cap == IF TimeCritical THEN AICap \div 2 ELSE AICap
<1>4. cap \in Nat \ {0}
  BY <1>1, <1>2
<1> HIDE DEF cap
<1>5. AIThreshold(cw, AICap) \in Nat \ {0} /\ AIThreshold(cw, cap) \in Nat \ {0}
  BY <1>1, <1>4, AIThresholdPositive
<1>6. CASE FastGrow /\ cw < ss
  <2>1. Growth(cw, ss, acc, acked) = [increase |-> acked, acc |-> acc]
    BY <1>6 DEF Growth
  <2> QED
    BY <2>1
<1>7. CASE FastGrow /\ ~ (cw < ss)
  <2>1. Growth(cw, ss, acc, acked)
          = AdditiveIncrease(acc, acked, AIThreshold(cw, AICap), 2 * AIStep)
    BY <1>7 DEF Growth
  <2> QED
    BY <1>1, <1>5, <2>1, IncreaseType, Zenon
<1>8. CASE ~ FastGrow /\ cw < ss /\ TimeCritical
  <2>1. Growth(cw, ss, acc, acked) = [increase |-> (acked + 3) \div 4, acc |-> acc]
    BY <1>8 DEF Growth
  <2> QED
    BY <1>3, <2>1
<1>9. CASE ~ FastGrow /\ ~ (cw < ss /\ TimeCritical)
  <2>1. Growth(cw, ss, acc, acked)
          = AdditiveIncrease(acc, acked, AIThreshold(cw, cap), AIStep)
    BY <1>9 DEF Growth, cap
  <2> QED
    BY <1>1, <1>5, <2>1, IncreaseType, Zenon
<1> QED
  BY <1>1, <1>6, <1>7, <1>8, <1>9

(***************************************************************************)
(* update_congestion_wnd never leaves an empty congestion window.          *)
(***************************************************************************)
LEMMA CongestionWndType ==
  ASSUME NEW cw \in Nat \ {0}, NEW ss \in Nat, NEW acc \in Nat, NEW any_loss, NEW any_nak,
         NEW acked \in Nat, NEW pre \in Nat
  PROVE  LET cc == UpdateCongestionWnd(cw, ss, acc, any_loss, any_nak, acked, pre)
         IN  cc.cong_wnd \in Nat \ {0} /\ cc.ssthresh \in Nat /\ cc.acc \in Nat
<1> DEFINE cc == UpdateCongestionWnd(cw, ss, acc, any_loss, any_nak, acked, pre)
           g  == Growth(cw, ss, acc, acked)
<1>1. g.increase \in Nat /\ g.acc \in Nat
  BY GrowthType
<1> HIDE DEF g
<1>2. CASE any_loss
  <2>1. cc = [cong_wnd |-> SsthreshAfterLoss(pre), ssthresh |-> SsthreshAfterLoss(pre),
              acc |-> 0]
    BY <1>2 DEF UpdateCongestionWnd
  <2>2. (pre * 7) \div 8 \in Nat /\ pre \div 2 \in Nat
    <3>1. pre * 7 \in Nat /\ 8 \in Nat \ {0} /\ 2 \in Nat \ {0}
      OBVIOUS
    <3> QED
      BY <3>1, DivisionNat, Zenon
  <2>3. SsthreshAfterLoss(pre) \in Nat \ {0}
    BY <2>2, CongestionAssumption DEF SsthreshAfterLoss, MaxOf
  <2> QED
    BY <2>1, <2>3
<1>3. CASE ~ any_loss /\ ~ any_nak /\ pre >= cw
  <2>1. cc = [cong_wnd |-> MaxOf(cw + MinOf(g.increase, SMSS), InitCongWnd),
              ssthresh |-> ss, acc |-> g.acc]
    BY <1>3 DEF UpdateCongestionWnd, g
  <2>2. MaxOf(cw + MinOf(g.increase, SMSS), InitCongWnd) \in Nat \ {0}
    BY <1>1, CongestionAssumption, SMSSAssumption DEF MaxOf, MinOf
  <2> QED
    BY <1>1, <2>1, <2>2
<1>4. CASE ~ any_loss /\ ~ (~ any_nak /\ pre >= cw)
  <2>1. cc = [cong_wnd |-> cw, ssthresh |-> ss, acc |-> acc]
    BY <1>4 DEF UpdateCongestionWnd
  <2> QED
    BY <2>1
<1> QED
  BY <1>2, <1>3, <1>4

-----------------------------------------------------------------------------
(***************************************************************************)
(* What a caller hands to try_send: a queue of chunks, the count of the    *)
(* bytes in flight in it, and how much of the burst is spent.              *)
(***************************************************************************)
IsQueue(q, n) == DOMAIN q \subseteq 1 .. n /\ q \in [DOMAIN q -> ChunkType]

(***************************************************************************)
(* The chunks queued are finitely many, and their bytes a natural number.  *)
(***************************************************************************)
LEMMA QueueFinite ==
  ASSUME NEW q, NEW n \in Nat, IsQueue(q, n), NEW S, S \subseteq DOMAIN q
  PROVE  /\ S \subseteq Nat /\ IsFiniteSet(S)
         /\ Cardinality(S) \in Nat /\ Bytes(q, S) \in Nat
<1>1. IsFiniteSet(1 .. n)
  BY FS_Interval
<1>2. S \subseteq 1 .. n
  BY DEF IsQueue
<1>3. IsFiniteSet(S)
  BY <1>1, <1>2, FS_Subset
<1> QED
  BY <1>2, <1>3, BytesFinite, FS_CardinalityType

(***************************************************************************)
(* The chunks transmitted are the first ones waiting, so they are the last *)
(* of them and those waiting before it: what they add stays below the      *)
(* window and the burst limit until that last chunk.                       *)
(***************************************************************************)
LEMMA TransmittedPrefix ==
  ASSUME NEW q, NEW n \in Nat, IsQueue(q, n),
         NEW inflight \in Nat, NEW count \in Nat, NEW wnd \in Nat,
         Transmittable(q, inflight, count, wnd) # {}
  PROVE  LET now == Transmittable(q, inflight, count, wnd)
         IN  /\ inflight + Bytes(q, now) < wnd + SMSS
             /\ count + Cardinality(now) <= BurstLimit
<1> DEFINE now == Transmittable(q, inflight, count, wnd)
<1>1. now \subseteq DOMAIN q /\ DOMAIN q \subseteq 1 .. n /\ now \subseteq 0 .. n
  BY DEF Transmittable, Waiting, IsQueue
<1>2. PICK x \in now : \A y \in now : y <= x
  <2>1. now # {}
    OBVIOUS
  <2> HIDE DEF now
  <2> QED
    BY <1>1, <2>1, GreatestElement
<1>3. /\ inflight + Bytes(q, WaitingBefore(q, x)) < wnd
      /\ count + Cardinality(WaitingBefore(q, x)) < BurstLimit
      /\ x \in Waiting(q) /\ x \in Nat
  BY <1>1, <1>2 DEF Transmittable
<1> DEFINE before == WaitingBefore(q, x)
<1>4. before \subseteq DOMAIN q /\ x \notin before
  BY <1>3, <1>1 DEF WaitingBefore, Waiting
<1>5. now \subseteq before \cup {x}
  <2> SUFFICES ASSUME NEW y \in now, y # x PROVE y \in before
    OBVIOUS
  <2>1. y <= x /\ y \in Waiting(q) /\ y \in Nat
    BY <1>1, <1>2 DEF Transmittable
  <2> QED
    BY <2>1, <1>3 DEF WaitingBefore
<1>6. /\ IsFiniteSet(before) /\ IsFiniteSet(before \cup {x}) /\ IsFiniteSet({x})
      /\ Cardinality(before) \in Nat /\ Bytes(q, before) \in Nat
      /\ IsFiniteSet(now) /\ Cardinality(now) \in Nat /\ Bytes(q, now) \in Nat
  <2>1. before \cup {x} \subseteq DOMAIN q /\ {x} \subseteq DOMAIN q
    BY <1>1, <1>4
  <2> HIDE DEF before, now
  <2> QED
    BY <1>1, <1>4, <2>1, QueueFinite
<1>7. Bytes(q, {x}) = q[x].data.len /\ q[x].data.len \in 0 .. SMSS
  <2>1. q[x].data.len \in 0 .. SMSS
    BY <1>1 DEF IsQueue, ChunkType, PieceType
  <2> QED
    BY <2>1, BytesOne
<1> HIDE DEF before, now
<1>8. Bytes(q, before \cup {x}) = Bytes(q, before) + Bytes(q, {x})
  <2>1. before \cap {x} = {}
    BY <1>4
  <2> QED
    BY <1>6, <2>1, BytesUnion, Zenon
<1>9. Cardinality(before \cup {x}) = Cardinality(before) + 1
  BY <1>4, <1>6, FS_AddElement
<1>10. Bytes(q, now) <= Bytes(q, before \cup {x})
  BY <1>5, <1>6, BytesSplit, Zenon
<1>11. Cardinality(now) <= Cardinality(before \cup {x})
  BY <1>5, <1>6, FS_Subset
<1>12. inflight + Bytes(q, now) < wnd + SMSS
  BY <1>3, <1>6, <1>7, <1>8, <1>10, SMSSAssumption DEF before
<1>13. count + Cardinality(now) <= BurstLimit
  BY <1>3, <1>6, <1>9, <1>11, SendAssumption DEF before
<1> QED
  BY <1>12, <1>13 DEF now

(***************************************************************************)
(* With nothing in flight, an untouched burst and an open window, try_send *)
(* transmits the first chunk that waits.                                   *)
(***************************************************************************)
LEMMA SomethingTransmitted ==
  ASSUME NEW q, NEW n \in Nat, IsQueue(q, n), NEW wnd \in Nat \ {0},
         Waiting(q) # {}
  PROVE  Transmittable(q, 0, 0, wnd) # {}
<1>1. Waiting(q) \subseteq Nat
  BY DEF Waiting, IsQueue
<1>2. PICK x \in Waiting(q) : \A y \in Waiting(q) : x <= y
  BY <1>1, LeastElement
<1>3. WaitingBefore(q, x) = {}
  BY <1>1, <1>2 DEF WaitingBefore
<1>4. Bytes(q, WaitingBefore(q, x)) = 0 /\ Cardinality(WaitingBefore(q, x)) = 0
  BY <1>3, BytesEmpty, FS_EmptySet
<1>5. x \in Transmittable(q, 0, 0, wnd)
  BY <1>2, <1>4, SendAssumption DEF Transmittable
<1> QED
  BY <1>5

(***************************************************************************)
(* Transmitting a chunk and losing one keep it the chunk it was.           *)
(***************************************************************************)
LEMMA TransmitChunk ==
  ASSUME NEW c \in ChunkType, NEW t \in Nat
  PROVE  /\ Transmit(c, t) \in ChunkType
         /\ Transmit(c, t).frag = c.frag /\ Transmit(c, t).data = c.data
         /\ Transmit(c, t).in_flight
<1> DEFINE c1 == [c EXCEPT !.send_count = @ + 1]
           c2 == [c1 EXCEPT !.nak_count = 0]
           c3 == [c2 EXCEPT !.in_flight = TRUE]
           c4 == [c3 EXCEPT !.tsn = t]
<1>1. c1 \in ChunkType /\ c1.frag = c.frag /\ c1.data = c.data
  BY DEF ChunkType
<1>2. c2 \in ChunkType /\ c2.frag = c1.frag /\ c2.data = c1.data
  <2> HIDE DEF c1
  <2> QED
    BY <1>1 DEF ChunkType
<1>3. c3 \in ChunkType /\ c3.frag = c2.frag /\ c3.data = c2.data /\ c3.in_flight
  <2> HIDE DEF c2
  <2> QED
    BY <1>2 DEF ChunkType
<1>4. /\ c4 \in ChunkType /\ c4.frag = c3.frag /\ c4.data = c3.data
      /\ c4.in_flight = c3.in_flight
  <2> HIDE DEF c3
  <2> QED
    BY <1>3 DEF ChunkType
<1>5. Transmit(c, t) = c4
  BY DEF Transmit
<1> HIDE DEF c1, c2, c3, c4
<1> QED
  BY <1>1, <1>2, <1>3, <1>4, <1>5

(***************************************************************************)
(* chunk_loss changes nothing of a chunk but in_flight.                    *)
(***************************************************************************)
LEMMA LoseChunk ==
  ASSUME NEW c \in ChunkType
  PROVE  LET d == [c EXCEPT !.in_flight = FALSE]
         IN  d \in ChunkType /\ d.frag = c.frag /\ d.data = c.data /\ ~ d.in_flight
BY DEF ChunkType

(***************************************************************************)
(* A negative acknowledgement changes nothing of a chunk but nak_count.    *)
(***************************************************************************)
LEMMA NakChunk ==
  ASSUME NEW c \in ChunkType
  PROVE  LET d == [c EXCEPT !.nak_count = @ + 1]
         IN  /\ d \in ChunkType /\ d.frag = c.frag /\ d.data = c.data
             /\ d.in_flight = c.in_flight
BY DEF ChunkType

(***************************************************************************)
(* try_send keeps the queue a queue of the same chunks, the count of bytes *)
(* in flight exact, the windows and the burst limit respected; it only     *)
(* puts chunks of the queue on the network, and re-arms the alarm when it  *)
(* does.                                                                   *)
(***************************************************************************)
LEMMA TrySendEffect ==
  ASSUME NEW q, NEW n \in Nat, IsQueue(q, n),
         NEW inflight, inflight = Bytes(q, InFlight(q)),
         NEW count \in 0 .. BurstLimit, NEW wnd \in Nat, NEW alarm,
         current_tsn \in Nat,
         TrySend(q, inflight, count, wnd, alarm)
  PROVE  /\ IsQueue(send_queue', n) /\ DOMAIN send_queue' = DOMAIN q
         /\ \A s \in DOMAIN q : /\ send_queue'[s].frag = q[s].frag
                               /\ send_queue'[s].data = q[s].data
         /\ inflight_bytes' = Bytes(send_queue', InFlight(send_queue'))
         /\ inflight_bytes' \in Nat
         /\ inflight_bytes' > inflight => inflight_bytes' < wnd + SMSS
         /\ data_packets_count' \in 0 .. BurstLimit
         /\ current_tsn' \in Nat
         /\ \A p \in toRecv' :
              p \in toRecv \/ \E s \in DOMAIN q : p = UserData(s, q[s])
         /\ rtx_alarm' \in {alarm, "armed"}
         /\ rtx_alarm' # "armed" => data_packets_count' = count
         /\ (inflight = 0 /\ count = 0 /\ wnd > 0 /\ Waiting(q) # {})
              => rtx_alarm' = "armed"
<1> DEFINE now == Transmittable(q, inflight, count, wnd)
           q2  == send_queue'
<1>1. /\ now \subseteq Waiting(q) /\ now \subseteq DOMAIN q
      /\ InFlight(q) \subseteq DOMAIN q /\ now \cap InFlight(q) = {}
  BY DEF Transmittable, Waiting, InFlight
<1>2. /\ IsFiniteSet(now) /\ Cardinality(now) \in Nat /\ Bytes(q, now) \in Nat
      /\ IsFiniteSet(InFlight(q)) /\ inflight \in Nat
  <2> HIDE DEF now
  <2> QED
    BY <1>1, QueueFinite
<1>3. /\ q2 = [s \in DOMAIN q |->
                 IF s \in now
                   THEN Transmit(q[s], current_tsn + 1 + Cardinality(WaitingBefore(q, s)))
                   ELSE q[s]]
      /\ inflight_bytes' = inflight + Bytes(q, now)
      /\ data_packets_count' = count + Cardinality(now)
      /\ current_tsn' = current_tsn + Cardinality(now)
      /\ rtx_alarm' = IF now = {} THEN alarm ELSE "armed"
      /\ toRecv' = toRecv \cup {UserData(s, q[s]) : s \in now}
  BY DEF TrySend
<1> HIDE DEF now
<1>4. ASSUME NEW s \in DOMAIN q
      PROVE  /\ q2[s] \in ChunkType
             /\ q2[s].frag = q[s].frag /\ q2[s].data = q[s].data
             /\ q2[s].in_flight <=> (s \in now \/ q[s].in_flight)
  <2>1. q[s] \in ChunkType
    BY DEF IsQueue
  <2>2. CASE s \in now
    <3>1. WaitingBefore(q, s) \subseteq DOMAIN q
      BY DEF WaitingBefore, Waiting
    <3>2. Cardinality(WaitingBefore(q, s)) \in Nat
      BY <3>1, QueueFinite
    <3>3. PICK t \in Nat : q2[s] = Transmit(q[s], t)
      BY <1>3, <2>2, <3>2
    <3> QED
      BY <2>1, <2>2, <3>3, TransmitChunk
  <2>3. CASE s \notin now
    BY <1>3, <2>1, <2>3
  <2> QED
    BY <2>2, <2>3
<1>5. DOMAIN q2 = DOMAIN q /\ IsQueue(q2, n)
  BY <1>3, <1>4 DEF IsQueue
<1>6. inflight_bytes' = Bytes(q2, InFlight(q2))
  <2>1. InFlight(q2) = InFlight(q) \cup now
    BY <1>1, <1>4, <1>5 DEF InFlight
  <2>2. Bytes(q, InFlight(q) \cup now) = Bytes(q, InFlight(q)) + Bytes(q, now)
    BY <1>1, <1>2, BytesUnion, SMTT(30)
  <2>3. Bytes(q2, InFlight(q2)) = Bytes(q, InFlight(q2))
    BY <1>1, <1>4, <2>1, BytesSame
  <2> QED
    BY <1>3, <2>1, <2>2, <2>3
<1>7. CASE now = {}
  <2>1. Bytes(q, now) = 0 /\ Cardinality(now) = 0
    BY <1>7, BytesEmpty, FS_EmptySet
  <2>2. ~ (inflight = 0 /\ count = 0 /\ wnd > 0 /\ Waiting(q) # {})
    BY <1>7, SomethingTransmitted DEF now
  <2>3. inflight_bytes' = inflight /\ data_packets_count' = count
        /\ current_tsn' = current_tsn /\ rtx_alarm' = alarm /\ toRecv' = toRecv
    BY <1>2, <1>3, <1>7, <2>1
  <2> QED
    BY <1>2, <1>4, <1>5, <1>6, <2>2, <2>3
<1>8. CASE now # {}
  <2>1. /\ inflight + Bytes(q, now) < wnd + SMSS
        /\ count + Cardinality(now) <= BurstLimit
    BY <1>2, <1>8, TransmittedPrefix DEF now
  <2>2. data_packets_count' \in 0 .. BurstLimit
    BY <1>2, <1>3, <2>1, SendAssumption
  <2>3. inflight_bytes' \in Nat /\ inflight_bytes' < wnd + SMSS /\ current_tsn' \in Nat
    BY <1>2, <1>3, <2>1
  <2>4. rtx_alarm' = "armed"
    BY <1>3, <1>8
  <2>5. \A p \in toRecv' : p \in toRecv \/ \E s \in DOMAIN q : p = UserData(s, q[s])
    BY <1>1, <1>3
  <2> QED
    BY <1>4, <1>5, <1>6, <2>2, <2>3, <2>4, <2>5
<1> QED
  BY <1>7, <1>8

-----------------------------------------------------------------------------
(***************************************************************************)
(* Messages are only ever added: what was pushed and sent stays.           *)
(***************************************************************************)
Extends ==
  /\ last_seqnum \in Nat /\ last_seqnum' \in Nat /\ last_seqnum' >= last_seqnum
  /\ Len(sent) \in Nat /\ Len(sent') \in Nat /\ Len(sent') >= Len(sent)
  /\ \A s \in SeqNums : pushed'[s] = pushed[s]
  /\ \A m \in 1 .. Len(sent) : sent'[m] = sent[m]

(***************************************************************************)
(* A step that pushes nothing extends what was pushed.                     *)
(***************************************************************************)
LEMMA SameExtends ==
  ASSUME TypeOK, UNCHANGED <<last_seqnum, sent, pushed>>
  PROVE  Extends
BY DEF TypeOK, SendTypeOK, Extends

(***************************************************************************)
(* What was pushed stays well formed when nothing is pushed.               *)
(***************************************************************************)
LEMMA PushedFrame ==
  ASSUME PushedInv, UNCHANGED <<last_seqnum, sent, pushed>>
  PROVE  PushedInv'
BY DEF PushedInv, WholeMessageAt, EndsMessage, LastOfMessage, SeqNums

(***************************************************************************)
(* The end of a message that was sent stays the end of that message.       *)
(***************************************************************************)
LEMMA MessageEndExtends ==
  ASSUME PushedInv, Extends, NEW s \in 0 .. last_seqnum, NEW m, EndsMessage(s, m)
  PROVE  EndsMessage(s, m)'
<1>1. CASE s = 0 /\ m = 0
  BY <1>1 DEF EndsMessage
<1>2. CASE s \in SeqNums /\ pushed[s].data.msg = m /\ LastOfMessage(s)
  <2>1. s \in SeqNums' /\ pushed'[s] = pushed[s]
    BY <1>2 DEF Extends, SeqNums
  <2>2. m \in 1 .. Len(sent)
    BY <1>2 DEF PushedInv, WholeMessageAt
  <2>3. sent'[m] = sent[m]
    BY <2>2 DEF Extends
  <2>4. LastOfMessage(s)'
    BY <1>2, <2>1, <2>3 DEF LastOfMessage
  <2> QED
    BY <1>2, <2>1, <2>4 DEF EndsMessage
<1> QED
  BY <1>1, <1>2 DEF EndsMessage

(***************************************************************************)
(* recv() has returned no more messages than send() accepted.              *)
(***************************************************************************)
LEMMA DeliveredWereSent ==
  ASSUME RecvTypeOK, PushedInv, ReadInv, Len(sent) \in Nat
  PROVE  Len(delivered) \in Nat /\ Len(delivered) <= Len(sent)
<1>1. Len(delivered) \in Nat
  BY DEF RecvTypeOK
<1>2. Len(delivered) = 0 \/ Len(delivered) \in 1 .. Len(sent)
  BY DEF ReadInv, EndsMessage, PushedInv, WholeMessageAt
<1> QED
  BY <1>1, <1>2

(***************************************************************************)
(* A step of the sender does not disturb the receiver.                     *)
(***************************************************************************)
LEMMA RecvFrame ==
  ASSUME TypeOK, PushedInv, RecvInv, Extends, UNCHANGED recvVars
  PROVE  RecvInv'
<1> USE DEF RecvInv
<1>1. RecvTypeOK'
  BY DEF RecvTypeOK, recvVars
<1>2. RecvRangesInv'
  <2>1. SeqNums \subseteq SeqNums' /\ last_ordered_seqnum' \in 0 .. last_seqnum'
    BY DEF RecvRangesInv, recvVars, Extends, SeqNums
  <2>2. DOMAIN unordered_recv_buf \subseteq SeqNums
    BY DEF RecvRangesInv
  <2>3. \A s \in DOMAIN unordered_recv_buf : IsCopy(unordered_recv_buf'[s], pushed'[s])
    BY <2>2 DEF RecvRangesInv, IsCopy, Extends, recvVars
  <2> QED
    BY <2>1, <2>3 DEF RecvRangesInv, recvVars
<1>3. /\ Read' = Read /\ Read \in 0 .. last_seqnum
      /\ last_ordered_seqnum \in 0 .. last_seqnum
      /\ Len(ordered_recv_buf) \in Nat /\ last_seqnum \in Nat
  BY DEF Read, ReadInv, recvVars, RecvRangesInv, RecvTypeOK, Extends
<1>4. Read + Len(ordered_recv_buf) = last_ordered_seqnum
  BY <1>3 DEF Read, RecvTypeOK
<1>5. BufferInv'
  <2>1. \A s \in Read + 1 .. last_ordered_seqnum :
          pushed'[s].data.len = pushed[s].data.len
    BY <1>3 DEF Extends, SeqNums
  <2>2. Bytes(pushed', Read + 1 .. last_ordered_seqnum)
          = Bytes(pushed, Read + 1 .. last_ordered_seqnum)
    BY <2>1, BytesSame
  <2> QED
    BY <1>3, <2>2 DEF BufferInv, recvVars
<1>6. ReadInv'
  <2>1. Read' \in 0 .. last_seqnum'
    BY <1>3 DEF Extends
  <2>2. \A i \in 1 .. Len(ordered_recv_buf) : Read + i \in SeqNums
    BY <1>3, <1>4 DEF SeqNums
  <2>3. \A i \in 1 .. Len(ordered_recv_buf) :
          IsCopy(ordered_recv_buf[i], pushed'[Read + i])
    BY <2>2 DEF ReadInv, Extends, IsCopy
  <2>4. EndsMessage(Read, Len(delivered))'
    BY <1>3, MessageEndExtends DEF ReadInv, recvVars, EndsMessage, LastOfMessage
  <2>5. Len(delivered) \in Nat /\ Len(delivered) <= Len(sent)
    BY DeliveredWereSent DEF Extends
  <2>6. \A m \in 1 .. Len(delivered) : delivered[m] = Pieces(m, sent'[m])
    BY <2>5 DEF ReadInv, Extends
  <2> QED
    BY <1>3, <2>1, <2>3, <2>4, <2>6 DEF ReadInv, recvVars
<1> QED
  BY <1>1, <1>2, <1>5, <1>6

-----------------------------------------------------------------------------
(***************************************************************************)
(* The parts of the invariant hold the types of all the variables.         *)
(***************************************************************************)
LEMMA IInvType == IInv => TypeOK
BY DEF IInv, SendInv, RecvInv, NetInv, TypeOK

(***************************************************************************)
(* What is in transit after a step of the sender: what was, probes, and    *)
(* copies of chunks pushed.                                                *)
(***************************************************************************)
LEMMA NetAfterSender ==
  ASSUME NetInv, Extends, toSend' \subseteq toSend, UNCHANGED recv_ranges,
         \A p \in toRecv' :
           \/ p \in toRecv
           \/ p = BufferProbe
           \/ \E s \in SeqNums' : \E c \in ChunkType : IsCopy(c, pushed'[s]) /\ p = UserData(s, c)
  PROVE  NetInv'
<1>1. SeqNums \subseteq SeqNums'
  BY DEF Extends, SeqNums
<1>2. ASSUME NEW p \in toRecv'
      PROVE  p = BufferProbe \/ (p \in UserDataType' /\ IsCopy(p, pushed'[p.seq]))
  <2>1. CASE p \in toRecv /\ p # BufferProbe
    <3>1. p \in UserDataType /\ IsCopy(p, pushed[p.seq])
      BY <2>1 DEF NetInv
    <3>2. p.seq \in SeqNums
      BY <3>1 DEF UserDataType
    <3>3. p \in UserDataType'
      BY <1>1, <3>1 DEF UserDataType
    <3>4. IsCopy(p, pushed'[p.seq])
      BY <3>1, <3>2 DEF IsCopy, Extends
    <3> QED
      BY <3>3, <3>4
  <2>2. ASSUME NEW s \in SeqNums', NEW c \in ChunkType, IsCopy(c, pushed'[s]), p = UserData(s, c)
        PROVE  p \in UserDataType' /\ IsCopy(p, pushed'[p.seq])
    <3>1. /\ p.type = "userdata" /\ p.seq = s /\ p.frag = c.frag /\ p.data = c.data
          /\ c.frag \in FragCtrl /\ c.data \in PieceType
      BY <2>2 DEF UserData, ChunkType
    <3>2. p \in UserDataType'
      BY <2>2, <3>1 DEF UserData, UserDataType
    <3>3. IsCopy(p, pushed'[p.seq])
      BY <2>2, <3>1 DEF IsCopy
    <3> QED
      BY <3>2, <3>3
  <2> QED
    BY <2>1, <2>2
<1>3. toSend' \subseteq RangeAckType'
  <2>1. RangeAckType \subseteq RangeAckType'
    BY DEF Extends, RangeAckType, SeqNums
  <2> QED
    BY <2>1 DEF NetInv
<1>4. \A a \in toSend' : 1 .. a.cumAck \subseteq recv_ranges' /\ a.ranges \subseteq recv_ranges'
  BY DEF NetInv
<1> QED
  BY <1>2, <1>3, <1>4 DEF NetInv

(***************************************************************************)
(* try_send at the end of a handler, on a queue of copies of the chunks    *)
(* pushed.                                                                 *)
(***************************************************************************)
LEMMA AfterTrySend ==
  ASSUME SendTypeOK, last_seqnum' \in Nat,
         NEW q, IsQueue(q, last_seqnum'), \A s \in DOMAIN q : IsCopy(q[s], pushed'[s]),
         NEW inflight, inflight = Bytes(q, InFlight(q)),
         NEW count \in 0 .. BurstLimit, NEW wnd \in Nat, NEW alarm,
         TrySend(q, inflight, count, wnd, alarm)
  PROVE  /\ IsQueue(send_queue', last_seqnum') /\ DOMAIN send_queue' = DOMAIN q
         /\ \A s \in DOMAIN send_queue' : IsCopy(send_queue'[s], pushed'[s])
         /\ InflightAccounted'
         /\ inflight_bytes' \in Nat /\ current_tsn' \in Nat
         /\ data_packets_count' \in 0 .. BurstLimit
         /\ \A p \in toRecv' :
              \/ p \in toRecv
              \/ \E s \in SeqNums' : \E c \in ChunkType : IsCopy(c, pushed'[s]) /\ p = UserData(s, c)
         /\ inflight_bytes' > inflight => inflight_bytes' < wnd + SMSS
         /\ rtx_alarm' \in {alarm, "armed"}
         /\ rtx_alarm' # "armed" => data_packets_count' = count
         /\ (inflight = 0 /\ count = 0 /\ wnd > 0 /\ Waiting(q) # {})
              => rtx_alarm' = "armed"
<1>1. current_tsn \in Nat
  BY DEF SendTypeOK
<1>2. /\ IsQueue(send_queue', last_seqnum') /\ DOMAIN send_queue' = DOMAIN q
      /\ \A s \in DOMAIN q : send_queue'[s].frag = q[s].frag /\ send_queue'[s].data = q[s].data
      /\ inflight_bytes' = Bytes(send_queue', InFlight(send_queue'))
      /\ \A p \in toRecv' : p \in toRecv \/ \E s \in DOMAIN q : p = UserData(s, q[s])
  BY <1>1, TrySendEffect
<1>3. \A s \in DOMAIN q : s \in SeqNums' /\ q[s] \in ChunkType
  BY DEF IsQueue, SeqNums
<1>4. \A s \in DOMAIN send_queue' : IsCopy(send_queue'[s], pushed'[s])
  BY <1>2 DEF IsCopy
<1>5. InflightAccounted'
  BY <1>2 DEF InflightAccounted, InFlight
<1>6. \A p \in toRecv' :
        \/ p \in toRecv
        \/ \E s \in SeqNums' : \E c \in ChunkType : IsCopy(c, pushed'[s]) /\ p = UserData(s, c)
  BY <1>2, <1>3
<1> QED
  BY <1>1, <1>2, <1>4, <1>5, <1>6, TrySendEffect

-----------------------------------------------------------------------------
(***************************************************************************)
(* The steps of the sender that push nothing keep the invariant if they    *)
(* keep the sender's part of it and what is in transit.                    *)
(***************************************************************************)
LEMMA SenderKeeps ==
  ASSUME IInv, SendInv', NetInv', AckedInv', UNCHANGED recvVars,
         UNCHANGED <<last_seqnum, sent, pushed>>
  PROVE  IInv'
<1>1. TypeOK /\ PushedInv /\ RecvInv
  BY IInvType DEF IInv
<1>2. Extends
  BY <1>1, SameExtends
<1>3. PushedInv'
  BY <1>1, PushedFrame
<1>4. RecvInv'
  BY <1>1, <1>2, RecvFrame
<1> QED
  BY <1>3, <1>4 DEF IInv

(***************************************************************************)
(* A tick of the probe ticker only puts a probe in transit.                *)
(***************************************************************************)
LEMMA ProbeStep ==
  ASSUME IInv, Probe PROVE IInv'
<1>1. UNCHANGED <<sendVars, toSend, recvVars>> /\ toRecv' = toRecv \cup {BufferProbe}
  BY DEF Probe, ProbeTick
<1>2. SendInv'
  BY <1>1 DEF IInv, SendInv, SendTypeOK, TimerInv, InflightAccounted, IsCopy,
              ZeroWindowProbed, SenderNeverStalls, sendVars, wndVars
<1>3. TypeOK /\ Extends
  BY <1>1, IInvType, SameExtends DEF sendVars
<1>4. NetInv'
  BY <1>1, <1>3, NetAfterSender DEF IInv, recvVars
<1>5. AckedInv'
  BY <1>1 DEF IInv, AckedInv, sendVars, recvVars, SeqNums
<1> QED
  BY <1>1, <1>2, <1>4, <1>5, SenderKeeps DEF sendVars

(***************************************************************************)
(* close() of the sender, and giving up, leave a closed flow.              *)
(***************************************************************************)
LEMMA CloseSendStep ==
  ASSUME IInv, SenderCloses PROVE IInv'
<1>1. /\ UNCHANGED <<last_seqnum, send_queue, ack_ranges, inflight_bytes,
                      data_packets_count, current_tsn, wndVars, sent, pushed, netVars>>
      /\ UNCHANGED recvVars
      /\ send_closed' = TRUE /\ rtx_alarm' = "nil" /\ bufprob_ticker' = FALSE
  BY DEF SenderCloses, CloseSend
<1>2. SendInv'
  BY <1>1 DEF IInv, SendInv, SendTypeOK, TimerInv, InflightAccounted, IsCopy,
              ZeroWindowProbed, SenderNeverStalls, wndVars
<1>3. TypeOK /\ Extends
  BY <1>1, IInvType, SameExtends
<1>4. NetInv'
  BY <1>1, <1>3, NetAfterSender DEF IInv, recvVars, netVars
<1>5. AckedInv'
  BY <1>1 DEF IInv, AckedInv, recvVars, SeqNums
<1> QED
  BY <1>1, <1>2, <1>4, <1>5, SenderKeeps

(***************************************************************************)
(* Losing the chunks S of a queue that are in flight keeps a queue of the  *)
(* same chunks, and takes their bytes out of flight.                       *)
(***************************************************************************)
LEMMA AfterLoss ==
  ASSUME NEW q, NEW n \in Nat, IsQueue(q, n), NEW S, S \subseteq InFlight(q)
  PROVE  /\ IsQueue(WithLost(q, S), n) /\ DOMAIN WithLost(q, S) = DOMAIN q
         /\ \A s \in DOMAIN q : /\ WithLost(q, S)[s].frag = q[s].frag
                               /\ WithLost(q, S)[s].data = q[s].data
         /\ InFlight(WithLost(q, S)) = InFlight(q) \ S
         /\ Bytes(q, InFlight(q)) - Bytes(q, S)
              = Bytes(WithLost(q, S), InFlight(WithLost(q, S)))
<1> DEFINE q2 == WithLost(q, S)
<1>1. DOMAIN q2 = DOMAIN q
  BY DEF WithLost
<1>2. ASSUME NEW s \in DOMAIN q
      PROVE  /\ q2[s] \in ChunkType
             /\ q2[s].frag = q[s].frag /\ q2[s].data = q[s].data
             /\ s \in S => ~ q2[s].in_flight
             /\ s \notin S => q2[s] = q[s]
  <2>1. q[s] \in ChunkType
    BY DEF IsQueue
  <2>2. s \in S => q2[s] = [q[s] EXCEPT !.in_flight = FALSE]
    BY DEF WithLost
  <2>3. s \notin S => q2[s] = q[s]
    BY DEF WithLost
  <2> HIDE DEF q2
  <2> QED
    BY <2>1, <2>2, <2>3, LoseChunk
<1>3. IsQueue(q2, n)
  <2>1. q2 \in [DOMAIN q -> ChunkType]
    BY <1>2 DEF WithLost
  <2> QED
    BY <1>1, <2>1 DEF IsQueue
<1>4. InFlight(q2) = InFlight(q) \ S
  BY <1>1, <1>2 DEF InFlight
<1>5. IsFiniteSet(InFlight(q)) /\ InFlight(q) \subseteq DOMAIN q
  BY QueueFinite DEF InFlight
<1>6. Bytes(q, InFlight(q)) - Bytes(q, S) = Bytes(q, InFlight(q) \ S)
  BY <1>5, BytesSplit
<1>7. Bytes(q, InFlight(q) \ S) = Bytes(q2, InFlight(q) \ S)
  BY <1>2, <1>5, BytesSame
<1> QED
  BY <1>1, <1>2, <1>3, <1>4, <1>6, <1>7

(***************************************************************************)
(* The queue after a loss, as the sender keeps it.                         *)
(***************************************************************************)
LEMMA SendQueueAfterLoss ==
  ASSUME IInv, NEW S, S \subseteq InFlight(send_queue),
         UNCHANGED <<last_seqnum, sent, pushed>>
  PROVE  LET q == WithLost(send_queue, S)
         IN  /\ IsQueue(q, last_seqnum) /\ DOMAIN q = DOMAIN send_queue
             /\ \A s \in DOMAIN q : IsCopy(q[s], pushed'[s])
             /\ InFlight(q) = InFlight(send_queue) \ S
             /\ inflight_bytes - Bytes(send_queue, S) = Bytes(q, InFlight(q))
             /\ Bytes(q, InFlight(q)) \in Nat
<1> DEFINE q == WithLost(send_queue, S)
<1>1. /\ last_seqnum \in Nat /\ IsQueue(send_queue, last_seqnum)
      /\ \A s \in DOMAIN send_queue : IsCopy(send_queue[s], pushed[s])
      /\ inflight_bytes = Bytes(send_queue, InFlight(send_queue))
  BY DEF IInv, SendInv, SendTypeOK, IsQueue, InflightAccounted
<1>2. /\ IsQueue(q, last_seqnum) /\ DOMAIN q = DOMAIN send_queue
      /\ \A s \in DOMAIN send_queue :
           q[s].frag = send_queue[s].frag /\ q[s].data = send_queue[s].data
      /\ InFlight(q) = InFlight(send_queue) \ S
      /\ Bytes(send_queue, InFlight(send_queue)) - Bytes(send_queue, S)
           = Bytes(q, InFlight(q))
  BY <1>1, AfterLoss
<1> HIDE DEF q
<1>3. \A s \in DOMAIN q : IsCopy(q[s], pushed'[s])
  BY <1>1, <1>2 DEF IsCopy, q
<1>4. Bytes(q, InFlight(q)) \in Nat
  <2>1. InFlight(q) \subseteq DOMAIN q
    BY DEF InFlight
  <2>2. IsFiniteSet(InFlight(q))
    BY <1>1, <1>2, <2>1, QueueFinite
  <2> QED
    BY <2>2, BytesFinite
<1> QED
  BY <1>1, <1>2, <1>3, <1>4 DEF q

(***************************************************************************)
(* The alarm closes a flow that has sent a chunk too often.                *)
(***************************************************************************)
LEMMA GiveUpStep ==
  ASSUME IInv, RtxGiveUp, UNCHANGED recvVars PROVE IInv'
<1> DEFINE lost == {s \in InFlight(send_queue) : \A x \in Exhausted : s < x}
<1>1. /\ send_queue' = WithLost(send_queue, lost)
      /\ inflight_bytes' = inflight_bytes - Bytes(send_queue, lost)
      /\ send_closed' = TRUE /\ rtx_alarm' = "nil" /\ bufprob_ticker' = FALSE
      /\ UNCHANGED <<last_seqnum, ack_ranges, data_packets_count, current_tsn,
                     wndVars, sent, pushed, netVars>>
  BY DEF RtxGiveUp
<1>2. lost \subseteq InFlight(send_queue)
  OBVIOUS
<1> HIDE DEF lost
<1>3. /\ IsQueue(send_queue', last_seqnum) /\ DOMAIN send_queue' = DOMAIN send_queue
      /\ \A s \in DOMAIN send_queue' : IsCopy(send_queue'[s], pushed'[s])
      /\ inflight_bytes' = Bytes(send_queue', InFlight(send_queue'))
      /\ inflight_bytes' \in Nat
  BY <1>1, <1>2, SendQueueAfterLoss
<1>4. SendTypeOK'
  BY <1>1, <1>3 DEF IInv, SendInv, SendTypeOK, IsQueue, wndVars
<1>5. InflightAccounted' /\ TimerInv'
  BY <1>1, <1>3 DEF InflightAccounted, InFlight, TimerInv, ZeroWindowProbed,
                    SenderNeverStalls
<1>6. SendInv'
  BY <1>3, <1>4, <1>5 DEF SendInv
<1>7. TypeOK /\ Extends
  BY <1>1, IInvType, SameExtends
<1>8. NetInv'
  BY <1>1, <1>7, NetAfterSender DEF IInv, recvVars, netVars
<1>9. AckedInv'
  BY <1>1, <1>3 DEF IInv, AckedInv, recvVars, SeqNums
<1> QED
  BY <1>1, <1>6, <1>8, <1>9, SenderKeeps

(***************************************************************************)
(* The alarm finds everything in flight lost, and sends it again from an   *)
(* empty flight: a window that is open lets at least one chunk out, and a  *)
(* closed one is probed.                                                   *)
(***************************************************************************)
LEMMA TimeoutStep ==
  ASSUME IInv, RtxTimeout, UNCHANGED recvVars PROVE IInv'
<1> DEFINE lost == InFlight(send_queue)
           q    == WithLost(send_queue, lost)
           inflight == inflight_bytes - Bytes(send_queue, lost)
           wnd  == MinOf(recv_wnd, cong_wnd')
<1>1. /\ cong_wnd' = (IF lost # {} THEN TimeoutCongWnd ELSE InitCongWnd)
      /\ ssthresh' = MaxOf(ssthresh, (cong_wnd' * 3) \div 4)
      /\ acked_bytes_accumulator' = 0
      /\ TrySend(q, inflight, 0, wnd, "idle")
      /\ UNCHANGED <<last_seqnum, ack_ranges, recv_wnd, bufprob_ticker,
                     send_closed, sent, pushed, toSend>>
  BY DEF RtxTimeout
<1>2. SendTypeOK /\ TimerInv /\ TypeOK
  BY IInvType DEF IInv, SendInv
<1>3. cong_wnd' \in Nat \ {0} /\ ssthresh' \in Nat /\ wnd \in Nat
      /\ (recv_wnd > 0 => wnd > 0)
  <2>1. cong_wnd' \in Nat \ {0} /\ cong_wnd' * 3 \in Nat
    BY <1>1, CongestionAssumption
  <2>2. (cong_wnd' * 3) \div 4 \in Nat
    <3>1. 4 \in Nat \ {0}
      OBVIOUS
    <3> QED
      BY <2>1, <3>1, DivisionNat, Zenon
  <2>3. ssthresh' \in Nat
    BY <1>1, <1>2, <2>2 DEF SendTypeOK, MaxOf
  <2> QED
    BY <1>2, <2>1, <2>3 DEF SendTypeOK, MinOf
<1>4. /\ IsQueue(q, last_seqnum) /\ DOMAIN q = DOMAIN send_queue
      /\ \A s \in DOMAIN q : IsCopy(q[s], pushed'[s])
      /\ InFlight(q) = {}
      /\ inflight = Bytes(q, InFlight(q))
  BY <1>1, SendQueueAfterLoss
<1>5. inflight = 0 /\ Waiting(q) = DOMAIN send_queue
  BY <1>4, BytesEmpty DEF Waiting, InFlight
<1>6. 0 \in 0 .. BurstLimit /\ last_seqnum \in Nat
  BY <1>2, SendAssumption DEF SendTypeOK
<1> HIDE DEF q, inflight, wnd, lost
<1>7. /\ IsQueue(send_queue', last_seqnum') /\ DOMAIN send_queue' = DOMAIN q
      /\ \A s \in DOMAIN send_queue' : IsCopy(send_queue'[s], pushed'[s])
      /\ InflightAccounted'
      /\ inflight_bytes' \in Nat /\ current_tsn' \in Nat
      /\ data_packets_count' \in 0 .. BurstLimit
      /\ \A p \in toRecv' :
           \/ p \in toRecv
           \/ \E s \in SeqNums' : \E c \in ChunkType : IsCopy(c, pushed'[s]) /\ p = UserData(s, c)
      /\ rtx_alarm' \in {"idle", "armed"}
      /\ rtx_alarm' # "armed" => data_packets_count' = 0
      /\ (wnd > 0 /\ DOMAIN send_queue # {}) => rtx_alarm' = "armed"
  BY <1>1, <1>2, <1>3, <1>4, <1>5, <1>6, AfterTrySend
<1>8. SendTypeOK'
  BY <1>1, <1>2, <1>3, <1>7 DEF SendTypeOK, IsQueue
<1>9. TimerInv'
  <2>1. ZeroWindowProbed'
    BY <1>1, <1>2 DEF TimerInv, ZeroWindowProbed
  <2>2. recv_wnd = 0 /\ ~ send_closed => bufprob_ticker
    BY <1>2 DEF TimerInv, ZeroWindowProbed
  <2>3. recv_wnd = 0 \/ recv_wnd > 0
    BY <1>2 DEF SendTypeOK
  <2>4. SenderNeverStalls'
    BY <1>1, <1>3, <1>4, <1>7, <2>2, <2>3 DEF SenderNeverStalls
  <2> QED
    BY <1>7, <2>1, <2>4 DEF TimerInv
<1>10. SendInv'
  BY <1>7, <1>8, <1>9 DEF SendInv
<1>11. Extends
  BY <1>1, <1>2, SameExtends
<1>12. NetInv'
  BY <1>1, <1>7, <1>11, NetAfterSender DEF IInv, recvVars
<1>13. AckedInv'
  BY <1>1, <1>4, <1>7 DEF IInv, AckedInv, recvVars, SeqNums
<1> QED
  BY <1>1, <1>10, <1>12, <1>13, SenderKeeps

-----------------------------------------------------------------------------
(***************************************************************************)
(* An acknowledgement in transit names sequence numbers that were sent and *)
(* that the receiver has.                                                  *)
(***************************************************************************)
LEMMA AckedRange ==
  ASSUME IInv, NEW ack \in toSend
  PROVE  /\ Acked(ack) \subseteq 0 .. last_seqnum /\ Acked(ack) \ {0} \subseteq recv_ranges
         /\ SeqNums \ DOMAIN send_queue \subseteq Acked(ack)
         /\ ack.bufAvail \in Nat
<1>1. /\ ack \in RangeAckType /\ last_seqnum \in Nat
      /\ 1 .. ack.cumAck \subseteq recv_ranges /\ ack.ranges \subseteq recv_ranges
  BY DEF IInv, NetInv, SendInv, SendTypeOK
<1>2. ack.cumAck \in 0 .. last_seqnum /\ ack.ranges \subseteq SeqNums /\ ack.bufAvail \in Nat
  BY <1>1 DEF RangeAckType
<1>3. /\ ack_ranges \subseteq 0 .. last_seqnum /\ ack_ranges \ {0} \subseteq recv_ranges
      /\ SeqNums \ DOMAIN send_queue \subseteq ack_ranges
  BY DEF IInv, SendInv, SendTypeOK, AckedInv
<1>4. (0 .. ack.cumAck) \ {0} = 1 .. ack.cumAck
  BY <1>2
<1>5. Acked(ack) \subseteq 0 .. last_seqnum
  <2>1. 0 .. ack.cumAck \subseteq 0 .. last_seqnum
    BY <1>1, <1>2
  <2>2. ack.ranges \subseteq 0 .. last_seqnum
    BY <1>1, <1>2 DEF SeqNums
  <2> QED
    BY <1>3, <2>1, <2>2, Zenon DEF Acked
<1>6. Acked(ack) \ {0} \subseteq recv_ranges
  BY <1>1, <1>3, <1>4 DEF Acked
<1> QED
  BY <1>2, <1>3, <1>5, <1>6 DEF Acked

(***************************************************************************)
(* An acknowledgement that changes nothing in the queue.                   *)
(***************************************************************************)
LEMMA RangeAckLateStep ==
  ASSUME IInv, NEW ack \in toSend, RangeAckLate(ack), toSend' \subseteq toSend,
         UNCHANGED recvVars
  PROVE  IInv'
<1>1. /\ ack_ranges' = Acked(ack) /\ data_packets_count' = 0
      /\ UNCHANGED <<last_seqnum, send_queue, inflight_bytes, current_tsn, wndVars,
                     bufprob_ticker, rtx_alarm, send_closed, sent, pushed, toRecv>>
  BY DEF RangeAckLate
<1>2. 0 \in 0 .. BurstLimit
  BY SendAssumption
<1>3. SendTypeOK'
  BY <1>1, <1>2, AckedRange DEF IInv, SendInv, SendTypeOK, wndVars
<1>4. SendInv'
  BY <1>1, <1>3 DEF IInv, SendInv, TimerInv, InflightAccounted,
                    ZeroWindowProbed, SenderNeverStalls, wndVars
<1>5. TypeOK /\ Extends
  BY <1>1, IInvType, SameExtends
<1>6. NetInv'
  BY <1>1, <1>5, NetAfterSender DEF IInv, recvVars
<1>7. AckedInv'
  BY <1>1, AckedRange DEF AckedInv, recvVars, SeqNums
<1> QED
  BY <1>1, <1>4, <1>6, <1>7, SenderKeeps

(***************************************************************************)
(* The queue once the acknowledged chunks are gone and the others have     *)
(* their negative acknowledgements: the bytes of both are out of flight.   *)
(***************************************************************************)
LEMMA QueueAfterAck ==
  ASSUME IInv, NEW ack \in toSend
  PROVE  LET q == AfterNaks(ack)
             acked == Bytes(send_queue, Removed(ack) \cap InFlight(send_queue))
             lost  == Bytes(send_queue, NakLost(ack))
         IN  /\ IsQueue(q, last_seqnum) /\ DOMAIN q = Kept(ack)
             /\ \A s \in DOMAIN q : IsCopy(q[s], pushed[s])
             /\ acked \in Nat
             /\ inflight_bytes - acked - lost = Bytes(q, InFlight(q))
             /\ Bytes(q, InFlight(q)) \in Nat
<1> DEFINE q1 == [s \in Kept(ack) |->
                    IF s \in Naked(ack) THEN [send_queue[s] EXCEPT !.nak_count = @ + 1]
                    ELSE send_queue[s]]
           q  == AfterNaks(ack)
           F  == InFlight(send_queue)
           acked == Bytes(send_queue, Removed(ack) \cap F)
           lost  == Bytes(send_queue, NakLost(ack))
<1>1. /\ last_seqnum \in Nat /\ IsQueue(send_queue, last_seqnum)
      /\ \A s \in DOMAIN send_queue : IsCopy(send_queue[s], pushed[s])
      /\ inflight_bytes = Bytes(send_queue, F)
  BY DEF IInv, SendInv, SendTypeOK, IsQueue, InflightAccounted
<1>2. Kept(ack) \subseteq DOMAIN send_queue /\ F \subseteq DOMAIN send_queue
  BY DEF Kept, InFlight
<1>3. ASSUME NEW s \in Kept(ack)
      PROVE  /\ q1[s] \in ChunkType
             /\ q1[s].frag = send_queue[s].frag /\ q1[s].data = send_queue[s].data
             /\ q1[s].in_flight = send_queue[s].in_flight
  <2>1. send_queue[s] \in ChunkType
    BY <1>1, <1>2 DEF IsQueue
  <2>2. /\ s \in Naked(ack) => q1[s] = [send_queue[s] EXCEPT !.nak_count = @ + 1]
        /\ s \notin Naked(ack) => q1[s] = send_queue[s]
    OBVIOUS
  <2> HIDE DEF q1
  <2> QED
    BY <2>1, <2>2, NakChunk
<1>4. DOMAIN q1 = Kept(ack) /\ q1 \in [Kept(ack) -> ChunkType]
  BY <1>3
<1>5. q = WithLost(q1, NakLost(ack))
  BY DEF AfterNaks
<1> HIDE DEF q1, q
<1>6. IsQueue(q1, last_seqnum)
  BY <1>1, <1>2, <1>4 DEF IsQueue
<1>7. InFlight(q1) = F \ (Removed(ack) \cap F)
  BY <1>3, <1>4 DEF InFlight, Kept
<1>8. NakLost(ack) \subseteq InFlight(q1)
  BY <1>3, <1>4 DEF NakLost, Naked, InFlight
<1>9. /\ IsQueue(q, last_seqnum) /\ DOMAIN q = DOMAIN q1
      /\ \A s \in DOMAIN q1 : q[s].frag = q1[s].frag /\ q[s].data = q1[s].data
      /\ Bytes(q1, InFlight(q1)) - Bytes(q1, NakLost(ack)) = Bytes(q, InFlight(q))
  BY <1>1, <1>5, <1>6, <1>8, AfterLoss
<1>10. IsFiniteSet(F) /\ Bytes(send_queue, F) \in Nat
  BY <1>1, <1>2, QueueFinite
<1>11. /\ Bytes(send_queue, F) - acked = Bytes(send_queue, InFlight(q1))
       /\ acked \in Nat
  <2>1. Removed(ack) \cap F \subseteq F /\ IsFiniteSet(Removed(ack) \cap F)
    BY <1>10, FS_Subset
  <2>2. Bytes(send_queue, F) - acked = Bytes(send_queue, F \ (Removed(ack) \cap F))
    <3>1. \A T : T \subseteq F =>
            Bytes(send_queue, F) - Bytes(send_queue, T) = Bytes(send_queue, F \ T)
      BY <1>10, BytesSplit
    <3> QED
      BY <2>1, <3>1, Zenon
  <2> QED
    BY <1>7, <2>1, <2>2, BytesFinite, Zenon
<1>12. InFlight(q1) \subseteq Kept(ack)
  BY <1>4 DEF InFlight
<1>13. /\ Bytes(q1, InFlight(q1)) = Bytes(send_queue, InFlight(q1))
       /\ Bytes(q1, NakLost(ack)) = lost
  <2>1. \A s \in InFlight(q1) : q1[s].data.len = send_queue[s].data.len
    BY <1>3, <1>12
  <2>2. \A s \in NakLost(ack) : q1[s].data.len = send_queue[s].data.len
    BY <1>8, <2>1
  <2> QED
    BY <2>1, <2>2, BytesSame
<1>14. inflight_bytes - acked - lost = Bytes(q, InFlight(q))
  BY <1>1, <1>9, <1>11, <1>13
<1>15. \A s \in DOMAIN q : IsCopy(q[s], pushed[s])
  BY <1>1, <1>2, <1>3, <1>4, <1>9 DEF IsCopy
<1>16. Bytes(q, InFlight(q)) \in Nat
  <2>1. InFlight(q) \subseteq DOMAIN q
    BY DEF InFlight
  <2> QED
    BY <1>1, <1>9, <2>1, QueueFinite
<1> QED
  BY <1>4, <1>9, <1>11, <1>14, <1>15, <1>16 DEF q

(***************************************************************************)
(* An acknowledgement that removes chunks or reopens the window: either    *)
(* the window is open afterwards, and the alarm of a flow that has sent    *)
(* something runs, or it is probed.                                        *)
(***************************************************************************)
LEMMA RangeAckNewStep ==
  ASSUME IInv, NEW ack \in toSend, RangeAckNew(ack), toSend' \subseteq toSend,
         UNCHANGED recvVars
  PROVE  IInv'
<1> DEFINE q     == AfterNaks(ack)
           acked == Bytes(send_queue, Removed(ack) \cap InFlight(send_queue))
           lost  == Bytes(send_queue, NakLost(ack))
           inflight == inflight_bytes - acked - lost
           cc    == UpdateCongestionWnd(cong_wnd, ssthresh, acked_bytes_accumulator,
                      NakLost(ack) # {}, Naked(ack) # {}, acked, inflight_bytes)
           wnd   == MinOf(recv_wnd', cong_wnd')
<1>1. /\ Removed(ack) # {} \/ Reopens(ack)
      /\ ack_ranges' = Acked(ack)
      /\ bufprob_ticker' = (ack.bufAvail = 0)
      /\ recv_wnd' = ack.bufAvail
      /\ cong_wnd' = cc.cong_wnd
      /\ ssthresh' = cc.ssthresh
      /\ acked_bytes_accumulator' = cc.acc
      /\ TrySend(q, inflight, 0, wnd, AlarmReset)
      /\ UNCHANGED <<last_seqnum, send_closed, sent, pushed>>
  BY DEF RangeAckNew, Probes
<1>2. SendTypeOK /\ TimerInv /\ TypeOK
  BY IInvType DEF IInv, SendInv
<1>3. /\ IsQueue(q, last_seqnum) /\ DOMAIN q = Kept(ack)
      /\ \A s \in DOMAIN q : IsCopy(q[s], pushed[s])
      /\ acked \in Nat
      /\ inflight = Bytes(q, InFlight(q)) /\ inflight \in Nat
  BY QueueAfterAck
<1> HIDE DEF q, acked, lost, inflight
<1>4. cc.cong_wnd \in Nat \ {0} /\ cc.ssthresh \in Nat /\ cc.acc \in Nat
  BY <1>2, <1>3, CongestionWndType DEF SendTypeOK
<1> HIDE DEF cc
<1>5. /\ cong_wnd' \in Nat \ {0} /\ ssthresh' \in Nat /\ acked_bytes_accumulator' \in Nat
      /\ recv_wnd' \in Nat /\ wnd \in Nat
  BY <1>1, <1>4, AckedRange DEF MinOf
<1> HIDE DEF wnd
<1>6. 0 \in 0 .. BurstLimit /\ last_seqnum \in Nat
  BY <1>2, SendAssumption DEF SendTypeOK
<1>7. /\ IsQueue(send_queue', last_seqnum') /\ DOMAIN send_queue' = DOMAIN q
      /\ \A s \in DOMAIN send_queue' : IsCopy(send_queue'[s], pushed'[s])
      /\ InflightAccounted'
      /\ inflight_bytes' \in Nat /\ current_tsn' \in Nat
      /\ data_packets_count' \in 0 .. BurstLimit
      /\ \A p \in toRecv' :
           \/ p \in toRecv
           \/ \E s \in SeqNums' : \E c \in ChunkType : IsCopy(c, pushed'[s]) /\ p = UserData(s, c)
      /\ rtx_alarm' \in {AlarmReset, "armed"}
  BY <1>1, <1>2, <1>3, <1>5, <1>6, AfterTrySend
<1>8. AlarmReset \in {"nil", "armed"} /\ (AlarmReset = "nil" => rtx_alarm = "nil")
  BY <1>2 DEF AlarmReset, SendTypeOK
<1>9. SendTypeOK'
  BY <1>1, <1>2, <1>5, <1>7, <1>8, AckedRange DEF SendTypeOK, IsQueue
<1>10. TimerInv'
  <2>1. send_closed' \/ rtx_alarm # "nil"
    <3>1. SUFFICES ASSUME ~ send_closed, rtx_alarm = "nil" PROVE FALSE
      BY <1>1
    <3>2. last_seqnum = 0 /\ ~ bufprob_ticker
      BY <1>2, <3>1 DEF TimerInv
    <3>3. Removed(ack) = {}
      BY <1>2, <3>2 DEF Removed, SendTypeOK
    <3> QED
      BY <1>1, <3>2, <3>3 DEF Reopens
  <2>2. send_closed' \/ rtx_alarm' = "armed"
    BY <1>7, <1>8, <2>1
  <2>3. ZeroWindowProbed'
    BY <1>1 DEF ZeroWindowProbed
  <2>4. SenderNeverStalls'
    BY <2>2 DEF SenderNeverStalls
  <2>5. rtx_alarm' # "idle"
    BY <1>7, <1>8
  <2> QED
    BY <2>2, <2>3, <2>4, <2>5 DEF TimerInv
<1>11. SendInv'
  BY <1>7, <1>9, <1>10 DEF SendInv
<1>12. Extends
  BY <1>1, <1>2, SameExtends
<1>13. NetInv'
  BY <1>7, <1>12, NetAfterSender DEF IInv, recvVars
<1>14. AckedInv'
  <2>1. SeqNums \ Kept(ack) \subseteq Acked(ack)
    BY AckedRange DEF Kept, Removed
  <2> QED
    BY <1>1, <1>3, <1>7, <2>1, AckedRange DEF AckedInv, recvVars, SeqNums
<1> QED
  BY <1>1, <1>11, <1>13, <1>14, SenderKeeps

(***************************************************************************)
(* Whatever an acknowledgement says.                                       *)
(***************************************************************************)
LEMMA RangeAckStep ==
  ASSUME IInv, RecvRangeAck PROVE IInv'
<1>1. PICK ack \in toSend : /\ toSend' \in Consumed(toSend, ack)
                            /\ OnRangeAck(ack) /\ UNCHANGED recvVars
  BY DEF RecvRangeAck
<1>2. toSend' \subseteq toSend
  BY <1>1 DEF Consumed
<1> QED
  BY <1>1, <1>2, RangeAckLateStep, RangeAckNewStep DEF OnRangeAck

-----------------------------------------------------------------------------
(***************************************************************************)
(* A function on 1 .. n is a sequence of length n.                         *)
(***************************************************************************)
LEMMA FunctionSeq ==
  ASSUME NEW X, NEW n \in Nat, NEW f \in [1 .. n -> X]
  PROVE  f \in Seq(X) /\ Len(f) = n
OBVIOUS

(***************************************************************************)
(* What was in a sequence before another was put behind it, and after.     *)
(***************************************************************************)
LEMMA Concatenation ==
  ASSUME NEW X, NEW s \in Seq(X), NEW t \in Seq(X)
  PROVE  /\ s \o t \in Seq(X) /\ Len(s \o t) = Len(s) + Len(t)
         /\ \A i \in 1 .. Len(s) : (s \o t)[i] = s[i]
         /\ \A i \in 1 .. Len(t) : (s \o t)[Len(s) + i] = t[i]
OBVIOUS

(***************************************************************************)
(* The fragments a message is cut into are chunks, and the only ones that  *)
(* can be whole messages end theirs.                                       *)
(***************************************************************************)
LEMMA FragmentsOf ==
  ASSUME NEW m \in Nat \ {0}, NEW len \in Nat
  PROVE  /\ NumFrags(len) \in Nat \ {0}
         /\ Fragments(m, len) \in Seq(FragmentType)
         /\ Len(Fragments(m, len)) = NumFrags(len)
         /\ \A i \in 1 .. NumFrags(len) :
              Fragments(m, len)[i] = Fragment(m, len, i)
<1> DEFINE n == NumFrags(len)
           f == Fragments(m, len)
<1>1. n \in Nat \ {0} /\ \A i \in 1 .. n : FragLen(len, i) \in 0 .. SMSS
  BY FragmentSizes
<1>2. f = [i \in 1 .. n |-> Fragment(m, len, i)]
  BY DEF Fragments
<1>3. \A i \in 1 .. n : FragControl(len, i) \in FragCtrl
  BY DEF FragControl, FragCtrl
<1> HIDE DEF n, f
<1>4. \A i \in 1 .. n : Piece(m, len, i) \in PieceType
  BY <1>1 DEF Piece, PieceType
<1>5. f \in [1 .. n -> FragmentType]
  BY <1>2, <1>3, <1>4 DEF Fragment, FragmentType
<1>6. f \in Seq(FragmentType) /\ Len(f) = n
  BY <1>1, <1>5, FunctionSeq
<1>7. \A i \in 1 .. n : f[i] = Fragment(m, len, i)
  BY <1>2
<1> QED
  BY <1>1, <1>6, <1>7, Zenon DEF n, f

(***************************************************************************)
(* What send() appends to pushed.                                          *)
(***************************************************************************)
LEMMA AppendFragments ==
  ASSUME NEW p, p \in Seq(FragmentType), NEW m \in Nat \ {0}, NEW len \in Nat
  PROVE  LET q == p \o Fragments(m, len)
         IN  /\ q \in Seq(FragmentType)
             /\ Len(q) = Len(p) + NumFrags(len)
             /\ \A s \in 1 .. Len(p) : q[s] = p[s]
             /\ \A i \in 1 .. NumFrags(len) : q[Len(p) + i] = Fragment(m, len, i)
<1> DEFINE f == Fragments(m, len)
           n == NumFrags(len)
           q == p \o f
<1>1. Len(f) = n /\ \A i \in 1 .. n : f[i] = Fragment(m, len, i)
  BY FragmentsOf
<1>2. f \in Seq(FragmentType)
  BY FragmentsOf
<1> HIDE DEF f, n
<1>3. /\ q \in Seq(FragmentType) /\ Len(q) = Len(p) + Len(f)
      /\ \A i \in 1 .. Len(p) : q[i] = p[i]
      /\ \A i \in 1 .. Len(f) : q[Len(p) + i] = f[i]
  BY <1>2, Concatenation
<1> HIDE DEF q
<1>4. \A i \in 1 .. n : q[Len(p) + i] = Fragment(m, len, i)
  BY <1>1, <1>3
<1> QED
  BY <1>1, <1>3, <1>4, Zenon DEF f, n, q

(***************************************************************************)
(* send() adds a whole message behind those pushed, and nothing else.      *)
(***************************************************************************)
LEMMA PushedAfterSend ==
  ASSUME TypeOK, PushedInv, NEW len \in MsgSizes, NEW m, m = Len(sent) + 1,
         NEW n \in Nat \ {0}, n = NumFrags(len), sent' = Append(sent, len),
         last_seqnum' = last_seqnum + n, Len(pushed') = last_seqnum',
         \A s \in SeqNums : pushed'[s] = pushed[s],
         \A i \in 1 .. n :
           pushed'[last_seqnum + i] = Fragment(m, len, i)
  PROVE  PushedInv' /\ Extends /\ sent' \in Seq(MsgSizes)
<1>1. /\ last_seqnum \in Nat /\ sent \in Seq(MsgSizes) /\ Len(sent) \in Nat
      /\ Len(pushed) = last_seqnum /\ len \in Nat
  BY SendAssumption DEF TypeOK, SendTypeOK, PushedInv
<1>2. m \in Nat \ {0}
  BY <1>1
<1>4. /\ sent' \in Seq(MsgSizes) /\ Len(sent') = m /\ sent'[m] = len
      /\ \A k \in 1 .. Len(sent) : sent'[k] = sent[k]
  BY <1>1
<1>5. \A s \in 1 .. last_seqnum : pushed'[s] = pushed[s]
  BY DEF SeqNums
<1>6. last_seqnum' = last_seqnum + n /\ n \in Nat \ {0}
  OBVIOUS
<1>7. Extends
  BY <1>1, <1>4, <1>6 DEF Extends, SeqNums
<1>8. ASSUME NEW i \in 1 .. n
      PROVE  /\ last_seqnum + i \in SeqNums'
             /\ pushed'[last_seqnum + i].data.msg = m
             /\ pushed'[last_seqnum + i].data.idx = i
  <2>1. last_seqnum + i \in SeqNums'
    BY <1>1, <1>6 DEF SeqNums
  <2>2. pushed'[last_seqnum + i] = Fragment(m, len, i)
    OBVIOUS
  <2>3. Piece(m, len, i).msg = m /\ Piece(m, len, i).idx = i
    BY DEF Piece
  <2>4. pushed'[last_seqnum + i].data = Piece(m, len, i)
    BY <2>2 DEF Fragment
  <2> QED
    BY <2>1, <2>3, <2>4, Zenon
<1>9. ASSUME NEW s \in SeqNums' PROVE WholeMessageAt(s)'
  <2>1. CASE s \in SeqNums
    <3> DEFINE mm == pushed[s].data.msg
               i  == pushed[s].data.idx
    <3>1. pushed'[s] = pushed[s]
      BY <1>5, <2>1 DEF SeqNums
    <3>2. /\ mm \in 1 .. Len(sent) /\ i \in 1 .. NumFrags(sent[mm])
          /\ \A k \in 1 .. NumFrags(sent[mm]) :
               /\ s - i + k \in SeqNums
               /\ pushed[s - i + k] =
                    Fragment(mm, sent[mm], k)
      BY <2>1 DEF PushedInv, WholeMessageAt
    <3> HIDE DEF mm, i
    <3>3. mm \in 1 .. Len(sent') /\ sent'[mm] = sent[mm]
      BY <1>1, <1>4, <3>2
    <3>4. \A k \in 1 .. NumFrags(sent'[mm]) :
             /\ s - i + k \in SeqNums'
             /\ pushed'[s - i + k] =
                  Fragment(mm, sent'[mm], k)
      <4>1. \A x \in SeqNums : x \in SeqNums' /\ pushed'[x] = pushed[x]
        BY <1>1, <1>5, <1>6 DEF SeqNums
      <4> QED
        BY <3>2, <3>3, <4>1
    <3>5. pushed'[s].data.msg = mm /\ pushed'[s].data.idx = i
      BY <3>1 DEF mm, i
    <3>6. i \in 1 .. NumFrags(sent'[mm])
      BY <3>2, <3>3
    <3> QED
      BY <3>3, <3>4, <3>5, <3>6, Zenon DEF WholeMessageAt
  <2>2. CASE s \notin SeqNums
    <3>1. PICK i \in 1 .. n : s = last_seqnum + i
      <4>1. s - last_seqnum \in 1 .. n /\ s = last_seqnum + (s - last_seqnum)
        BY <1>1, <1>6, <2>2 DEF SeqNums
      <4> QED
        BY <4>1
    <3>2. pushed'[s].data.msg = m /\ pushed'[s].data.idx = i
      BY <1>8, <3>1
    <3>3. m \in 1 .. Len(sent') /\ sent'[m] = len /\ NumFrags(sent'[m]) = n
      BY <1>2, <1>4
    <3>4. \A k \in 1 .. n :
             /\ s - i + k \in SeqNums'
             /\ pushed'[s - i + k] = Fragment(m, len, k)
      <4> SUFFICES ASSUME NEW k \in 1 .. n
                   PROVE  /\ s - i + k \in SeqNums'
                          /\ pushed'[s - i + k] =
                               Fragment(m, len, k)
        OBVIOUS
      <4>1. s - i + k = last_seqnum + k
        BY <1>1, <3>1
      <4> QED
        BY <1>8, <4>1
    <3> QED
      BY <3>1, <3>2, <3>3, <3>4 DEF WholeMessageAt
  <2> QED
    BY <2>1, <2>2
<1>10. ASSUME NEW s \in 0 .. last_seqnum, NEW k \in 0 .. Len(sent'), EndsMessage(s, k)'
       PROVE  EndsMessage(s, k) /\ k \in 0 .. Len(sent)
  <2>1. CASE s = 0 /\ k = 0
    BY <1>1, <2>1 DEF EndsMessage
  <2>2. CASE s # 0
    <3>1. s \in SeqNums /\ pushed'[s] = pushed[s]
      BY <1>1, <1>5, <2>2 DEF SeqNums
    <3>2. pushed'[s].data.msg = k /\ LastOfMessage(s)'
      BY <1>10, <2>2 DEF EndsMessage
    <3>3. pushed[s].data.msg \in 1 .. Len(sent)
      BY <3>1 DEF PushedInv, WholeMessageAt
    <3>4. k \in 1 .. Len(sent) /\ sent'[k] = sent[k]
      BY <1>4, <3>1, <3>2, <3>3
    <3>5. LastOfMessage(s)
      BY <3>1, <3>2, <3>4 DEF LastOfMessage
    <3> QED
      BY <3>1, <3>2, <3>4, <3>5 DEF EndsMessage
  <2>3. 0 \notin SeqNums'
    BY DEF SeqNums
  <2> QED
    BY <1>10, <2>1, <2>2, <2>3 DEF EndsMessage
<1>11. ASSUME NEW s \in 0 .. last_seqnum' - 1, NEW k \in 0 .. Len(sent'), EndsMessage(s, k)'
       PROVE  pushed'[s + 1].data.msg = k + 1 /\ pushed'[s + 1].data.idx = 1
  <2>1. CASE s < last_seqnum
    <3>1. EndsMessage(s, k) /\ k \in 0 .. Len(sent)
      BY <1>1, <1>10, <1>11, <2>1, SMTT(30)
    <3>2. s \in 0 .. last_seqnum - 1 /\ s + 1 \in 1 .. last_seqnum
      BY <1>1, <2>1, SMTT(30)
    <3>3. pushed[s + 1].data.msg = k + 1 /\ pushed[s + 1].data.idx = 1
      BY <3>1, <3>2 DEF PushedInv
    <3> QED
      BY <1>5, <3>2, <3>3
  <2>2. CASE s = last_seqnum
    <3>1. EndsMessage(last_seqnum, k) /\ k \in 0 .. Len(sent)
      BY <1>1, <1>10, <1>11, <2>2, SMTT(30)
    <3>2. EndsMessage(last_seqnum, Len(sent))
      BY DEF PushedInv
    <3>3. k = Len(sent)
      BY <3>1, <3>2, <1>1, SMTT(30) DEF EndsMessage, SeqNums
    <3>4. 1 \in 1 .. n
      BY <1>6
    <3>5. pushed'[last_seqnum + 1].data.msg = m /\ pushed'[last_seqnum + 1].data.idx = 1
      BY <1>8, <3>4
    <3> QED
      BY <2>2, <3>3, <3>5
  <2>3. CASE s > last_seqnum
    <3> DEFINE i == s - last_seqnum
    <3>1. i \in 1 .. n /\ i # n /\ s = last_seqnum + i
      BY <1>1, <1>6, <2>3
    <3>2. pushed'[s].data.msg = m /\ pushed'[s].data.idx = i
      BY <1>8, <3>1
    <3>3. ~ LastOfMessage(s)'
      BY <1>4, <3>1, <3>2 DEF LastOfMessage
    <3> QED
      BY <1>1, <1>11, <2>3, <3>3 DEF EndsMessage
  <2>4. s < last_seqnum \/ s = last_seqnum \/ s > last_seqnum
    BY <1>1, <1>6
  <2> QED
    BY <2>1, <2>2, <2>3, <2>4, Zenon
<1>12. EndsMessage(last_seqnum, Len(sent))'
  <2>1. n \in 1 .. n
    BY <1>6
  <2>2. /\ last_seqnum' \in SeqNums'
        /\ pushed'[last_seqnum'].data.msg = m /\ pushed'[last_seqnum'].data.idx = n
    BY <1>6, <1>8, <2>1
  <2>3. LastOfMessage(last_seqnum)'
    BY <1>4, <2>2 DEF LastOfMessage
  <2> QED
    BY <1>4, <2>2, <2>3 DEF EndsMessage
<1> QED
  BY <1>4, <1>5, <1>7, <1>9, <1>11, <1>12 DEF PushedInv

(***************************************************************************)
(* The queue with the new chunks at its back: they are copies of what was  *)
(* pushed, and none is in flight.                                          *)
(***************************************************************************)
LEMMA QueueAfterSend ==
  ASSUME IInv, NEW frags, NEW n \in Nat \ {0}, Len(frags) = n,
         \A i \in 1 .. n : frags[i] \in FragmentType,
         last_seqnum' = last_seqnum + n,
         \A s \in SeqNums : pushed'[s] = pushed[s],
         \A i \in 1 .. n : pushed'[last_seqnum + i] = frags[i]
  PROVE  LET q == Queued(frags)
         IN  /\ IsQueue(q, last_seqnum')
             /\ DOMAIN q = DOMAIN send_queue \cup (last_seqnum + 1 .. last_seqnum')
             /\ \A s \in DOMAIN q : IsCopy(q[s], pushed'[s])
             /\ inflight_bytes = Bytes(q, InFlight(q))
             /\ Waiting(q) # {}
<1> DEFINE q   == Queued(frags)
           new == last_seqnum + 1 .. last_seqnum'
           Q   == send_queue
<1>1. /\ last_seqnum \in Nat /\ DOMAIN Q \subseteq SeqNums /\ Q \in [DOMAIN Q -> ChunkType]
      /\ \A s \in DOMAIN Q : IsCopy(Q[s], pushed[s])
      /\ inflight_bytes = Bytes(Q, InFlight(Q))
  BY DEF IInv, SendInv, SendTypeOK, InflightAccounted, SeqNums
<1>2. q = [s \in DOMAIN Q \cup new |->
             IF s \in DOMAIN Q THEN Q[s] ELSE NewChunk(frags[s - last_seqnum])]
  BY DEF Queued
<1> HIDE DEF q
<1>3. ASSUME NEW s \in DOMAIN Q
      PROVE  q[s] = Q[s] /\ q[s] \in ChunkType /\ IsCopy(q[s], pushed'[s])
  BY <1>1, <1>2 DEF IsCopy
<1>4. ASSUME NEW s \in new
      PROVE  q[s] \in ChunkType /\ IsCopy(q[s], pushed'[s]) /\ ~ q[s].in_flight
  <2> DEFINE i == s - last_seqnum
  <2>1. i \in 1 .. n /\ s = last_seqnum + i /\ s \notin DOMAIN Q
    BY <1>1 DEF SeqNums
  <2>2. q[s] = NewChunk(frags[i])
    BY <1>2, <2>1
  <2>3. frags[i] \in FragmentType /\ pushed'[s] = frags[i]
    BY <2>1
  <2> HIDE DEF i
  <2> QED
    BY <2>2, <2>3 DEF NewChunk, ChunkType, IsCopy, FragmentType
<1>5. DOMAIN q = DOMAIN Q \cup new
  BY <1>2
<1>6. IsQueue(q, last_seqnum')
  <2>1. DOMAIN q \subseteq 1 .. last_seqnum'
    BY <1>1, <1>5 DEF SeqNums
  <2>2. q \in [DOMAIN q -> ChunkType]
    <3>1. \A s \in DOMAIN q : q[s] \in ChunkType
      BY <1>3, <1>4, <1>5
    <3> QED
      BY <1>2, <3>1
  <2> QED
    BY <2>1, <2>2 DEF IsQueue
<1>7. InFlight(q) = InFlight(Q)
  BY <1>3, <1>4, <1>5 DEF InFlight
<1>8. Bytes(q, InFlight(Q)) = Bytes(Q, InFlight(Q))
  <2>1. \A s \in InFlight(Q) : q[s].data.len = Q[s].data.len
    BY <1>3 DEF InFlight
  <2> QED
    BY <2>1, BytesSame
<1>9. Waiting(q) # {}
  <2>1. last_seqnum + 1 \in new
    BY <1>1
  <2>2. last_seqnum + 1 \in Waiting(q)
    BY <1>4, <1>5, <2>1 DEF Waiting
  <2> QED
    BY <2>2
<1> QED
  BY <1>1, <1>3, <1>4, <1>5, <1>6, <1>7, <1>8, <1>9 DEF q

(***************************************************************************)
(* An application that sends starts the alarm of its flow, unless the      *)
(* window is closed and probed.                                            *)
(***************************************************************************)
LEMMA SendStep ==
  ASSUME IInv, AppSend PROVE IInv'
<1>1. PICK len \in MsgSizes : Send(len) /\ UNCHANGED recvVars
  BY DEF AppSend
<1> DEFINE m == Len(sent) + 1
           n == NumFrags(len)
           frags == Fragments(m, len)
           q == Queued(frags)
           wnd == MinOf(recv_wnd, cong_wnd)
<1>2. /\ ~ send_closed
      /\ sent' = Append(sent, len) /\ pushed' = pushed \o frags
      /\ last_seqnum' = last_seqnum + Len(frags)
      /\ TrySend(q, inflight_bytes, data_packets_count, wnd, rtx_alarm)
      /\ UNCHANGED <<ack_ranges, wndVars, bufprob_ticker, send_closed, toSend>>
  BY <1>1 DEF Send
<1>3. /\ TypeOK /\ SendTypeOK /\ TimerInv /\ PushedInv /\ RecvInv /\ NetInv
      /\ last_seqnum \in Nat /\ Len(sent) \in Nat /\ len \in Nat /\ m \in Nat \ {0}
      /\ pushed \in Seq(FragmentType) /\ Len(pushed) = last_seqnum
  <2>1. TypeOK /\ SendTypeOK /\ TimerInv /\ PushedInv /\ RecvInv /\ NetInv
    BY IInvType DEF IInv, SendInv
  <2>2. last_seqnum \in Nat /\ sent \in Seq(MsgSizes) /\ Len(pushed) = last_seqnum
        /\ pushed \in Seq(FragmentType)
    BY <2>1 DEF SendTypeOK, PushedInv
  <2>3. len \in Nat
    BY SendAssumption
  <2>4. Len(sent) \in Nat /\ m \in Nat \ {0}
    BY <2>2
  <2> QED
    BY <2>1, <2>2, <2>3, <2>4
<1>4. /\ n \in Nat \ {0} /\ Len(frags) = n
      /\ \A i \in 1 .. n : frags[i] = Fragment(m, len, i)
      /\ \A i \in 1 .. n : frags[i] \in FragmentType
  <2>1. /\ n \in Nat \ {0} /\ Len(frags) = n
        /\ frags \in Seq(FragmentType)
        /\ \A i \in 1 .. n : frags[i] = Fragment(m, len, i)
    BY <1>3, FragmentsOf, Zenon
  <2> HIDE DEF frags, n
  <2>2. \A i \in 1 .. Len(frags) : frags[i] \in FragmentType
    BY <2>1
  <2> QED
    BY <2>1, <2>2
<1>5. /\ pushed' \in Seq(FragmentType)
      /\ Len(pushed') = last_seqnum + n
      /\ \A s \in SeqNums : pushed'[s] = pushed[s]
      /\ \A i \in 1 .. n :
           pushed'[last_seqnum + i] = Fragment(m, len, i)
  <2> DEFINE x == pushed \o frags
  <2>1. pushed \in Seq(FragmentType) /\ m \in Nat \ {0} /\ len \in Nat
    BY <1>3
  <2> HIDE DEF m
  <2>2. /\ x \in Seq(FragmentType)
        /\ Len(x) = Len(pushed) + n
        /\ \A s \in 1 .. Len(pushed) : x[s] = pushed[s]
        /\ \A i \in 1 .. n :
             x[Len(pushed) + i] = Fragment(m, len, i)
    BY <2>1, AppendFragments, Zenon
  <2>3. pushed' = x /\ Len(pushed) = last_seqnum
    BY <1>2, <1>3
  <2> HIDE DEF x, n
  <2> QED
    BY <2>2, <2>3, Zenon DEF SeqNums
<1>6. last_seqnum' = last_seqnum + n /\ \A i \in 1 .. n : pushed'[last_seqnum + i] = frags[i]
  BY <1>2, <1>4, <1>5, Zenon
<1> HIDE DEF frags, n, m
<1>7. PushedInv' /\ Extends /\ sent' \in Seq(MsgSizes)
  <2>1. m = Len(sent) + 1 /\ n = NumFrags(len) /\ Len(pushed') = last_seqnum'
    BY <1>5, <1>6, Zenon DEF m, n
  <2> QED
    BY <1>2, <1>3, <1>4, <1>5, <1>6, <2>1, PushedAfterSend, Zenon
<1>8. /\ IsQueue(q, last_seqnum')
      /\ DOMAIN q = DOMAIN send_queue \cup (last_seqnum + 1 .. last_seqnum')
      /\ \A s \in DOMAIN q : IsCopy(q[s], pushed'[s])
      /\ inflight_bytes = Bytes(q, InFlight(q))
      /\ Waiting(q) # {}
  BY <1>4, <1>5, <1>6, QueueAfterSend, Zenon
<1> HIDE DEF q
<1>9. wnd \in Nat /\ (recv_wnd > 0 => wnd > 0) /\ data_packets_count \in 0 .. BurstLimit
      /\ last_seqnum' \in Nat
  BY <1>3, <1>4, <1>6 DEF SendTypeOK, MinOf
<1> HIDE DEF wnd
<1>10. /\ IsQueue(send_queue', last_seqnum') /\ DOMAIN send_queue' = DOMAIN q
       /\ \A s \in DOMAIN send_queue' : IsCopy(send_queue'[s], pushed'[s])
       /\ InflightAccounted'
       /\ inflight_bytes' \in Nat /\ current_tsn' \in Nat
       /\ data_packets_count' \in 0 .. BurstLimit
       /\ \A p \in toRecv' :
            \/ p \in toRecv
            \/ \E s \in SeqNums' : \E c \in ChunkType : IsCopy(c, pushed'[s]) /\ p = UserData(s, c)
       /\ rtx_alarm' \in {rtx_alarm, "armed"}
       /\ rtx_alarm' # "armed" => data_packets_count' = data_packets_count
       /\ (inflight_bytes = 0 /\ data_packets_count = 0 /\ wnd > 0) => rtx_alarm' = "armed"
  BY <1>2, <1>3, <1>8, <1>9, AfterTrySend
<1>11. SendTypeOK'
  <2>1. ack_ranges' \subseteq 0 .. last_seqnum'
    BY <1>2, <1>3, <1>4, <1>6, SMTT(30) DEF SendTypeOK
  <2>2. rtx_alarm' \in {"nil", "armed", "idle"}
    BY <1>3, <1>10 DEF SendTypeOK
  <2> QED
    BY <1>2, <1>3, <1>5, <1>7, <1>9, <1>10, <2>1, <2>2 DEF SendTypeOK, IsQueue, wndVars
<1>12. TimerInv'
  <2>1. rtx_alarm' = "armed" \/ (rtx_alarm' = "idle" /\ bufprob_ticker /\ data_packets_count' = 0)
    <3>1. SUFFICES ASSUME rtx_alarm' # "armed"
                   PROVE  rtx_alarm' = "idle" /\ bufprob_ticker /\ data_packets_count' = 0
      OBVIOUS
    <3>2. rtx_alarm' = rtx_alarm /\ rtx_alarm \in {"nil", "idle"}
          /\ data_packets_count' = data_packets_count
      BY <1>3, <1>10, <3>1 DEF SendTypeOK
    <3>3. data_packets_count = 0
      BY <1>2, <1>3, <3>2 DEF TimerInv
    <3>4. DOMAIN send_queue = {} => inflight_bytes = 0
      <4>1. DOMAIN send_queue = {} => InFlight(send_queue) = {}
        BY DEF InFlight
      <4> QED
        BY <4>1, BytesEmpty DEF IInv, SendInv, InflightAccounted
    <3>5. bufprob_ticker \/ DOMAIN send_queue = {}
      BY <1>2, <1>3, <3>1, <3>2 DEF TimerInv, SenderNeverStalls
    <3>6. bufprob_ticker \/ recv_wnd > 0
      BY <1>2, <1>3, SMTT(30) DEF TimerInv, ZeroWindowProbed, SendTypeOK
    <3>7. bufprob_ticker
      BY <1>9, <1>10, <3>1, <3>3, <3>4, <3>5, <3>6
    <3>8. rtx_alarm # "nil"
      BY <1>2, <1>3, <3>7 DEF TimerInv
    <3> QED
      BY <3>2, <3>3, <3>7, <3>8
  <2>2. ZeroWindowProbed'
    BY <1>2, <1>3 DEF TimerInv, ZeroWindowProbed, wndVars
  <2>3. SenderNeverStalls'
    BY <1>2, <2>1 DEF SenderNeverStalls
  <2> QED
    BY <2>1, <2>2, <2>3 DEF TimerInv
<1>13. SendInv'
  BY <1>10, <1>11, <1>12 DEF SendInv
<1>14. NetInv'
  BY <1>1, <1>2, <1>3, <1>7, <1>10, NetAfterSender DEF recvVars
<1>15. RecvInv'
  BY <1>1, <1>3, <1>7, RecvFrame
<1>16. AckedInv'
  <2>1. SeqNums' \ DOMAIN send_queue' = SeqNums \ DOMAIN send_queue
    BY <1>3, <1>4, <1>6, <1>8, <1>10 DEF SeqNums
  <2> QED
    BY <1>1, <1>2, <2>1 DEF IInv, AckedInv, recvVars
<1> QED
  BY <1>7, <1>13, <1>14, <1>15, <1>16 DEF IInv

-----------------------------------------------------------------------------
(***************************************************************************)
(* A step of the receiver does not disturb the sender, as long as the      *)
(* receiver keeps what it has.                                             *)
(***************************************************************************)
LEMMA ReceiverKeeps ==
  ASSUME IInv, RecvInv', NetInv', recv_ranges \subseteq recv_ranges', UNCHANGED sendVars
  PROVE  IInv'
<1>1. PushedInv'
  BY PushedFrame DEF IInv, sendVars
<1>2. SendInv'
  BY DEF IInv, SendInv, SendTypeOK, TimerInv, InflightAccounted, IsCopy,
         ZeroWindowProbed, SenderNeverStalls, sendVars, wndVars
<1>3. AckedInv'
  BY DEF IInv, AckedInv, sendVars, SeqNums
<1> QED
  BY <1>1, <1>2, <1>3 DEF IInv

(***************************************************************************)
(* The receiver's part of the invariant, when only the state of its        *)
(* acknowledgements has changed.                                           *)
(***************************************************************************)
LEMMA RecvSame ==
  ASSUME IInv, UNCHANGED sendVars,
         UNCHANGED <<ordered_recv_buf, unordered_recv_buf, ordered_recved_bytes,
                     unordered_recv_buf_bytes, recv_ranges, last_ordered_seqnum,
                     delivered>>,
         rx_data_packets' \in 0 .. 1, prev_rwnd' \in Nat, delack_alarm' \in BOOLEAN,
         recv_closed' \in BOOLEAN
  PROVE  RecvInv'
<1>1. RecvInv
  BY DEF IInv
<1>2. RecvTypeOK'
  BY <1>1 DEF RecvInv, RecvTypeOK
<1>3. RecvRangesInv'
  BY <1>1 DEF RecvInv, RecvRangesInv, SeqNums, sendVars
<1>4. Read' = Read
  BY DEF Read
<1>5. BufferInv'
  BY <1>1, <1>4 DEF RecvInv, BufferInv, sendVars
<1>6. ReadInv'
  BY <1>1, <1>4 DEF RecvInv, ReadInv, EndsMessage, LastOfMessage, SeqNums, sendVars
<1> QED
  BY <1>2, <1>3, <1>5, <1>6 DEF RecvInv

(***************************************************************************)
(* What is in transit after a step of the receiver: what was, and at most  *)
(* one acknowledgement of what it has.                                     *)
(***************************************************************************)
LEMMA NetAfterReceiver ==
  ASSUME IInv, UNCHANGED sendVars, toRecv' \subseteq toRecv,
         recv_ranges \subseteq recv_ranges', RecvRangesInv', NEW avail \in Nat,
         toSend' \subseteq toSend \cup
           {RangeAck(avail, last_ordered_seqnum', DOMAIN unordered_recv_buf')}
  PROVE  NetInv'
<1> DEFINE ack == RangeAck(avail, last_ordered_seqnum', DOMAIN unordered_recv_buf')
<1>1. NetInv /\ SeqNums' = SeqNums /\ pushed' = pushed /\ last_seqnum' = last_seqnum
  BY DEF IInv, SeqNums, sendVars
<1>2. (avail \div Block) * Block \in Nat
  BY DivisionNat, RecvAssumption
<1>3. /\ ack.bufAvail \in Nat /\ ack.cumAck = last_ordered_seqnum'
      /\ ack.ranges = DOMAIN unordered_recv_buf'
      /\ ack = [type |-> "rangeack", bufAvail |-> ack.bufAvail,
                 cumAck |-> ack.cumAck, ranges |-> ack.ranges]
  BY <1>2 DEF RangeAck
<1> HIDE DEF ack
<1>4. /\ last_ordered_seqnum' \in 0 .. last_seqnum
      /\ recv_ranges' = 1 .. last_ordered_seqnum' \cup DOMAIN unordered_recv_buf'
      /\ recv_ranges' \subseteq SeqNums
  BY <1>1 DEF RecvRangesInv
<1>5. /\ ack \in RangeAckType
      /\ 1 .. ack.cumAck \subseteq recv_ranges' /\ ack.ranges \subseteq recv_ranges'
  <2>1. /\ ack.cumAck \in 0 .. last_seqnum /\ ack.ranges \in SUBSET SeqNums
        /\ 1 .. ack.cumAck \subseteq recv_ranges' /\ ack.ranges \subseteq recv_ranges'
    BY <1>3, <1>4
  <2> QED
    BY <1>3, <2>1 DEF RangeAckType
<1>6. \A a \in toSend' : a \in toSend \/ a = ack
  BY DEF ack
<1>7. toSend' \subseteq RangeAckType'
  BY <1>1, <1>5, <1>6 DEF NetInv, RangeAckType
<1>8. \A a \in toSend' : 1 .. a.cumAck \subseteq recv_ranges' /\ a.ranges \subseteq recv_ranges'
  BY <1>1, <1>5, <1>6 DEF NetInv
<1>9. \A p \in toRecv' : p = BufferProbe \/ (p \in UserDataType' /\ IsCopy(p, pushed'[p.seq]))
  BY <1>1 DEF NetInv, UserDataType
<1> QED
  BY <1>7, <1>8, <1>9 DEF NetInv

(***************************************************************************)
(* send_ack, from whatever state the handler has reached.                  *)
(***************************************************************************)
LEMMA AfterSendAck ==
  ASSUME IInv, UNCHANGED sendVars, toRecv' \subseteq toRecv,
         recv_ranges \subseteq recv_ranges', RecvRangesInv',
         ordered_recved_bytes' \in Nat, unordered_recv_buf_bytes' \in Nat, SendAck
  PROVE  /\ NetInv' /\ rx_data_packets' \in 0 .. 1 /\ prev_rwnd' \in Nat
         /\ delack_alarm' \in BOOLEAN
<1> DEFINE avail == AvailableBuffers(ordered_recved_bytes' + unordered_recv_buf_bytes')
           ack   == RangeAck(avail, last_ordered_seqnum', DOMAIN unordered_recv_buf')
<1>1. avail \in Nat
  <2>1. \A occupied \in Nat : AvailableBuffers(occupied) \in Nat
    BY RecvAssumption DEF AvailableBuffers
  <2>2. \A a, b \in Nat : a + b \in Nat
    OBVIOUS
  <2> QED
    BY <2>1, <2>2, Zenon
<1>2. /\ rx_data_packets' = 0 /\ prev_rwnd' = avail \div Block /\ delack_alarm' = FALSE
      /\ toSend' = WithAck(toSend, ack)
  BY DEF SendAck
<1> HIDE DEF avail
<1>3. toSend' \subseteq toSend \cup {ack}
  BY <1>2 DEF WithAck
<1>4. NetInv'
  BY <1>1, <1>3, NetAfterReceiver
<1>5. prev_rwnd' \in Nat
  BY <1>1, <1>2, DivisionNat, RecvAssumption
<1>6. rx_data_packets' \in 0 .. 1 /\ delack_alarm' \in BOOLEAN
  <2>1. 0 \in 0 .. 1 /\ FALSE \in BOOLEAN
    OBVIOUS
  <2> QED
    BY <1>2, <2>1, Zenon
<1> QED
  BY <1>4, <1>5, <1>6

(***************************************************************************)
(* A duplicate, a probe and the delayed ack timer only make the receiver   *)
(* acknowledge.                                                            *)
(***************************************************************************)
LEMMA AckOnlyStep ==
  ASSUME IInv, UNCHANGED sendVars, toRecv' \subseteq toRecv,
         UNCHANGED <<ordered_recv_buf, unordered_recv_buf, ordered_recved_bytes,
                     unordered_recv_buf_bytes, recv_ranges, last_ordered_seqnum,
                     recv_closed, delivered>>,
         SendAck
  PROVE  IInv'
<1>1. RecvInv
  BY DEF IInv
<1>2. RecvRangesInv'
  BY <1>1 DEF RecvInv, RecvRangesInv, SeqNums, sendVars
<1>3. ordered_recved_bytes' \in Nat /\ unordered_recv_buf_bytes' \in Nat
      /\ recv_closed' \in BOOLEAN
  BY <1>1 DEF RecvInv, RecvTypeOK
<1>4. /\ NetInv' /\ rx_data_packets' \in 0 .. 1 /\ prev_rwnd' \in Nat
      /\ delack_alarm' \in BOOLEAN
  BY <1>2, <1>3, AfterSendAck
<1>5. RecvInv'
  BY <1>3, <1>4, RecvSame
<1> QED
  BY <1>4, <1>5, ReceiverKeeps

(***************************************************************************)
(* The buffer of on_userdata once the chunk has been put in it, and the n  *)
(* chunks that follow the last one in order.                               *)
(***************************************************************************)
LEMMA BufferWithChunk ==
  ASSUME IInv, NEW p \in UserDataType, IsCopy(p, pushed[p.seq]), p.seq \notin recv_ranges,
         NEW buf,
         buf = [s \in DOMAIN unordered_recv_buf \cup {p.seq} |->
                  IF s = p.seq THEN [frag |-> p.frag, data |-> p.data]
                  ELSE unordered_recv_buf[s]]
  PROVE  /\ DOMAIN buf = DOMAIN unordered_recv_buf \cup {p.seq}
         /\ DOMAIN buf \subseteq SeqNums /\ IsFiniteSet(DOMAIN buf)
         /\ \A s \in DOMAIN buf : /\ buf[s] \in FragmentType /\ IsCopy(buf[s], pushed[s])
                                  /\ s > last_ordered_seqnum
         /\ unordered_recv_buf_bytes + p.data.len = Bytes(buf, DOMAIN buf)
<1> DEFINE U == unordered_recv_buf
           f == [frag |-> p.frag, data |-> p.data]
<1>1. /\ U \in [DOMAIN U -> FragmentType] /\ DOMAIN U \subseteq recv_ranges
      /\ last_ordered_seqnum \in 0 .. last_seqnum /\ last_seqnum \in Nat
      /\ recv_ranges = 1 .. last_ordered_seqnum \cup DOMAIN U /\ recv_ranges \subseteq SeqNums
      /\ \A s \in DOMAIN U : s > last_ordered_seqnum + 1 /\ IsCopy(U[s], pushed[s])
      /\ unordered_recv_buf_bytes = Bytes(U, DOMAIN U)
  BY DEF IInv, SendInv, SendTypeOK, RecvInv, RecvTypeOK, RecvRangesInv, BufferInv
<1>2. /\ p.seq \in SeqNums /\ f \in FragmentType /\ p.data.len \in 0 .. SMSS
      /\ f.data = p.data /\ f.frag = p.frag
  BY DEF UserDataType, FragmentType, PieceType
<1>3. p.seq \notin DOMAIN U /\ p.seq > last_ordered_seqnum
  BY <1>1, <1>2 DEF SeqNums
<1>4. DOMAIN buf = DOMAIN U \cup {p.seq} /\ DOMAIN buf \subseteq SeqNums
  BY <1>1, <1>2
<1> HIDE DEF f
<1>5. buf[p.seq] = f /\ \A s \in DOMAIN U : buf[s] = U[s]
  BY <1>3 DEF f
<1>6. ASSUME NEW s \in DOMAIN buf
      PROVE  buf[s] \in FragmentType /\ IsCopy(buf[s], pushed[s]) /\ s > last_ordered_seqnum
  <2>1. CASE s = p.seq
    BY <1>2, <1>3, <1>5, <2>1 DEF IsCopy
  <2>2. CASE s \in DOMAIN U
    <3>1. s > last_ordered_seqnum
      BY <1>1, <2>2 DEF SeqNums
    <3> QED
      BY <1>1, <1>5, <2>2, <3>1
  <2> QED
    BY <1>4, <2>1, <2>2
<1>7. IsFiniteSet(SeqNums)
  BY <1>1, FS_Interval, SMTT(30) DEF SeqNums
<1>8. IsFiniteSet(DOMAIN buf) /\ IsFiniteSet(DOMAIN U) /\ IsFiniteSet({p.seq})
  BY <1>1, <1>4, <1>7, FS_Subset, FS_Singleton
<1>9. Bytes(buf, DOMAIN buf) = Bytes(U, DOMAIN U) + p.data.len
  <2>1. Bytes(buf, DOMAIN U) = Bytes(U, DOMAIN U)
    BY <1>5, BytesSame
  <2>2. Bytes(buf, {p.seq}) = p.data.len
    <3>1. buf[p.seq].data.len = p.data.len
      BY <1>2, <1>5
    <3> QED
      BY <1>2, <3>1, BytesOne
  <2>3. DOMAIN U \cap {p.seq} = {}
    BY <1>3
  <2>4. Bytes(buf, DOMAIN U \cup {p.seq}) = Bytes(buf, DOMAIN U) + Bytes(buf, {p.seq})
    BY <1>8, <2>3, BytesUnion
  <2> QED
    BY <1>4, <2>1, <2>2, <2>4
<1> QED
  BY <1>1, <1>4, <1>6, <1>8, <1>9

(***************************************************************************)
(* What on_userdata does with that buffer: n chunks move to the ordered    *)
(* list, up to the first gap.                                              *)
(***************************************************************************)
Run(n) == last_ordered_seqnum + 1 .. last_ordered_seqnum + n

GoodBuffer(seq, buf) ==
  /\ DOMAIN buf = DOMAIN unordered_recv_buf \cup {seq}
  /\ DOMAIN buf \subseteq SeqNums /\ IsFiniteSet(DOMAIN buf)
  /\ \A s \in DOMAIN buf : /\ buf[s] \in FragmentType /\ IsCopy(buf[s], pushed[s])
                           /\ s > last_ordered_seqnum

Moves(seq, buf, n) ==
  /\ UNCHANGED <<recv_closed, delivered>>
  /\ recv_ranges' = recv_ranges \cup {seq}
  /\ Run(n) \subseteq DOMAIN buf /\ last_ordered_seqnum + n + 1 \notin DOMAIN buf
  /\ ordered_recv_buf' =
       ordered_recv_buf \o [i \in 1 .. n |-> buf[last_ordered_seqnum + i]]
  /\ unordered_recv_buf' = [s \in DOMAIN buf \ Run(n) |-> buf[s]]
  /\ ordered_recved_bytes' = ordered_recved_bytes + Bytes(buf, Run(n))
  /\ unordered_recv_buf_bytes' = Bytes(buf, DOMAIN buf) - Bytes(buf, Run(n))
  /\ last_ordered_seqnum' = last_ordered_seqnum + n

(***************************************************************************)
(* Both ends of the gap the run stops at.                                  *)
(***************************************************************************)
LEMMA BeyondRun ==
  ASSUME NEW a \in Nat, NEW b \in Nat, NEW c \in Nat, c > a, c \notin a + 1 .. a + b,
         c # a + b + 1
  PROVE  c > a + b + 1
OBVIOUS

(***************************************************************************)
(* Chunk i of a list of a chunks followed by b others, the first a ending  *)
(* at sequence number d.                                                   *)
(***************************************************************************)
LEMMA InSecondPart ==
  ASSUME NEW a \in Nat, NEW b \in Nat, NEW r \in Nat, NEW i \in 1 .. a + b, i \notin 1 .. a
  PROVE  \E j \in 1 .. b : i = a + j /\ (r + a) + j = r + i
<1>1. i - a \in 1 .. b /\ i = a + (i - a) /\ (r + a) + (i - a) = r + i
  OBVIOUS
<1> QED
  BY <1>1

(***************************************************************************)
(* Where the ranges of the receiver are after the move.                    *)
(***************************************************************************)
LEMMA RangesAfterMove ==
  ASSUME IInv, UNCHANGED sendVars, NEW seq, NEW buf, GoodBuffer(seq, buf),
         NEW n \in Nat, Moves(seq, buf, n)
  PROVE  RecvRangesInv' /\ recv_ranges \subseteq recv_ranges'
<1> DEFINE lo == last_ordered_seqnum
           U  == unordered_recv_buf
<1>1. /\ lo \in 0 .. last_seqnum /\ last_seqnum \in Nat
      /\ recv_ranges = 1 .. lo \cup DOMAIN U /\ recv_ranges \subseteq SeqNums
  BY DEF IInv, SendInv, SendTypeOK, RecvInv, RecvRangesInv
<1>2. SeqNums' = SeqNums /\ pushed' = pushed /\ last_seqnum' = last_seqnum
  BY DEF SeqNums, sendVars
<1>3. /\ DOMAIN buf = DOMAIN U \cup {seq} /\ DOMAIN buf \subseteq SeqNums
      /\ \A s \in DOMAIN buf : IsCopy(buf[s], pushed[s]) /\ s > lo
  BY DEF GoodBuffer
<1>4. /\ Run(n) \subseteq DOMAIN buf /\ lo + n + 1 \notin DOMAIN buf
      /\ recv_ranges' = recv_ranges \cup {seq}
      /\ unordered_recv_buf' = [s \in DOMAIN buf \ Run(n) |-> buf[s]]
      /\ last_ordered_seqnum' = lo + n
  BY DEF Moves
<1>5. DOMAIN unordered_recv_buf' = DOMAIN buf \ Run(n)
      /\ \A s \in DOMAIN buf \ Run(n) : unordered_recv_buf'[s] = buf[s]
  BY <1>4
<1>6. 1 .. lo + n = 1 .. lo \cup Run(n)
  BY <1>1 DEF Run
<1>7. last_ordered_seqnum' \in 0 .. last_seqnum
  <2>1. n = 0 \/ lo + n \in Run(n)
    BY <1>1 DEF Run
  <2>2. n = 0 \/ lo + n \in SeqNums
    BY <1>3, <1>4, <2>1
  <2> QED
    BY <1>1, <1>4, <2>2 DEF SeqNums
<1>8. recv_ranges' = 1 .. last_ordered_seqnum' \cup DOMAIN unordered_recv_buf'
  BY <1>1, <1>3, <1>4, <1>5, <1>6
<1>9. recv_ranges' \subseteq SeqNums
  BY <1>1, <1>3, <1>4
<1>10. ASSUME NEW s \in DOMAIN unordered_recv_buf'
       PROVE  s > last_ordered_seqnum' + 1 /\ IsCopy(unordered_recv_buf'[s], pushed[s])
  <2>1. s \in DOMAIN buf /\ s \notin Run(n) /\ s # lo + n + 1 /\ s > lo
    BY <1>3, <1>4, <1>5
  <2>2. s \in Nat /\ lo \in Nat
    BY <1>1, <1>3, <2>1 DEF SeqNums
  <2>3. s > lo + n + 1
    BY <2>1, <2>2, BeyondRun DEF Run
  <2> QED
    BY <1>3, <1>4, <1>5, <2>1, <2>3
<1> QED
  BY <1>2, <1>4, <1>7, <1>8, <1>9, <1>10 DEF RecvRangesInv

(***************************************************************************)
(* What the two counters are after the move.                               *)
(***************************************************************************)
LEMMA CountersAfterMove ==
  ASSUME IInv, NEW seq, NEW buf, GoodBuffer(seq, buf), NEW n \in Nat, Moves(seq, buf, n)
  PROVE  /\ ordered_recved_bytes' \in Nat /\ unordered_recv_buf_bytes' \in Nat
         /\ ordered_recved_bytes' = Bytes(pushed, Read + 1 .. last_ordered_seqnum')
         /\ unordered_recv_buf_bytes' = Bytes(unordered_recv_buf', DOMAIN unordered_recv_buf')
<1> DEFINE lo == last_ordered_seqnum
           D  == DOMAIN buf
           M  == Run(n)
<1>1. /\ lo \in Nat /\ Read \in 0 .. lo /\ ordered_recved_bytes \in Nat
      /\ ordered_recved_bytes = Bytes(pushed, Read + 1 .. lo)
  BY DEF IInv, RecvInv, RecvTypeOK, ReadInv, BufferInv, Read
<1>2. IsFiniteSet(D) /\ \A s \in D : IsCopy(buf[s], pushed[s])
  BY DEF GoodBuffer
<1>3. /\ M \subseteq D
      /\ unordered_recv_buf' = [s \in D \ M |-> buf[s]]
      /\ ordered_recved_bytes' = ordered_recved_bytes + Bytes(buf, M)
      /\ unordered_recv_buf_bytes' = Bytes(buf, D) - Bytes(buf, M)
      /\ last_ordered_seqnum' = lo + n
  BY DEF Moves
<1>4. Read + 1 .. lo + n = (Read + 1 .. lo) \cup M /\ (Read + 1 .. lo) \cap M = {}
  BY <1>1 DEF Run
<1> HIDE DEF D, M
<1>5. /\ IsFiniteSet(D) /\ M \subseteq D
      /\ IsFiniteSet(M) /\ IsFiniteSet(D \ M) /\ IsFiniteSet(Read + 1 .. lo)
  <2>1. IsFiniteSet(D) /\ M \subseteq D
    BY <1>2, <1>3, Zenon
  <2>2. IsFiniteSet(M) /\ IsFiniteSet(D \ M)
    BY <2>1, FS_Subset, FS_Difference
  <2>3. IsFiniteSet(Read + 1 .. lo)
    <3>1. Read + 1 \in Int /\ lo \in Int
      BY <1>1
    <3> QED
      BY <3>1, FS_Interval
  <2> QED
    BY <2>1, <2>2, <2>3
<1>6. Bytes(buf, M) \in Nat /\ Bytes(buf, D \ M) \in Nat
  BY <1>5, BytesFinite
<1>7. Bytes(buf, D) - Bytes(buf, M) = Bytes(buf, D \ M)
  <2>1. IsFiniteSet(D) /\ M \subseteq D
    BY <1>5, Zenon
  <2> QED
    BY <2>1, BytesSplit
<1>8. DOMAIN unordered_recv_buf' = D \ M /\ \A s \in D \ M : unordered_recv_buf'[s] = buf[s]
  BY <1>3
<1>9. Bytes(buf, D \ M) = Bytes(unordered_recv_buf', D \ M)
  BY <1>8, BytesSame
<1>10. Bytes(buf, M) = Bytes(pushed, M)
  <2>1. \A s \in M : buf[s].data.len = pushed[s].data.len
    BY <1>2, <1>3 DEF IsCopy
  <2> QED
    BY <2>1, BytesSame
<1>11. Bytes(pushed, (Read + 1 .. lo) \cup M) = Bytes(pushed, Read + 1 .. lo) + Bytes(pushed, M)
  BY <1>4, <1>5, BytesUnion
<1>12. ordered_recved_bytes' = Bytes(pushed, Read + 1 .. lo + n)
  BY <1>1, <1>3, <1>4, <1>10, <1>11
<1> QED
  BY <1>1, <1>3, <1>6, <1>7, <1>8, <1>9, <1>12

(***************************************************************************)
(* The ordered list after the move, and the rest of the receiver's part of *)
(* the invariant.                                                          *)
(***************************************************************************)
LEMMA OrderedAfterMove ==
  ASSUME IInv, UNCHANGED sendVars, NEW seq, NEW buf, GoodBuffer(seq, buf),
         NEW n \in Nat, Moves(seq, buf, n)
  PROVE  /\ ordered_recv_buf' \in Seq(FragmentType)
         /\ Len(ordered_recv_buf') = Len(ordered_recv_buf) + n
         /\ Read' = Read
         /\ ReadInv'
<1> DEFINE lo == last_ordered_seqnum
           r  == Read
           L  == Len(ordered_recv_buf)
           more == [i \in 1 .. n |-> buf[lo + i]]
<1>1. /\ ordered_recv_buf \in Seq(FragmentType) /\ L \in Nat /\ lo \in Nat
      /\ r \in Nat /\ r + L = lo /\ ReadInv
  BY DEF IInv, RecvInv, RecvTypeOK, ReadInv, Read
<1>2. /\ ordered_recv_buf' = ordered_recv_buf \o more /\ last_ordered_seqnum' = lo + n
      /\ Run(n) \subseteq DOMAIN buf /\ delivered' = delivered
  BY DEF Moves
<1>3. \A i \in 1 .. n : /\ more[i] = buf[lo + i] /\ buf[lo + i] \in FragmentType
                        /\ IsCopy(more[i], pushed[lo + i])
  <2>1. \A i \in 1 .. n : lo + i \in Run(n)
    BY <1>1 DEF Run
  <2> QED
    BY <1>2, <2>1 DEF GoodBuffer
<1>4. more \in [1 .. n -> FragmentType]
  BY <1>3
<1> HIDE DEF more
<1>5. more \in Seq(FragmentType) /\ Len(more) = n
  BY <1>4, FunctionSeq
<1>6. /\ ordered_recv_buf \o more \in Seq(FragmentType)
      /\ Len(ordered_recv_buf \o more) = L + Len(more)
      /\ \A i \in 1 .. L : (ordered_recv_buf \o more)[i] = ordered_recv_buf[i]
      /\ \A i \in 1 .. Len(more) : (ordered_recv_buf \o more)[L + i] = more[i]
  <2>1. ordered_recv_buf \in Seq(FragmentType) /\ more \in Seq(FragmentType)
    BY <1>1, <1>5
  <2> QED
    BY <2>1, Concatenation
<1>7. /\ ordered_recv_buf' \in Seq(FragmentType) /\ Len(ordered_recv_buf') = L + n
      /\ \A i \in 1 .. L : ordered_recv_buf'[i] = ordered_recv_buf[i]
      /\ \A i \in 1 .. n : ordered_recv_buf'[L + i] = more[i]
  BY <1>2, <1>5, <1>6
<1>8. Read' = r
  BY <1>1, <1>2, <1>7 DEF Read
<1>9. ASSUME NEW i \in 1 .. L + n PROVE IsCopy(ordered_recv_buf'[i], pushed[r + i])
  <2>1. CASE i \in 1 .. L
    BY <1>1, <1>7, <2>1 DEF ReadInv
  <2>2. CASE i \notin 1 .. L
    <3>1. PICK j \in 1 .. n : i = L + j /\ (r + L) + j = r + i
      BY <1>1, <2>2, InSecondPart
    <3>2. ordered_recv_buf'[i] = more[j] /\ lo + j = r + i
      BY <1>1, <1>7, <3>1
    <3> QED
      BY <1>3, <3>2
  <2> QED
    BY <2>1, <2>2
<1>10. pushed' = pushed /\ sent' = sent /\ last_seqnum' = last_seqnum
  BY DEF sendVars
<1>11. EndsMessage(Read, Len(delivered))'
  BY <1>1, <1>2, <1>8, <1>10 DEF ReadInv, EndsMessage, LastOfMessage, SeqNums
<1> QED
  BY <1>1, <1>2, <1>7, <1>8, <1>9, <1>10, <1>11 DEF ReadInv

(***************************************************************************)
(* The receiver's part of the invariant after a new chunk.                 *)
(***************************************************************************)
LEMMA RecvAfterMove ==
  ASSUME IInv, UNCHANGED sendVars, NEW seq, NEW buf, GoodBuffer(seq, buf),
         NEW n \in Nat, Moves(seq, buf, n),
         rx_data_packets' \in 0 .. 1, prev_rwnd' \in Nat, delack_alarm' \in BOOLEAN
  PROVE  RecvInv'
<1>1. RecvRangesInv'
  BY RangesAfterMove
<1>2. /\ ordered_recved_bytes' \in Nat /\ unordered_recv_buf_bytes' \in Nat
      /\ ordered_recved_bytes' = Bytes(pushed, Read + 1 .. last_ordered_seqnum')
      /\ unordered_recv_buf_bytes' = Bytes(unordered_recv_buf', DOMAIN unordered_recv_buf')
  BY CountersAfterMove
<1>3. ordered_recv_buf' \in Seq(FragmentType) /\ Read' = Read /\ ReadInv'
  BY OrderedAfterMove
<1>4. BufferInv'
  BY <1>2, <1>3 DEF BufferInv, sendVars
<1>5. SeqNums' \subseteq Nat \ {0}
  BY DEF IInv, SendInv, SendTypeOK, SeqNums, sendVars
<1>6. unordered_recv_buf' \in [DOMAIN unordered_recv_buf' -> FragmentType]
  BY DEF Moves, GoodBuffer
<1>7. last_ordered_seqnum' \in Nat /\ recv_closed' \in BOOLEAN /\ delivered' \in Seq(Seq(PieceType))
  BY DEF Moves, IInv, RecvInv, RecvTypeOK
<1>8. recv_ranges' \subseteq Nat \ {0} /\ DOMAIN unordered_recv_buf' \subseteq recv_ranges'
  BY <1>1, <1>5 DEF RecvRangesInv
<1>9. RecvTypeOK'
  BY <1>2, <1>3, <1>6, <1>7, <1>8 DEF RecvTypeOK
<1> QED
  BY <1>1, <1>3, <1>4, <1>9 DEF RecvInv

(***************************************************************************)
(* A new chunk is put in its place, in order or out of order, and          *)
(* acknowledged at once or later: on_userdata past its check for           *)
(* duplicates.                                                             *)
(***************************************************************************)
LEMMA NewDataStep ==
  ASSUME IInv, UNCHANGED sendVars, toRecv' \subseteq toRecv,
         NEW p \in UserDataType, IsCopy(p, pushed[p.seq]), NewData(p)
  PROVE  IInv'
<1> DEFINE buf == [s \in DOMAIN unordered_recv_buf \cup {p.seq} |->
                     IF s = p.seq THEN [frag |-> p.frag, data |-> p.data]
                     ELSE unordered_recv_buf[s]]
<1>1. p.seq \notin recv_ranges
  BY DEF NewData
<1>2. GoodBuffer(p.seq, buf) /\ unordered_recv_buf_bytes + p.data.len = Bytes(buf, DOMAIN buf)
  <2> HIDE DEF buf
  <2>1. buf = [s \in DOMAIN unordered_recv_buf \cup {p.seq} |->
                 IF s = p.seq THEN [frag |-> p.frag, data |-> p.data]
                 ELSE unordered_recv_buf[s]]
    BY DEF buf
  <2> QED
    BY <1>1, <2>1, BufferWithChunk DEF GoodBuffer
<1>3. /\ recv_ranges' = recv_ranges \cup {p.seq}
      /\ \E n \in 0 .. Cardinality(DOMAIN buf) :
           LET moved == last_ordered_seqnum + 1 .. last_ordered_seqnum + n
           IN  /\ moved \subseteq DOMAIN buf
               /\ last_ordered_seqnum + n + 1 \notin DOMAIN buf
               /\ ordered_recv_buf' =
                    ordered_recv_buf \o [i \in 1 .. n |-> buf[last_ordered_seqnum + i]]
               /\ unordered_recv_buf' = [s \in DOMAIN buf \ moved |-> buf[s]]
               /\ ordered_recved_bytes' = ordered_recved_bytes + Bytes(buf, moved)
               /\ unordered_recv_buf_bytes' =
                    unordered_recv_buf_bytes + p.data.len - Bytes(buf, moved)
               /\ last_ordered_seqnum' = last_ordered_seqnum + n
      /\ IF AckNow THEN SendAck
         ELSE /\ rx_data_packets' = rx_data_packets + 1
              /\ delack_alarm' = TRUE
              /\ UNCHANGED <<prev_rwnd, toSend>>
      /\ UNCHANGED <<recv_closed, delivered>>
  BY DEF NewData
<1> HIDE DEF buf
<1>4. PICK n \in 0 .. Cardinality(DOMAIN buf) : Moves(p.seq, buf, n)
  <2>1. unordered_recv_buf_bytes + p.data.len = Bytes(buf, DOMAIN buf)
    BY <1>2
  <2>2. PICK n \in 0 .. Cardinality(DOMAIN buf) :
          /\ Run(n) \subseteq DOMAIN buf
          /\ last_ordered_seqnum + n + 1 \notin DOMAIN buf
          /\ ordered_recv_buf' =
               ordered_recv_buf \o [i \in 1 .. n |-> buf[last_ordered_seqnum + i]]
          /\ unordered_recv_buf' = [s \in DOMAIN buf \ Run(n) |-> buf[s]]
          /\ ordered_recved_bytes' = ordered_recved_bytes + Bytes(buf, Run(n))
          /\ unordered_recv_buf_bytes' =
               unordered_recv_buf_bytes + p.data.len - Bytes(buf, Run(n))
          /\ last_ordered_seqnum' = last_ordered_seqnum + n
    BY <1>3, Zenon DEF Run
  <2>3. unordered_recv_buf_bytes' = Bytes(buf, DOMAIN buf) - Bytes(buf, Run(n))
    <3>1. unordered_recv_buf_bytes \in Nat /\ p.data.len \in Nat
      BY SMSSAssumption DEF IInv, RecvInv, RecvTypeOK, UserDataType, PieceType
    <3>2. Bytes(buf, Run(n)) \in Nat
      BY <1>2, <2>2, FS_Subset, BytesFinite DEF GoodBuffer
    <3>3. unordered_recv_buf_bytes' =
            unordered_recv_buf_bytes + p.data.len - Bytes(buf, Run(n))
      BY <2>2
    <3> QED
      BY <2>1, <3>1, <3>2, <3>3
  <2>4. Moves(p.seq, buf, n)
    BY <1>3, <2>2, <2>3, Zenon DEF Moves
  <2> QED
    BY <2>4
<1>5. n \in Nat
  <2>1. Cardinality(DOMAIN buf) \in Nat
    BY <1>2, FS_CardinalityType DEF GoodBuffer
  <2> QED
    BY <2>1
<1>6. RecvRangesInv' /\ recv_ranges \subseteq recv_ranges'
  BY <1>2, <1>4, <1>5, RangesAfterMove
<1>7. ordered_recved_bytes' \in Nat /\ unordered_recv_buf_bytes' \in Nat
  BY <1>2, <1>4, <1>5, CountersAfterMove
<1>8. NetInv' /\ rx_data_packets' \in 0 .. 1 /\ prev_rwnd' \in Nat /\ delack_alarm' \in BOOLEAN
  <2>1. CASE AckNow
    BY <1>3, <1>6, <1>7, <2>1, AfterSendAck
  <2>2. CASE ~ AckNow
    <3>1. toSend' = toSend /\ rx_data_packets' = rx_data_packets + 1
          /\ delack_alarm' = TRUE /\ prev_rwnd' = prev_rwnd
      BY <1>3, <2>2
    <3>2. rx_data_packets \in 0 .. 1 /\ prev_rwnd \in Nat
      BY DEF IInv, RecvInv, RecvTypeOK
    <3>3. rx_data_packets' \in 0 .. 1
      BY <2>2, <3>1, <3>2 DEF AckNow
    <3>4. NetInv'
      <4>1. 0 \in Nat
        OBVIOUS
      <4>2. toSend' \subseteq toSend \cup
              {RangeAck(0, last_ordered_seqnum', DOMAIN unordered_recv_buf')}
        BY <3>1, Zenon
      <4> QED
        BY <1>6, <4>1, <4>2, NetAfterReceiver, Zenon
    <3> QED
      BY <3>1, <3>2, <3>3, <3>4
  <2> QED
    BY <2>1, <2>2
<1>9. RecvInv'
  BY <1>2, <1>4, <1>5, <1>8, RecvAfterMove
<1> QED
  BY <1>6, <1>8, <1>9, ReceiverKeeps

(***************************************************************************)
(* User data that arrives, repeated or new, keeps the invariant:           *)
(* RecvUserData.                                                           *)
(***************************************************************************)
LEMMA UserDataStep ==
  ASSUME IInv, RecvUserData PROVE IInv'
<1>1. PICK p \in toRecv : /\ p.type = "userdata" /\ toRecv' \in Consumed(toRecv, p)
                          /\ OnUserData(p) /\ UNCHANGED sendVars
  BY DEF RecvUserData, UserDataArrives
<1>2. toRecv' \subseteq toRecv
  BY <1>1 DEF Consumed
<1>3. p \in UserDataType /\ IsCopy(p, pushed[p.seq])
  BY <1>1 DEF IInv, NetInv, BufferProbe
<1>4. CASE DuplicateData(p)
  <2>1. /\ UNCHANGED <<ordered_recv_buf, unordered_recv_buf, ordered_recved_bytes,
                       unordered_recv_buf_bytes, recv_ranges, last_ordered_seqnum,
                       recv_closed, delivered>>
        /\ SendAck
    BY <1>4 DEF DuplicateData
  <2> QED
    BY <1>1, <1>2, <2>1, AckOnlyStep
<1>5. CASE NewData(p)
  BY <1>1, <1>2, <1>3, <1>5, NewDataStep
<1> QED
  BY <1>1, <1>4, <1>5 DEF OnUserData

(***************************************************************************)
(* A probe, and the delayed ack timer.                                     *)
(***************************************************************************)
LEMMA BufferProbeStep ==
  ASSUME IInv, RecvBufferProbe \/ DelayedAck PROVE IInv'
<1>1. OnBufferProbe /\ toRecv' \subseteq toRecv /\ UNCHANGED sendVars
  BY DEF RecvBufferProbe, DelayedAck, DelackAlarm, Consumed
<1>2. /\ UNCHANGED <<ordered_recv_buf, unordered_recv_buf, ordered_recved_bytes,
                     unordered_recv_buf_bytes, recv_ranges, last_ordered_seqnum,
                     recv_closed, delivered>>
      /\ SendAck
  BY <1>1 DEF OnBufferProbe
<1> QED
  BY <1>1, <1>2, AckOnlyStep

(***************************************************************************)
(* close() of the receiver.                                                *)
(***************************************************************************)
LEMMA CloseRecvStep ==
  ASSUME IInv, ReceiverCloses PROVE IInv'
<1>1. /\ UNCHANGED sendVars /\ recv_closed' = TRUE
      /\ UNCHANGED <<ordered_recv_buf, unordered_recv_buf, ordered_recved_bytes,
                     unordered_recv_buf_bytes, recv_ranges, rx_data_packets,
                     prev_rwnd, last_ordered_seqnum, delack_alarm, delivered, netVars>>
  BY DEF ReceiverCloses, CloseRecv
<1>2. rx_data_packets' \in 0 .. 1 /\ prev_rwnd' \in Nat /\ delack_alarm' \in BOOLEAN
  BY <1>1 DEF IInv, RecvInv, RecvTypeOK
<1>3. RecvInv'
  BY <1>1, <1>2, RecvSame
<1>4. NetInv'
  BY <1>1 DEF IInv, NetInv, netVars, sendVars, UserDataType, RangeAckType, SeqNums
<1> QED
  BY <1>1, <1>3, <1>4, ReceiverKeeps

(***************************************************************************)
(* The network loses a packet.                                             *)
(***************************************************************************)
LEMMA LoseStep ==
  ASSUME IInv, Lose PROVE IInv'
<1>1. /\ UNCHANGED sendVars /\ UNCHANGED recvVars
      /\ toRecv' \subseteq toRecv /\ toSend' \subseteq toSend
  BY DEF Lose, LosePacket
<1>2. rx_data_packets' \in 0 .. 1 /\ prev_rwnd' \in Nat /\ delack_alarm' \in BOOLEAN
      /\ recv_closed' \in BOOLEAN
  BY <1>1 DEF IInv, RecvInv, RecvTypeOK, recvVars
<1>3. RecvInv'
  BY <1>1, <1>2, RecvSame DEF recvVars
<1>4. NetInv'
  BY <1>1 DEF IInv, NetInv, sendVars, recvVars, UserDataType, RangeAckType, SeqNums
<1> QED
  BY <1>1, <1>3, <1>4, ReceiverKeeps DEF recvVars

-----------------------------------------------------------------------------
(***************************************************************************)
(* The fragments that end a message are the last ones.                     *)
(***************************************************************************)
LEMMA EndFragment ==
  ASSUME NEW m, NEW len \in Nat, NEW i \in 1 .. NumFrags(len)
  PROVE  (Fragment(m, len, i).frag \in {"whole", "end"}) <=> (i = NumFrags(len))
<1>1. Fragment(m, len, i).frag = FragControl(len, i)
  BY DEF Fragment
<1>2. NumFrags(len) \in Nat \ {0}
  BY FragmentSizes
<1> QED
  BY <1>1, <1>2 DEF FragControl

(***************************************************************************)
(* From the first chunk of a message on, all of it was pushed.             *)
(***************************************************************************)
LEMMA FromFirstChunk ==
  ASSUME NEW s, NEW m, WholeMessageAt(s), pushed[s].data.msg = m, pushed[s].data.idx = 1
  PROVE  /\ m \in 1 .. Len(sent)
         /\ \A k \in 1 .. NumFrags(sent[m]) :
              s - 1 + k \in SeqNums /\ pushed[s - 1 + k] = Fragment(m, sent[m], k)
<1>1. WholeMessageAt(s) = 
        ( /\ m \in 1 .. Len(sent)
          /\ 1 \in 1 .. NumFrags(sent[m])
          /\ \A k \in 1 .. NumFrags(sent[m]) :
               /\ s - 1 + k \in SeqNums
               /\ pushed[s - 1 + k] = Fragment(m, sent[m], k))
  BY Zenon DEF WholeMessageAt
<1> QED
  BY <1>1, Zenon

(***************************************************************************)
(* recv() takes the next message, whole: what is in order starts with the  *)
(* first chunk of the message after those delivered, so the first chunk    *)
(* that ends a message is the last one of that message.                    *)
(***************************************************************************)
LEMMA NextMessage ==
  ASSUME IInv, 0 \notin MsgSizes, MessageEnds # {},
         NEW n, n = Min(MessageEnds), NEW m, m = Len(delivered) + 1
  PROVE  /\ m \in 1 .. Len(sent) /\ sent[m] \in Nat \ {0}
         /\ n = NumFrags(sent[m]) /\ n \in 1 .. Len(ordered_recv_buf)
         /\ Read + n \in SeqNums
         /\ \A j \in 1 .. n : /\ pushed[Read + j] = Fragment(m, sent[m], j)
                             /\ IsCopy(ordered_recv_buf[j], pushed[Read + j])
<1> DEFINE L == Len(ordered_recv_buf)
           r == Read
           len == sent[m]
           nf  == NumFrags(len)
           E   == MessageEnds
<1>1. /\ L \in Nat /\ r \in Nat /\ last_ordered_seqnum \in 0 .. last_seqnum /\ last_seqnum \in Nat
      /\ r + L = last_ordered_seqnum /\ PushedInv /\ Len(delivered) \in Nat
      /\ sent \in Seq(MsgSizes) /\ DOMAIN ordered_recv_buf = 1 .. L
      /\ EndsMessage(r, Len(delivered))
      /\ \A i \in 1 .. L : IsCopy(ordered_recv_buf[i], pushed[r + i])
  <2>1. /\ RecvTypeOK /\ RecvRangesInv /\ ReadInv /\ SendTypeOK /\ PushedInv
    BY DEF IInv, RecvInv, SendInv
  <2>2. /\ L \in Nat /\ last_ordered_seqnum \in 0 .. last_seqnum /\ last_seqnum \in Nat
        /\ Len(delivered) \in Nat /\ sent \in Seq(MsgSizes) /\ DOMAIN ordered_recv_buf = 1 .. L
    BY <2>1, SMTT(30) DEF RecvTypeOK, SendTypeOK, RecvRangesInv
  <2>3. r \in Nat /\ r + L = last_ordered_seqnum
    BY <2>1, <2>2 DEF ReadInv, Read
  <2> QED
    BY <2>1, <2>2, <2>3 DEF ReadInv
<1>2. E \subseteq 1 .. L /\ \A i \in 1 .. L : i \in E <=> ordered_recv_buf[i].frag \in {"whole", "end"}
  BY <1>1 DEF MessageEnds
<1> HIDE DEF E
<1>3. n \in E /\ \A i \in E : n <= i
  <2>1. E \subseteq Nat
    BY <1>1, <1>2
  <2>2. \E x \in E : \A y \in E : x <= y
    BY <2>1, LeastElement DEF E
  <2>3. n = CHOOSE x \in E : \A y \in E : x <= y
    BY DEF Min, E
  <2> QED
    BY <2>2, <2>3
<1>4. n \in 1 .. L /\ r \in 0 .. last_seqnum - 1 /\ r + 1 \in SeqNums
  BY <1>1, <1>2, <1>3 DEF SeqNums
<1>5. pushed[r + 1].data.msg = m /\ pushed[r + 1].data.idx = 1
  <2>1. Len(delivered) \in 0 .. Len(sent)
    BY <1>1, SMTT(30) DEF EndsMessage, PushedInv, WholeMessageAt
  <2> QED
    BY <1>1, <1>4, <2>1 DEF PushedInv
<1>6. /\ m \in 1 .. Len(sent)
      /\ \A k \in 1 .. nf : (r + 1) - 1 + k \in SeqNums /\ pushed[(r + 1) - 1 + k] = Fragment(m, len, k)
  <2>1. WholeMessageAt(r + 1)
    BY <1>1, <1>4 DEF PushedInv
  <2>2. /\ m \in 1 .. Len(sent)
        /\ \A k \in 1 .. NumFrags(sent[m]) :
             (r + 1) - 1 + k \in SeqNums /\ pushed[(r + 1) - 1 + k] = Fragment(m, sent[m], k)
    BY ONLY <1>5, <2>1, FromFirstChunk, Zenon
  <2> QED
    BY <2>2
<1>7. \A k \in 1 .. nf : r + k \in SeqNums /\ pushed[r + k] = Fragment(m, len, k)
  <2>1. (r + 1) - 1 = r
    BY <1>1
  <2> QED
    BY <1>6, <2>1
<1>8. len \in Nat \ {0} /\ len \in Nat
  <2>1. len \in MsgSizes
    BY <1>1, <1>6
  <2>2. MsgSizes \subseteq Nat
    BY SendAssumption
  <2> QED
    BY <2>1, <2>2
<1> HIDE DEF len
<1>9. nf \in Nat \ {0}
  BY <1>8, FragmentSizes
<1>10. ASSUME NEW i \in 1 .. L, i \in 1 .. nf
       PROVE  i \in E <=> i = nf
  <2>1. ordered_recv_buf[i].frag = Fragment(m, len, i).frag
    BY <1>1, <1>7, <1>10 DEF IsCopy
  <2>2. (Fragment(m, len, i).frag \in {"whole", "end"}) <=> i = nf
    BY <1>8, <1>10, EndFragment
  <2> QED
    BY <1>2, <2>1, <2>2
<1> HIDE DEF nf, L, r
<1>11. n = nf
  <2>1. CASE n \in 1 .. nf
    BY <1>3, <1>4, <1>10, <2>1
  <2>2. CASE n \notin 1 .. nf
    <3>1. nf \in 1 .. L /\ nf \in 1 .. nf /\ ~ (n <= nf)
      BY <1>1, <1>4, <1>9, <2>2
    <3>2. nf \in E
      BY <1>10, <3>1
    <3> QED
      BY <1>3, <3>1, <3>2
  <2> QED
    BY <2>1, <2>2
<1>12. r + n \in SeqNums
  <2>1. nf \in 1 .. nf
    BY <1>9
  <2> QED
    BY <1>7, <1>11, <2>1
<1>13. \A j \in 1 .. n : pushed[r + j] = Fragment(m, len, j) /\ IsCopy(ordered_recv_buf[j], pushed[r + j])
  <2>1. \A j \in 1 .. n : j \in 1 .. L
    BY <1>1, <1>4
  <2> QED
    BY <1>1, <1>7, <1>11, <2>1
<1> QED
  BY <1>4, <1>6, <1>8, <1>11, <1>12, <1>13 DEF len, nf, L, r

(***************************************************************************)
(* The rest of a sequence, and a sequence one longer.                      *)
(***************************************************************************)
LEMMA RestOf ==
  ASSUME NEW S, NEW q \in Seq(S), NEW n \in 1 .. Len(q)
  PROVE  /\ SubSeq(q, n + 1, Len(q)) \in Seq(S)
         /\ Len(SubSeq(q, n + 1, Len(q))) = Len(q) - n
         /\ \A i \in 1 .. Len(q) - n : SubSeq(q, n + 1, Len(q))[i] = q[n + i]
OBVIOUS

(***************************************************************************)
(* What Append does to a sequence of messages.                             *)
(***************************************************************************)
LEMMA OneMore ==
  ASSUME NEW S, NEW q \in Seq(S), NEW e \in S
  PROVE  /\ Append(q, e) \in Seq(S)
         /\ Len(Append(q, e)) = Len(q) + 1
         /\ \A i \in 1 .. Len(q) : Append(q, e)[i] = q[i]
         /\ Append(q, e)[Len(q) + 1] = e
OBVIOUS

(***************************************************************************)
(* The first n chunks in order are all of message m, the first one that    *)
(* was not delivered.                                                      *)
(***************************************************************************)
IsNextMessage(n, m) ==
  /\ m = Len(delivered) + 1 /\ m \in 1 .. Len(sent) /\ sent[m] \in Nat \ {0}
  /\ n = NumFrags(sent[m]) /\ n \in 1 .. Len(ordered_recv_buf)
  /\ Read + n \in SeqNums
  /\ \A j \in 1 .. n : /\ pushed[Read + j] = Fragment(m, sent[m], j)
                       /\ IsCopy(ordered_recv_buf[j], pushed[Read + j])

(***************************************************************************)
(* What read_message returns is the message.                               *)
(***************************************************************************)
LEMMA MessageRead ==
  ASSUME IInv, NEW n, NEW m, IsNextMessage(n, m)
  PROVE  /\ [i \in 1 .. n |-> ordered_recv_buf[i].data] = Pieces(m, sent[m])
         /\ Pieces(m, sent[m]) \in Seq(PieceType)
         /\ ordered_recv_buf[1].data.len # 0
<1>1. /\ n = NumFrags(sent[m]) /\ n \in Nat \ {0} /\ sent[m] \in Nat \ {0} /\ m \in Nat \ {0}
      /\ \A j \in 1 .. n : ordered_recv_buf[j].data = Fragment(m, sent[m], j).data
  <2>1. /\ n = NumFrags(sent[m]) /\ sent[m] \in Nat \ {0} /\ sent[m] \in Nat
        /\ m \in 1 .. Len(sent)
    BY DEF IsNextMessage
  <2>2. Len(sent) \in Nat
    BY DEF IInv, SendInv, SendTypeOK
  <2>3. \A j \in 1 .. n : /\ pushed[Read + j] = Fragment(m, sent[m], j)
                         /\ ordered_recv_buf[j].data = pushed[Read + j].data
    BY DEF IsNextMessage, IsCopy
  <2>4. \A j \in 1 .. n : ordered_recv_buf[j].data = Fragment(m, sent[m], j).data
    BY <2>3
  <2>5. NumFrags(sent[m]) \in Nat \ {0}
    BY <2>1, FragmentSizes
  <2>6. m \in Nat \ {0}
    BY <2>1, <2>2
  <2> QED
    BY <2>1, <2>4, <2>5, <2>6
<1>2. \A j : Fragment(m, sent[m], j).data = Piece(m, sent[m], j)
  BY DEF Fragment
<1>3. [i \in 1 .. n |-> ordered_recv_buf[i].data] = Pieces(m, sent[m])
  BY <1>1, <1>2 DEF Pieces
<1>4. \A j \in 1 .. n : FragLen(sent[m], j) \in 0 .. SMSS
  BY <1>1, FragmentSizes
<1>5. \A j \in 1 .. n : Piece(m, sent[m], j) \in PieceType
  BY <1>1, <1>4 DEF Piece, PieceType
<1>6. Pieces(m, sent[m]) \in [1 .. n -> PieceType]
  BY <1>1, <1>5 DEF Pieces
<1>7. Pieces(m, sent[m]) \in Seq(PieceType)
  BY <1>1, <1>6, FunctionSeq
<1>8. FragLen(sent[m], 1) > 0 /\ FragLen(sent[m], 1) \in 0 .. SMSS
  BY <1>1, <1>4, FragmentSizes
<1>9. ordered_recv_buf[1].data.len # 0
  <2>1. ordered_recv_buf[1].data = Piece(m, sent[m], 1)
    BY <1>1, <1>2
  <2>2. Piece(m, sent[m], 1).len = FragLen(sent[m], 1)
    BY DEF Piece
  <2> QED
    BY <1>8, <2>1, <2>2, SMSSAssumption
<1> QED
  BY <1>3, <1>7, <1>9

(***************************************************************************)
(* The receiver after recv(): one message more has been delivered, and the *)
(* chunks after it are left.                                               *)
(***************************************************************************)
LEMMA RecvEffect ==
  ASSUME IInv, Recv, NEW n, n = Min(MessageEnds), NEW m, IsNextMessage(n, m)
  PROVE  /\ ordered_recv_buf' \in Seq(FragmentType)
         /\ Len(ordered_recv_buf') = Len(ordered_recv_buf) - n
         /\ \A i \in 1 .. Len(ordered_recv_buf) - n : ordered_recv_buf'[i] = ordered_recv_buf[n + i]
         /\ delivered' \in Seq(Seq(PieceType)) /\ Len(delivered') = m
         /\ \A k \in 1 .. Len(delivered) : delivered'[k] = delivered[k]
         /\ delivered'[m] = Pieces(m, sent[m])
         /\ ordered_recved_bytes' = ordered_recved_bytes - Bytes(ordered_recv_buf, 1 .. n)
<1> DEFINE msg == [i \in 1 .. n |-> ordered_recv_buf[i].data]
<1>1. /\ ordered_recv_buf' = SubSeq(ordered_recv_buf, n + 1, Len(ordered_recv_buf))
      /\ ordered_recved_bytes' = ordered_recved_bytes - Bytes(ordered_recv_buf, 1 .. n)
      /\ delivered' = IF \A i \in 1 .. n : msg[i].len = 0 THEN delivered
                      ELSE Append(delivered, msg)
  BY Zenon DEF Recv, BytesRead
<1>2. ordered_recv_buf \in Seq(FragmentType) /\ delivered \in Seq(Seq(PieceType))
  BY DEF IInv, RecvInv, RecvTypeOK
<1>3. n \in 1 .. Len(ordered_recv_buf) /\ m = Len(delivered) + 1
  BY DEF IsNextMessage
<1>4. 1 \in 1 .. n /\ msg[1] = ordered_recv_buf[1].data
  BY <1>2, <1>3
<1>5. /\ msg = Pieces(m, sent[m]) /\ Pieces(m, sent[m]) \in Seq(PieceType)
      /\ ordered_recv_buf[1].data.len # 0
  BY MessageRead
<1> HIDE DEF msg
<1>6. delivered' = Append(delivered, Pieces(m, sent[m]))
  BY <1>1, <1>4, <1>5
<1>7. /\ Append(delivered, Pieces(m, sent[m])) \in Seq(Seq(PieceType))
      /\ Len(Append(delivered, Pieces(m, sent[m]))) = Len(delivered) + 1
      /\ \A k \in 1 .. Len(delivered) : Append(delivered, Pieces(m, sent[m]))[k] = delivered[k]
      /\ Append(delivered, Pieces(m, sent[m]))[Len(delivered) + 1] = Pieces(m, sent[m])
  BY ONLY <1>2, <1>5, OneMore
<1>8. /\ ordered_recv_buf' \in Seq(FragmentType)
      /\ Len(ordered_recv_buf') = Len(ordered_recv_buf) - n
      /\ \A i \in 1 .. Len(ordered_recv_buf) - n : ordered_recv_buf'[i] = ordered_recv_buf[n + i]
  BY <1>1, <1>2, <1>3, RestOf
<1> QED
  BY <1>1, <1>3, <1>6, <1>7, <1>8

(***************************************************************************)
(* The bytes of the chunks from r + 1 to lo, without those of the first n  *)
(* of them, counted in g.                                                  *)
(***************************************************************************)
LEMMA BytesOfRest ==
  ASSUME NEW f, NEW g, NEW r \in Nat, NEW n \in Nat, NEW lo \in Nat, r + n <= lo,
         \A i \in 1 .. n : g[i].data.len = f[r + i].data.len
  PROVE  /\ Bytes(f, r + 1 .. lo) - Bytes(g, 1 .. n) = Bytes(f, r + n + 1 .. lo)
         /\ Bytes(f, r + n + 1 .. lo) \in Nat
<1> DEFINE S == r + 1 .. lo
           T == r + 1 .. r + n
<1>1. Bytes(g, 1 .. n) = Bytes(f, T)
  BY BytesShift
<1>2. IsFiniteSet(S)
  BY FS_Interval
<1>3. T \subseteq S /\ S \ T = r + n + 1 .. lo
  OBVIOUS
<1> HIDE DEF S, T
<1>4. Bytes(f, S) - Bytes(f, T) = Bytes(f, S \ T)
  BY <1>2, <1>3, BytesSplit
<1>5. Bytes(f, S \ T) \in Nat
  BY <1>2, FS_Difference, BytesFinite
<1> QED
  BY <1>1, <1>3, <1>4, <1>5 DEF S

(***************************************************************************)
(* recv() gives back the bytes of the message it returns.                  *)
(***************************************************************************)
LEMMA BytesGivenBack ==
  ASSUME IInv, Recv, NEW n, n = Min(MessageEnds), NEW m, IsNextMessage(n, m)
  PROVE  /\ ordered_recved_bytes' = Bytes(pushed, Read + n + 1 .. last_ordered_seqnum)
         /\ ordered_recved_bytes' \in Nat
<1> DEFINE r  == Read
           L  == Len(ordered_recv_buf)
           lo == last_ordered_seqnum
<1>1. /\ r \in Nat /\ L \in Nat /\ lo \in Nat /\ r + L = lo
      /\ ordered_recved_bytes = Bytes(pushed, r + 1 .. lo)
      /\ \A i \in 1 .. L : IsCopy(ordered_recv_buf[i], pushed[r + i])
  BY DEF IInv, RecvInv, RecvTypeOK, ReadInv, Read, BufferInv
<1>2. n \in 1 .. L
  BY DEF IsNextMessage
<1>3. ordered_recved_bytes' = ordered_recved_bytes - Bytes(ordered_recv_buf, 1 .. n)
  BY RecvEffect
<1> HIDE DEF r, L, lo
<1>4. r \in Nat /\ n \in Nat /\ lo \in Nat /\ r + n <= lo
  BY <1>1, <1>2
<1>5. \A i \in 1 .. n : ordered_recv_buf[i].data.len = pushed[r + i].data.len
  BY <1>1, <1>2 DEF IsCopy
<1>6. /\ Bytes(pushed, r + 1 .. lo) - Bytes(ordered_recv_buf, 1 .. n)
            = Bytes(pushed, r + n + 1 .. lo)
      /\ Bytes(pushed, r + n + 1 .. lo) \in Nat
  BY <1>4, <1>5, BytesOfRest, SMTT(60)
<1> QED
  BY <1>1, <1>3, <1>6 DEF r, lo

(***************************************************************************)
(* recv() keeps the invariant.                                             *)
(***************************************************************************)
LEMMA RecvStep ==
  ASSUME IInv, 0 \notin MsgSizes, AppRecv
  PROVE  IInv'
<1> DEFINE n == Min(MessageEnds)
           m == Len(delivered) + 1
           r == Read
           L == Len(ordered_recv_buf)
<1>1. /\ Recv /\ UNCHANGED sendVars /\ MessageEnds # {}
      /\ UNCHANGED <<unordered_recv_buf, unordered_recv_buf_bytes, recv_ranges,
                     rx_data_packets, prev_rwnd, last_ordered_seqnum, delack_alarm,
                     recv_closed, netVars>>
  BY DEF AppRecv, Recv
<1>2. IsNextMessage(n, m)
  <2> HIDE DEF n, m
  <2>1. n = Min(MessageEnds) /\ m = Len(delivered) + 1
    BY DEF n, m
  <2> QED
    BY <1>1, <2>1, NextMessage DEF IsNextMessage
<1>3. /\ ordered_recv_buf' \in Seq(FragmentType) /\ Len(ordered_recv_buf') = L - n
      /\ \A i \in 1 .. L - n : ordered_recv_buf'[i] = ordered_recv_buf[n + i]
      /\ delivered' \in Seq(Seq(PieceType)) /\ Len(delivered') = m
      /\ \A k \in 1 .. Len(delivered) : delivered'[k] = delivered[k]
      /\ delivered'[m] = Pieces(m, sent[m])
  <2> HIDE DEF m
  <2> QED
    BY <1>1, <1>2, RecvEffect
<1>4. /\ ordered_recved_bytes' = Bytes(pushed, r + n + 1 .. last_ordered_seqnum)
      /\ ordered_recved_bytes' \in Nat
  <2> HIDE DEF m
  <2> QED
    BY <1>1, <1>2, BytesGivenBack
<1>5. /\ n \in 1 .. L /\ r + n \in SeqNums /\ n = NumFrags(sent[m]) /\ m \in 1 .. Len(sent)
      /\ pushed[r + n] = Fragment(m, sent[m], n)
  <2>1. /\ n \in 1 .. L /\ r + n \in SeqNums /\ n = NumFrags(sent[m]) /\ m \in 1 .. Len(sent)
        /\ \A j \in 1 .. n : pushed[r + j] = Fragment(m, sent[m], j)
    BY <1>2 DEF IsNextMessage
  <2>2. L \in Nat
    BY DEF IInv, RecvInv, RecvTypeOK
  <2> QED
    BY <2>1, <2>2
<1>6. /\ L \in Nat /\ r \in Nat /\ last_ordered_seqnum \in Nat /\ r + L = last_ordered_seqnum
      /\ last_seqnum \in Nat /\ Len(delivered) \in Nat
      /\ \A i \in 1 .. L : IsCopy(ordered_recv_buf[i], pushed[r + i])
      /\ \A k \in 1 .. Len(delivered) : delivered[k] = Pieces(k, sent[k])
  BY SMTT(30) DEF IInv, RecvInv, RecvTypeOK, SendInv, SendTypeOK, ReadInv, Read
<1> HIDE DEF n, L, r
<1> DEFINE lo == last_ordered_seqnum
<1>7. /\ Read' = r + n
      /\ \A i \in 1 .. L - n : n + i \in 1 .. L /\ r + (n + i) = (r + n) + i
  <2>1. Read' = last_ordered_seqnum - (L - n)
    BY <1>1, <1>3 DEF Read
  <2>2. n \in 1 .. L /\ L \in Nat /\ r \in Nat /\ r + L = lo
    BY <1>5, <1>6
  <2>3. lo - (L - n) = r + n
    BY <2>2
  <2>4. \A i \in 1 .. L - n : n + i \in 1 .. L /\ r + (n + i) = (r + n) + i
    BY <2>2
  <2> QED
    BY <2>1, <2>3, <2>4
<1>8. ReadInv'
  <2>1. (r + n) \in 0 .. last_seqnum
    BY <1>5, <1>6 DEF SeqNums
  <2>2. ASSUME NEW i \in 1 .. L - n
        PROVE  IsCopy(ordered_recv_buf'[i], pushed[(r + n) + i])
    <3>1. n + i \in 1 .. L /\ r + (n + i) = (r + n) + i
      BY <1>7
    <3> QED
      BY <1>3, <1>6, <3>1
  <2>3. pushed[r + n].data.msg = m /\ pushed[r + n].data.idx = n
    BY <1>5 DEF Fragment, Piece
  <2>4. EndsMessage(r + n, m)
    BY <1>5, <2>3 DEF EndsMessage, LastOfMessage
  <2>5. pushed' = pushed /\ sent' = sent /\ last_seqnum' = last_seqnum
    BY <1>1 DEF sendVars
  <2>6. EndsMessage(Read, Len(delivered))'
    BY <1>3, <1>7, <2>4, <2>5 DEF EndsMessage, LastOfMessage, SeqNums
  <2>7. ASSUME NEW k \in 1 .. m PROVE delivered'[k] = Pieces(k, sent[k])
    BY <1>3, <1>6, SMTT(30)
  <2> HIDE DEF m
  <2> QED
    BY <1>3, <1>7, <2>1, <2>2, <2>5, <2>6, <2>7 DEF ReadInv
<1>9. BufferInv'
  <2>1. unordered_recv_buf_bytes = Bytes(unordered_recv_buf, DOMAIN unordered_recv_buf)
    BY DEF IInv, RecvInv, BufferInv
  <2>2. pushed' = pushed
    BY <1>1 DEF sendVars
  <2> QED
    BY <1>1, <1>4, <1>7, <2>1, <2>2 DEF BufferInv
<1>10. RecvRangesInv'
  BY <1>1 DEF IInv, RecvInv, RecvRangesInv, SeqNums, sendVars
<1>11. RecvTypeOK'
  BY <1>1, <1>3, <1>4 DEF IInv, RecvInv, RecvTypeOK
<1>12. NetInv'
  BY <1>1 DEF IInv, NetInv, sendVars, netVars, UserDataType, RangeAckType, SeqNums
<1> QED
  BY <1>1, <1>8, <1>9, <1>10, <1>11, <1>12, ReceiverKeeps DEF RecvInv

-----------------------------------------------------------------------------
NoEmptyMessage == 0 \notin MsgSizes

(***************************************************************************)
(* The initial states satisfy the invariant.                               *)
(***************************************************************************)
LEMMA InitInv == ASSUME Init PROVE IInv
<1>1. SendInit /\ RecvInit /\ NetInit
  BY DEF Init
<1>2. Len(<<>>) = 0 /\ DOMAIN <<>> = {}
  OBVIOUS
<1>3. Bytes(<<>>, {}) = 0
  BY BytesEmpty
<1>4. SeqNums = {}
  BY <1>1 DEF SendInit, SeqNums
<1>5. PushedInv
  BY <1>1, <1>2, <1>4 DEF SendInit, PushedInv, EndsMessage
<1>6. SendTypeOK
  <2>1. sent \in Seq(MsgSizes) /\ pushed \in Seq(FragmentType)
    BY <1>1 DEF SendInit
  <2>2. DOMAIN send_queue = {} /\ send_queue \in [DOMAIN send_queue -> ChunkType]
    BY <1>1 DEF SendInit
  <2>3. recv_wnd \in Nat /\ cong_wnd \in Nat \ {0} /\ ssthresh \in Nat
    BY <1>1, SendAssumption, CongestionAssumption DEF SendInit
  <2>4. data_packets_count \in 0 .. BurstLimit
    BY <1>1, SendAssumption DEF SendInit
  <2> QED
    BY <1>1, <2>1, <2>2, <2>3, <2>4 DEF SendInit, SendTypeOK
<1>7. InflightAccounted
  <2>1. InFlight(send_queue) = {}
    BY <1>1, <1>2 DEF SendInit, InFlight
  <2> QED
    BY <1>1, <1>3, <2>1 DEF SendInit, InflightAccounted
<1>8. TimerInv
  BY <1>1, <1>2, SendAssumption DEF SendInit, TimerInv, ZeroWindowProbed, SenderNeverStalls
<1>9. SendInv
  BY <1>1, <1>2, <1>6, <1>7, <1>8 DEF SendInit, SendInv
<1>10. RecvTypeOK
  <2>1. ordered_recv_buf \in Seq(FragmentType) /\ delivered \in Seq(Seq(PieceType))
    BY <1>1 DEF RecvInit
  <2>2. /\ DOMAIN unordered_recv_buf = {}
        /\ unordered_recv_buf \in [DOMAIN unordered_recv_buf -> FragmentType]
    BY <1>1 DEF RecvInit
  <2>3. recv_ranges = {} /\ rx_data_packets = 0 /\ last_ordered_seqnum = 0
    BY <1>1 DEF RecvInit
  <2>4. ordered_recved_bytes \in Nat /\ unordered_recv_buf_bytes \in Nat /\ prev_rwnd \in Nat
    BY <1>1 DEF RecvInit
  <2>5. delack_alarm \in BOOLEAN /\ recv_closed \in BOOLEAN
    BY <1>1 DEF RecvInit
  <2> QED
    BY <2>1, <2>2, <2>3, <2>4, <2>5 DEF RecvTypeOK
<1>11. RecvRangesInv
  BY <1>1, <1>2 DEF SendInit, RecvInit, RecvRangesInv
<1>12. Read = 0
  <2>1. last_ordered_seqnum = 0 /\ Len(ordered_recv_buf) = 0
    BY <1>1 DEF RecvInit
  <2> QED
    BY <2>1 DEF Read
<1>13. BufferInv
  BY <1>1, <1>2, <1>3, <1>12 DEF SendInit, RecvInit, BufferInv
<1>14. ReadInv
  BY <1>1, <1>2, <1>12 DEF SendInit, RecvInit, ReadInv, EndsMessage
<1>15. NetInv
  BY <1>1 DEF NetInit, NetInv
<1>16. AckedInv
  BY <1>1, <1>4 DEF SendInit, AckedInv
<1> QED
  BY <1>5, <1>9, <1>10, <1>11, <1>13, <1>14, <1>15, <1>16 DEF IInv, RecvInv

(***************************************************************************)
(* A step that changes nothing preserves the invariant.                    *)
(***************************************************************************)
LEMMA StutterStep == ASSUME IInv, UNCHANGED vars PROVE IInv'
<1>1. UNCHANGED sendVars /\ UNCHANGED recvVars /\ UNCHANGED netVars
  BY DEF vars
<1>3. rx_data_packets' \in 0 .. 1 /\ prev_rwnd' \in Nat /\ delack_alarm' \in BOOLEAN
      /\ recv_closed' \in BOOLEAN
  BY <1>1 DEF IInv, RecvInv, RecvTypeOK, recvVars
<1>4. RecvInv'
  BY <1>1, <1>3, RecvSame DEF recvVars
<1>5. NetInv'
  BY <1>1 DEF IInv, NetInv, sendVars, recvVars, netVars, UserDataType, RangeAckType, SeqNums
<1> QED
  BY <1>1, <1>4, <1>5, ReceiverKeeps DEF recvVars

(***************************************************************************)
(* Every step preserves the invariant.                                     *)
(***************************************************************************)
LEMMA NextInv == ASSUME NoEmptyMessage, IInv, [Next]_vars PROVE IInv'
<1>1. CASE AppSend
  BY <1>1, SendStep
<1>2. CASE AppRecv
  BY <1>2, RecvStep DEF NoEmptyMessage
<1>3. CASE RecvUserData
  BY <1>3, UserDataStep
<1>4. CASE RecvBufferProbe \/ DelayedAck
  BY <1>4, BufferProbeStep
<1>5. CASE RecvRangeAck
  BY <1>5, RangeAckStep
<1>6. CASE Timeout
  BY <1>6, GiveUpStep, TimeoutStep DEF Timeout
<1>7. CASE Probe
  BY <1>7, ProbeStep
<1>8. CASE SenderCloses
  BY <1>8, CloseSendStep
<1>9. CASE ReceiverCloses
  BY <1>9, CloseRecvStep
<1>10. CASE Lose
  BY <1>10, LoseStep
<1>11. CASE UNCHANGED vars
  BY <1>11, StutterStep
<1> QED
  BY <1>1, <1>2, <1>3, <1>4, <1>5, <1>6, <1>7, <1>8, <1>9, <1>10, <1>11 DEF Next

(***************************************************************************)
(* IInv is an invariant of a flow.                                         *)
(***************************************************************************)
THEOREM Invariance == ASSUME NoEmptyMessage PROVE Spec => []IInv
<1>1. Init => IInv
  BY InitInv
<1>2. IInv /\ [Next]_vars => IInv'
  BY NextInv
<1> QED
  BY <1>1, <1>2, PTL DEF Spec

(***************************************************************************)
(* Every variable of a flow keeps its type, and the network carries only   *)
(* what the two halves can send (flow.go, both halves).                    *)
(***************************************************************************)
THEOREM TypeCorrect == ASSUME NoEmptyMessage PROVE Spec => []TypeOK
BY Invariance, IInvType, PTL

-----------------------------------------------------------------------------
(***************************************************************************)
(* What recv() has returned is a prefix of what send() accepted: each      *)
(* message whole, in order, once (send and read_message of flow.go).       *)
(***************************************************************************)
THEOREM Delivery == ASSUME NoEmptyMessage PROVE Spec => []ReliableDelivery
<1>1. IInv => ReliableDelivery
  <2> SUFFICES ASSUME IInv PROVE ReliableDelivery
    OBVIOUS
  <2>1. RecvTypeOK /\ PushedInv /\ ReadInv /\ Len(sent) \in Nat
    BY DEF IInv, RecvInv, SendInv, SendTypeOK
  <2>2. Len(delivered) <= Len(sent)
    BY <2>1, DeliveredWereSent
  <2> QED
    BY <2>1, <2>2 DEF ReliableDelivery, ReadInv
<1> QED
  BY <1>1, Invariance, PTL

(***************************************************************************)
(* The sender forgets a chunk only when the receiver holds it              *)
(* (on_range_ack and send_ack of flow.go).                                 *)
(***************************************************************************)
THEOREM NothingForgotten == ASSUME NoEmptyMessage PROVE Spec => []AckedIsReceived
<1>1. IInv => AckedIsReceived
  BY DEF IInv, AckedInv, AckedIsReceived, SeqNums
<1> QED
  BY <1>1, Invariance, PTL

(***************************************************************************)
(* inflight_bytes counts the bytes in flight, whatever is lost, nakked,    *)
(* acknowledged late or timed out (flow.go, the four places that move it). *)
(***************************************************************************)
THEOREM InflightExact == ASSUME NoEmptyMessage PROVE Spec => []InflightAccounted
<1>1. IInv => InflightAccounted
  BY DEF IInv, SendInv
<1> QED
  BY <1>1, Invariance, PTL

(***************************************************************************)
(* The advertised window is computed from the bytes really held            *)
(* (on_userdata, read_message and available_buffers of flow.go).           *)
(***************************************************************************)
THEOREM BufferExact == ASSUME NoEmptyMessage PROVE Spec => []BufferAccounted
<1>1. ASSUME IInv PROVE BufferAccounted
  <2> DEFINE r == Read
             L == Len(ordered_recv_buf)
             lo == last_ordered_seqnum
  <2>1. /\ L \in Nat /\ lo \in Nat /\ r \in Nat /\ r + L = lo
        /\ ordered_recved_bytes = Bytes(pushed, r + 1 .. lo)
        /\ unordered_recv_buf_bytes = Bytes(unordered_recv_buf, DOMAIN unordered_recv_buf)
        /\ \A i \in 1 .. L : IsCopy(ordered_recv_buf[i], pushed[r + i])
        /\ DOMAIN ordered_recv_buf = 1 .. L
    BY <1>1 DEF IInv, RecvInv, RecvTypeOK, BufferInv, ReadInv, Read
  <2> HIDE DEF r, L, lo
  <2>2. \A i \in 1 .. L : ordered_recv_buf[i].data.len = pushed[r + i].data.len
    BY <2>1 DEF IsCopy
  <2>3. r \in Nat /\ L \in Nat
    BY <2>1
  <2>4. Bytes(ordered_recv_buf, 1 .. L) = Bytes(pushed, r + 1 .. r + L)
    BY <2>2, <2>3, BytesShift
  <2> QED
    BY <2>1, <2>4 DEF BufferAccounted
<1> QED
  BY <1>1, Invariance, PTL

(***************************************************************************)
(* A closed window is probed, and an open flow with something to send has  *)
(* a timer that will send it (try_send, on_rtx_alarm and on_range_ack of   *)
(* flow.go).                                                               *)
(***************************************************************************)
THEOREM Progress ==
  ASSUME NoEmptyMessage
  PROVE  Spec => [](ZeroWindowProbed /\ SenderNeverStalls)
<1>1. IInv => ZeroWindowProbed /\ SenderNeverStalls
  BY DEF IInv, SendInv, TimerInv
<1> QED
  BY <1>1, Invariance, PTL

-----------------------------------------------------------------------------
(***************************************************************************)
(* What try_send puts in flight, it had a window for.                      *)
(***************************************************************************)
LEMMA TrySendWindow ==
  ASSUME NEW q, NEW n \in Nat, IsQueue(q, n), NEW inflight \in Nat,
         NEW count \in Nat, NEW wnd \in Nat, NEW alarm,
         TrySend(q, inflight, count, wnd, alarm), inflight <= inflight_bytes,
         inflight_bytes \in Nat, inflight_bytes' > inflight_bytes
  PROVE  inflight_bytes' < wnd + SMSS
<1> DEFINE now == Transmittable(q, inflight, count, wnd)
<1>1. inflight_bytes' = inflight + Bytes(q, now)
  BY DEF TrySend
<1>2. CASE now = {}
  BY <1>1, <1>2, BytesEmpty
<1>3. CASE now # {}
  BY <1>1, <1>3, TransmittedPrefix
<1> QED
  BY <1>2, <1>3

(***************************************************************************)
(* A queue with new chunks at its back is a queue.                         *)
(***************************************************************************)
LEMMA QueuedIsQueue ==
  ASSUME IInv, NEW frags \in Seq(FragmentType)
  PROVE  IsQueue(Queued(frags), last_seqnum + Len(frags))
<1> DEFINE n == Len(frags)
           q == Queued(frags)
<1>1. /\ n \in Nat /\ last_seqnum \in Nat /\ DOMAIN send_queue \subseteq 1 .. last_seqnum
      /\ \A s \in DOMAIN send_queue : send_queue[s] \in ChunkType
      /\ \A i \in 1 .. n : frags[i] \in FragmentType
  BY DEF IInv, SendInv, SendTypeOK
<1>2. ASSUME NEW c \in FragmentType PROVE NewChunk(c) \in ChunkType
  BY DEF NewChunk, ChunkType, FragmentType
<1> HIDE DEF n
<1>3. ASSUME NEW s \in last_seqnum + 1 .. last_seqnum + n
      PROVE  NewChunk(frags[s - last_seqnum]) \in ChunkType
  <2>1. s - last_seqnum \in 1 .. n
    BY <1>1
  <2> QED
    BY <1>1, <1>2, <2>1
<1>4. DOMAIN q = DOMAIN send_queue \cup (last_seqnum + 1 .. last_seqnum + n)
  BY DEF Queued, n
<1>5. ASSUME NEW s \in DOMAIN q PROVE q[s] \in ChunkType
  <2>1. q[s] = IF s \in DOMAIN send_queue THEN send_queue[s]
               ELSE NewChunk(frags[s - last_seqnum])
    BY DEF Queued
  <2> QED
    BY <1>1, <1>3, <1>4, <2>1
<1>6. q \in [DOMAIN q -> ChunkType]
  BY <1>5 DEF Queued
<1>7. DOMAIN q \subseteq 1 .. last_seqnum + n
  BY <1>1, <1>4
<1> QED
  BY <1>6, <1>7 DEF IsQueue, n

(***************************************************************************)
(* A step that puts bytes in flight ends less than a segment above the     *)
(* windows in force (send_buget in try_send, against on_range_ack and      *)
(* on_rtx_alarm, which shrink the windows first).                          *)
(***************************************************************************)
THEOREM Windows == ASSUME NoEmptyMessage PROVE Spec => WindowRespected
<1> DEFINE Within ==
      inflight_bytes' > inflight_bytes
        => inflight_bytes' < MinOf(recv_wnd', cong_wnd') + SMSS
<1>1. ASSUME IInv, [Next]_vars, inflight_bytes' > inflight_bytes
      PROVE  inflight_bytes' < MinOf(recv_wnd', cong_wnd') + SMSS
  <2>1. /\ SendTypeOK /\ IInv' /\ last_seqnum \in Nat /\ inflight_bytes \in Nat
        /\ data_packets_count \in Nat /\ 0 \in Nat
        /\ recv_wnd \in Nat /\ cong_wnd \in Nat
    <3>1. IInv'
      BY <1>1, NextInv
    <3>2. SendTypeOK
      BY <1>1 DEF IInv, SendInv
    <3> QED
      BY <3>1, <3>2, SendAssumption, SMTT(30) DEF SendTypeOK
  <2>2. recv_wnd' \in Nat /\ cong_wnd' \in Nat
    BY <2>1 DEF IInv, SendInv, SendTypeOK
  <2>3. MinOf(recv_wnd, cong_wnd) \in Nat /\ MinOf(recv_wnd', cong_wnd') \in Nat
        /\ MinOf(recv_wnd, cong_wnd') \in Nat
    BY <2>1, <2>2 DEF MinOf
  <2>4. CASE AppSend
    <3>1. PICK len \in MsgSizes : Send(len)
      BY <2>4 DEF AppSend
    <3> DEFINE frags == Fragments(Len(sent) + 1, len)
               q == Queued(frags)
    <3>2. /\ TrySend(q, inflight_bytes, data_packets_count, MinOf(recv_wnd, cong_wnd), rtx_alarm)
          /\ recv_wnd' = recv_wnd /\ cong_wnd' = cong_wnd
      BY <3>1 DEF Send, wndVars
    <3>3. frags \in Seq(FragmentType)
      <4>1. len \in Nat /\ Len(sent) + 1 \in Nat \ {0}
        BY <2>1, SendAssumption, SMTT(30) DEF SendTypeOK
      <4> QED
        BY <4>1, FragmentsOf
    <3> HIDE DEF frags
    <3>4. IsQueue(q, last_seqnum + Len(frags)) /\ last_seqnum + Len(frags) \in Nat
      BY <1>1, <2>1, <3>3, QueuedIsQueue
    <3> HIDE DEF q
    <3>5. inflight_bytes' < MinOf(recv_wnd, cong_wnd) + SMSS
      BY <1>1, <2>1, <2>3, <3>2, <3>4, TrySendWindow
    <3> QED
      BY <3>2, <3>5
  <2>5. CASE RtxTimeout
    <3> DEFINE lost == InFlight(send_queue)
               q == WithLost(send_queue, lost)
               inflight == inflight_bytes - Bytes(send_queue, lost)
    <3>1. /\ TrySend(q, inflight, 0, MinOf(recv_wnd, cong_wnd'), "idle")
          /\ recv_wnd' = recv_wnd /\ UNCHANGED <<last_seqnum, sent, pushed>>
      BY <2>5 DEF RtxTimeout
    <3>2. /\ IsQueue(q, last_seqnum) /\ inflight = Bytes(q, InFlight(q))
          /\ InFlight(q) = {}
      BY <1>1, <3>1, SendQueueAfterLoss
    <3>3. inflight = 0
      BY <3>2, BytesEmpty
    <3> HIDE DEF q, inflight
    <3>4. inflight \in Nat /\ inflight <= inflight_bytes
      BY <2>1, <3>3
    <3>5. inflight_bytes' < MinOf(recv_wnd, cong_wnd') + SMSS
      BY <1>1, <2>1, <2>3, <3>1, <3>2, <3>4, TrySendWindow
    <3> QED
      BY <3>1, <3>5
  <2>6. CASE RtxGiveUp
    <3> DEFINE lost == {s \in InFlight(send_queue) : \A x \in Exhausted : s < x}
    <3>1. inflight_bytes' = inflight_bytes - Bytes(send_queue, lost)
      BY <2>6 DEF RtxGiveUp
    <3>2. IsQueue(send_queue, last_seqnum) /\ lost \subseteq DOMAIN send_queue
      BY <2>1 DEF SendTypeOK, IsQueue, InFlight
    <3> HIDE DEF lost
    <3>3. Bytes(send_queue, lost) \in Nat
      BY <2>1, <3>2, QueueFinite
    <3> QED
      BY <1>1, <2>1, <3>1, <3>3
  <2>7. CASE RecvRangeAck
    <3>1. PICK ack \in toSend : OnRangeAck(ack)
      BY <2>7 DEF RecvRangeAck
    <3>2. CASE RangeAckLate(ack)
      BY <1>1, <2>1, <3>2 DEF RangeAckLate
    <3>3. CASE RangeAckNew(ack)
      <4> DEFINE q     == AfterNaks(ack)
                 acked == Bytes(send_queue, Removed(ack) \cap InFlight(send_queue))
                 lost  == Bytes(send_queue, NakLost(ack))
                 inflight == inflight_bytes - acked - lost
      <4>1. TrySend(q, inflight, 0, MinOf(recv_wnd', cong_wnd'), AlarmReset)
        BY <3>3 DEF RangeAckNew
      <4>2. /\ IsQueue(q, last_seqnum) /\ acked \in Nat
            /\ inflight = Bytes(q, InFlight(q)) /\ inflight \in Nat
        BY <1>1, QueueAfterAck
      <4>3. lost \in Nat
        <5>1. NakLost(ack) \subseteq DOMAIN send_queue /\ IsQueue(send_queue, last_seqnum)
          BY <2>1 DEF NakLost, Naked, Kept, SendTypeOK, IsQueue
        <5> QED
          BY <2>1, <5>1, QueueFinite
      <4> HIDE DEF acked, lost
      <4>4. inflight <= inflight_bytes
        BY <2>1, <4>2, <4>3
      <4> HIDE DEF q, inflight
      <4> QED
        BY <1>1, <2>1, <2>3, <4>1, <4>2, <4>4, TrySendWindow
    <3> QED
      BY <3>1, <3>2, <3>3 DEF OnRangeAck
  <2>8. CASE UNCHANGED sendVars
    BY <1>1, <2>1, <2>8 DEF sendVars
  <2>9. CASE Probe \/ SenderCloses \/ UNCHANGED vars
    BY <1>1, <2>1, <2>9 DEF Probe, ProbeTick, SenderCloses, CloseSend, vars, sendVars
  <2>10. CASE AppRecv \/ RecvUserData \/ RecvBufferProbe \/ DelayedAck \/ ReceiverCloses \/ Lose
    BY <2>8, <2>10 DEF AppRecv, RecvUserData, UserDataArrives, RecvBufferProbe, DelayedAck,
                       ReceiverCloses, Lose
  <2> QED
    BY <1>1, <2>4, <2>5, <2>6, <2>7, <2>9, <2>10 DEF Next, Timeout
<1>2. IInv /\ [Next]_vars => [Within]_vars
  BY <1>1
<1>3. Spec => []IInv
  BY Invariance
<1> QED
  BY <1>2, <1>3, PTL DEF Spec, WindowRespected

-----------------------------------------------------------------------------
(***************************************************************************)
(* A message more is accepted.                                             *)
(***************************************************************************)
LEMMA AcceptedAppend ==
  ASSUME sent \in Seq(MsgSizes), NEW len \in MsgSizes, sent' = Append(sent, len)
  PROVE  Accepted' = Append(Accepted, Pieces(Len(sent) + 1, len))
<1> DEFINE L == Len(sent)
           S == {Pieces(k, sent[k]) : k \in 1 .. L} \cup {Pieces(L + 1, len)}
           a == Append(Accepted, Pieces(L + 1, len))
<1>1. L \in Nat /\ Len(sent') = L + 1 /\ sent'[L + 1] = len
      /\ \A k \in 1 .. L : sent'[k] = sent[k]
  OBVIOUS
<1>2. Accepted \in [1 .. L -> S]
  BY DEF Accepted
<1>3. Accepted \in Seq(S) /\ Len(Accepted) = L
  <2> HIDE DEF S
  <2> QED
    BY <1>1, <1>2, FunctionSeq
<1>4. Pieces(L + 1, len) \in S
  OBVIOUS
<1> HIDE DEF S
<1>5. /\ a \in Seq(S) /\ Len(a) = L + 1
      /\ \A k \in 1 .. L : a[k] = Accepted[k]
      /\ a[L + 1] = Pieces(L + 1, len)
  BY <1>3, <1>4, OneMore
<1> HIDE DEF a
<1>6. a = [k \in 1 .. L + 1 |-> a[k]]
  BY <1>1, <1>5
<1>7. Accepted' = [k \in 1 .. L + 1 |-> Pieces(k, sent'[k])]
  BY <1>1 DEF Accepted
<1>8. ASSUME NEW k \in 1 .. L + 1 PROVE a[k] = Pieces(k, sent'[k])
  <2>1. CASE k = L + 1
    BY <1>1, <1>5, <2>1
  <2>2. CASE k # L + 1
    <3>1. k \in 1 .. L
      BY <1>1, <2>2
    <3> QED
      BY <1>1, <1>5, <3>1 DEF Accepted
  <2> QED
    BY <2>1, <2>2
<1> QED
  BY <1>6, <1>7, <1>8 DEF a

(***************************************************************************)
(* A sequence that agrees with another and has one element more.           *)
(***************************************************************************)
LEMMA SameSequence ==
  ASSUME NEW S, NEW q \in Seq(S), NEW r \in Seq(S), NEW e \in S, Len(r) = Len(q) + 1,
         \A k \in 1 .. Len(q) : r[k] = q[k], r[Len(q) + 1] = e
  PROVE  r = Append(q, e)
OBVIOUS

(***************************************************************************)
(* What a step does at the ends of the flow: send() accepts a message,     *)
(* recv() delivers the next one, an end stops, or nothing shows.           *)
(***************************************************************************)
SameEnds == Accepted' = Accepted /\ delivered' = delivered /\ Stopped' = Stopped

OneAccepted ==
  /\ "send" \notin Stopped
  /\ \E m \in 1 .. MaxMsgs, len \in MsgSizes : Accepted' = Append(Accepted, Pieces(m, len))
  /\ delivered' = delivered /\ Stopped' = Stopped

OneDelivered ==
  /\ "recv" \notin Stopped
  /\ Len(delivered) < Len(Accepted)
  /\ delivered' = Append(delivered, Accepted[Len(delivered) + 1])
  /\ Accepted' = Accepted /\ Stopped' = Stopped

OneStops ==
  /\ Stopped' = Stopped \cup {"send"} \/ Stopped' = Stopped \cup {"recv"}
  /\ Accepted' = Accepted /\ delivered' = delivered

(***************************************************************************)
(* Seen from its ends, a step of a flow accepts a message, delivers the    *)
(* next one, stops an end, or does nothing.                                *)
(***************************************************************************)
LEMMA EndsStep ==
  ASSUME NoEmptyMessage, IInv, [Next]_vars
  PROVE  SameEnds \/ OneAccepted \/ OneDelivered \/ OneStops
<1>1. sent \in Seq(MsgSizes) /\ Len(sent) \in Nat /\ MaxMsgs \in Nat
  BY SendAssumption DEF IInv, SendInv, SendTypeOK
<1>2. CASE AppSend
  <2>1. PICK len \in MsgSizes : Send(len) /\ UNCHANGED recvVars
    BY <1>2 DEF AppSend
  <2>2. /\ ~ send_closed /\ Len(sent) < MaxMsgs /\ sent' = Append(sent, len)
        /\ send_closed' = send_closed /\ recv_closed' = recv_closed /\ delivered' = delivered
    BY <2>1 DEF Send, recvVars
  <2>3. Accepted' = Append(Accepted, Pieces(Len(sent) + 1, len))
    BY <1>1, <2>2, AcceptedAppend
  <2>4. Len(sent) + 1 \in 1 .. MaxMsgs
    BY <1>1, <2>2
  <2>5. "send" \notin Stopped /\ Stopped' = Stopped
    BY <2>2 DEF Stopped
  <2> QED
    BY <2>2, <2>3, <2>4, <2>5 DEF OneAccepted
<1>3. CASE AppRecv
  <2> DEFINE n == Min(MessageEnds)
             m == Len(delivered) + 1
  <2>1. /\ Recv /\ MessageEnds # {} /\ ~ recv_closed /\ UNCHANGED sendVars
        /\ recv_closed' = recv_closed
    BY <1>3 DEF AppRecv, Recv
  <2>2. IsNextMessage(n, m)
    <3> HIDE DEF n, m
    <3>1. n = Min(MessageEnds) /\ m = Len(delivered) + 1
      BY DEF n, m
    <3> QED
      BY <2>1, <3>1, NextMessage DEF IsNextMessage, NoEmptyMessage
  <2>3. delivered' = Append(delivered, Pieces(m, sent[m]))
    <3> HIDE DEF m
    <3>1. /\ delivered' \in Seq(Seq(PieceType)) /\ Len(delivered') = m
          /\ \A k \in 1 .. Len(delivered) : delivered'[k] = delivered[k]
          /\ delivered'[m] = Pieces(m, sent[m])
      BY <2>1, <2>2, RecvEffect
    <3>2. delivered \in Seq(Seq(PieceType)) /\ Pieces(m, sent[m]) \in Seq(PieceType)
      BY <2>2, MessageRead DEF IInv, RecvInv, RecvTypeOK
    <3> QED
      BY <3>1, <3>2, SameSequence DEF m
  <2>4. m \in 1 .. Len(sent) /\ Len(delivered) \in Nat
    BY <2>2 DEF IsNextMessage, IInv, RecvInv, RecvTypeOK
  <2>5. Len(delivered) < Len(Accepted) /\ Accepted[m] = Pieces(m, sent[m])
    BY <1>1, <2>4 DEF Accepted
  <2>6. Accepted' = Accepted /\ Stopped' = Stopped /\ "recv" \notin Stopped
    BY <2>1 DEF Accepted, Stopped, sendVars
  <2> QED
    BY <2>3, <2>5, <2>6 DEF OneDelivered
<1>4. CASE SenderCloses \/ (RtxGiveUp /\ UNCHANGED recvVars)
  <2>1. send_closed' /\ UNCHANGED <<sent, delivered, recv_closed>>
    BY <1>4 DEF SenderCloses, CloseSend, RtxGiveUp, recvVars
  <2> QED
    BY <2>1 DEF Accepted, Stopped, OneStops
<1>5. CASE ReceiverCloses
  <2>1. recv_closed' /\ UNCHANGED <<sent, delivered, send_closed>>
    BY <1>5 DEF ReceiverCloses, CloseRecv, sendVars
  <2> QED
    BY <2>1 DEF Accepted, Stopped, OneStops
<1>6. ASSUME UNCHANGED <<sent, delivered, send_closed, recv_closed>> PROVE SameEnds
  BY <1>6 DEF SameEnds, Accepted, Stopped
<1>7. CASE RecvUserData \/ RecvBufferProbe \/ DelayedAck
  BY <1>6, <1>7 DEF RecvUserData, UserDataArrives, OnUserData, DuplicateData, NewData,
                    RecvBufferProbe, DelayedAck, DelackAlarm, OnBufferProbe, sendVars
<1>8. CASE RecvRangeAck \/ (RtxTimeout /\ UNCHANGED recvVars) \/ Probe
  BY <1>6, <1>8 DEF RecvRangeAck, OnRangeAck, RangeAckLate, RangeAckNew, RtxTimeout,
                    Probe, ProbeTick, sendVars, recvVars
<1>9. CASE Lose \/ UNCHANGED vars
  BY <1>6, <1>9 DEF Lose, vars, sendVars, recvVars
<1> QED
  BY <1>2, <1>3, <1>4, <1>5, <1>7, <1>8, <1>9 DEF Next, Timeout

(***************************************************************************)
(* A flow implements the channel of messages: whatever the network does,   *)
(* its ends see a reliable, ordered channel (flow.go, both halves).        *)
(***************************************************************************)
THEOREM Implementation == ASSUME NoEmptyMessage PROVE Spec => IsMessageChannel
<1>1. Init => Channel!Init
  BY DEF Init, SendInit, RecvInit, Accepted, Stopped, Channel!Init
<1>2. ASSUME IInv, [Next]_vars PROVE [Channel!Next]_(Channel!vars)
  <2>1. CASE SameEnds
    BY <2>1 DEF SameEnds, Channel!vars
  <2>2. CASE OneAccepted
    <3>1. PICK m \in 1 .. MaxMsgs, len \in MsgSizes : Accepted' = Append(Accepted, Pieces(m, len))
      BY <2>2 DEF OneAccepted
    <3>2. Pieces(m, len) \in Messages
      BY DEF Messages
    <3>3. Accepted' # Accepted
      <4> DEFINE S == Messages \cup {Pieces(k, sent[k]) : k \in 1 .. Len(sent)}
      <4>1. Len(sent) \in Nat
        BY <1>2 DEF IInv, SendInv, SendTypeOK
      <4>2. Accepted \in Seq(S)
        BY <4>1 DEF Accepted
      <4> QED
        BY <3>1, <3>2, <4>2
    <3>4. Channel!Accept
      BY <2>2, <3>1, <3>2, <3>3 DEF OneAccepted, Channel!Accept
    <3> QED
      BY <3>4 DEF Channel!Next
  <2>3. CASE OneDelivered
    <3>1. Channel!Deliver
      BY <2>3 DEF OneDelivered, Channel!Deliver
    <3> QED
      BY <3>1 DEF Channel!Next
  <2>4. CASE OneStops
    <3>1. Channel!Stop("send") \/ Channel!Stop("recv")
      BY <2>4 DEF OneStops, Channel!Stop
    <3> QED
      BY <3>1 DEF Channel!Next
  <2> QED
    BY <1>2, <2>1, <2>2, <2>3, <2>4, EndsStep
<1>3. Spec => []IInv
  BY Invariance
<1> QED
  BY <1>1, <1>2, <1>3, PTL DEF Spec, IsMessageChannel, Channel!Spec
=============================================================================
