----------------------------- MODULE CodecProofs -----------------------------
(***************************************************************************)
(* The codec: what an encoder of this code writes, its decoder reads,      *)
(* whatever follows it.  Numbers, lengths, options, addresses,             *)
(* certificates, every kind of chunk, and messages of AMF values, however  *)
(* deep their objects; for every number of up to 31 bits and every size of *)
(* data that the constants of Packets allow. The recursive functions of    *)
(* the decoders are proved to be what their definitions say, by induction  *)
(* on the size of what they read.                                          *)
(***************************************************************************)
EXTENDS Packets, SequenceTheorems, FiniteSetTheorems, WellFoundedInduction, TLAPS

-----------------------------------------------------------------------------
(***************************************************************************)
(* Induction and recursion, where the library's theorems have a predicate  *)
(* or an operator: a set of what has the property, a function for a step.  *)
(***************************************************************************)
Lower == {p \in Nat \X Nat : p[1] < p[2]}

LEMMA Least ==
  ASSUME NEW S \in SUBSET Nat, S # {}
  PROVE  \E n \in S : \A m \in S : n <= m
<1>1. IsWellFoundedOn(Lower, Nat)
  BY NatLessThanWellFounded DEF OpToRel, Lower
<1>2. PICK n \in S : \A m \in S : ~ (<<m, n>> \in Lower)
  BY <1>1, WFMin, Zenon
<1>3. \A m \in S : ~ (m < n)
  BY <1>2 DEF Lower
<1> QED
  BY <1>2, <1>3

\* Data is taken apart into smaller data.
Progresses(T, S, size) ==
  /\ size \in [S -> Nat] /\ T \in SUBSET S
  /\ \A x \in S : (\A y \in S : size[y] < size[x] => y \in T) => x \in T

LEMMA SizeInduction ==
  ASSUME NEW S, NEW size, NEW T, Progresses(T, S, size)
  PROVE  T = S
<1> USE DEF Progresses
<1> SUFFICES ASSUME S \ T # {} PROVE FALSE
  OBVIOUS
<1> DEFINE N == {size[x] : x \in S \ T}
<1>1. N \in SUBSET Nat /\ N # {}
  OBVIOUS
<1>2. PICK n \in N : \A m \in N : n <= m
  BY <1>1, Least
<1>3. PICK x \in S \ T : n = size[x]
  BY <1>2
<1>4. \A y \in S : size[y] < size[x] => y \in T
  <2> SUFFICES ASSUME NEW y \in S, size[y] < size[x], y \notin T PROVE FALSE
    OBVIOUS
  <2>1. size[y] \in N /\ size[y] \in Nat /\ size[x] \in Nat
    OBVIOUS
  <2>2. size[x] <= size[y]
    BY <1>2, <1>3, <2>1
  <2> QED
    BY <2>1, <2>2
<1> QED
  BY <1>3, <1>4

LEMMA SetInduction ==
  ASSUME NEW T \in SUBSET Nat, 0 \in T, \A n \in T : n + 1 \in T
  PROVE  T = Nat
<1> SUFFICES ASSUME NEW U, U = Nat \ T, U # {} PROVE FALSE
  OBVIOUS
<1>1. PICK n \in U : \A m \in U : n <= m
  BY Least
<1>2. n # 0 /\ n - 1 \in Nat /\ n - 1 \notin U
  BY <1>1
<1> QED
  BY <1>1, <1>2

(***************************************************************************)
(* A function may be defined by what it is of smaller data.                *)
(***************************************************************************)

Descends(step, S, V, size) ==
  /\ V # {} /\ size \in [S -> Nat] /\ step \in [[S -> V] \X S -> V]
  /\ \A f, g \in [S -> V], x \in S :
       (\A y \in S : size[y] < size[x] => f[y] = g[y]) => step[<<f, x>>] = step[<<g, x>>]

Unfolds(f, S, step) == f = [x \in S |-> step[<<f, x>>]]

LEMMA Recursion ==
  ASSUME NEW S, NEW V, NEW size, NEW step, Descends(step, S, V, size)
  PROVE  \E f \in [S -> V] : Unfolds(f, S, step)
<1>0. /\ V # {} /\ size \in [S -> Nat] /\ step \in [[S -> V] \X S -> V]
      /\ \A f, g \in [S -> V], x \in S :
           (\A y \in S : size[y] < size[x] => f[y] = g[y]) => step[<<f, x>>] = step[<<g, x>>]
  BY DEF Descends
<1> USE <1>0
<1> DEFINE Upto(f, n) == \A x \in S : size[x] < n => f[x] = step[<<f, x>>]
           Some == {n \in Nat : \E f \in [S -> V] : Upto(f, n)}
<1>1. 0 \in Some
  <2>1. PICK v \in V : TRUE
    OBVIOUS
  <2>2. [x \in S |-> v] \in [S -> V] /\ Upto([x \in S |-> v], 0)
    BY <2>1
  <2> QED
    BY <2>2
<1>2. ASSUME NEW n \in Some PROVE n + 1 \in Some
  <2>1. PICK f \in [S -> V] : Upto(f, n)
    OBVIOUS
  <2> DEFINE g == [x \in S |-> step[<<f, x>>]]
  <2>2. g \in [S -> V]
    OBVIOUS
  <2>3. n \in Nat /\ n + 1 \in Nat
    OBVIOUS
  <2>4. ASSUME NEW x \in S, size[x] < n + 1 PROVE g[x] = step[<<g, x>>]
    <3>1. ASSUME NEW y \in S, size[y] < size[x] PROVE f[y] = g[y]
      <4>1. size[y] < n
        BY <2>3, <2>4, <3>1
      <4> QED
        BY <2>1, <4>1
    <3> HIDE DEF g
    <3>2. step[<<f, x>>] = step[<<g, x>>]
      BY <2>2, <3>1
    <3> QED
      BY <3>2 DEF g
  <2> HIDE DEF g
  <2> QED
    BY <2>2, <2>3, <2>4
<1>3. Some = Nat
  <2>1. Some \in SUBSET Nat
    OBVIOUS
  <2> HIDE DEF Some
  <2> QED
    BY <1>1, <1>2, <2>1, SetInduction
\* What two of them are of data on which both are right is the same.
<1>4. ASSUME NEW n \in Nat, NEW m \in Nat, NEW f \in [S -> V], NEW g \in [S -> V],
             Upto(f, n), Upto(g, m)
      PROVE  \A x \in S : size[x] < n /\ size[x] < m => f[x] = g[x]
  <2> DEFINE T == {x \in S : size[x] < n /\ size[x] < m => f[x] = g[x]}
  <2>1. ASSUME NEW x \in S, \A y \in S : size[y] < size[x] => y \in T PROVE x \in T
    <3> SUFFICES ASSUME size[x] < n, size[x] < m PROVE f[x] = g[x]
      OBVIOUS
    <3>1. ASSUME NEW y \in S, size[y] < size[x] PROVE f[y] = g[y]
      <4>1. size[y] < n /\ size[y] < m /\ y \in T
        BY <2>1, <3>1
      <4> QED
        BY <4>1
    <3>2. step[<<f, x>>] = step[<<g, x>>]
      BY <3>1
    <3> QED
      BY <1>4, <3>2
  <2>2. T \in SUBSET S
    OBVIOUS
  <2> HIDE DEF T
  <2>3. T = S
    <3>1. Progresses(T, S, size)
      BY <2>1, <2>2 DEF Progresses
    <3> QED
      BY <3>1, SizeInduction
  <2> QED
    BY <2>3 DEF T
<1> DEFINE at(n) == CHOOSE f \in [S -> V] : Upto(f, n)
           F == [x \in S |-> at(size[x] + 1)[x]]
<1>5. ASSUME NEW n \in Nat PROVE at(n) \in [S -> V] /\ Upto(at(n), n)
  <2>1. \E f \in [S -> V] : Upto(f, n)
    BY <1>3
  <2> HIDE DEF Upto
  <2> QED
    BY <2>1
<1> HIDE DEF at
<1>6. F \in [S -> V]
  BY <1>5
<1>7. ASSUME NEW x \in S PROVE F[x] = step[<<F, x>>]
  <2>1. size[x] + 1 \in Nat /\ size[x] < size[x] + 1 /\ size[x] \in Nat
    OBVIOUS
  <2> DEFINE f == at(size[x] + 1)
  <2>2. f \in [S -> V] /\ Upto(f, size[x] + 1)
    BY <1>5, <2>1
  <2>3. F[x] = step[<<f, x>>]
    BY <2>1, <2>2
  <2>4. ASSUME NEW y \in S, size[y] < size[x] PROVE f[y] = F[y]
    <3>1. size[y] \in Nat /\ size[y] + 1 \in Nat /\ size[y] < size[y] + 1 /\ size[y] < size[x] + 1
      BY <2>1, <2>4
    <3>2. at(size[y] + 1) \in [S -> V] /\ Upto(at(size[y] + 1), size[y] + 1)
      BY <1>5, <3>1
    <3> HIDE DEF Upto, f
    <3>3. f[y] = at(size[y] + 1)[y]
      BY ONLY <1>4, <2>1, <2>2, <3>1, <3>2, SMTT(30)
    <3> QED
      BY <3>3
  <2> HIDE DEF f, F
  <2>5. step[<<f, x>>] = step[<<F, x>>]
    BY <1>6, <2>2, <2>4
  <2> QED
    BY <2>3, <2>5
<1> QED
  <2> HIDE DEF F
  <2>1. F = [x \in S |-> step[<<F, x>>]]
    BY <1>6, <1>7
  <2> QED
    BY <1>6, <2>1 DEF Unfolds

-----------------------------------------------------------------------------
(***************************************************************************)
(* Buffers.                                                                *)
(***************************************************************************)
LEMMA BufferFacts ==
  ASSUME NEW b \in Buffer
  PROVE  /\ Len(b) \in Nat /\ DOMAIN b = 1 .. Len(b) /\ b \in Seq(Byte)
         /\ \A i \in 1 .. Len(b) : b[i] \in Byte
         /\ (b = <<>>) <=> (Len(b) = 0)
<1>1. b \in Seq(Byte)
  BY DEF Buffer
<1>2. \A i \in 1 .. Len(b) : b[i] \in Byte
  BY <1>1
<1>3. (b = <<>>) <=> (Len(b) = 0)
  BY <1>1, EmptySeq
<1> QED
  BY <1>1, <1>2, <1>3

LEMMA LenNat ==
  ASSUME NEW b \in Buffer
  PROVE  Len(b) \in Nat
BY DEF Buffer

LEMMA Cat ==
  ASSUME NEW a \in Buffer, NEW b \in Buffer
  PROVE  /\ a \o b \in Buffer /\ Len(a \o b) = Len(a) + Len(b)
         /\ \A i \in 1 .. Len(a) : (a \o b)[i] = a[i]
         /\ \A i \in 1 .. Len(b) : (a \o b)[Len(a) + i] = b[i]
<1>1. /\ a \o b \in Seq(Byte)
      /\ Len(a \o b) = Len(a) + Len(b)
      /\ \A i \in 1 .. Len(a) + Len(b) :
           (a \o b)[i] = IF i <= Len(a) THEN a[i] ELSE b[i - Len(a)]
  BY ConcatProperties DEF Buffer
<1>2. Len(a) \in Nat /\ Len(b) \in Nat
  BY BufferFacts
<1>3. ASSUME NEW i \in 1 .. Len(a) PROVE (a \o b)[i] = a[i]
  BY <1>1, <1>2
<1>4. ASSUME NEW i \in 1 .. Len(b) PROVE (a \o b)[Len(a) + i] = b[i]
  <2>1. Len(a) + i \in 1 .. Len(a) + Len(b) /\ ~ (Len(a) + i <= Len(a))
        /\ Len(a) + i - Len(a) = i
    BY <1>2
  <2> QED
    BY <1>1, <2>1
<1> QED
  BY <1>1, <1>3, <1>4 DEF Buffer

LEMMA CatAssoc ==
  ASSUME NEW a \in Buffer, NEW b \in Buffer, NEW c \in Buffer
  PROVE  (a \o b) \o c = a \o (b \o c)
BY ConcatAssociative DEF Buffer

LEMMA CatEmpty ==
  ASSUME NEW a \in Buffer
  PROVE  a \o <<>> = a /\ <<>> \o a = a /\ <<>> \in Buffer /\ Len(<<>>) = 0
BY ConcatEmptySeq, EmptySeq DEF Buffer

LEMMA SameBuffer ==
  ASSUME NEW a \in Buffer, NEW b \in Buffer, Len(a) = Len(b),
         \A i \in 1 .. Len(a) : a[i] = b[i]
  PROVE  a = b
BY SeqEqual DEF Buffer

LEMMA Cut ==
  ASSUME NEW b \in Buffer, NEW m \in Nat \ {0}, NEW n \in Nat, n <= Len(b)
  PROVE  /\ SubSeq(b, m, n) \in Buffer
         /\ Len(SubSeq(b, m, n)) = IF m <= n THEN n - m + 1 ELSE 0
         /\ \A i \in 1 .. n - m + 1 : SubSeq(b, m, n)[i] = b[m + i - 1]
<1>1. \A i \in m .. n : b[i] \in Byte
  <2>1. \A i \in m .. n : i \in 1 .. Len(b)
    BY BufferFacts
  <2> QED
    BY <2>1, BufferFacts
<1>2. m \in Int /\ n \in Int
  OBVIOUS
<1> QED
  BY <1>1, <1>2, SubSeqProperties DEF Buffer

LEMMA FromFacts ==
  ASSUME NEW b \in Buffer, NEW m \in Nat \ {0}
  PROVE  /\ From(b, m) \in Buffer
         /\ Len(From(b, m)) = IF m <= Len(b) THEN Len(b) - m + 1 ELSE 0
         /\ \A i \in 1 .. Len(b) - m + 1 : From(b, m)[i] = b[m + i - 1]
<1>1. Len(b) \in Nat /\ Len(b) <= Len(b)
  BY BufferFacts
<1> QED
  BY <1>1, Cut DEF From

LEMMA FromFirst ==
  ASSUME NEW b \in Buffer
  PROVE  From(b, 1) = b
BY SubSeqFull DEF From, Buffer

\* A buffer made of two is taken apart.
LEMMA CatFrom ==
  ASSUME NEW a \in Buffer, NEW b \in Buffer, NEW n, n = Len(a) + 1
  PROVE  From(a \o b, n) = b
<1>1. /\ Len(a) \in Nat /\ Len(b) \in Nat /\ Len(a \o b) = Len(a) + Len(b)
      /\ a \o b \in Buffer /\ n \in Nat \ {0}
  <2>1. Len(a) \in Nat /\ Len(b) \in Nat
    BY LenNat
  <2>2. Len(a \o b) = Len(a) + Len(b) /\ a \o b \in Buffer
    BY Cat
  <2> QED
    BY <2>1, <2>2
<1>2. /\ From(a \o b, n) \in Buffer
      /\ Len(From(a \o b, n)) = IF n <= Len(a \o b) THEN Len(a \o b) - n + 1 ELSE 0
      /\ \A i \in 1 .. Len(a \o b) - n + 1 : From(a \o b, n)[i] = (a \o b)[n + i - 1]
  BY <1>1, FromFacts
<1>3. Len(From(a \o b, n)) = Len(b)
  BY <1>1, <1>2
<1>4. ASSUME NEW i \in 1 .. Len(b) PROVE From(a \o b, n)[i] = b[i]
  <2>1. i \in 1 .. Len(a \o b) - n + 1 /\ n + i - 1 = Len(a) + i
    BY <1>1
  <2>2. From(a \o b, n)[i] = (a \o b)[Len(a) + i]
    BY <1>2, <2>1
  <2>3. (a \o b)[Len(a) + i] = b[i]
    BY Cat
  <2> QED
    BY <2>2, <2>3
<1> QED
  BY <1>2, <1>3, <1>4, SameBuffer

LEMMA CatUpto ==
  ASSUME NEW a \in Buffer, NEW b \in Buffer, NEW n, n = Len(a)
  PROVE  SubSeq(a \o b, 1, n) = a
<1>1. /\ Len(a) \in Nat /\ Len(b) \in Nat /\ Len(a \o b) = Len(a) + Len(b)
      /\ a \o b \in Buffer /\ n \in Nat /\ n <= Len(a \o b) /\ 1 \in Nat \ {0}
  <2>1. Len(a) \in Nat /\ Len(b) \in Nat
    BY LenNat
  <2>2. Len(a \o b) = Len(a) + Len(b) /\ a \o b \in Buffer
    BY Cat
  <2> QED
    BY <2>1, <2>2
<1>2. /\ SubSeq(a \o b, 1, n) \in Buffer
      /\ Len(SubSeq(a \o b, 1, n)) = IF 1 <= n THEN n - 1 + 1 ELSE 0
      /\ \A i \in 1 .. n - 1 + 1 : SubSeq(a \o b, 1, n)[i] = (a \o b)[1 + i - 1]
  <2> DEFINE c == a \o b
             m == 1
  <2>1. c \in Buffer /\ n \in Nat /\ n <= Len(c) /\ m \in Nat \ {0}
    BY <1>1
  <2> HIDE DEF c, m
  <2>2. /\ SubSeq(c, m, n) \in Buffer
        /\ Len(SubSeq(c, m, n)) = IF m <= n THEN n - m + 1 ELSE 0
        /\ \A i \in 1 .. n - m + 1 : SubSeq(c, m, n)[i] = c[m + i - 1]
    BY <2>1, Cut
  <2> QED
    BY <2>2 DEF c, m
<1>3. Len(SubSeq(a \o b, 1, n)) = Len(a)
  BY <1>1, <1>2
<1>4. ASSUME NEW i \in 1 .. Len(a) PROVE SubSeq(a \o b, 1, n)[i] = a[i]
  <2>1. i \in 1 .. n - 1 + 1 /\ 1 + i - 1 = i
    BY <1>1
  <2>2. SubSeq(a \o b, 1, n)[i] = (a \o b)[i]
    BY <1>2, <2>1
  <2>3. (a \o b)[i] = a[i]
    BY Cat
  <2> QED
    BY <2>2, <2>3
<1> QED
  BY <1>2, <1>3, <1>4, SameBuffer

LEMMA Bytes1 ==
  ASSUME NEW x \in Byte
  PROVE  <<x>> \in Buffer /\ Len(<<x>>) = 1 /\ <<x>>[1] = x
BY DEF Buffer

LEMMA Bytes2 ==
  ASSUME NEW x \in Byte, NEW y \in Byte
  PROVE  <<x, y>> \in Buffer /\ Len(<<x, y>>) = 2 /\ <<x, y>>[1] = x /\ <<x, y>>[2] = y
BY DEF Buffer

LEMMA Appended ==
  ASSUME NEW b \in Buffer, NEW x \in Byte
  PROVE  /\ Append(b, x) \in Buffer /\ Append(b, x) # <<>> /\ Len(Append(b, x)) = Len(b) + 1
         /\ \A i \in 1 .. Len(b) : Append(b, x)[i] = b[i]
         /\ Append(b, x)[Len(b) + 1] = x
         /\ Append(b, x) = b \o <<x>>
         /\ Front(Append(b, x)) = b /\ Last(Append(b, x)) = x
<1>1. /\ Append(b, x) \in Buffer /\ Append(b, x) # <<>> /\ Len(Append(b, x)) = Len(b) + 1
      /\ \A i \in 1 .. Len(b) : Append(b, x)[i] = b[i]
      /\ Append(b, x)[Len(b) + 1] = x
  BY AppendProperties DEF Buffer
<1>2. Append(b, x) = b \o <<x>>
  BY AppendIsConcat DEF Buffer
<1>3. SubSeq(b \o <<x>>, 1, Len(b)) = b
  BY CatUpto, Bytes1
<1>4. Len(b) + 1 - 1 = Len(b)
  BY BufferFacts
<1> QED
  BY <1>1, <1>2, <1>3, <1>4 DEF Front, Last

LEMMA HeadOf ==
  ASSUME NEW x \in Byte, NEW b \in Buffer
  PROVE  /\ <<x>> \o b \in Buffer /\ Len(<<x>> \o b) = 1 + Len(b) /\ <<x>> \o b # <<>>
         /\ Head(<<x>> \o b) = x /\ (<<x>> \o b)[1] = x
         /\ Tail(<<x>> \o b) = b /\ From(<<x>> \o b, 2) = b
<1>1. /\ <<x>> \in Buffer /\ Len(<<x>>) = 1 /\ <<x>>[1] = x
  BY Bytes1
<1>2. /\ <<x>> \o b \in Buffer /\ Len(<<x>> \o b) = 1 + Len(b) /\ (<<x>> \o b)[1] = x
  BY <1>1, Cat
<1>3. <<x>> \o b # <<>>
  <2>1. Len(b) \in Nat /\ Len(<<x>> \o b) # 0
    BY <1>2, LenNat
  <2> QED
    BY <1>2, <2>1, BufferFacts
<1>4. Head(<<x>> \o b) = x
  BY <1>2
<1>5. From(<<x>> \o b, 2) = b
  <2>1. 2 = Len(<<x>>) + 1
    BY <1>1
  <2> QED
    BY <1>1, <2>1, CatFrom
<1>6. Tail(<<x>> \o b) = b
  BY <1>2, <1>3, <1>5, TailIsSubSeq DEF Buffer, From
<1> QED
  BY <1>2, <1>3, <1>4, <1>5, <1>6

-----------------------------------------------------------------------------
(***************************************************************************)
(* Numbers of variable length.                                             *)
(***************************************************************************)
LEMMA By128 ==
  ASSUME NEW v \in Nat
  PROVE  /\ v \div 128 \in Nat /\ v % 128 \in 0 .. 127 /\ v = (v \div 128) * 128 + (v % 128)
         /\ v >= 128 => v \div 128 < v
         /\ v < 128 => v \div 128 = 0 /\ v % 128 = v
OBVIOUS

LEMMA By256 ==
  ASSUME NEW v \in Nat
  PROVE  /\ v \div 256 \in Nat /\ v % 256 \in 0 .. 255 /\ v = (v \div 256) * 256 + (v % 256)
         /\ v >= 256 => v \div 256 < v
         /\ v < 256 => v \div 256 = 0 /\ v % 256 = v
OBVIOUS

LEMMA LeadingIs ==
  Leading = [v \in Nat |-> IF v < 128 THEN <<>>
                           ELSE Append(Leading[v \div 128], 128 + ((v \div 128) % 128))]
<1> DEFINE step == [p \in [Nat -> Buffer] \X Nat |->
                      IF p[2] < 128 THEN <<>>
                      ELSE Append(p[1][p[2] \div 128], 128 + ((p[2] \div 128) % 128))]
           size == [v \in Nat |-> v]
<1>1. step \in [[Nat -> Buffer] \X Nat -> Buffer]
  <2>1. ASSUME NEW f \in [Nat -> Buffer], NEW v \in Nat
        PROVE  Append(f[v \div 128], 128 + ((v \div 128) % 128)) \in Buffer
    <3> DEFINE w == v \div 128
    <3>1. w \in Nat
      BY By128
    <3>2. w % 128 \in 0 .. 127
      BY <3>1, By128
    <3>3. 128 + (w % 128) \in Byte
      BY <3>2 DEF Byte
    <3>4. f[w] \in Buffer
      BY <3>1
    <3> HIDE DEF w
    <3>5. Append(f[w], 128 + (w % 128)) \in Buffer
      BY <3>3, <3>4, Appended, ZenonT(60)
    <3> QED
      BY <3>5 DEF w
  <2>2. <<>> \in Buffer
    BY DEF Buffer
  <2> QED
    BY <2>1, <2>2
<1>2. ASSUME NEW f \in [Nat -> Buffer], NEW g \in [Nat -> Buffer], NEW v \in Nat,
             \A y \in Nat : size[y] < size[v] => f[y] = g[y]
      PROVE  step[<<f, v>>] = step[<<g, v>>]
  <2>1. CASE v < 128
    BY <2>1
  <2>2. CASE ~ (v < 128)
    <3>1. v \div 128 \in Nat /\ v \div 128 < v
      BY <2>2, By128
    <3>2. f[v \div 128] = g[v \div 128]
      BY <1>2, <3>1
    <3> QED
      BY <2>2, <3>2
  <2> QED
    BY <2>1, <2>2
<1>3. size \in [Nat -> Nat] /\ Buffer # {}
  <2>1. <<>> \in Buffer
    BY DEF Buffer
  <2> QED
    BY <2>1
<1>4. Descends(step, Nat, Buffer, size)
  <2> HIDE DEF step, size
  <2> QED
    BY <1>1, <1>2, <1>3 DEF Descends
<1>5. PICK f \in [Nat -> Buffer] : f = [v \in Nat |-> step[<<f, v>>]]
  <2> HIDE DEF step, size
  <2> QED
    BY <1>4, Recursion DEF Unfolds
<1>6. \A v \in Nat : step[<<f, v>>] = IF v < 128 THEN <<>>
                           ELSE Append(f[v \div 128], 128 + ((v \div 128) % 128))
  OBVIOUS
<1> HIDE DEF step
<1>7. f = [v \in Nat |-> IF v < 128 THEN <<>>
                           ELSE Append(f[v \div 128], 128 + ((v \div 128) % 128))]
  BY <1>5, <1>6, ZenonT(60)
<1> QED
  BY <1>7, ZenonT(60) DEF Leading

LEMMA LeadingAt ==
  ASSUME NEW v \in Nat
  PROVE  Leading[v] = IF v < 128 THEN <<>>
                      ELSE Append(Leading[v \div 128], 128 + ((v \div 128) % 128))
<1> DEFINE e(f, w) == IF w < 128 THEN <<>>
                      ELSE Append(f[w \div 128], 128 + ((w \div 128) % 128))
<1>1. Leading = [w \in Nat |-> e(Leading, w)]
  BY LeadingIs
<1> HIDE DEF e
<1>2. Leading[v] = e(Leading, v)
  BY <1>1
<1> QED
  BY <1>2 DEF e

LEMMA FromDigitsIs ==
  FromDigits = [b \in Buffer |-> IF b = <<>> THEN 0
                                 ELSE FromDigits[Front(b)] * 128 + (Last(b) % 128)]
<1> DEFINE step == [p \in [Buffer -> Nat] \X Buffer |->
                      IF p[2] = <<>> THEN 0 ELSE p[1][Front(p[2])] * 128 + (Last(p[2]) % 128)]
           size == [b \in Buffer |-> Len(b)]
<1>1. ASSUME NEW b \in Buffer, b # <<>>
      PROVE  Front(b) \in Buffer /\ Len(Front(b)) < Len(b) /\ Last(b) \in Byte
  <2>1. Len(b) \in Nat /\ Len(b) # 0
    BY <1>1, BufferFacts
  <2>2. Len(b) \in 1 .. Len(b) /\ Len(b) - 1 \in Nat /\ Len(b) - 1 <= Len(b) /\ Len(b) - 1 < Len(b)
    BY <2>1
  <2>3. Last(b) \in Byte
    BY <2>2, BufferFacts DEF Last
  <2> DEFINE m == 1
             n == Len(b) - 1
  <2>3a. m = 1
    OBVIOUS
  <2>4. m \in Nat \ {0} /\ n \in Nat /\ n <= Len(b)
    <3>1. n \in Nat /\ n <= Len(b)
      BY <2>2
    <3> HIDE DEF m, n
    <3> QED
      BY <2>3a, <3>1
  <2>5. n - m + 1 = n /\ (m <= n <=> n # 0)
    <3> HIDE DEF m, n
    <3> QED
      BY <2>3a, <2>4
  <2> HIDE DEF m, n
  <2>6. SubSeq(b, m, n) \in Buffer /\ Len(SubSeq(b, m, n)) = IF m <= n THEN n - m + 1 ELSE 0
    BY <2>4, Cut
  <2>7. Front(b) = SubSeq(b, m, n)
    BY DEF Front, m, n
  <2>8. Len(Front(b)) = n
    BY <2>5, <2>6, <2>7
  <2> QED
    BY <2>2, <2>3, <2>6, <2>7, <2>8 DEF n
<1>2. step \in [[Buffer -> Nat] \X Buffer -> Nat]
  <2>1. ASSUME NEW f \in [Buffer -> Nat], NEW b \in Buffer, b # <<>>
        PROVE  f[Front(b)] * 128 + (Last(b) % 128) \in Nat
    <3>1. f[Front(b)] \in Nat /\ Last(b) \in 0 .. 255
      BY <1>1, <2>1 DEF Byte
    <3> QED
      BY <3>1
  <2> QED
    BY <2>1
<1>3. ASSUME NEW f \in [Buffer -> Nat], NEW g \in [Buffer -> Nat], NEW b \in Buffer,
             \A y \in Buffer : size[y] < size[b] => f[y] = g[y]
      PROVE  step[<<f, b>>] = step[<<g, b>>]
  <2>1. CASE b = <<>>
    BY <2>1
  <2>2. CASE b # <<>>
    <3>1. Front(b) \in Buffer /\ Len(Front(b)) < Len(b)
      BY <1>1, <2>2
    <3>2. size[Front(b)] < size[b]
      BY <3>1
    <3>3. f[Front(b)] = g[Front(b)]
      BY <1>3, <3>1, <3>2
    <3> QED
      BY <2>2, <3>3
  <2> QED
    BY <2>1, <2>2
<1>4. size \in [Buffer -> Nat] /\ Nat # {}
  BY LenNat
<1>5. Descends(step, Buffer, Nat, size)
  <2> HIDE DEF step, size
  <2> QED
    BY <1>2, <1>3, <1>4 DEF Descends
<1>6. PICK f \in [Buffer -> Nat] : f = [b \in Buffer |-> step[<<f, b>>]]
  <2> HIDE DEF step, size
  <2> QED
    BY <1>5, Recursion DEF Unfolds
<1>7. \A b \in Buffer : step[<<f, b>>] = IF b = <<>> THEN 0
                                         ELSE f[Front(b)] * 128 + (Last(b) % 128)
  OBVIOUS
<1> HIDE DEF step
<1>8. f = [b \in Buffer |-> IF b = <<>> THEN 0 ELSE f[Front(b)] * 128 + (Last(b) % 128)]
  BY <1>6, <1>7, ZenonT(60)
<1> QED
  BY <1>8 DEF FromDigits

LEMMA FromDigitsEmpty == FromDigits[<<>>] = 0
<1> DEFINE e(b) == FromDigits[Front(b)] * 128 + (Last(b) % 128)
<1>1. FromDigits = [b \in Buffer |-> IF b = <<>> THEN 0 ELSE e(b)]
  BY FromDigitsIs
<1>2. <<>> \in Buffer
  BY CatEmpty DEF Buffer
<1> HIDE DEF e
<1> QED
  BY <1>1, <1>2

LEMMA FromDigitsAppend ==
  ASSUME NEW b \in Buffer, NEW x \in Byte
  PROVE  FromDigits[Append(b, x)] = FromDigits[b] * 128 + (x % 128)
<1> DEFINE e(c) == FromDigits[Front(c)] * 128 + (Last(c) % 128)
           d == Append(b, x)
<1>1. FromDigits = [c \in Buffer |-> IF c = <<>> THEN 0 ELSE e(c)]
  BY FromDigitsIs
<1>2. d \in Buffer /\ d # <<>> /\ Front(d) = b /\ Last(d) = x
  BY Appended
<1>3. e(d) = FromDigits[b] * 128 + (x % 128)
  BY <1>2
<1> HIDE DEF e, d
<1>4. FromDigits[d] = e(d)
  BY <1>1, <1>2
<1> QED
  BY <1>3, <1>4 DEF d

(***************************************************************************)
(* The digits of a number, all of them marked but the last.                *)
(***************************************************************************)
AllMarked(b) == \A i \in 1 .. Len(b) : Marked(b[i])

LEMMA LeadingFacts ==
  ASSUME NEW v \in Nat
  PROVE  Leading[v] \in Buffer /\ AllMarked(Leading[v]) /\ FromDigits[Leading[v]] = v \div 128
<1> DEFINE Good(w) == /\ Leading[w] \in Buffer /\ AllMarked(Leading[w])
                      /\ FromDigits[Leading[w]] = w \div 128
           T == {w \in Nat : Good(w)}
           size == [w \in Nat |-> w]
<1>1. ASSUME NEW w \in Nat, \A y \in Nat : size[y] < size[w] => y \in T PROVE Good(w)
  <2>1. CASE w < 128
    <3>1. Leading[w] = <<>>
      BY <2>1, LeadingAt
    <3>2. <<>> \in Buffer /\ Len(<<>>) = 0
      BY CatEmpty DEF Buffer
    <3>3. AllMarked(<<>>)
      BY <3>2 DEF AllMarked
    <3>4. w \div 128 = 0
      BY <2>1, By128
    <3> QED
      BY <3>1, <3>2, <3>3, <3>4, FromDigitsEmpty
  <2>2. CASE ~ (w < 128)
    <3> DEFINE h == w \div 128
               x == 128 + (h % 128)
               d == Leading[h]
    <3>1. h \in Nat /\ h < w
      BY <2>2, By128
    <3>2. d \in Buffer /\ AllMarked(d) /\ FromDigits[d] = h \div 128
      BY <1>1, <3>1
    <3>3. h % 128 \in 0 .. 127 /\ h = (h \div 128) * 128 + (h % 128)
      BY <3>1, By128
    <3>4. x \in Byte /\ Marked(x) /\ x % 128 = h % 128
      <4> DEFINE k == h % 128
      <4>1. k \in 0 .. 127 /\ x = 128 + k
        BY <3>3
      <4> HIDE DEF k, x, h
      <4>2. x \in Byte /\ Marked(x) /\ x % 128 = k
        BY <4>1 DEF Byte, Marked
      <4> QED
        BY <4>2 DEF k
    <3>5. Leading[w] = Append(d, x)
      BY <2>2, LeadingAt
    <3> HIDE DEF x, d
    <3>6. /\ Append(d, x) \in Buffer /\ Len(Append(d, x)) = Len(d) + 1
          /\ \A i \in 1 .. Len(d) : Append(d, x)[i] = d[i]
          /\ Append(d, x)[Len(d) + 1] = x
      BY <3>2, <3>4, Appended, ZenonT(60)
    <3>7. AllMarked(Append(d, x))
      <4> SUFFICES ASSUME NEW i \in 1 .. Len(d) + 1 PROVE Marked(Append(d, x)[i])
        BY <3>6 DEF AllMarked
      <4>1. Len(d) \in Nat
        BY <3>2, LenNat
      <4>2. CASE i = Len(d) + 1
        BY <3>4, <3>6, <4>2
      <4>3. CASE i # Len(d) + 1
        <5>1. i \in 1 .. Len(d)
          BY <4>1, <4>3
        <5> QED
          BY <3>2, <3>6, <5>1 DEF AllMarked
      <4> QED
        BY <4>2, <4>3
    <3>8. FromDigits[Append(d, x)] = h
      <4>1. FromDigits[Append(d, x)] = FromDigits[d] * 128 + (x % 128)
        BY <3>2, <3>4, FromDigitsAppend
      <4>2. FromDigits[Append(d, x)] = (h \div 128) * 128 + (h % 128)
        BY <3>2, <3>4, <4>1
      <4> QED
        BY <3>3, <4>2
    <3> QED
      BY <3>5, <3>6, <3>7, <3>8
  <2> QED
    BY <2>1, <2>2
<1>2. Progresses(T, Nat, size)
  <2>1. size \in [Nat -> Nat] /\ T \in SUBSET Nat
    OBVIOUS
  <2>2. \A w \in Nat : (\A y \in Nat : size[y] < size[w] => y \in T) => w \in T
    BY <1>1
  <2> HIDE DEF T, size
  <2> QED
    BY <2>1, <2>2 DEF Progresses
<1>3. T = Nat
  <2> HIDE DEF T, size
  <2> QED
    BY <1>2, SizeInduction
<1> QED
  BY <1>3

-----------------------------------------------------------------------------
(***************************************************************************)
(* Numbers of variable length, read back.                                  *)
(***************************************************************************)
LEMMA MinIs ==
  ASSUME NEW S \in SUBSET Int, NEW x \in S, \A y \in S : x <= y
  PROVE  Min(S) = x
<1>1. \A z \in S : (\A y \in S : z <= y) => z = x
  OBVIOUS
<1> QED
  BY <1>1 DEF Min

\* The reader of a number in front of other bytes finds the first byte without a mark.
LEMMA FirstUnmarked ==
  ASSUME NEW d \in Buffer, NEW x \in Byte, NEW s \in Buffer, AllMarked(d), ~ Marked(x)
  PROVE  LET scan == Append(Append(d, x) \o s, 0)
         IN  /\ scan \in Buffer /\ Len(scan) = Len(d) + Len(s) + 2
             /\ \A i \in 1 .. Len(d) : Marked(scan[i])
             /\ ~ Marked(scan[Len(d) + 1])
             /\ SubSeq(scan, 1, Len(d) + 1) = Append(d, x)
<1> DEFINE e == Append(d, x)
           scan == Append(e \o s, 0)
<1>0. 0 \in Byte
  BY DEF Byte
<1>1. /\ e \in Buffer /\ Len(e) = Len(d) + 1 /\ e[Len(d) + 1] = x
      /\ \A i \in 1 .. Len(d) : e[i] = d[i]
  BY Appended
<1> HIDE DEF e
<1>2. Len(d) \in Nat /\ Len(s) \in Nat /\ <<0>> \in Buffer /\ Len(<<0>>) = 1
  BY LenNat, Bytes1, <1>0
<1>3. e \o s \in Buffer /\ Len(e \o s) = Len(e) + Len(s)
  BY <1>1, Cat
<1>4. scan = (e \o s) \o <<0>> /\ scan \in Buffer /\ Len(scan) = Len(e \o s) + 1
  BY <1>0, <1>3, Appended
<1>4a. s \o <<0>> \in Buffer
  BY <1>2, Cat
<1>4b. (e \o s) \o <<0>> = e \o (s \o <<0>>)
  BY <1>1, <1>2, CatAssoc, ZenonT(60)
<1> HIDE DEF scan
<1>5. scan = e \o (s \o <<0>>) /\ s \o <<0>> \in Buffer
  BY <1>4, <1>4a, <1>4b
<1> HIDE DEF scan
<1>6. \A i \in 1 .. Len(e) : scan[i] = e[i]
  BY <1>1, <1>5, Cat
<1>7. SubSeq(scan, 1, Len(e)) = e
  BY <1>1, <1>5, CatUpto
<1>8. ASSUME NEW i \in 1 .. Len(d) PROVE Marked(scan[i])
  <2>1. i \in 1 .. Len(e)
    BY <1>1, <1>2
  <2> QED
    BY <1>1, <1>6, <2>1 DEF AllMarked
<1>9. ~ Marked(scan[Len(d) + 1])
  <2>1. Len(d) + 1 \in 1 .. Len(e)
    BY <1>1, <1>2
  <2> QED
    BY <1>1, <1>6, <2>1
<1>10. Len(scan) = Len(d) + Len(s) + 2
  BY <1>1, <1>2, <1>3, <1>4
<1> QED
  BY <1>1, <1>4, <1>7, <1>8, <1>9, <1>10 DEF scan, e

LEMMA VluDigits ==
  ASSUME NEW v \in Nat
  PROVE  /\ v % 128 \in Byte /\ ~ Marked(v % 128) /\ EncodeVlu(v) = Append(Leading[v], v % 128)
         /\ FromDigits[EncodeVlu(v)] = v /\ EncodeVlu(v) \in Buffer
<1> DEFINE x == v % 128
           d == Leading[v]
<1>1. v \div 128 \in Nat /\ x \in 0 .. 127 /\ v = (v \div 128) * 128 + x
  BY By128
<1>2. d \in Buffer /\ FromDigits[d] = v \div 128
  BY LeadingFacts
<1>3. EncodeVlu(v) = Append(d, x + 0)
  BY DEF EncodeVlu, InternalEncode
<1> HIDE DEF x, d
<1>4. x \in Byte /\ ~ Marked(x) /\ x % 128 = x /\ x + 0 = x
  BY <1>1 DEF Byte, Marked
<1>5. FromDigits[Append(d, x)] = (v \div 128) * 128 + x
  BY <1>2, <1>4, FromDigitsAppend
<1>6. Append(d, x) \in Buffer
  BY <1>2, <1>4, Appended
<1> QED
  BY <1>1, <1>3, <1>4, <1>5, <1>6 DEF x, d

(***************************************************************************)
(* What a decoder gets from what an encoder wrote, whatever follows it.    *)
(***************************************************************************)
Got(v, s) == [value |-> v, rest |-> s]

(***************************************************************************)
(* A number that encode_vlu writes, decode_vlu reads, whatever its size,   *)
(* and it leaves what follows the number.                                  *)
(***************************************************************************)
THEOREM VluReadsBack ==
  ASSUME NEW v \in Nat, NEW s \in Buffer
  PROVE  DecodeVlu(EncodeVlu(v) \o s) = Got(v, s)
<1> DEFINE x == v % 128
           d == Leading[v]
           e == EncodeVlu(v)
           buf == e \o s
           scan == Append(buf, 0)
           k == Len(d) + 1
           U == {i \in DOMAIN scan : ~ Marked(scan[i])}
<1>1. x \in Byte /\ ~ Marked(x) /\ e = Append(d, x) /\ FromDigits[e] = v /\ e \in Buffer
  BY VluDigits
<1>2. d \in Buffer /\ AllMarked(d)
  BY LeadingFacts
<1> HIDE DEF x, d, e
<1>3. /\ scan \in Buffer /\ Len(scan) = Len(d) + Len(s) + 2
      /\ \A i \in 1 .. Len(d) : Marked(scan[i])
      /\ ~ Marked(scan[k])
      /\ SubSeq(scan, 1, k) = Append(d, x)
  BY <1>1, <1>2, FirstUnmarked
<1>4. Len(d) \in Nat /\ Len(s) \in Nat /\ Len(e) = k
  BY <1>1, <1>2, LenNat, Appended
<1>5. DOMAIN scan = 1 .. Len(scan)
  BY <1>3, BufferFacts
<1> HIDE DEF scan, buf
<1>6. k \in U /\ U \in SUBSET Int
  BY <1>3, <1>4, <1>5
<1>7. ASSUME NEW i \in U PROVE k <= i
  <2>1. i \in 1 .. Len(scan) /\ ~ (i \in 1 .. Len(d))
    BY <1>3, <1>5
  <2> QED
    BY <1>3, <1>4, <2>1
<1>8. Min(U) = k
  <2> HIDE DEF U
  <2> QED
    BY <1>6, <1>7, MinIs
<1>9. From(buf, k + 1) = s
  BY <1>1, <1>4, CatFrom DEF buf
<1>10. DecodeVlu(buf) = [value |-> FromDigits[SubSeq(scan, 1, Min(U))], rest |-> From(buf, Min(U) + 1)]
  BY DEF DecodeVlu, scan
<1> HIDE DEF U, k
<1> QED
  BY <1>1, <1>3, <1>8, <1>9, <1>10 DEF buf, e, Got

LEMMA LeadingLen ==
  ASSUME NEW v \in Nat
  PROVE  /\ v < 128 => Len(Leading[v]) = 0
         /\ v >= 128 => Len(Leading[v]) = Len(Leading[v \div 128]) + 1
<1>1. CASE v < 128
  <2>1. Leading[v] = <<>>
    BY <1>1, LeadingAt
  <2> QED
    BY <1>1, <2>1, CatEmpty
<1>2. CASE v >= 128
  <2> DEFINE h == v \div 128
             d == Leading[h]
             x == 128 + (h % 128)
  <2>1. h \in Nat /\ h % 128 \in 0 .. 127
    BY By128
  <2>2. d \in Buffer
    BY <2>1, LeadingFacts
  <2>3. Leading[v] = Append(d, x)
    <3>1. Leading[v] = IF v < 128 THEN <<>> ELSE Append(d, x)
      BY LeadingAt, Zenon
    <3> HIDE DEF d, x
    <3> QED
      BY <1>2, <3>1
  <2>4. x \in Byte
    BY <2>1 DEF Byte
  <2> HIDE DEF d, x
  <2>5. Len(Append(d, x)) = Len(d) + 1
    BY <2>2, <2>4, Appended
  <2> QED
    BY <1>2, <2>3, <2>5 DEF d
<1> QED
  BY <1>1, <1>2

LEMMA DivDown ==
  ASSUME NEW v \in Nat, NEW m \in Nat, v < 128 * m
  PROVE  v \div 128 < m
BY By128

LEMMA DivUp ==
  ASSUME NEW v \in Nat, NEW m \in Nat, 128 * m <= v
  PROVE  m <= v \div 128
BY By128

\* How long a number is.
LEMMA DigitsNat ==
  /\ TwoDigits = 16384 /\ ThreeDigits = 128 * TwoDigits /\ FourDigits = 128 * ThreeDigits
  /\ TwoDigits \in Nat /\ ThreeDigits \in Nat /\ FourDigits \in Nat
<1>1. TwoDigits = 16384 /\ TwoDigits \in Nat
  BY SMT DEF TwoDigits
<1>2. ThreeDigits = 128 * TwoDigits /\ ThreeDigits \in Nat
  <2>1. ThreeDigits = 128 * TwoDigits
    BY DEF ThreeDigits
  <2> QED
    BY <1>1, <2>1, SMT
<1>3. FourDigits = 128 * ThreeDigits /\ FourDigits \in Nat
  <2>1. FourDigits = 128 * ThreeDigits
    BY DEF FourDigits
  <2> QED
    BY <1>2, <2>1, SMT
<1> QED
  BY <1>1, <1>2, <1>3

LEMMA LeadingSize ==
  ASSUME NEW v \in Nat
  PROVE  /\ v < TwoDigits => Len(Leading[v]) <= 1
         /\ v < ThreeDigits => Len(Leading[v]) <= 2
         /\ TwoDigits <= v /\ v < ThreeDigits => Len(Leading[v]) = 2
         /\ v \div 8 < FourDigits => Len(Leading[v]) <= 4
<1> DEFINE L(w) == Len(Leading[w])
<1>1. \A w \in Nat : L(w) \in Nat
  BY LeadingFacts, LenNat
<1>2. \A w \in Nat : w < 128 => L(w) = 0
  BY LeadingLen
<1>3. \A w \in Nat : w >= 128 => L(w) = L(w \div 128) + 1
  BY LeadingLen
<1>4. \A w \in Nat : w \div 128 \in Nat
  BY By128
<1> HIDE DEF L
<1>5. ASSUME NEW w \in Nat, w < TwoDigits PROVE L(w) <= 1 /\ (128 <= w => L(w) = 1)
  <2>1. w \div 128 < 128
    BY <1>5, DivDown, DigitsNat
  <2> QED
    BY <1>2, <1>3, <1>4, <2>1
<1>6. ASSUME NEW w \in Nat, w < ThreeDigits PROVE L(w) <= 2 /\ (TwoDigits <= w => L(w) = 2)
  <2>1. w \div 128 < TwoDigits
    BY <1>6, DivDown, DigitsNat
  <2>2. TwoDigits <= w => 128 <= w \div 128
    BY DivUp, DigitsNat
  <2>3. TwoDigits <= w => 128 <= w
    BY DigitsNat
  <2> QED
    BY <1>2, <1>3, <1>4, <1>5, <2>1, <2>2, <2>3
<1>7. ASSUME NEW w \in Nat, w < FourDigits PROVE L(w) <= 3
  <2>1. w \div 128 < ThreeDigits
    BY <1>7, DivDown, DigitsNat
  <2> QED
    <3>1. w \div 128 \in Nat /\ L(w \div 128) <= 2 /\ L(w \div 128) \in Nat
      BY <1>1, <1>4, <1>6, <2>1
    <3> QED
      BY <1>2, <1>3, <3>1
<1>8. ASSUME NEW w \in Nat, w \div 8 < FourDigits PROVE L(w) <= 4
  <2>1. w \div 128 < FourDigits
    BY <1>8, DigitsNat
  <2> QED
    <3>1. w \div 128 \in Nat /\ L(w \div 128) <= 3 /\ L(w \div 128) \in Nat
      BY <1>1, <1>4, <1>7, <2>1
    <3> QED
      BY <1>2, <1>3, <3>1
<1> QED
  BY <1>5, <1>6, <1>8 DEF L

Number == {n \in Nat : n \div 8 < FourDigits}

LEMMA VluSize ==
  ASSUME NEW v \in Number
  PROVE  v \in Nat /\ EncodeVlu(v) \in Buffer /\ Len(EncodeVlu(v)) \in 1 .. 5 /\ EncodeVlu(v) # <<>>
<1> DEFINE x == v % 128
           d == Leading[v]
<1>1. v \in Nat /\ v \div 8 < FourDigits
  BY DEF Number
<1>2. x \in Byte /\ EncodeVlu(v) = Append(d, x)
  BY <1>1, VluDigits
<1>3. d \in Buffer /\ Len(d) <= 4
  BY <1>1, LeadingFacts, LeadingSize
<1> HIDE DEF d, x
<1>4. Append(d, x) \in Buffer /\ Len(Append(d, x)) = Len(d) + 1 /\ Append(d, x) # <<>>
  BY <1>2, <1>3, Appended
<1>5. Len(d) \in Nat
  BY <1>3, LenNat
<1> QED
  BY <1>1, <1>2, <1>3, <1>4, <1>5

\* What follows what was read: the reader adds a zero to it.
LEMMA ReadAhead ==
  ASSUME NEW e \in Buffer, NEW s \in Buffer
  PROVE  LET scan == Append(e \o s, 0)
         IN  /\ scan \in Buffer /\ Len(scan) = Len(e) + Len(s) + 1 /\ DOMAIN scan = 1 .. Len(scan)
             /\ SubSeq(scan, 1, Len(e)) = e
             /\ \A i \in 1 .. Len(e) : scan[i] = e[i]
<1> DEFINE scan == Append(e \o s, 0)
<1>0. 0 \in Byte
  BY DEF Byte
<1>2. Len(e) \in Nat /\ Len(s) \in Nat /\ <<0>> \in Buffer /\ Len(<<0>>) = 1
  BY LenNat, Bytes1, <1>0
<1>3. e \o s \in Buffer /\ Len(e \o s) = Len(e) + Len(s)
  BY Cat
<1>4. scan = (e \o s) \o <<0>> /\ scan \in Buffer /\ Len(scan) = Len(e \o s) + 1
  BY <1>0, <1>3, Appended
<1>4a. s \o <<0>> \in Buffer
  BY <1>2, Cat
<1>4b. (e \o s) \o <<0>> = e \o (s \o <<0>>)
  BY <1>2, CatAssoc
<1> HIDE DEF scan
<1>5. scan = e \o (s \o <<0>>)
  BY <1>4, <1>4b
<1>6. \A i \in 1 .. Len(e) : scan[i] = e[i]
  BY <1>4a, <1>5, Cat
<1>7. SubSeq(scan, 1, Len(e)) = e
  BY <1>4a, <1>5, CatUpto
<1>8. DOMAIN scan = 1 .. Len(scan)
  BY <1>4, BufferFacts
<1>9. Len(scan) = Len(e) + Len(s) + 1
  BY <1>2, <1>3, <1>4
<1> QED
  BY <1>4, <1>6, <1>7, <1>8, <1>9 DEF scan

\* A number of at most three digits is written in as many bytes.
LEMMA ShortU29 ==
  ASSUME NEW v \in Nat, v < ThreeDigits, NEW s \in Buffer
  PROVE  /\ ReadU29(WriteU29(v) \o s) = Got(v, s)
         /\ WriteU29(v) \in Buffer /\ Len(WriteU29(v)) \in 1 .. 4
<1> DEFINE x == v % 128
           d == Leading[v]
           e == EncodeVlu(v)
           buf == e \o s
           scan == Append(buf, 0)
           k == Len(e)
           U == {i \in 1 .. 3 \cap DOMAIN scan : ~ Marked(scan[i])} \cup {4}
<1>1. /\ x \in Byte /\ ~ Marked(x) /\ e = Append(d, x) /\ FromDigits[e] = v
      /\ e \in Buffer /\ WriteU29(v) = e
  BY VluDigits DEF WriteU29
<1>2. d \in Buffer /\ AllMarked(d) /\ Len(d) <= 2 /\ Len(d) \in Nat
  BY LeadingFacts, LeadingSize, LenNat
<1> HIDE DEF x, d, e
<1>3. /\ k = Len(d) + 1 /\ k \in 1 .. 3 /\ e[k] = x
      /\ \A i \in 1 .. Len(d) : e[i] = d[i]
  BY <1>1, <1>2, Appended
<1>4. /\ Len(scan) = k + Len(s) + 1 /\ DOMAIN scan = 1 .. Len(scan)
      /\ SubSeq(scan, 1, k) = e /\ \A i \in 1 .. k : scan[i] = e[i]
  BY <1>1, ReadAhead
<1>5. Len(s) \in Nat
  BY LenNat
<1> HIDE DEF scan, buf, k
<1>6. k \in U /\ U \in SUBSET Int
  <2>1. k \in DOMAIN scan /\ ~ Marked(scan[k])
    BY <1>1, <1>3, <1>4, <1>5
  <2> QED
    BY <1>3, <2>1
<1>7. ASSUME NEW i \in U PROVE k <= i
  <2> SUFFICES ASSUME ~ (k <= i) PROVE FALSE
    OBVIOUS
  <2>1. i \in 1 .. Len(d) /\ i \in 1 .. k /\ ~ Marked(scan[i])
    BY <1>2, <1>3
  <2> QED
    BY <1>2, <1>3, <1>4, <2>1 DEF AllMarked
<1>8. Min(U) = k
  <2> HIDE DEF U
  <2> QED
    BY <1>6, <1>7, MinIs
<1>9. From(buf, k + 1) = s
  BY <1>1, CatFrom DEF buf, k
<1>10. ReadU29(buf) = [value |-> IF Min(U) < 4 THEN FromDigits[SubSeq(scan, 1, Min(U))]
                                 ELSE FromDigits[SubSeq(scan, 1, 3)] * 256 + scan[4],
                       rest |-> From(buf, Min(U) + 1)]
  BY DEF ReadU29, scan
<1> HIDE DEF U
<1>11. k < 4
  BY <1>3
<1>12. Len(e) \in 1 .. 4
  BY <1>3 DEF k
<1> QED
  BY <1>1, <1>4, <1>8, <1>9, <1>10, <1>11, <1>12 DEF buf, Got

\* A longer one is written in four bytes, with eight bits in the last, unless its
\* first byte would have no bits.
LEMMA LongU29 ==
  ASSUME NEW v \in Nat, TwoDigits <= v \div 256, v \div 256 < ThreeDigits, NEW s \in Buffer
  PROVE  /\ ReadU29(WriteU29(v) \o s) = Got(v, s)
         /\ WriteU29(v) \in Buffer /\ Len(WriteU29(v)) = 4
<1> DEFINE w == v \div 256
           y == v % 256
           x == (w % 128) + 128
           d == Leading[w]
           f == Append(d, x)
           e == Append(f, y)
           buf == e \o s
           scan == Append(buf, 0)
           U == {i \in 1 .. 3 \cap DOMAIN scan : ~ Marked(scan[i])} \cup {4}
<1>1. w \in Nat /\ y \in Byte /\ v = w * 256 + y
  BY By256 DEF Byte
<1>2. ~ (v < ThreeDigits)
  BY DigitsNat
<1>3. WriteU29(v) = e
  BY <1>2 DEF WriteU29, InternalEncode
<1> HIDE DEF w, y
<1>4. /\ w % 128 \in 0 .. 127 /\ w \div 128 \in Nat /\ w = (w \div 128) * 128 + (w % 128)
  BY <1>1, By128
<1>5. x \in Byte /\ Marked(x) /\ x % 128 = w % 128
  <2> DEFINE k == w % 128
  <2>1. k \in 0 .. 127 /\ x = k + 128
    BY <1>4
  <2> HIDE DEF k, x
  <2>2. x \in Byte /\ Marked(x) /\ x % 128 = k
    BY <2>1 DEF Byte, Marked
  <2> QED
    BY <2>2 DEF k
<1>6. TwoDigits <= w /\ w < ThreeDigits
  BY DEF w
<1>7. d \in Buffer /\ AllMarked(d) /\ Len(d) = 2 /\ FromDigits[d] = w \div 128
  BY <1>1, <1>6, LeadingFacts, LeadingSize
<1> HIDE DEF x, d
<1>8. /\ f \in Buffer /\ Len(f) = 3 /\ f[3] = x /\ FromDigits[f] = w
      /\ \A i \in 1 .. 2 : f[i] = d[i]
  <2>1. /\ f \in Buffer /\ Len(f) = Len(d) + 1 /\ f[Len(d) + 1] = x
        /\ \A i \in 1 .. Len(d) : f[i] = d[i]
    BY <1>5, <1>7, Appended, ZenonT(60)
  <2>2. FromDigits[f] = FromDigits[d] * 128 + (x % 128)
    BY <1>5, <1>7, FromDigitsAppend
  <2> HIDE DEF f
  <2>3. FromDigits[f] = w
    BY <1>4, <1>5, <1>7, <2>2
  <2>4. Len(d) + 1 = 3
    BY <1>7
  <2> QED
    BY <1>7, <2>1, <2>3, <2>4
<1> HIDE DEF f
<1>9. /\ e \in Buffer /\ Len(e) = 4 /\ e[4] = y /\ e = f \o <<y>>
      /\ \A i \in 1 .. 3 : e[i] = f[i]
  <2>1. /\ e \in Buffer /\ Len(e) = Len(f) + 1 /\ e[Len(f) + 1] = y /\ e = f \o <<y>>
        /\ \A i \in 1 .. Len(f) : e[i] = f[i]
    BY <1>1, <1>8, Appended, ZenonT(60)
  <2> HIDE DEF e
  <2> QED
    BY <1>8, <2>1
<1> HIDE DEF e
<1>10. /\ Len(scan) = Len(e) + Len(s) + 1 /\ DOMAIN scan = 1 .. Len(scan)
       /\ SubSeq(scan, 1, Len(e)) = e /\ \A i \in 1 .. Len(e) : scan[i] = e[i]
  BY <1>9, ReadAhead
<1>11. buf = f \o (<<y>> \o s) /\ <<y>> \o s \in Buffer
  <2>1. <<y>> \in Buffer
    BY <1>1, Bytes1
  <2>2. <<y>> \o s \in Buffer
    BY <2>1, Cat
  <2>3. (f \o <<y>>) \o s = f \o (<<y>> \o s)
    BY <1>8, <2>1, CatAssoc
  <2> QED
    BY <1>9, <2>2, <2>3
<1>12. SubSeq(scan, 1, Len(f)) = f
  <2> DEFINE t == <<y>> \o s
  <2> HIDE DEF t
  <2>1. buf = f \o t /\ t \in Buffer
    BY <1>11 DEF t
  <2> HIDE DEF buf
  <2>2. Append(f \o t, 0) = scan
    BY <2>1
  <2>3. Append(f \o t, 0) = f \o Append(t, 0) /\ Append(t, 0) \in Buffer
    <3>1. 0 \in Byte
      BY DEF Byte
    <3>2. f \o t \in Buffer
      BY <1>8, <2>1, Cat
    <3>3. Append(f \o t, 0) = (f \o t) \o <<0>> /\ Append(t, 0) = t \o <<0>> /\ Append(t, 0) \in Buffer
      BY <2>1, <3>1, <3>2, Appended
    <3>4. <<0>> \in Buffer
      BY <3>1, Bytes1
    <3>5. (f \o t) \o <<0>> = f \o (t \o <<0>>)
      BY <1>8, <2>1, <3>4, CatAssoc, ZenonT(60)
    <3> QED
      BY <3>3, <3>5
  <2> HIDE DEF scan
  <2> QED
    BY <1>8, <2>2, <2>3, CatUpto
<1>13. Len(s) \in Nat
  BY LenNat
<1>14. From(buf, 4 + 1) = s
  BY <1>9, CatFrom DEF buf
<1> HIDE DEF scan, buf
<1>15. scan[4] = y /\ SubSeq(scan, 1, 3) = f
  BY <1>8, <1>9, <1>10, <1>12
<1>16. \A i \in 1 .. 3 : Marked(scan[i])
  <2>1. \A i \in 1 .. 3 : scan[i] = f[i]
    BY <1>9, <1>10
  <2>2. ASSUME NEW i \in 1 .. 3 PROVE Marked(f[i])
    BY <1>5, <1>7, <1>8 DEF AllMarked
  <2> QED
    BY <2>1, <2>2
<1>17. U = {4}
  BY <1>16
<1>18. Min(U) = 4
  BY <1>17, MinIs
<1>19. ReadU29(buf) = [value |-> IF Min(U) < 4 THEN FromDigits[SubSeq(scan, 1, Min(U))]
                                 ELSE FromDigits[SubSeq(scan, 1, 3)] * 256 + scan[4],
                       rest |-> From(buf, Min(U) + 1)]
  BY DEF ReadU29, scan
<1> HIDE DEF U
<1>20. w * 256 + y = v
  BY <1>1
<1>21. ~ (Min(U) < 4) /\ From(buf, Min(U) + 1) = s
  BY <1>14, <1>18
<1>22. FromDigits[SubSeq(scan, 1, 3)] * 256 + scan[4] = v
  BY <1>8, <1>15, <1>20
<1>23. ReadU29(buf) = [value |-> v, rest |-> s]
  BY <1>19, <1>21, <1>22
<1> QED
  BY <1>3, <1>9, <1>23 DEF buf, Got

(***************************************************************************)
(* A buffer behind its length.                                             *)
(***************************************************************************)
LEMMA PrefixedReadsBack ==
  ASSUME NEW b \in Buffer, Len(b) \in Number, NEW s \in Buffer
  PROVE  /\ DecodePrefixed(EncodePrefixed(b) \o s) = Got(b, s)
         /\ EncodePrefixed(b) \in Buffer /\ Len(EncodePrefixed(b)) \in Len(b) + 1 .. Len(b) + 5
<1> DEFINE n == Len(b)
           e == EncodeVlu(n)
           t == b \o s
           buf == EncodePrefixed(b) \o s
<1>1. n \in Nat /\ e \in Buffer /\ Len(e) \in 1 .. 5
  BY VluSize
<1>2. EncodePrefixed(b) = e \o b
  BY DEF EncodePrefixed
<1>2a. t \in Buffer
  BY Cat
<1>2b. From(t, n + 1) = s /\ SubSeq(t, 1, n) = b
  BY CatFrom, CatUpto
<1> HIDE DEF e, n
<1>3. buf = e \o t /\ EncodePrefixed(b) \in Buffer /\ Len(EncodePrefixed(b)) = Len(e) + Len(b)
  <2>1. (e \o b) \o s = e \o (b \o s)
    BY <1>1, CatAssoc
  <2>2. e \o b \in Buffer /\ Len(e \o b) = Len(e) + Len(b)
    BY <1>1, Cat
  <2> QED
    BY <1>2, <2>1, <2>2
<1> HIDE DEF t, buf
<1>4. DecodeVlu(buf) = Got(n, t)
  BY <1>1, <1>2a, <1>3, VluReadsBack DEF e
<1>5. DecodePrefixed(buf) = [value |-> SubSeq(t, 1, n), rest |-> From(t, n + 1)]
  BY <1>4 DEF DecodePrefixed, Got
<1>6. n = Len(b)
  BY DEF n
<1>7. Len(EncodePrefixed(b)) \in Len(b) + 1 .. Len(b) + 5
  <2>1. Len(b) \in Nat
    BY <1>1, <1>6
  <2>2. Len(EncodePrefixed(b)) = Len(e) + Len(b)
    BY <1>3
  <2>3. \A l \in 1 .. 5, m \in Nat : l + m \in m + 1 .. m + 5
    OBVIOUS
  <2> QED
    BY <1>1, <2>1, <2>2, <2>3
<1>8. DecodePrefixed(buf) = [value |-> b, rest |-> s]
  BY <1>2b, <1>5
<1> QED
  BY <1>3, <1>7, <1>8 DEF Got, buf

-----------------------------------------------------------------------------
(***************************************************************************)
(* What a reader of numbers takes, whatever it reads.                      *)
(***************************************************************************)
LEMMA MinIn ==
  ASSUME NEW S \in SUBSET Nat, S # {}
  PROVE  Min(S) \in S /\ \A y \in S : Min(S) <= y
<1>1. PICK x \in S : \A y \in S : x <= y
  BY Least
<1>2. S \in SUBSET Int
  OBVIOUS
<1>3. Min(S) = x
  BY <1>1, <1>2, MinIs
<1> QED
  BY <1>1, <1>3

LEMMA FromDigitsNat ==
  ASSUME NEW b \in Buffer
  PROVE  FromDigits[b] \in Nat
<1> DEFINE T == {c \in Buffer : FromDigits[c] \in Nat}
           size == [c \in Buffer |-> Len(c)]
<1>1. ASSUME NEW c \in Buffer, \A y \in Buffer : size[y] < size[c] => y \in T
      PROVE  c \in T
  <2>1. CASE c = <<>>
    BY <2>1, FromDigitsEmpty
  <2>2. CASE c # <<>>
    <3> DEFINE k == Len(c)
               n == k - 1
               f == SubSeq(c, 1, n)
               x == c[k]
    <3>1. k \in Nat \ {0} /\ \A i \in 1 .. k : c[i] \in Byte
      BY <2>2, BufferFacts
    <3>2. n \in Nat /\ n <= k /\ n < k /\ k = n + 1 /\ k \in 1 .. k /\ 1 \in Nat \ {0}
      BY <3>1
    <3> HIDE DEF n
    <3>3. /\ f \in Buffer /\ Len(f) = IF 1 <= n THEN n - 1 + 1 ELSE 0
          /\ \A i \in 1 .. n - 1 + 1 : f[i] = c[1 + i - 1]
      <4> DEFINE m == 1
      <4>1. m \in Nat \ {0} /\ n <= Len(c)
        BY <3>2
      <4> HIDE DEF m
      <4>2. /\ SubSeq(c, m, n) \in Buffer /\ Len(SubSeq(c, m, n)) = IF m <= n THEN n - m + 1 ELSE 0
            /\ \A i \in 1 .. n - m + 1 : SubSeq(c, m, n)[i] = c[m + i - 1]
        BY <3>2, <4>1, Cut
      <4> QED
        BY <4>2 DEF m
    <3> HIDE DEF k, f, x
    <3>4. Len(f) = n /\ \A i \in 1 .. n : f[i] = c[i]
      <4>1. \A i \in 1 .. n : 1 + i - 1 = i /\ i \in 1 .. n - 1 + 1
        BY <3>2
      <4> QED
        BY <3>2, <3>3, <4>1
    <3>5. x \in Byte
      BY <3>1, <3>2 DEF x
    <3>6. c = Append(f, x)
      <4>1. /\ Append(f, x) \in Buffer /\ Len(Append(f, x)) = n + 1
            /\ \A i \in 1 .. n : Append(f, x)[i] = f[i]
            /\ Append(f, x)[n + 1] = x
        BY <3>3, <3>4, <3>5, Appended
      <4>2. Len(c) = n + 1 /\ c[n + 1] = x
        BY <3>2 DEF k, x
      <4>3. \A i \in 1 .. n + 1 : i \in 1 .. n \/ i = n + 1
        BY <3>2
      <4>4. \A i \in 1 .. n + 1 : Append(f, x)[i] = c[i]
        BY <3>4, <4>1, <4>2, <4>3
      <4> HIDE DEF n
      <4> QED
        BY <4>1, <4>2, <4>4, SameBuffer
    <3>7. FromDigits[f] \in Nat
      <4>1. size[f] < size[c]
        BY <3>2, <3>3, <3>4 DEF k
      <4> QED
        BY <1>1, <3>3, <4>1
    <3>8. FromDigits[c] = FromDigits[f] * 128 + (x % 128)
      BY <3>3, <3>5, <3>6, FromDigitsAppend
    <3>9. x % 128 \in Nat
      BY <3>5 DEF Byte
    <3> QED
      BY <3>7, <3>8, <3>9
  <2> QED
    BY <2>1, <2>2
<1>2. Progresses(T, Buffer, size)
  <2>1. size \in [Buffer -> Nat] /\ T \in SUBSET Buffer
    BY LenNat
  <2> HIDE DEF T, size
  <2> QED
    BY <1>1, <2>1 DEF Progresses
<1>3. T = Buffer
  <2> HIDE DEF T, size
  <2> QED
    BY <1>2, SizeInduction
<1> QED
  BY <1>3

\* The reader of a number takes at least one byte, if there is any.
LEMMA VluTakes ==
  ASSUME NEW b \in Buffer
  PROVE  /\ DecodeVlu(b).value \in Nat /\ DecodeVlu(b).rest \in Buffer
         /\ Len(DecodeVlu(b).rest) <= Len(b)
         /\ b # <<>> => Len(DecodeVlu(b).rest) < Len(b)
         /\ b = <<>> => DecodeVlu(b).value = 0
<1> DEFINE scan == Append(b, 0)
           U == {i \in DOMAIN scan : ~ Marked(scan[i])}
           n == Min(U)
           m == 1
<1>1. 0 \in Byte /\ ~ Marked(0)
  BY DEF Byte, Marked
<1>2. Len(b) \in Nat
  BY LenNat
<1>3. /\ scan \in Buffer /\ Len(scan) = Len(b) + 1 /\ scan[Len(b) + 1] = 0
      /\ DOMAIN scan = 1 .. Len(scan)
  <2>1. scan \in Buffer /\ Len(scan) = Len(b) + 1 /\ scan[Len(b) + 1] = 0
    BY <1>1, Appended
  <2> HIDE DEF scan
  <2> QED
    BY <2>1, BufferFacts
<1> HIDE DEF scan
<1>4. Len(b) + 1 \in U /\ U \in SUBSET (1 .. Len(b) + 1) /\ U \in SUBSET Nat /\ U # {}
  BY <1>1, <1>2, <1>3
<1>5. n \in 1 .. Len(b) + 1
  <2> HIDE DEF U
  <2> QED
    BY <1>4, MinIn
<1>6. DecodeVlu(b) = [value |-> FromDigits[SubSeq(scan, 1, n)], rest |-> From(b, n + 1)]
  BY DEF DecodeVlu, scan
<1> HIDE DEF n, U
<1>7. m = 1 /\ m \in Nat \ {0} /\ n \in Nat /\ n <= Len(scan)
  BY <1>2, <1>3, <1>5
<1> HIDE DEF m
<1>8. SubSeq(scan, m, n) \in Buffer
  BY <1>3, <1>7, Cut
<1>9. FromDigits[SubSeq(scan, 1, n)] \in Nat
  BY <1>7, <1>8, FromDigitsNat
<1>10. n + 1 \in Nat \ {0}
  BY <1>7
<1>11. From(b, n + 1) \in Buffer /\ Len(From(b, n + 1)) = IF n + 1 <= Len(b) THEN Len(b) - (n + 1) + 1 ELSE 0
  BY <1>10, FromFacts
<1>12. Len(From(b, n + 1)) <= Len(b) /\ (Len(b) # 0 => Len(From(b, n + 1)) < Len(b))
  BY <1>2, <1>5, <1>11
<1>13. b # <<>> => Len(b) # 0
  BY BufferFacts
<1>14. ASSUME b = <<>> PROVE FromDigits[SubSeq(scan, 1, n)] = 0
  <2>1. Len(b) = 0
    BY <1>14, CatEmpty
  <2>2. n = 1 /\ Len(scan) = 1
    BY <1>3, <1>5, <2>1
  <2>3. SubSeq(scan, 1, n) = scan
    BY <1>3, <2>2, SubSeqFull DEF Buffer
  <2>4. FromDigits[scan] = FromDigits[<<>>] * 128 + (0 % 128)
    <3>1. b \in Buffer /\ FromDigits[Append(b, 0)] = FromDigits[b] * 128 + (0 % 128)
      BY <1>1, FromDigitsAppend
    <3> QED
      BY <1>14, <3>1 DEF scan
  <2>5. 0 * 128 + (0 % 128) = 0
    OBVIOUS
  <2> QED
    BY <2>3, <2>4, <2>5, FromDigitsEmpty, Zenon
<1> QED
  BY <1>6, <1>9, <1>11, <1>12, <1>13, <1>14

-----------------------------------------------------------------------------
(***************************************************************************)
(* Buffers one after the other.                                            *)
(***************************************************************************)
Buffers == Seq(Buffer)

LEMMA FlatEmpty == FlattenSeq(<<>>) = <<>>
BY EmptySeq DEF FlattenSeq

LEMMA FlatOfEmpty ==
  ASSUME NEW s, Len(s) = 0, s \in Buffers
  PROVE  FlattenSeq(s) = <<>>
<1>1. s = <<>>
  BY EmptySeq DEF Buffers
<1> QED
  BY <1>1, FlatEmpty

LEMMA FlatFunction ==
  ASSUME NEW s \in Buffers, Len(s) # 0
  PROVE  \E f \in [1 .. Len(s) -> Buffer] :
           /\ f[1] = s[1] /\ \A i \in 2 .. Len(s) : f[i] = f[i - 1] \o s[i]
           /\ FlattenSeq(s) = f[Len(s)]
<1> DEFINE n == Len(s)
           D == 1 .. n
           step == [p \in [D -> Buffer] \X D |->
                      IF p[2] = 1 THEN s[1] ELSE p[1][p[2] - 1] \o s[p[2]]]
           size == [i \in D |-> i]
           G == CHOOSE g : g = [i \in 1 .. Len(s) |-> IF i = 1 THEN s[i] ELSE g[i - 1] \o s[i]]
<1>1. n \in Nat /\ n # 0 /\ \A i \in D : s[i] \in Buffer
  BY DEF Buffers
<1> HIDE DEF n
<1>2. step \in [[D -> Buffer] \X D -> Buffer]
  <2>1. ASSUME NEW f \in [D -> Buffer], NEW i \in D, i # 1 PROVE f[i - 1] \o s[i] \in Buffer
    <3>1. i - 1 \in D
      BY <1>1, <2>1
    <3> QED
      BY <1>1, <3>1, Cat
  <2>2. 1 \in D
    BY <1>1
  <2> QED
    BY <1>1, <2>1, <2>2
<1>3. ASSUME NEW f \in [D -> Buffer], NEW g \in [D -> Buffer], NEW i \in D,
             \A y \in D : size[y] < size[i] => f[y] = g[y]
      PROVE  step[<<f, i>>] = step[<<g, i>>]
  <2>1. i # 1 => i - 1 \in D /\ size[i - 1] < size[i]
    BY <1>1
  <2>2. i # 1 => f[i - 1] = g[i - 1]
    BY <1>3, <2>1
  <2> QED
    BY <2>2
<1>4. size \in [D -> Nat] /\ Buffer # {}
  BY CatEmpty, <1>1 DEF Buffer
<1>5. Descends(step, D, Buffer, size)
  <2> HIDE DEF step, size
  <2> QED
    BY <1>2, <1>3, <1>4 DEF Descends
<1>6. PICK f \in [D -> Buffer] : f = [i \in D |-> step[<<f, i>>]]
  <2> HIDE DEF step, size, D
  <2> QED
    BY <1>5, Recursion DEF Unfolds
<1>7. \A i \in D : step[<<f, i>>] = IF i = 1 THEN s[i] ELSE f[i - 1] \o s[i]
  OBVIOUS
<1> HIDE DEF step, size
<1>8. f = [i \in D |-> IF i = 1 THEN s[i] ELSE f[i - 1] \o s[i]]
  BY <1>6, <1>7
<1>9. G = [i \in D |-> IF i = 1 THEN s[i] ELSE G[i - 1] \o s[i]]
  BY <1>8 DEF n
<1>10. FlattenSeq(s) = G[n]
  BY DEF FlattenSeq, n
<1> HIDE DEF G
<1>11. ASSUME NEW i \in D PROVE G[i] = f[i]
  <2> DEFINE T == {j \in Nat : j \in D => G[j] = f[j]}
  <2>1. 0 \in T
    OBVIOUS
  <2>2. ASSUME NEW j \in T PROVE j + 1 \in T
    <3>1. j \in Nat /\ (j \in D => G[j] = f[j])
      OBVIOUS
    <3>2. CASE j + 1 \notin D
      BY <3>1, <3>2
    <3>3. CASE j + 1 \in D
      <4>1. ASSUME NEW k \in D PROVE G[k] = IF k = 1 THEN s[k] ELSE G[k - 1] \o s[k]
        BY <1>9, Zenon
      <4>2. ASSUME NEW k \in D PROVE f[k] = IF k = 1 THEN s[k] ELSE f[k - 1] \o s[k]
        BY <1>8, Zenon
      <4>3. j + 1 # 1 => j \in D /\ j + 1 - 1 = j
        BY <1>1, <3>1, <3>3
      <4>4. G[j + 1] = f[j + 1]
        <5> DEFINE k == j + 1
        <5>1. k \in D /\ (k # 1 => k - 1 = j /\ j \in D)
          BY <3>3, <4>3
        <5> HIDE DEF k
        <5>2. G[k] = IF k = 1 THEN s[k] ELSE G[k - 1] \o s[k]
          BY <4>1, <5>1
        <5>3. f[k] = IF k = 1 THEN s[k] ELSE f[k - 1] \o s[k]
          BY <4>2, <5>1
        <5>4. G[k] = f[k]
          BY <3>1, <5>1, <5>2, <5>3
        <5> QED
          BY <5>4 DEF k
      <4> QED
        BY <3>1, <4>4
    <3> QED
      BY <3>2, <3>3
  <2>3. T = Nat
    <3> HIDE DEF T
    <3> QED
      BY <2>1, <2>2, SetInduction DEF T
  <2>4. i \in Nat
    BY <1>1
  <2> QED
    BY <2>3, <2>4
<1>12. f[1] = s[1] /\ \A i \in 2 .. n : f[i] = f[i - 1] \o s[i]
  <2>1. 1 \in D /\ \A i \in 2 .. n : i \in D /\ i # 1
    BY <1>1
  <2> QED
    BY <1>8, <2>1
<1>13. n \in D
  BY <1>1
<1>14. FlattenSeq(s) = f[n]
  BY <1>10, <1>11, <1>13
<1> QED
  BY <1>12, <1>14 DEF n

LEMMA FlatHead ==
  ASSUME NEW s \in Buffers, Len(s) # 0
  PROVE  FlattenSeq(s) = s[1] \o FlattenSeq(Tail(s)) /\ FlattenSeq(s) \in Buffer
<1> DEFINE n == Len(s)
           t == Tail(s)
<1>1. n \in Nat /\ n # 0 /\ (\A i \in 1 .. n : s[i] \in Buffer) /\ 1 \in 1 .. n /\ n \in 1 .. n
  BY DEF Buffers
<1>2. t \in Buffers /\ Len(t) = n - 1 /\ \A i \in 1 .. n - 1 : t[i] = s[i + 1]
  <2>1. s # <<>>
    BY EmptySeq DEF Buffers
  <2>2. t \in Buffers /\ Len(t) = n - 1 /\ \A i \in 1 .. n - 1 : t[i] = s[i + 1]
    BY <2>1, HeadTailProperties DEF Buffers
  <2> QED
    BY <2>2
<1> HIDE DEF t, n
<1>3. PICK f \in [1 .. n -> Buffer] :
           /\ f[1] = s[1] /\ \A i \in 2 .. n : f[i] = f[i - 1] \o s[i]
           /\ FlattenSeq(s) = f[n]
  BY FlatFunction, <1>1 DEF n
<1>4. FlattenSeq(s) \in Buffer
  BY <1>1, <1>3
<1>5. CASE n = 1
  <2>1. FlattenSeq(t) = <<>>
    BY <1>2, <1>5, FlatOfEmpty
  <2>2. s[1] \o <<>> = s[1]
    BY <1>1, CatEmpty
  <2> QED
    BY <1>3, <1>4, <1>5, <2>1, <2>2 DEF t
<1>6. CASE n # 1
  <2> DEFINE k == n - 1
  <2>1. k \in Nat /\ k # 0 /\ Len(t) = k /\ n = k + 1 /\ k \in 1 .. k /\ 1 \in 1 .. k
    BY <1>1, <1>2, <1>6
  <2>1a. \A i \in 1 .. k : t[i] = s[i + 1] /\ t[i] \in Buffer
    BY <1>1, <1>2
  <2> HIDE DEF k
  <2>2. PICK g \in [1 .. k -> Buffer] :
           /\ g[1] = t[1] /\ \A i \in 2 .. k : g[i] = g[i - 1] \o t[i]
           /\ FlattenSeq(t) = g[k]
    BY FlatFunction, <1>2, <2>1
  <2> DEFINE T == {j \in Nat : j \in 1 .. k => f[j + 1] = s[1] \o g[j]}
  <2>3. 0 \in T
    OBVIOUS
  <2>4. ASSUME NEW j \in T PROVE j + 1 \in T
    <3>0. j \in Nat /\ (j \in 1 .. k => f[j + 1] = s[1] \o g[j])
      BY Zenon
    <3>1. j \in Nat /\ j + 1 \in Nat /\ (j \in 1 .. k => f[j + 1] = s[1] \o g[j])
      <4> HIDE DEF T
      <4>1. j \in Nat => j + 1 \in Nat
        OBVIOUS
      <4> QED
        BY <3>0, <4>1, Zenon
    <3> HIDE DEF T
    <3>2. ASSUME j + 1 \in 1 .. k, j = 0 PROVE f[j + 1 + 1] = s[1] \o g[j + 1]
      <4>1. j + 1 = 1 /\ j + 1 + 1 = 2 /\ 2 \in 2 .. n /\ 2 - 1 = 1
        BY <2>1, <3>2
      <4>2. f[2] = f[1] \o s[2] /\ t[1] = s[2]
        <5>1. f[2] = f[2 - 1] \o s[2]
          BY <1>3, <4>1
        <5>2. t[1] = s[1 + 1] /\ 1 + 1 = 2
          BY <2>1, <2>1a
        <5> QED
          BY <4>1, <5>1, <5>2
      <4> QED
        BY <1>3, <2>2, <4>1, <4>2
    <3>3. ASSUME j + 1 \in 1 .. k, j # 0 PROVE f[j + 1 + 1] = s[1] \o g[j + 1]
      <4> DEFINE i == j + 1
      <4>1. j \in 1 .. k /\ i \in 1 .. k /\ i \in 2 .. k /\ i + 1 \in 2 .. n /\ i - 1 = j /\ i + 1 - 1 = i
        BY <2>1, <3>1, <3>3
      <4> HIDE DEF i
      <4>2. f[i + 1] = f[i] \o s[i + 1]
        <5> DEFINE m == i + 1
        <5>1. m \in 2 .. n /\ m - 1 = i /\ m = i + 1
          BY <2>1, <4>1
        <5> HIDE DEF m
        <5>2. f[m] = f[m - 1] \o s[m]
          BY <1>3, <5>1
        <5> QED
          BY <5>1, <5>2
      <4>3. g[i] = g[i - 1] \o t[i]
        BY <2>2, <4>1
      <4>4. t[i] = s[i + 1] /\ t[i] \in Buffer
        BY <2>1a, <4>1
      <4>5. f[i] = s[1] \o g[j]
        BY <3>1, <4>1 DEF i
      <4>6. (s[1] \o g[j]) \o t[i] = s[1] \o (g[j] \o t[i])
        <5>1. s[1] \in Buffer /\ g[j] \in Buffer
          BY <1>1, <2>2, <4>1
        <5> QED
          BY <4>4, <5>1, CatAssoc
      <4>7. f[i + 1] = s[1] \o g[i]
        BY <4>1, <4>2, <4>3, <4>4, <4>5, <4>6
      <4> QED
        BY <4>7 DEF i
    <3> QED
      BY <3>1, <3>2, <3>3 DEF T
  <2>5. T = Nat
    <3> HIDE DEF T
    <3> QED
      BY <2>3, <2>4, SetInduction DEF T
  <2>6. f[k + 1] = s[1] \o g[k]
    BY <2>1, <2>5
  <2> QED
    BY <1>3, <1>4, <2>1, <2>2, <2>6 DEF t
<1> QED
  BY <1>5, <1>6

(***************************************************************************)
(* Concatenation and length, as operators for the provers to match.        *)
(***************************************************************************)
Join(a, b) == a \o b
Size(b) == Len(b)
One(x) == <<x>>
Nil == <<>>
Upto(b, n) == SubSeq(b, 1, n)
First(b) == Head(b)
Rest(b) == Tail(b)

LEMMA JoinIn ==
  \A a, b : (a \in Buffer /\ b \in Buffer) => Join(a, b) \in Buffer
BY Cat DEF Join

LEMMA JoinSize ==
  \A a, b : (a \in Buffer /\ b \in Buffer) => Size(Join(a, b)) = Size(a) + Size(b)
BY Cat DEF Join, Size

LEMMA SizeNat ==
  \A a : a \in Buffer => Size(a) \in Nat
BY LenNat DEF Size

LEMMA JoinAssoc ==
  \A a, b, c : (a \in Buffer /\ b \in Buffer /\ c \in Buffer) =>
    Join(Join(a, b), c) = Join(a, Join(b, c))
BY CatAssoc DEF Join

LEMMA NilFacts == Nil \in Buffer /\ Size(Nil) = 0
BY CatEmpty DEF Nil, Size, Buffer

LEMMA JoinNil ==
  \A a : a \in Buffer => Join(a, Nil) = a /\ Join(Nil, a) = a
BY CatEmpty DEF Nil, Join

LEMMA NilSize ==
  \A a : a \in Buffer => (a = Nil <=> Size(a) = 0)
BY BufferFacts DEF Nil, Size

LEMMA OneIn ==
  \A x : x \in Byte => One(x) \in Buffer /\ Size(One(x)) = 1
BY Bytes1 DEF One, Size

LEMMA FromJoin ==
  \A a, b, n : (a \in Buffer /\ b \in Buffer /\ n = Size(a) + 1) => From(Join(a, b), n) = b
BY CatFrom DEF Join, Size

LEMMA UptoJoin ==
  \A a, b, n : (a \in Buffer /\ b \in Buffer /\ n = Size(a)) => Upto(Join(a, b), n) = a
BY CatUpto DEF Join, Upto, Size

LEMMA FromIn ==
  \A a, n : (a \in Buffer /\ n \in Nat \ {0}) => From(a, n) \in Buffer /\ Size(From(a, n)) <= Size(a)
                /\ (n > 1 /\ Size(a) # 0 => Size(From(a, n)) < Size(a))
<1> SUFFICES ASSUME NEW a, NEW n, a \in Buffer, n \in Nat \ {0}
             PROVE  /\ From(a, n) \in Buffer /\ Size(From(a, n)) <= Size(a)
                    /\ (n > 1 /\ Size(a) # 0 => Size(From(a, n)) < Size(a))
  OBVIOUS
<1>1. From(a, n) \in Buffer /\ Size(From(a, n)) = IF n <= Size(a) THEN Size(a) - n + 1 ELSE 0
  BY FromFacts DEF Size
<1>2. Size(a) \in Nat
  BY SizeNat
<1> QED
  BY <1>1, <1>2

LEMMA OneFirst ==
  \A x, b : (x \in Byte /\ b \in Buffer) =>
     First(Join(One(x), b)) = x /\ Rest(Join(One(x), b)) = b /\ From(Join(One(x), b), 2) = b
BY HeadOf DEF First, Rest, Join, One

LEMMA OneAt ==
  \A x, b : (x \in Byte /\ b \in Buffer) => Join(One(x), b)[1] = x
BY HeadOf DEF Join, One

Short == {n \in Nat : n < 65536}

LEMMA ByteIs ==
  \A x : x \in Byte <=> (x \in Nat /\ x < 256)
BY DEF Byte

LEMMA Tuple2 ==
  \A x, y : (x \in Byte /\ y \in Byte) => <<x, y>> = Join(One(x), One(y))
<1>1. ASSUME NEW x \in Byte, NEW y \in Byte PROVE <<x, y>> = <<x>> \o <<y>>
  <2>1. /\ <<x>> \in Buffer /\ Len(<<x>>) = 1 /\ <<x>>[1] = x
        /\ <<y>> \in Buffer /\ Len(<<y>>) = 1 /\ <<y>>[1] = y
    BY <1>1, Bytes1
  <2>2. <<x, y>> \in Buffer /\ Len(<<x, y>>) = 2 /\ <<x, y>>[1] = x /\ <<x, y>>[2] = y
    BY <1>1, Bytes2
  <2> DEFINE a == <<x>>
             b == <<y>>
             c == <<x, y>>
  <2>3. a \in Buffer /\ b \in Buffer /\ c \in Buffer
    BY <2>1, <2>2
  <2>4. Len(a) = 1 /\ Len(b) = 1 /\ Len(c) = 2 /\ a[1] = x /\ b[1] = y /\ c[1] = x /\ c[2] = y
    BY <2>1, <2>2
  <2> HIDE DEF a, b, c
  <2>5. /\ a \o b \in Buffer /\ Len(a \o b) = Len(a) + Len(b)
        /\ \A i \in 1 .. Len(a) : (a \o b)[i] = a[i]
        /\ \A i \in 1 .. Len(b) : (a \o b)[Len(a) + i] = b[i]
    BY <2>3, Cat
  <2> DEFINE d == a \o b
  <2>6. d \in Buffer /\ Len(d) = 2 /\ d[1] = x /\ d[2] = y
    <3>1. 1 \in 1 .. 1 /\ 1 + 1 = 2
      OBVIOUS
    <3> QED
      BY <2>4, <2>5, <3>1
  <2> HIDE DEF d
  <2>7. \A i \in 1 .. 2 : i = 1 \/ i = 2
    OBVIOUS
  <2>8. \A i \in 1 .. Len(c) : c[i] = d[i]
    BY <2>4, <2>6, <2>7
  <2>9. c = d
    BY <2>3, <2>4, <2>6, <2>8, SameBuffer
  <2> QED
    BY <2>9 DEF a, b, c, d
<1> QED
  BY <1>1, Zenon DEF Join, One

LEMMA WordBytes ==
  ASSUME NEW n \in Short
  PROVE  /\ Word(n) = Join(One(n \div 256), One(n % 256))
         /\ n \div 256 \in Byte /\ n % 256 \in Byte /\ (n \div 256) * 256 + (n % 256) = n
<1> DEFINE x == n \div 256
           y == n % 256
<1>0. n \in Nat /\ n < 65536
  BY DEF Short
<1>1. x \in Nat /\ y \in 0 .. 255 /\ n = x * 256 + y
  BY <1>0, By256
<1> HIDE DEF x, y
<1>2. x \in Byte /\ y \in Byte
  <2>1. y \in Nat /\ y < 256
    BY <1>1
  <2>2. x < 256
    BY <1>0, <1>1, <2>1
  <2> QED
    BY <1>1, <2>1, <2>2, ByteIs
<1>3. <<x, y>> = Join(One(x), One(y))
  BY <1>2, Tuple2
<1>4. Word(n) = <<x, y>>
  BY DEF Word, x, y
<1>6. Word(n) = Join(One(x), One(y))
  BY <1>3, <1>4, Zenon
<1> QED
  BY <1>1, <1>2, <1>6 DEF x, y

LEMMA WordFacts ==
  \A n : n \in Short => Word(n) \in Buffer /\ Size(Word(n)) = 2
<1>1. ASSUME NEW n \in Short PROVE Word(n) \in Buffer /\ Size(Word(n)) = 2
  <2>1. Word(n) = Join(One(n \div 256), One(n % 256)) /\ n \div 256 \in Byte /\ n % 256 \in Byte
    BY WordBytes
  <2> DEFINE x == n \div 256
             y == n % 256
  <2> HIDE DEF x, y
  <2>2. Word(n) = Join(One(x), One(y)) /\ x \in Byte /\ y \in Byte
    BY <2>1 DEF x, y
  <2> QED
    BY <2>2, JoinIn, JoinSize, OneIn
<1> QED
  BY <1>1, Zenon

LEMMA FromWordJoin ==
  \A n, b : (n \in Short /\ b \in Buffer) => FromWord(Join(Word(n), b)) = n
<1>1. ASSUME NEW n \in Short, NEW b \in Buffer PROVE FromWord(Join(Word(n), b)) = n
  <2> DEFINE x == n \div 256
             y == n % 256
             c == Join(Word(n), b)
  <2>1. Word(n) = Join(One(x), One(y)) /\ x \in Byte /\ y \in Byte /\ x * 256 + y = n
    BY WordBytes
  <2> HIDE DEF x, y
  <2>2. c = Join(One(x), Join(One(y), b)) /\ Join(One(y), b) \in Buffer
    BY <2>1, OneIn, JoinIn, JoinAssoc
  <2>3. c \in Buffer /\ Size(c) = 2 + Size(b) /\ Size(b) \in Nat
    BY <2>1, <2>2, OneIn, JoinIn, JoinSize, SizeNat
  <2> HIDE DEF c
  <2>4. c[1] = x
    BY <2>1, <2>2, OneAt
  <2>5. c[2] = y
    <3> DEFINE d == Join(One(y), b)
    <3>1. d \in Buffer /\ d[1] = y /\ Size(d) = 1 + Size(b) /\ c = One(x) \o d
      <4>1. d \in Buffer /\ d[1] = y
        BY <2>1, <2>2, OneAt
      <4>2. Size(d) = 1 + Size(b)
        BY <2>1, OneIn, JoinSize
      <4>3. c = One(x) \o d
        BY <2>2, Zenon DEF Join
      <4> HIDE DEF d
      <4> QED
        BY <4>1, <4>2, <4>3, Zenon
    <3> HIDE DEF d
    <3>2. Len(One(x)) = 1 /\ One(x) \in Buffer /\ 1 \in 1 .. Len(d)
      BY <2>1, <2>3, <3>1, OneIn DEF Size
    <3>3. (One(x) \o d)[Len(One(x)) + 1] = d[1]
      BY <3>1, <3>2, Cat
    <3>4. 1 + 1 = 2
      OBVIOUS
    <3> QED
      BY <3>1, <3>2, <3>3, <3>4
  <2>6. ~ (Len(c) < 2)
    BY <2>3 DEF Size
  <2> QED
    BY <2>1, <2>4, <2>5, <2>6 DEF FromWord, c
<1> QED
  BY <1>1, Zenon

LEMMA GotFields ==
  \A v, s : Got(v, s).value = v /\ Got(v, s).rest = s
BY DEF Got

LEMMA SmallNumber ==
  \A n : n \in Short => n \in Number /\ n \in Nat
<1>1. FourDigits > 65536
  <2>1. ThreeDigits > 65536
    BY DigitsNat
  <2> QED
    BY <2>1, DigitsNat
<1>2. ASSUME NEW n \in Short PROVE n \in Number /\ n \in Nat
  <2>0. n \in Nat /\ n < 65536
    BY DEF Short
  <2>1. n \in Nat /\ n \div 8 < FourDigits
    <3> DEFINE k == n \div 8
    <3>1. k \in Nat /\ k < 65536
      BY <2>0
    <3> HIDE DEF k
    <3>2. k < FourDigits
      BY <1>1, <3>1, DigitsNat
    <3> QED
      BY <2>0, <3>2 DEF k
  <2> QED
    BY <2>1 DEF Number
<1> QED
  BY <1>2, Zenon

LEMMA FewShort ==
  \A n, m : (n \in Nat /\ m \in Short /\ n <= m) => n \in Short
BY DEF Short

LEMMA NumberNat ==
  \A n : n \in Number => n \in Nat
BY DEF Number

LEMMA VluIn ==
  \A v : v \in Number => EncodeVlu(v) \in Buffer /\ Size(EncodeVlu(v)) \in 1 .. 5
BY VluSize DEF Size

LEMMA VluBack ==
  \A v, s : (v \in Number /\ s \in Buffer) => DecodeVlu(Join(EncodeVlu(v), s)) = Got(v, s)
BY VluReadsBack, NumberNat DEF Join

LEMMA PrefixedIn ==
  \A b : (b \in Buffer /\ Size(b) \in Number) =>
    EncodePrefixed(b) \in Buffer /\ Size(EncodePrefixed(b)) \in Size(b) + 1 .. Size(b) + 5
BY PrefixedReadsBack, CatEmpty DEF Size

LEMMA PrefixedBack ==
  \A b, s : (b \in Buffer /\ Size(b) \in Number /\ s \in Buffer) =>
    DecodePrefixed(Join(EncodePrefixed(b), s)) = Got(b, s)
BY PrefixedReadsBack DEF Size, Join

LEMMA PrefixedIs ==
  \A b : EncodePrefixed(b) = Join(EncodeVlu(Size(b)), b)
BY DEF EncodePrefixed, Join, Size

\* A number of one digit is its byte.
LEMMA VluOne ==
  \A n : n \in 0 .. 127 => EncodeVlu(n) = One(n) /\ n \in Byte
<1>1. ASSUME NEW n \in 0 .. 127 PROVE EncodeVlu(n) = One(n) /\ n \in Byte
  <2>1. n \in Nat /\ n % 128 = n /\ n < 128 /\ n \in Byte
    BY DEF Byte
  <2>2. Leading[n] = <<>>
    BY <2>1, LeadingAt
  <2>3. EncodeVlu(n) = Append(Leading[n], n % 128)
    BY <2>1, VluDigits
  <2>4. EncodeVlu(n) = Append(<<>>, n)
    BY <2>1, <2>2, <2>3
  <2>5. Append(<<>>, n) = <<n>>
    OBVIOUS
  <2> QED
    BY <2>1, <2>4, <2>5, Zenon DEF One
<1> QED
  BY <1>1, Zenon

LEMMA VluOneBack ==
  \A n, s : (n \in 0 .. 127 /\ s \in Buffer) => DecodeVlu(Join(One(n), s)) = Got(n, s)
<1>1. ASSUME NEW n \in 0 .. 127, NEW s \in Buffer PROVE DecodeVlu(Join(One(n), s)) = Got(n, s)
  <2>1. n \in Short
    BY DEF Short
  <2>2. n \in Number /\ EncodeVlu(n) = One(n)
    <3>1. n \in Number
      BY <2>1, SmallNumber
    <3>2. EncodeVlu(n) = One(n)
      BY VluOne
    <3> QED
      BY <3>1, <3>2
  <2>3. DecodeVlu(Join(EncodeVlu(n), s)) = Got(n, s)
    BY <2>2, VluBack
  <2> QED
    BY <2>2, <2>3
<1> QED
  BY <1>1, Zenon

-----------------------------------------------------------------------------
(***************************************************************************)
(* Options.                                                                *)
(***************************************************************************)
\* What is behind the next option is shorter.
LEMMA NextOption ==
  ASSUME NEW b \in Buffer
  PROVE  LET size == DecodeVlu(b)
         IN  /\ size.value \in Nat /\ size.rest \in Buffer
             /\ From(size.rest, size.value + 1) \in Buffer
             /\ (b # <<>> => Len(From(size.rest, size.value + 1)) < Len(b))
             /\ (b = <<>> => size.value = 0)
<1> DEFINE r == DecodeVlu(b).rest
           v == DecodeVlu(b).value
<1>1. /\ v \in Nat /\ r \in Buffer /\ Len(r) <= Len(b) /\ (b # <<>> => Len(r) < Len(b))
      /\ (b = <<>> => v = 0)
  BY VluTakes
<1> HIDE DEF r, v
<1>2. v + 1 \in Nat \ {0}
  BY <1>1
<1>3. From(r, v + 1) \in Buffer /\ Len(From(r, v + 1)) <= Len(r)
  BY <1>1, <1>2, FromIn DEF Size
<1>4. Len(r) \in Nat /\ Len(b) \in Nat /\ Len(From(r, v + 1)) \in Nat
  BY <1>1, <1>3, LenNat
<1>5. b # <<>> => Len(From(r, v + 1)) < Len(b)
  BY <1>1, <1>3, <1>4
<1> QED
  BY <1>1, <1>3, <1>5 DEF r, v

LEMMA AfterOptionsIs ==
  ASSUME NEW b \in Buffer
  PROVE  AfterOptions[b] = LET size == DecodeVlu(b)
                           IN  IF size.value = 0 THEN size.rest
                               ELSE AfterOptions[From(size.rest, size.value + 1)]
<1> DEFINE next(c) == From(DecodeVlu(c).rest, DecodeVlu(c).value + 1)
           stop(c) == DecodeVlu(c).value = 0
           last(c) == DecodeVlu(c).rest
           step == [p \in [Buffer -> Buffer] \X Buffer |->
                      IF stop(p[2]) THEN last(p[2]) ELSE p[1][next(p[2])]]
           size == [c \in Buffer |-> Len(c)]
<1>1. ASSUME NEW c \in Buffer
      PROVE  /\ last(c) \in Buffer /\ next(c) \in Buffer
             /\ ~ stop(c) => Len(next(c)) < Len(c)
  BY NextOption
<1>2. AfterOptions = CHOOSE f : f = [c \in Buffer |-> IF stop(c) THEN last(c) ELSE f[next(c)]]
  BY DEF AfterOptions
<1> HIDE DEF next, stop, last
<1>3. step \in [[Buffer -> Buffer] \X Buffer -> Buffer]
  BY <1>1
<1>4. ASSUME NEW f \in [Buffer -> Buffer], NEW g \in [Buffer -> Buffer], NEW c \in Buffer,
             \A y \in Buffer : size[y] < size[c] => f[y] = g[y]
      PROVE  step[<<f, c>>] = step[<<g, c>>]
  <2>1. ~ stop(c) => next(c) \in Buffer /\ size[next(c)] < size[c]
    BY <1>1
  <2>2. ~ stop(c) => f[next(c)] = g[next(c)]
    BY <1>4, <2>1
  <2> QED
    BY <2>2
<1>5. size \in [Buffer -> Nat] /\ Buffer # {}
  BY LenNat
<1>6. Descends(step, Buffer, Buffer, size)
  <2> HIDE DEF step, size
  <2> QED
    BY <1>3, <1>4, <1>5 DEF Descends
<1>7. PICK f \in [Buffer -> Buffer] : f = [c \in Buffer |-> step[<<f, c>>]]
  <2> HIDE DEF step, size
  <2> QED
    BY <1>6, Recursion DEF Unfolds
<1>8. \A c \in Buffer : step[<<f, c>>] = IF stop(c) THEN last(c) ELSE f[next(c)]
  OBVIOUS
<1> HIDE DEF step
<1>9. f = [c \in Buffer |-> IF stop(c) THEN last(c) ELSE f[next(c)]]
  BY <1>7, <1>8
<1>10. AfterOptions = [c \in Buffer |-> IF stop(c) THEN last(c) ELSE AfterOptions[next(c)]]
  BY <1>2, <1>9
<1>11. AfterOptions[b] = IF stop(b) THEN last(b) ELSE AfterOptions[next(b)]
  BY <1>10, Zenon
<1> QED
  BY <1>11 DEF stop, last, next

LEMMA OptionsFromIs ==
  ASSUME NEW b \in Buffer, NEW type
  PROVE  OptionsFrom(b, type) = LET size == DecodeVlu(b)
                                IN  IF b = <<>> \/ (size.rest # <<>> /\ Head(size.rest) = type) THEN b
                                    ELSE OptionsFrom(From(size.rest, size.value + 1), type)
<1> DEFINE next(c) == From(DecodeVlu(c).rest, DecodeVlu(c).value + 1)
           stop(c) == c = <<>> \/ (DecodeVlu(c).rest # <<>> /\ Head(DecodeVlu(c).rest) = type)
           step == [p \in [Buffer -> Buffer] \X Buffer |->
                      IF stop(p[2]) THEN p[2] ELSE p[1][next(p[2])]]
           size == [c \in Buffer |-> Len(c)]
           F == CHOOSE f : f = [c \in Buffer |-> IF stop(c) THEN c ELSE f[next(c)]]
<1>1. ASSUME NEW c \in Buffer
      PROVE  /\ next(c) \in Buffer
             /\ ~ stop(c) => Len(next(c)) < Len(c)
  BY NextOption
<1>2. \A c : OptionsFrom(c, type) = F[c]
  BY DEF OptionsFrom
<1> HIDE DEF next, stop
<1>3. step \in [[Buffer -> Buffer] \X Buffer -> Buffer]
  BY <1>1
<1>4. ASSUME NEW f \in [Buffer -> Buffer], NEW g \in [Buffer -> Buffer], NEW c \in Buffer,
             \A y \in Buffer : size[y] < size[c] => f[y] = g[y]
      PROVE  step[<<f, c>>] = step[<<g, c>>]
  <2>1. ~ stop(c) => next(c) \in Buffer /\ size[next(c)] < size[c]
    BY <1>1
  <2>2. ~ stop(c) => f[next(c)] = g[next(c)]
    BY <1>4, <2>1
  <2> QED
    BY <2>2
<1>5. size \in [Buffer -> Nat] /\ Buffer # {}
  BY LenNat
<1>6. Descends(step, Buffer, Buffer, size)
  <2> HIDE DEF step, size
  <2> QED
    BY <1>3, <1>4, <1>5 DEF Descends
<1>7. PICK f \in [Buffer -> Buffer] : f = [c \in Buffer |-> step[<<f, c>>]]
  <2> HIDE DEF step, size
  <2> QED
    BY <1>6, Recursion DEF Unfolds
<1>8. \A c \in Buffer : step[<<f, c>>] = IF stop(c) THEN c ELSE f[next(c)]
  OBVIOUS
<1> HIDE DEF step
<1>9. f = [c \in Buffer |-> IF stop(c) THEN c ELSE f[next(c)]]
  BY <1>7, <1>8
<1>10. F = [c \in Buffer |-> IF stop(c) THEN c ELSE F[next(c)]]
  BY <1>9
<1> HIDE DEF F
<1>11. F[b] = IF stop(b) THEN b ELSE F[next(b)]
  BY <1>10, Zenon
<1>12. OptionsFrom(b, type) = IF stop(b) THEN b ELSE OptionsFrom(next(b), type)
  BY <1>2, <1>11, Zenon
<1> QED
  BY <1>12 DEF stop, next

(***************************************************************************)
(* Lists that are taken from data, an element at a time.                   *)
(***************************************************************************)
\* How: where it stops, the element and what is left, which is smaller.
Shrinks(S, how) ==
  /\ how.next \in [S -> S] /\ how.size \in [S -> Nat]
  /\ \A x \in S : ~ how.stop[x] => how.size[how.next[x]] < how.size[x]

Listed(f, S, how) ==
  f = [x \in S |-> IF how.stop[x] THEN <<>> ELSE <<how.head[x]>> \o f[how.next[x]]]

ListsOf(S, how) == Seq({how.head[x] : x \in S})

LEMMA TakenLists ==
  ASSUME NEW S, NEW how, Shrinks(S, how)
  PROVE  \E f \in [S -> ListsOf(S, how)] : Listed(f, S, how)
<1> DEFINE stop == how.stop
           head == how.head
           next == how.next
           size == how.size
           H == {head[x] : x \in S}
           V == Seq(H)
           step == [p \in [S -> V] \X S |->
                      IF stop[p[2]] THEN <<>> ELSE <<head[p[2]]>> \o p[1][next[p[2]]]]
<1>0. /\ next \in [S -> S] /\ size \in [S -> Nat]
      /\ \A x \in S : ~ stop[x] => size[next[x]] < size[x]
  BY DEF Shrinks
<1> HIDE DEF stop, head, next, size
<1>1. ASSUME NEW f \in [S -> V], NEW x \in S PROVE <<head[x]>> \o f[next[x]] \in V
  <2>1. f[next[x]] \in V /\ head[x] \in H
    BY <1>0
  <2>2. <<head[x]>> \in Seq(H)
    BY <2>1
  <2> HIDE DEF H
  <2> QED
    BY <2>1, <2>2, ConcatProperties
<1>2. <<>> \in V /\ V # {}
  BY EmptySeq
<1> HIDE DEF V
<1>3. step \in [[S -> V] \X S -> V]
  BY <1>1, <1>2
<1>4. ASSUME NEW f \in [S -> V], NEW g \in [S -> V], NEW x \in S,
             \A y \in S : size[y] < size[x] => f[y] = g[y]
      PROVE  step[<<f, x>>] = step[<<g, x>>]
  <2>1. ~ stop[x] => f[next[x]] = g[next[x]]
    <3>1. next[x] \in S
      BY <1>0
    <3> QED
      BY <1>0, <1>4, <3>1
  <2> QED
    BY <2>1
<1>5. Descends(step, S, V, size)
  <2> HIDE DEF step
  <2> QED
    BY <1>0, <1>2, <1>3, <1>4 DEF Descends
<1>6. PICK f \in [S -> V] : f = [x \in S |-> step[<<f, x>>]]
  <2> HIDE DEF step
  <2> QED
    BY <1>5, Recursion DEF Unfolds
<1>7. \A x \in S : step[<<f, x>>] = IF stop[x] THEN <<>> ELSE <<head[x]>> \o f[next[x]]
  OBVIOUS
<1> HIDE DEF step
<1>8. f = [x \in S |-> IF stop[x] THEN <<>> ELSE <<head[x]>> \o f[next[x]]]
  BY <1>6, <1>7
<1>9. Listed(f, S, how)
  BY <1>8, Zenon DEF Listed, stop, head, next
<1>10. V = ListsOf(S, how)
  BY DEF V, H, head, ListsOf
<1>11. f \in [S -> ListsOf(S, how)]
  BY <1>6, <1>10
<1> QED
  BY <1>9, <1>11, Zenon

LEMMA FromWordNat ==
  \A b : b \in Buffer => FromWord(b) \in Nat
<1>1. ASSUME NEW b \in Buffer PROVE FromWord(b) \in Nat
  <2>1. CASE Len(b) < 2
    BY <2>1 DEF FromWord
  <2>2. CASE ~ (Len(b) < 2)
    <3>1. 1 \in 1 .. Len(b) /\ 2 \in 1 .. Len(b)
      BY <2>2, LenNat
    <3>2. b[1] \in Byte /\ b[2] \in Byte
      BY <3>1, BufferFacts
    <3>3. b[1] \in Nat /\ b[2] \in Nat
      BY <3>2, ByteIs
    <3> QED
      BY <2>2, <3>3 DEF FromWord
  <2> QED
    BY <2>1, <2>2
<1> QED
  BY <1>1, Zenon

LEMMA TailIn ==
  ASSUME NEW b \in Buffer, b # <<>>
  PROVE  Tail(b) \in Buffer /\ Len(Tail(b)) = Len(b) - 1
BY HeadTailProperties DEF Buffer

LEMMA FramesIs ==
  ASSUME NEW b \in Buffer
  PROVE  Frames[b] = IF Len(b) <= 2 \/ ~ Fits(b) THEN <<>>
                     ELSE LET len == FromWord(Tail(b))
                          IN  <<[type |-> b[1], data |-> SubSeq(b, 4, 3 + len)]>>
                                \o Frames[From(b, 4 + len)]
<1> DEFINE Stop(c) == Len(c) <= 2 \/ ~ Fits(c)
           Head1(c) == [type |-> c[1], data |-> SubSeq(c, 4, 3 + FromWord(Tail(c)))]
           Next1(c) == From(c, 4 + FromWord(Tail(c)))
           how == [stop |-> [c \in Buffer |-> Stop(c)], head |-> [c \in Buffer |-> Head1(c)],
                   next |-> [c \in Buffer |-> IF Stop(c) THEN c ELSE Next1(c)],
                   size |-> [c \in Buffer |-> Size(c)]]
<1>1. ASSUME NEW c \in Buffer, ~ Stop(c) PROVE Next1(c) \in Buffer /\ Size(Next1(c)) < Size(c)
  <2>1. Len(c) \in Nat /\ ~ (Len(c) <= 2)
    BY <1>1, LenNat
  <2>2. c # <<>>
    BY <2>1, BufferFacts
  <2>3. FromWord(Tail(c)) \in Nat
    BY <2>2, TailIn, FromWordNat
  <2> DEFINE n == 4 + FromWord(Tail(c))
  <2>4. n \in Nat \ {0} /\ n > 1 /\ Size(c) # 0
    BY <2>1, <2>3 DEF Size
  <2> HIDE DEF n
  <2>5. From(c, n) \in Buffer /\ Size(From(c, n)) < Size(c)
    BY <2>4, FromIn
  <2> QED
    BY <2>5 DEF n
<1>2. Frames = CHOOSE f : f = [c \in Buffer |-> IF Stop(c) THEN <<>> ELSE <<Head1(c)>> \o f[Next1(c)]]
  BY DEF Frames
<1> HIDE DEF Stop, Head1, Next1
<1>3. Shrinks(Buffer, how)
  <2>1. how.next \in [Buffer -> Buffer] /\ how.size \in [Buffer -> Nat]
    BY <1>1, SizeNat
  <2>2. \A c \in Buffer : ~ how.stop[c] => how.size[how.next[c]] < how.size[c]
    BY <1>1
  <2> HIDE DEF how
  <2> QED
    BY <2>1, <2>2 DEF Shrinks
<1>4. PICK f \in [Buffer -> ListsOf(Buffer, how)] : Listed(f, Buffer, how)
  <2> HIDE DEF how
  <2> QED
    BY <1>3, TakenLists
<1>5. f = [c \in Buffer |-> IF how.stop[c] THEN <<>> ELSE <<how.head[c]>> \o f[how.next[c]]]
  BY <1>4, Zenon DEF Listed
<1>6. ASSUME NEW c \in Buffer
      PROVE  (IF how.stop[c] THEN <<>> ELSE <<how.head[c]>> \o f[how.next[c]])
               = (IF Stop(c) THEN <<>> ELSE <<Head1(c)>> \o f[Next1(c)])
  <2>1. /\ how.stop[c] = Stop(c) /\ how.head[c] = Head1(c)
        /\ ~ Stop(c) => how.next[c] = Next1(c)
    OBVIOUS
  <2> HIDE DEF how
  <2> QED
    BY <2>1
<1> HIDE DEF how
<1>7. f = [c \in Buffer |-> IF Stop(c) THEN <<>> ELSE <<Head1(c)>> \o f[Next1(c)]]
  BY <1>5, <1>6
<1>8. Frames = [c \in Buffer |-> IF Stop(c) THEN <<>> ELSE <<Head1(c)>> \o Frames[Next1(c)]]
  BY <1>2, <1>7
<1>9. Frames[b] = IF Stop(b) THEN <<>> ELSE <<Head1(b)>> \o Frames[Next1(b)]
  BY <1>8, Zenon
<1> QED
  BY <1>9 DEF Stop, Head1, Next1

-----------------------------------------------------------------------------
(***************************************************************************)
(* Ranges and addresses, one at a time.                                    *)
(***************************************************************************)
LEMMA PairParts ==
  \A S, T, p : p \in S \X T => p[1] \in S /\ p[2] \in T
OBVIOUS

LEMMA DecodeRangesIs ==
  ASSUME NEW c \in Nat, NEW b \in Buffer
  PROVE  DecodeRanges[<<c, b>>] =
           IF b = <<>> THEN <<>>
           ELSE LET gap == DecodeVlu(b)
                    len == DecodeVlu(gap.rest)
                    r   == [pos |-> c + gap.value + 1, len |-> len.value + 1]
                IN  <<r>> \o DecodeRanges[<<r.pos + r.len, len.rest>>]
<1> DEFINE Finish == Nat \X Buffer
           Stop(x) == x[2] = <<>>
           Head1(x) == [pos |-> x[1] + DecodeVlu(x[2]).value + 1,
                        len |-> DecodeVlu(DecodeVlu(x[2]).rest).value + 1]
           Next1(x) == <<Head1(x).pos + Head1(x).len, DecodeVlu(DecodeVlu(x[2]).rest).rest>>
           how == [stop |-> [x \in Finish |-> Stop(x)], head |-> [x \in Finish |-> Head1(x)],
                   next |-> [x \in Finish |-> IF Stop(x) THEN x ELSE Next1(x)],
                   size |-> [x \in Finish |-> Size(x[2])]]
<1>1. ASSUME NEW x \in Finish, ~ Stop(x)
      PROVE  Next1(x) \in Finish /\ Next1(x)[2] \in Buffer /\ Size(Next1(x)[2]) < Size(x[2])
  <2> DEFINE g == DecodeVlu(x[2])
             l == DecodeVlu(g.rest)
  <2>1. x[1] \in Nat /\ x[2] \in Buffer /\ x[2] # <<>>
    BY <1>1, PairParts
  <2>2. g.value \in Nat /\ g.rest \in Buffer /\ Len(g.rest) < Len(x[2])
    BY <2>1, VluTakes
  <2> HIDE DEF g
  <2>3. l.value \in Nat /\ l.rest \in Buffer /\ Len(l.rest) <= Len(g.rest)
    BY <2>2, VluTakes
  <2> HIDE DEF l
  <2>4. Len(l.rest) \in Nat /\ Len(g.rest) \in Nat /\ Len(x[2]) \in Nat
    BY <2>1, <2>2, <2>3, LenNat
  <2>5. Len(l.rest) < Len(x[2])
    BY <2>2, <2>3, <2>4
  <2> DEFINE p == x[1] + g.value + 1
             q == l.value + 1
  <2>6. p + q \in Nat
    BY <2>1, <2>2, <2>3
  <2>7. Next1(x) = <<p + q, l.rest>>
    BY DEF l, g
  <2> HIDE DEF p, q, Next1
  <2> QED
    BY <2>3, <2>5, <2>6, <2>7 DEF Size
<1>2. DecodeRanges = CHOOSE f : f = [x \in Finish |-> IF Stop(x) THEN <<>>
                                                     ELSE <<Head1(x)>> \o f[Next1(x)]]
  BY DEF DecodeRanges
<1>0. \A x \in Finish : x[2] \in Buffer
  BY PairParts
<1> HIDE DEF Stop, Head1, Next1
<1>3. Shrinks(Finish, how)
  <2>1. how.next \in [Finish -> Finish] /\ how.size \in [Finish -> Nat]
    BY <1>0, <1>1, SizeNat
  <2>2. \A x \in Finish : ~ how.stop[x] => how.size[how.next[x]] < how.size[x]
    BY <1>1
  <2> HIDE DEF how
  <2> QED
    BY <2>1, <2>2 DEF Shrinks
<1>4. PICK f \in [Finish -> ListsOf(Finish, how)] : Listed(f, Finish, how)
  <2> HIDE DEF how
  <2> QED
    BY <1>3, TakenLists
<1>5. f = [x \in Finish |-> IF how.stop[x] THEN <<>> ELSE <<how.head[x]>> \o f[how.next[x]]]
  BY <1>4, Zenon DEF Listed
<1>6. ASSUME NEW x \in Finish
      PROVE  (IF how.stop[x] THEN <<>> ELSE <<how.head[x]>> \o f[how.next[x]])
               = (IF Stop(x) THEN <<>> ELSE <<Head1(x)>> \o f[Next1(x)])
  <2>1. /\ how.stop[x] = Stop(x) /\ how.head[x] = Head1(x)
        /\ ~ Stop(x) => how.next[x] = Next1(x)
    OBVIOUS
  <2> HIDE DEF how
  <2> QED
    BY <2>1
<1> HIDE DEF how
<1>7. f = [x \in Finish |-> IF Stop(x) THEN <<>> ELSE <<Head1(x)>> \o f[Next1(x)]]
  BY <1>5, <1>6
<1>8. DecodeRanges = [x \in Finish |-> IF Stop(x) THEN <<>> ELSE <<Head1(x)>> \o DecodeRanges[Next1(x)]]
  BY <1>2, <1>7
<1> DEFINE e == <<c, b>>
<1>9. e \in Finish /\ e[1] = c /\ e[2] = b
  OBVIOUS
<1> HIDE DEF e
<1>10. DecodeRanges[e] = IF Stop(e) THEN <<>> ELSE <<Head1(e)>> \o DecodeRanges[Next1(e)]
  BY <1>8, <1>9, Zenon
<1> QED
  BY <1>9, <1>10 DEF Stop, Head1, Next1, e

\* An address has at least three bytes.
LEMMA AddressRest ==
  ASSUME NEW b \in Buffer, b # <<>>
  PROVE  DecodeAddress(b).rest \in Buffer /\ Len(DecodeAddress(b).rest) < Len(b)
<1> DEFINE n == IF Head(b) < 128 THEN 4 ELSE 16
<1>1. n + 4 \in Nat \ {0} /\ n + 4 > 1
  OBVIOUS
<1>2. DecodeAddress(b).rest = From(b, n + 4)
  BY DEF DecodeAddress
<1> HIDE DEF n
<1>3. Size(b) # 0
  BY BufferFacts DEF Size
<1> DEFINE m == n + 4
<1>4. From(b, m) \in Buffer /\ Size(From(b, m)) < Size(b)
  <2> HIDE DEF m
  <2> QED
    BY <1>1, <1>3, FromIn DEF m
<1> QED
  BY <1>2, <1>4 DEF Size

LEMMA DecodeAddressesIs ==
  ASSUME NEW b \in Buffer
  PROVE  DecodeAddresses[b] =
           IF b = <<>> THEN <<>>
           ELSE <<DecodeAddress(b).value>> \o DecodeAddresses[DecodeAddress(b).rest]
<1> DEFINE Stop(x) == x = <<>>
           Head1(x) == DecodeAddress(x).value
           Next1(x) == DecodeAddress(x).rest
           how == [stop |-> [x \in Buffer |-> Stop(x)], head |-> [x \in Buffer |-> Head1(x)],
                   next |-> [x \in Buffer |-> IF Stop(x) THEN x ELSE Next1(x)],
                   size |-> [x \in Buffer |-> Size(x)]]
<1>1. ASSUME NEW x \in Buffer, ~ Stop(x) PROVE Next1(x) \in Buffer /\ Size(Next1(x)) < Size(x)
  BY <1>1, AddressRest DEF Size
<1>2. DecodeAddresses = CHOOSE f : f = [x \in Buffer |-> IF Stop(x) THEN <<>>
                                                         ELSE <<Head1(x)>> \o f[Next1(x)]]
  BY DEF DecodeAddresses
<1> HIDE DEF Stop, Head1, Next1
<1>3. Shrinks(Buffer, how)
  <2>1. how.next \in [Buffer -> Buffer] /\ how.size \in [Buffer -> Nat]
    BY <1>1, SizeNat
  <2>2. \A x \in Buffer : ~ how.stop[x] => how.size[how.next[x]] < how.size[x]
    BY <1>1
  <2> HIDE DEF how
  <2> QED
    BY <2>1, <2>2 DEF Shrinks
<1>4. PICK f \in [Buffer -> ListsOf(Buffer, how)] : Listed(f, Buffer, how)
  <2> HIDE DEF how
  <2> QED
    BY <1>3, TakenLists
<1>5. f = [x \in Buffer |-> IF how.stop[x] THEN <<>> ELSE <<how.head[x]>> \o f[how.next[x]]]
  BY <1>4, Zenon DEF Listed
<1>6. ASSUME NEW x \in Buffer
      PROVE  (IF how.stop[x] THEN <<>> ELSE <<how.head[x]>> \o f[how.next[x]])
               = (IF Stop(x) THEN <<>> ELSE <<Head1(x)>> \o f[Next1(x)])
  <2>1. /\ how.stop[x] = Stop(x) /\ how.head[x] = Head1(x)
        /\ ~ Stop(x) => how.next[x] = Next1(x)
    OBVIOUS
  <2> HIDE DEF how
  <2> QED
    BY <2>1
<1> HIDE DEF how
<1>7. f = [x \in Buffer |-> IF Stop(x) THEN <<>> ELSE <<Head1(x)>> \o f[Next1(x)]]
  BY <1>5, <1>6
<1>8. DecodeAddresses = [x \in Buffer |-> IF Stop(x) THEN <<>>
                                           ELSE <<Head1(x)>> \o DecodeAddresses[Next1(x)]]
  BY <1>2, <1>7
<1>9. DecodeAddresses[b] = IF Stop(b) THEN <<>> ELSE <<Head1(b)>> \o DecodeAddresses[Next1(b)]
  BY <1>8, Zenon
<1> QED
  BY <1>9 DEF Stop, Head1, Next1

(***************************************************************************)
(* The checksum.                                                           *)
(***************************************************************************)
LEMMA WordSumNat ==
  ASSUME NEW b \in Buffer
  PROVE  WordSum(b) \in Nat
<1> DEFINE n == Len(b) \div 2
           D == 0 .. n
           word(i) == FromWord(SubSeq(b, 2 * i - 1, 2 * i))
           step == [p \in [D -> Nat] \X D |-> IF p[2] = 0 THEN 0 ELSE p[1][p[2] - 1] + word(p[2])]
           size == [i \in D |-> i]
           sum == CHOOSE f : f = [i \in D |-> IF i = 0 THEN 0 ELSE f[i - 1] + word(i)]
<1>1. WordSum(b) = sum[n]
  BY DEF WordSum
<1>2. n \in Nat /\ 2 * n <= Len(b) /\ Len(b) \in Nat
  BY LenNat
<1> HIDE DEF n
<1>3. ASSUME NEW i \in D, i # 0 PROVE word(i) \in Nat /\ i - 1 \in D
  <2>1. i \in Nat /\ i <= n /\ 2 * i - 1 \in Nat \ {0} /\ 2 * i \in Nat /\ 2 * i <= Len(b) /\ i - 1 \in D
    BY <1>2, <1>3
  <2> DEFINE lo == 2 * i - 1
             hi == 2 * i
  <2>2. SubSeq(b, lo, hi) \in Buffer
    <3> HIDE DEF lo, hi
    <3> QED
      BY <2>1, Cut DEF lo, hi
  <2> HIDE DEF lo, hi
  <2>3. FromWord(SubSeq(b, lo, hi)) \in Nat
    BY <2>2, FromWordNat
  <2> QED
    BY <2>1, <2>3 DEF lo, hi
<1> HIDE DEF word
<1>4. step \in [[D -> Nat] \X D -> Nat]
  <2>1. ASSUME NEW f \in [D -> Nat], NEW i \in D
        PROVE  (IF i = 0 THEN 0 ELSE f[i - 1] + word(i)) \in Nat
    BY <1>3
  <2> QED
    BY <2>1
<1>5. size \in [D -> Nat] /\ n \in D /\ \A i \in D : size[i] = i
  BY <1>2
<1>6. ASSUME NEW f \in [D -> Nat], NEW g \in [D -> Nat], NEW i \in D,
             \A y \in D : size[y] < size[i] => f[y] = g[y]
      PROVE  step[<<f, i>>] = step[<<g, i>>]
  <2>1. i # 0 => i - 1 \in D /\ size[i - 1] < size[i]
    BY <1>3
  <2>2. i # 0 => f[i - 1] = g[i - 1]
    BY <1>6, <2>1
  <2> QED
    BY <2>2
<1>7. Descends(step, D, Nat, size)
  <2> HIDE DEF step, size
  <2> QED
    BY <1>4, <1>5, <1>6 DEF Descends
<1>8. PICK f \in [D -> Nat] : f = [i \in D |-> step[<<f, i>>]]
  <2> HIDE DEF step, size, D
  <2> QED
    BY <1>7, Recursion DEF Unfolds
<1>9. \A i \in D : step[<<f, i>>] = IF i = 0 THEN 0 ELSE f[i - 1] + word(i)
  OBVIOUS
<1> HIDE DEF step
<1>10. f = [i \in D |-> IF i = 0 THEN 0 ELSE f[i - 1] + word(i)]
  BY <1>8, <1>9
<1>11. sum = [i \in D |-> IF i = 0 THEN 0 ELSE sum[i - 1] + word(i)]
  BY <1>10
<1> HIDE DEF sum
<1> DEFINE T == {i \in Nat : i \in D => sum[i] \in Nat}
<1>12. 0 \in T
  BY <1>11
<1>13. ASSUME NEW i \in T PROVE i + 1 \in T
  <2>1. i \in Nat /\ i + 1 \in Nat /\ i + 1 # 0 /\ (i + 1) - 1 = i
    OBVIOUS
  <2>2. ASSUME i + 1 \in D PROVE sum[i + 1] \in Nat
    <3> DEFINE j == i + 1
    <3>1. i \in D /\ j \in D /\ j # 0 /\ j - 1 = i
      BY <2>1, <2>2, <1>2
    <3>2. sum[i] \in Nat
      BY <3>1
    <3> HIDE DEF j
    <3>3. sum[j] = sum[j - 1] + word(j)
      BY <1>11, <3>1
    <3>4. word(j) \in Nat
      BY <1>3, <3>1
    <3> QED
      BY <3>1, <3>2, <3>3, <3>4 DEF j
  <2> QED
    BY <2>1, <2>2
<1>14. T = Nat
  <2>1. T \in SUBSET Nat
    OBVIOUS
  <2> HIDE DEF T
  <2> QED
    BY <1>12, <1>13, <2>1, SetInduction
<1> QED
  BY <1>1, <1>2, <1>5, <1>14

LEMMA CheckSumShort ==
  \A b : b \in Buffer => CheckSum(b) \in Short
<1>1. ASSUME NEW b \in Buffer PROVE CheckSum(b) \in Short
  <2> DEFINE sum == WordSum(b)
             folded == (sum \div 65536) + (sum % 65536)
             last == folded + (folded \div 65536)
             k == last % 65536
  <2>1. sum \in Nat
    BY WordSumNat
  <2>2. CheckSum(b) = 65535 - k
    BY DEF CheckSum
  <2> HIDE DEF sum
  <2>3. folded \in Nat
    BY <2>1
  <2> HIDE DEF folded
  <2>4. last \in Nat
    BY <2>3
  <2> HIDE DEF last
  <2>5. k \in Nat /\ k < 65536
    BY <2>4
  <2> HIDE DEF k
  <2> QED
    BY <2>2, <2>5 DEF Short
<1> QED
  BY <1>1, Zenon

(***************************************************************************)
(* Padding.                                                                *)
(***************************************************************************)
LEMMA Bytes255 ==
  \A n : n \in Nat => SomeBytes(n) \in Buffer /\ Size(SomeBytes(n)) = n
<1>1. ASSUME NEW n \in Nat PROVE SomeBytes(n) \in Buffer /\ Size(SomeBytes(n)) = n
  <2>1. SomeBytes(n) \in [1 .. n -> Byte]
    <3>1. 255 \in Byte
      BY ByteIs
    <3> QED
      BY <3>1 DEF SomeBytes
  <2>2. SomeBytes(n) \in Seq(Byte) /\ Len(SomeBytes(n)) = n
    <3> HIDE DEF SomeBytes
    <3> DEFINE s == SomeBytes(n)
    <3> HIDE DEF s
    <3>1. s \in [1 .. n -> Byte]
      BY <2>1 DEF s
    <3>2. s \in Seq(Byte) /\ Len(s) = n
      BY <3>1
    <3> QED
      BY <3>2 DEF s
  <2> QED
    BY <2>2 DEF Buffer, Size
<1> QED
  BY <1>1, Zenon

LEMMA SomeByteAt ==
  ASSUME NEW n \in Nat, NEW i \in 1 .. n
  PROVE  SomeBytes(n)[i] = 255
BY DEF SomeBytes

\* A packet is filled to whole blocks.
LEMMA PaddingFills ==
  ASSUME NEW len \in Nat \ {0}
  PROVE  /\ Padding(len) \in Buffer /\ (len + Size(Padding(len))) % 16 = 0
         /\ \E k \in 0 .. 15 : Padding(len) = SomeBytes(k)
<1> DEFINE q == (len - 1) \div 16
           k == (q + 1) * 16 - len
<1>1. q \in Nat /\ 16 * q <= len - 1 /\ len - 1 < 16 * q + 16
  OBVIOUS
<1>2. Padding(len) = SomeBytes(k)
  BY DEF Padding
<1> HIDE DEF q
<1>3. k \in 0 .. 15 /\ len + k = 16 * (q + 1) /\ k \in Nat
  BY <1>1
<1> HIDE DEF k
<1>4. Size(Padding(len)) = k /\ Padding(len) \in Buffer
  BY <1>2, <1>3, Bytes255
<1>5. (16 * (q + 1)) % 16 = 0
  BY <1>1
<1> QED
  BY <1>2, <1>3, <1>4, <1>5

-----------------------------------------------------------------------------
(***************************************************************************)
(* The chunks of a packet, one at a time, and the padding behind them.     *)
(***************************************************************************)
\* The part b, from the byte m to n.
Part(b, m, n) == SubSeq(b, m, n)

LEMMA PartJoin ==
  \A a, b, c, m, n :
    (a \in Buffer /\ b \in Buffer /\ c \in Buffer /\ m = Size(a) + 1 /\ n = Size(a) + Size(b)) =>
      Part(Join(a, Join(b, c)), m, n) = b
<1>1. ASSUME NEW a \in Buffer, NEW b \in Buffer, NEW c \in Buffer, NEW m, NEW n,
             m = Size(a) + 1, n = Size(a) + Size(b)
      PROVE  Part(Join(a, Join(b, c)), m, n) = b
  <2> DEFINE all == Join(a, Join(b, c))
             part == SubSeq(all, m, n)
  <2>1. /\ all \in Buffer /\ Size(all) = Size(a) + Size(b) + Size(c)
        /\ Size(a) \in Nat /\ Size(b) \in Nat /\ Size(c) \in Nat
    BY JoinIn, JoinSize, SizeNat
  <2>2. From(all, m) = Join(b, c)
    BY <1>1, FromJoin, JoinIn
  <2>3. m \in Nat \ {0} /\ n \in Nat /\ n <= Len(all) /\ n - m + 1 = Len(b)
    BY <1>1, <2>1 DEF Size
  <2>4. /\ \A i \in 1 .. Len(all) - m + 1 : From(all, m)[i] = all[m + i - 1]
    BY <2>1, <2>3, FromFacts
  <2>5. \A i \in 1 .. Len(b) : Join(b, c)[i] = b[i]
    BY Cat DEF Join
  <2> HIDE DEF all
  <2>6. part \in Buffer /\ Len(part) = Len(b) /\ \A i \in 1 .. Len(b) : part[i] = all[m + i - 1]
    <3>1. /\ SubSeq(all, m, n) \in Buffer
          /\ Len(SubSeq(all, m, n)) = IF m <= n THEN n - m + 1 ELSE 0
          /\ \A i \in 1 .. n - m + 1 : SubSeq(all, m, n)[i] = all[m + i - 1]
      BY <2>1, <2>3, Cut
    <3>2. (IF m <= n THEN n - m + 1 ELSE 0) = Len(b)
      BY <2>1, <2>3 DEF Size
    <3> QED
      BY <2>3, <3>1, <3>2
  <2> HIDE DEF part
  <2>7. ASSUME NEW i \in 1 .. Len(b) PROVE part[i] = b[i]
    <3>1. i \in 1 .. Len(all) - m + 1
      BY <2>1, <2>3, <2>7 DEF Size
    <3>2. From(all, m)[i] = all[m + i - 1]
      BY <2>4, <3>1
    <3> QED
      BY <2>2, <2>5, <2>6, <2>7, <3>2
  <2>8. part = b
    BY <2>6, <2>7, SameBuffer
  <2> QED
    BY <2>8 DEF Part, part, all
<1> QED
  BY <1>1

\* A chunk in a packet: its type, its length and its data.
Framed(t, d) == Join(One(t), Join(Word(Size(d)), d))

Frame(t, d) == [type |-> t, data |-> d]

LEMMA FramedIn ==
  \A t, d : (t \in Byte /\ d \in Buffer /\ Size(d) \in Short) =>
     Framed(t, d) \in Buffer /\ Size(Framed(t, d)) = 3 + Size(d)
<1>1. ASSUME NEW t, NEW d, t \in Byte, d \in Buffer, Size(d) \in Short
      PROVE  Framed(t, d) \in Buffer /\ Size(Framed(t, d)) = 3 + Size(d)
  <2>1. /\ One(t) \in Buffer /\ Size(One(t)) = 1
        /\ Word(Size(d)) \in Buffer /\ Size(Word(Size(d))) = 2 /\ Size(d) \in Nat
    BY <1>1, OneIn, WordFacts, SizeNat
  <2>2. Join(Word(Size(d)), d) \in Buffer /\ Size(Join(Word(Size(d)), d)) = 2 + Size(d)
    BY <1>1, <2>1, JoinIn, JoinSize
  <2> QED
    BY <2>1, <2>2, JoinIn, JoinSize DEF Framed
<1> QED
  BY <1>1, Zenon

LEMMA FramesStep ==
  ASSUME NEW t \in Byte, NEW d \in Buffer, Size(d) \in Short, NEW s \in Buffer
  PROVE  Frames[Join(Framed(t, d), s)] = <<Frame(t, d)>> \o Frames[s]
<1> DEFINE n == Size(d)
           w == Word(n)
           b == Join(Framed(t, d), s)
<1>1. /\ One(t) \in Buffer /\ Size(One(t)) = 1 /\ w \in Buffer /\ Size(w) = 2
      /\ n \in Nat /\ Size(s) \in Nat /\ n \in Short
  BY OneIn, WordFacts, SizeNat
<1>2. /\ Framed(t, d) \in Buffer /\ Size(Framed(t, d)) = 3 + n
  BY FramedIn
<1>3. Framed(t, d) = Join(One(t), Join(w, d))
  BY Zenon DEF Framed
<1> HIDE DEF n, w
<1>4. b \in Buffer /\ Size(b) = 3 + n + Size(s)
  BY <1>1, <1>2, JoinIn, JoinSize
<1>5. b = Join(One(t), Join(w, Join(d, s))) /\ Join(w, Join(d, s)) \in Buffer /\ Join(d, s) \in Buffer
  BY <1>1, <1>3, JoinIn, JoinAssoc
<1>6. b = Join(Join(One(t), w), Join(d, s)) /\ Join(One(t), w) \in Buffer /\ Size(Join(One(t), w)) = 3
  BY <1>1, <1>5, JoinIn, JoinAssoc, JoinSize
<1>7. From(b, 4 + n) = s
  <2>1. 4 + n = Size(Framed(t, d)) + 1
    BY <1>1, <1>2
  <2> QED
    BY <1>2, <2>1, FromJoin
<1> HIDE DEF b
<1>8. Part(b, 4, 3 + n) = d
  <2>1. 4 = Size(Join(One(t), w)) + 1 /\ 3 + n = Size(Join(One(t), w)) + Size(d)
    BY <1>6 DEF n
  <2> QED
    BY <1>6, <2>1, PartJoin
<1>9. First(b) = t /\ Rest(b) = Join(w, Join(d, s)) /\ b[1] = t
  BY <1>5, OneFirst, OneAt
<1>10. FromWord(Tail(b)) = n
  <2>1. FromWord(Rest(b)) = n
    BY <1>1, <1>5, <1>9, FromWordJoin DEF w
  <2> QED
    BY <2>1 DEF Rest
<1>11. ~ (Len(b) <= 2 \/ ~ Fits(b))
  <2>1. Len(b) = 3 + n + Size(s)
    BY <1>4 DEF Size
  <2> QED
    BY <1>1, <1>10, <2>1 DEF Fits
<1>12. Frames[b] = <<[type |-> b[1], data |-> SubSeq(b, 4, 3 + n)]>> \o Frames[From(b, 4 + n)]
  BY <1>4, <1>10, <1>11, FramesIs
<1>13. SubSeq(b, 4, 3 + n) = d
  BY <1>8 DEF Part
<1>14. Frames[b] = <<Frame(t, d)>> \o Frames[s]
  BY <1>7, <1>9, <1>12, <1>13 DEF Frame
<1> QED
  BY <1>14 DEF b

\* No chunk is as long as padding says.
LEMMA FramesEnd ==
  ASSUME NEW k \in 0 .. 15
  PROVE  Frames[SomeBytes(k)] = <<>>
<1> DEFINE b == SomeBytes(k)
<1>1. b \in Buffer /\ Len(b) = k /\ k \in Nat
  BY Bytes255 DEF Size
<1>2. CASE k <= 2
  <2> HIDE DEF b
  <2>1. Frames[b] = <<>>
    BY <1>1, <1>2, FramesIs
  <2> QED
    BY <2>1 DEF b
<1>3. CASE ~ (k <= 2)
  <2>0. \A i \in 1 .. k : b[i] = 255
    BY <1>1, SomeByteAt
  <2> HIDE DEF b
  <2>1. b # <<>> /\ b \in Seq(Byte)
    BY <1>1, <1>3, BufferFacts
  <2>2. Tail(b) \in Buffer /\ Len(Tail(b)) = k - 1 /\ \A i \in 1 .. Len(Tail(b)) : Tail(b)[i] = b[i + 1]
    BY <1>1, <2>1, HeadTailProperties DEF Buffer
  <2> DEFINE t == Tail(b)
  <2>3. t[1] = 255 /\ t[2] = 255 /\ ~ (Len(t) < 2)
    <3>1. 1 \in 1 .. k - 1 /\ 2 \in 1 .. k - 1 /\ 2 \in 1 .. k /\ 3 \in 1 .. k /\ 1 + 1 = 2 /\ 2 + 1 = 3
      BY <1>1, <1>3
    <3> QED
      BY <2>0, <2>2, <3>1
  <2> HIDE DEF t
  <2>4. FromWord(t) = 65535
    BY <2>3 DEF FromWord
  <2>5. ~ Fits(b)
    BY <1>1, <2>4 DEF Fits, t
  <2>6. Frames[b] = <<>>
    BY <1>1, <2>5, FramesIs
  <2> QED
    BY <2>6 DEF b
<1> QED
  BY <1>2, <1>3

-----------------------------------------------------------------------------
(***************************************************************************)
(* What options give: the first of a type, and what is behind the last.    *)
(***************************************************************************)
LEMMA HeadCut ==
  ASSUME NEW b \in Buffer, b # Nil
  PROVE  b[1] \in Byte /\ Tail(b) \in Buffer /\ b = Join(One(b[1]), Tail(b))
<1>1. b # <<>> /\ b \in Seq(Byte) /\ 1 \in 1 .. Len(b) /\ \A i \in 1 .. Len(b) : b[i] \in Byte
  <2>1. b # <<>>
    BY Zenon DEF Nil
  <2>2. Len(b) \in Nat /\ Len(b) # 0
    BY <2>1, BufferFacts
  <2> QED
    BY <2>1, <2>2, BufferFacts
<1>2. b[1] \in Byte
  BY <1>1
<1>3. Tail(b) \in Buffer /\ Len(Tail(b)) = Len(b) - 1 /\ \A i \in 1 .. Len(Tail(b)) : Tail(b)[i] = b[i + 1]
  BY <1>1, HeadTailProperties DEF Buffer
<1> DEFINE t == Tail(b)
           c == Join(One(b[1]), t)
<1>4. One(b[1]) \in Buffer /\ Size(One(b[1])) = 1 /\ One(b[1])[1] = b[1]
  BY <1>2, Bytes1 DEF One, Size
<1> HIDE DEF t
<1>5. c \in Buffer /\ Len(c) = 1 + Len(t) /\ c[1] = b[1] /\ \A i \in 1 .. Len(t) : c[1 + i] = t[i]
  <2>1. t \in Buffer
    BY <1>3 DEF t
  <2>2. c = One(b[1]) \o t
    BY DEF Join
  <2>3. /\ One(b[1]) \o t \in Buffer /\ Len(One(b[1]) \o t) = Len(One(b[1])) + Len(t)
        /\ \A i \in 1 .. Len(One(b[1])) : (One(b[1]) \o t)[i] = One(b[1])[i]
        /\ \A i \in 1 .. Len(t) : (One(b[1]) \o t)[Len(One(b[1])) + i] = t[i]
    BY <1>4, <2>1, Cat
  <2>4. Len(One(b[1])) = 1 /\ 1 \in 1 .. 1
    BY <1>4 DEF Size
  <2> HIDE DEF c
  <2> QED
    BY <1>4, <2>2, <2>3, <2>4
<1> HIDE DEF c
<1>6. Len(c) = Len(b) /\ Len(b) \in Nat
  BY <1>1, <1>3, <1>5, LenNat DEF t
<1>7. ASSUME NEW i \in 1 .. Len(b) PROVE b[i] = c[i]
  <2>1. CASE i = 1
    BY <1>5, <2>1
  <2>2. CASE i # 1
    <3> DEFINE j == i - 1
    <3>1. j \in 1 .. Len(t) /\ i = 1 + j /\ i = j + 1
      BY <1>3, <1>6, <1>7, <2>2 DEF t
    <3> HIDE DEF j
    <3>2. t[j] = b[j + 1] /\ c[1 + j] = t[j]
      BY <1>3, <1>5, <3>1 DEF t
    <3> QED
      BY <3>1, <3>2
  <2> QED
    BY <2>1, <2>2
<1>8. b = c
  BY <1>5, <1>6, <1>7, SameBuffer
<1> QED
  BY <1>2, <1>3, <1>8 DEF c, t

\* An option of a type.
Option(t, c) == EncodePrefixed(Join(One(t), c))

LEMMA OptionBody ==
  \A t, c : (t \in Byte /\ c \in Buffer /\ Size(c) \in Short) =>
    /\ Join(One(t), c) \in Buffer /\ Size(Join(One(t), c)) = 1 + Size(c)
    /\ 1 + Size(c) \in Number /\ 1 + Size(c) \in Nat /\ 1 + Size(c) # 0
<1>1. ASSUME NEW t \in Byte, NEW c \in Buffer, Size(c) \in Short
      PROVE  /\ Join(One(t), c) \in Buffer /\ Size(Join(One(t), c)) = 1 + Size(c)
             /\ 1 + Size(c) \in Number /\ 1 + Size(c) \in Nat /\ 1 + Size(c) # 0
  <2> DEFINE n == Size(c)
             m == 1 + n
  <2>1. n \in Nat /\ n < 65536
    BY <1>1 DEF Short
  <2> HIDE DEF n
  <2>2. m \in Nat /\ m # 0 /\ m < 65537
    BY <2>1
  <2>3. m \in Number
    <3> DEFINE k == m \div 8
    <3>1. k \in Nat /\ k < 65536
      BY <2>2
    <3> HIDE DEF k
    <3>2. k < FourDigits
      <4>1. FourDigits > 65536
        <5>1. ThreeDigits > 65536
          BY DigitsNat
        <5> QED
          BY <5>1, DigitsNat
      <4> QED
        BY <4>1, <3>1, DigitsNat
    <3> QED
      BY <2>2, <3>2 DEF Number, k
  <2>4. Join(One(t), c) \in Buffer /\ Size(Join(One(t), c)) = m
    BY JoinIn, JoinSize, OneIn DEF n
  <2> QED
    BY <2>2, <2>3, <2>4 DEF n
<1> QED
  BY <1>1, Zenon

LEMMA OptionIn ==
  \A t, c : (t \in Byte /\ c \in Buffer /\ Size(c) \in Short) =>
    Option(t, c) \in Buffer /\ Size(Option(t, c)) \in Size(c) + 2 .. Size(c) + 6 /\ Option(t, c) # Nil
<1>1. ASSUME NEW t \in Byte, NEW c \in Buffer, Size(c) \in Short
      PROVE  Option(t, c) \in Buffer /\ Size(Option(t, c)) \in Size(c) + 2 .. Size(c) + 6 /\ Option(t, c) # Nil
  <2> DEFINE b == Join(One(t), c)
             o == EncodePrefixed(b)
  <2>1. b \in Buffer /\ Size(b) = 1 + Size(c) /\ Size(b) \in Number /\ Size(c) \in Nat
    BY <1>1, OptionBody, SizeNat
  <2> HIDE DEF b
  <2>2. o \in Buffer /\ Size(o) \in Size(b) + 1 .. Size(b) + 5
    BY <2>1, PrefixedIn
  <2> HIDE DEF o
  <2>3. Size(o) \in Size(c) + 2 .. Size(c) + 6 /\ Size(o) # 0
    BY <2>1, <2>2
  <2>4. o # Nil
    BY <2>2, <2>3, NilFacts
  <2> QED
    BY <2>2, <2>3, <2>4 DEF o, b, Option
<1> QED
  BY <1>1, Zenon

LEMMA OptionRead ==
  ASSUME NEW t \in Byte, NEW c \in Buffer, Size(c) \in Short, NEW s \in Buffer
  PROVE  /\ DecodeVlu(Join(Option(t, c), s)) = Got(1 + Size(c), Join(One(t), Join(c, s)))
         /\ Join(Option(t, c), s) \in Buffer /\ Join(Option(t, c), s) # Nil
         /\ From(Join(One(t), Join(c, s)), (1 + Size(c)) + 1) = s
         /\ First(Join(One(t), Join(c, s))) = t /\ Join(One(t), Join(c, s)) # Nil
         /\ Join(One(t), Join(c, s)) \in Buffer
<1> DEFINE b == Join(One(t), c)
           n == 1 + Size(c)
           e == EncodeVlu(n)
<1>1. b \in Buffer /\ Size(b) = n /\ n \in Number /\ n \in Nat /\ One(t) \in Buffer /\ Size(One(t)) = 1
  BY OptionBody, OneIn
<1>2. Option(t, c) = Join(EncodeVlu(Size(b)), b)
  BY PrefixedIs DEF Option
<1>3. Join(b, s) = Join(One(t), Join(c, s))
  BY <1>1, JoinAssoc
<1> HIDE DEF b, n
<1>4. e \in Buffer
  BY <1>1, VluIn
<1>5. Join(Option(t, c), s) = Join(e, Join(b, s)) /\ Join(b, s) \in Buffer
  BY <1>1, <1>2, <1>4, JoinAssoc, JoinIn
<1>6. DecodeVlu(Join(e, Join(b, s))) = Got(n, Join(b, s))
  BY <1>1, <1>5, VluBack
<1>7. From(Join(b, s), n + 1) = s
  BY <1>1, FromJoin
<1>8. Join(c, s) \in Buffer
  BY JoinIn
<1>9. First(Join(One(t), Join(c, s))) = t
  BY <1>8, OneFirst
<1>10. Join(Option(t, c), s) \in Buffer /\ Join(Option(t, c), s) # Nil
  <2>1. Option(t, c) \in Buffer /\ Size(Option(t, c)) \in Size(c) + 2 .. Size(c) + 6 /\ Size(c) \in Nat /\ Size(s) \in Nat
    BY OptionIn, SizeNat
  <2>2. Join(Option(t, c), s) \in Buffer /\ Size(Join(Option(t, c), s)) = Size(Option(t, c)) + Size(s)
    BY <2>1, JoinIn, JoinSize
  <2>3. Size(Join(Option(t, c), s)) # 0
    BY <2>1, <2>2
  <2> QED
    BY <2>2, <2>3, NilFacts
<1>11. Join(b, s) # Nil
  <2>1. Size(Join(One(t), Join(c, s))) = 1 + Size(Join(c, s)) /\ Size(Join(c, s)) \in Nat
    BY <1>1, <1>8, JoinSize, SizeNat
  <2>2. Size(Join(b, s)) # 0
    BY <1>3, <2>1
  <2> QED
    BY <2>2, NilFacts
<1> QED
  BY <1>3, <1>5, <1>6, <1>7, <1>9, <1>10, <1>11 DEF n

\* What an option gives, and what is behind it.
LEMMA AfterOption ==
  \A t, c, s : (t \in Byte /\ c \in Buffer /\ Size(c) \in Short /\ s \in Buffer) =>
    AfterOptions[Join(Option(t, c), s)] = AfterOptions[s]
<1>1. ASSUME NEW t \in Byte, NEW c \in Buffer, Size(c) \in Short, NEW s \in Buffer
      PROVE  AfterOptions[Join(Option(t, c), s)] = AfterOptions[s]
  <2> DEFINE b == Join(Option(t, c), s)
             r == Join(One(t), Join(c, s))
             n == 1 + Size(c)
  <2>1. DecodeVlu(b) = Got(n, r) /\ b \in Buffer /\ From(r, n + 1) = s
    BY <1>1, OptionRead
  <2>2. n \in Nat /\ n # 0
    BY <1>1, OptionBody
  <2> HIDE DEF b, r, n
  <2>3. DecodeVlu(b).value = n /\ DecodeVlu(b).rest = r
    BY <2>1, GotFields
  <2>4. AfterOptions[b] = AfterOptions[From(r, n + 1)]
    BY <2>1, <2>2, <2>3, AfterOptionsIs
  <2> QED
    BY <2>1, <2>4 DEF b
<1> QED
  BY <1>1, Zenon

LEMMA AfterLast ==
  \A s : s \in Buffer => AfterOptions[Join(One(0), s)] = s
<1>1. ASSUME NEW s \in Buffer PROVE AfterOptions[Join(One(0), s)] = s
  <2> DEFINE b == Join(One(0), s)
  <2>1. DecodeVlu(b) = Got(0, s)
    BY VluOneBack
  <2>2. b \in Buffer
    <3>1. 0 \in Byte
      BY ByteIs
    <3> QED
      BY <3>1, JoinIn, OneIn
  <2> HIDE DEF b
  <2>3. DecodeVlu(b).value = 0 /\ DecodeVlu(b).rest = s
    BY <2>1, GotFields
  <2>4. AfterOptions[b] = s
    BY <2>2, <2>3, AfterOptionsIs
  <2> QED
    BY <2>4 DEF b
<1> QED
  BY <1>1, Zenon

LEMMA OptionSkipped ==
  \A t, c, s, type :
    (t \in Byte /\ c \in Buffer /\ Size(c) \in Short /\ s \in Buffer /\ t # type) =>
      OptionsFrom(Join(Option(t, c), s), type) = OptionsFrom(s, type)
<1>1. ASSUME NEW t \in Byte, NEW c \in Buffer, Size(c) \in Short, NEW s \in Buffer,
             NEW type, t # type
      PROVE  OptionsFrom(Join(Option(t, c), s), type) = OptionsFrom(s, type)
  <2> DEFINE b == Join(Option(t, c), s)
             r == Join(One(t), Join(c, s))
             n == 1 + Size(c)
  <2>1. DecodeVlu(b) = Got(n, r) /\ b \in Buffer /\ b # Nil /\ From(r, n + 1) = s /\ First(r) = t
    BY <1>1, OptionRead
  <2> HIDE DEF b, r, n
  <2>3. DecodeVlu(b).value = n /\ DecodeVlu(b).rest = r
    BY <2>1, GotFields
  <2>4. b # <<>> /\ Head(r) = t
    BY <2>1, Zenon DEF Nil, First
  <2>5. OptionsFrom(b, type) = OptionsFrom(From(r, n + 1), type)
    BY <1>1, <2>1, <2>3, <2>4, OptionsFromIs
  <2> QED
    BY <2>1, <2>5 DEF b
<1> QED
  BY <1>1

LEMMA OptionFound ==
  \A t, c, s : (t \in Byte /\ c \in Buffer /\ Size(c) \in Short /\ s \in Buffer) =>
    OptionsFrom(Join(Option(t, c), s), t) = Join(Option(t, c), s)
<1>1. ASSUME NEW t \in Byte, NEW c \in Buffer, Size(c) \in Short, NEW s \in Buffer
      PROVE  OptionsFrom(Join(Option(t, c), s), t) = Join(Option(t, c), s)
  <2> DEFINE b == Join(Option(t, c), s)
             r == Join(One(t), Join(c, s))
             n == 1 + Size(c)
  <2>1. DecodeVlu(b) = Got(n, r) /\ b \in Buffer /\ r # Nil /\ First(r) = t
    BY <1>1, OptionRead
  <2> HIDE DEF b, r, n
  <2>3. DecodeVlu(b).value = n /\ DecodeVlu(b).rest = r
    BY <2>1, GotFields
  <2>4. r # <<>> /\ Head(r) = t
    BY <2>1, Zenon DEF Nil, First
  <2>5. OptionsFrom(b, t) = b
    BY <2>1, <2>3, <2>4, OptionsFromIs
  <2> QED
    BY <2>5 DEF b
<1> QED
  BY <1>1, Zenon

LEMMA NoOption ==
  \A type : OptionsFrom(Nil, type) = Nil
<1>1. ASSUME NEW type PROVE OptionsFrom(Nil, type) = Nil
  <2>1. Nil \in Buffer /\ Nil = <<>>
    BY NilFacts DEF Nil
  <2> QED
    BY <2>1, OptionsFromIs
<1> QED
  BY <1>1, Zenon

LEMMA ReadFound ==
  \A b, t, c, s :
    (/\ t \in Byte /\ c \in Buffer /\ Size(c) \in Short /\ s \in Buffer
     /\ OptionsFrom(b, t) = Join(Option(t, c), s)) =>
      /\ ReadOption(b, t) = c
      /\ \A default : ReadVluOption(b, t, default) = DecodeVlu(Join(c, s)).value
<1>1. ASSUME NEW b, NEW t \in Byte, NEW c \in Buffer, Size(c) \in Short, NEW s \in Buffer,
             OptionsFrom(b, t) = Join(Option(t, c), s), NEW default
      PROVE  ReadOption(b, t) = c /\ ReadVluOption(b, t, default) = DecodeVlu(Join(c, s)).value
  <2> DEFINE o == Join(Option(t, c), s)
             r == Join(One(t), Join(c, s))
             n == 1 + Size(c)
  <2>1. DecodeVlu(o) = Got(n, r) /\ o # Nil
    BY <1>1, OptionRead
  <2>2. One(t) \in Buffer /\ Size(One(t)) = 1 /\ Size(c) \in Nat /\ Join(c, s) \in Buffer
    BY <1>1, OneIn, SizeNat, JoinIn
  <2>3. 2 = Size(One(t)) + 1 /\ n = Size(One(t)) + Size(c)
    BY <2>2
  <2>4. Part(r, 2, n) = c
    BY <1>1, <2>2, <2>3, PartJoin
  <2>5. From(r, 2) = Join(c, s)
    BY <2>2, <2>3, FromJoin
  <2> HIDE DEF r, n
  <2>6. OptionsFrom(b, t) = o
    BY <1>1
  <2> HIDE DEF o
  <2>7. DecodeVlu(o).value = n /\ DecodeVlu(o).rest = r
    BY <2>1, GotFields
  <2>8. ~ (OptionsFrom(b, t) = <<>>)
    BY <2>1, <2>6, Zenon DEF Nil
  <2>9. ReadOption(b, t) = SubSeq(r, 2, n)
    BY <2>6, <2>7, <2>8 DEF ReadOption
  <2>10. ReadVluOption(b, t, default) = DecodeVlu(From(r, 2)).value
    BY <2>6, <2>7, <2>8 DEF ReadVluOption
  <2> QED
    BY <2>4, <2>5, <2>9, <2>10 DEF Part
<1> QED
  BY <1>1

LEMMA ReadMissing ==
  \A b, t, default : OptionsFrom(b, t) = Nil => ReadVluOption(b, t, default) = default
BY DEF ReadVluOption, Nil

-----------------------------------------------------------------------------
(***************************************************************************)
(* Bytes that are written one by one.                                      *)
(***************************************************************************)
LEMMA Tuple3 == \A a, b, c : <<a, b, c>> = Join(One(a), <<b, c>>)
BY DEF Join, One

LEMMA Tuple4 == \A a, b, c, d : <<a, b, c, d>> = Join(One(a), <<b, c, d>>)
BY DEF Join, One

LEMMA Tuple5 == \A a, b, c, d, e : <<a, b, c, d, e>> = Join(One(a), <<b, c, d, e>>)
BY DEF Join, One

LEMMA Tuple6 == \A a, b, c, d, e, f : <<a, b, c, d, e, f>> = Join(One(a), <<b, c, d, e, f>>)
BY DEF Join, One

LEMMA Tuple7 ==
  \A a, b, c, d, e, f, g : <<a, b, c, d, e, f, g>> = Join(One(a), <<b, c, d, e, f, g>>)
BY DEF Join, One

LEMMA Tuple8 ==
  \A a, b, c, d, e, f, g, h : <<a, b, c, d, e, f, g, h>> = Join(One(a), <<b, c, d, e, f, g, h>>)
BY DEF Join, One

LEMMA Tuple9 ==
  \A a, b, c, d, e, f, g, h, i :
    <<a, b, c, d, e, f, g, h, i>> = Join(One(a), <<b, c, d, e, f, g, h, i>>)
BY DEF Join, One

LEMMA Tuple10 ==
  \A a, b, c, d, e, f, g, h, i, j :
    <<a, b, c, d, e, f, g, h, i, j>> = Join(One(a), <<b, c, d, e, f, g, h, i, j>>)
BY DEF Join, One

LEMMA Tuple11 ==
  \A a, b, c, d, e, f, g, h, i, j, k :
    <<a, b, c, d, e, f, g, h, i, j, k>> = Join(One(a), <<b, c, d, e, f, g, h, i, j, k>>)
BY DEF Join, One

\* A byte in front of others.
LEMMA Put ==
  \A x, b : (x \in Byte /\ b \in Buffer) =>
     Join(One(x), b) \in Buffer /\ Size(Join(One(x), b)) = 1 + Size(b)
BY JoinIn, JoinSize, OneIn

LEMMA PutJoin ==
  \A x, b, s : (x \in Byte /\ b \in Buffer /\ s \in Buffer) =>
     Join(Join(One(x), b), s) = Join(One(x), Join(b, s))
BY JoinAssoc, OneIn

\* Options of one byte's and of two bytes' length.
LEMMA ShortOption ==
  \A t, c, s : (t \in Byte /\ c \in Buffer /\ Size(c) <= 126 /\ s \in Buffer) =>
    Join(Option(t, c), s) = Join(One(1 + Size(c)), Join(One(t), Join(c, s)))
<1>1. ASSUME NEW t \in Byte, NEW c \in Buffer, Size(c) <= 126, NEW s \in Buffer
      PROVE  Join(Option(t, c), s) = Join(One(1 + Size(c)), Join(One(t), Join(c, s)))
  <2> DEFINE n == 1 + Size(c)
             b == Join(One(t), c)
  <2>1. n \in 0 .. 127 /\ n \in Byte
    <3>1. n \in 0 .. 127
      BY <1>1, SizeNat
    <3> QED
      BY <3>1, VluOne
  <2>2. b \in Buffer /\ Size(b) = n
    BY Put
  <2>3. Option(t, c) = Join(EncodeVlu(Size(b)), b)
    BY PrefixedIs DEF Option
  <2>4. EncodeVlu(n) = One(n)
    BY <2>1, VluOne
  <2> HIDE DEF n
  <2>5. Join(b, s) = Join(One(t), Join(c, s))
    BY PutJoin
  <2> HIDE DEF b
  <2>6. Option(t, c) = Join(One(n), b)
    BY <2>2, <2>3, <2>4
  <2>7. Join(Join(One(n), b), s) = Join(One(n), Join(b, s))
    BY <2>1, <2>2, PutJoin
  <2> QED
    BY <2>5, <2>6, <2>7 DEF n
<1> QED
  BY <1>1, Zenon

LEMMA Vlu130 == EncodeVlu(130) = Join(One(129), One(2))
<1> DEFINE v == 130
           u == v \div 128
           l == Leading[v]
<1>1. u = 1 /\ v % 128 = 2 /\ 1 % 128 = 1 /\ v \in Nat /\ ~ (v < 128) /\ 128 + (u % 128) = 129
  OBVIOUS
<1>2. Leading[1] = <<>>
  BY LeadingAt
<1> HIDE DEF v
<1>3. l = Append(Leading[u], 128 + (u % 128))
  BY <1>1, LeadingAt
<1>4. EncodeVlu(v) = Append(l, v % 128)
  BY <1>1, VluDigits
<1> HIDE DEF l, u
<1>5. l = Append(<<>>, 129)
  BY <1>1, <1>2, <1>3
<1>6. Append(<<>>, 129) = <<129>>
  OBVIOUS
<1>7. <<129>> \in Buffer /\ 2 \in Byte
  BY Bytes1, ByteIs
<1>8. Append(l, 2) = <<129>> \o <<2>>
  BY <1>5, <1>6, <1>7, Appended
<1>9. EncodeVlu(v) = <<129>> \o <<2>>
  BY <1>1, <1>4, <1>8
<1> QED
  BY <1>9, Zenon DEF v, Join, One

LEMMA KeyOption ==
  \A t, c, s : (t \in Byte /\ c \in Buffer /\ Size(c) = 129 /\ s \in Buffer) =>
    Join(Option(t, c), s) = Join(One(129), Join(One(2), Join(One(t), Join(c, s))))
<1>1. ASSUME NEW t \in Byte, NEW c \in Buffer, Size(c) = 129, NEW s \in Buffer
      PROVE  Join(Option(t, c), s) = Join(One(129), Join(One(2), Join(One(t), Join(c, s))))
  <2> DEFINE b == Join(One(t), c)
  <2>1. b \in Buffer /\ Size(b) = 130
    BY <1>1, Put
  <2>2. Option(t, c) = Join(EncodeVlu(Size(b)), b)
    BY PrefixedIs DEF Option
  <2>3. Join(b, s) = Join(One(t), Join(c, s)) /\ Join(b, s) \in Buffer
    BY <2>1, PutJoin, JoinIn
  <2> HIDE DEF b
  <2>4. Option(t, c) = Join(Join(One(129), One(2)), b)
    BY <2>1, <2>2, Vlu130
  <2>5. One(129) \in Buffer /\ One(2) \in Buffer
    <3>1. 129 \in Byte /\ 2 \in Byte
      BY ByteIs
    <3> QED
      BY <3>1, OneIn
  <2>6. Join(Join(One(129), One(2)), b) = Join(One(129), Join(One(2), b)) /\ Join(One(2), b) \in Buffer
    BY <2>1, <2>5, JoinAssoc, JoinIn
  <2>7. Join(Join(One(129), Join(One(2), b)), s) = Join(One(129), Join(Join(One(2), b), s))
    BY <2>5, <2>6, JoinAssoc
  <2>8. Join(Join(One(2), b), s) = Join(One(2), Join(b, s))
    BY <2>1, <2>5, JoinAssoc
  <2> QED
    BY <2>3, <2>4, <2>6, <2>7, <2>8
<1> QED
  BY <1>1, SMTT(30)

-----------------------------------------------------------------------------
(***************************************************************************)
(* The options of a flow's first chunk.                                    *)
(***************************************************************************)
LEMMA SignatureIs ==
  \E t \in Byte, c \in Buffer :
    /\ Signature = Option(t, c) /\ t # 10 /\ Size(c) \in Short
    /\ Signature \in Buffer /\ Size(Signature) <= 1460
<1>1. Signature \in Buffer /\ Len(Signature) <= 1460 /\ Len(Signature) \in Nat
  <2>1. Signature \in Buffer /\ Len(Signature) <= Smss
    BY NumbersAssumption
  <2> QED
    BY <2>1, LenNat DEF Smss
<1>2. PICK n \in 1 .. Len(Signature) - 1 :
        Signature = EncodePrefixed(From(Signature, n + 1)) /\ Signature[n + 1] # 10
  BY NumbersAssumption
<1> DEFINE m == n + 1
           b == From(Signature, m)
<1>3. m \in Nat \ {0} /\ m <= Len(Signature) /\ n \in Nat
  BY <1>1, <1>2
<1>4. b \in Buffer /\ Len(b) = Len(Signature) - m + 1
      /\ \A i \in 1 .. Len(Signature) - m + 1 : b[i] = Signature[m + i - 1]
  <2>1. /\ From(Signature, m) \in Buffer
        /\ Len(From(Signature, m)) = IF m <= Len(Signature) THEN Len(Signature) - m + 1 ELSE 0
        /\ \A i \in 1 .. Len(Signature) - m + 1 : From(Signature, m)[i] = Signature[m + i - 1]
    BY <1>1, <1>3, FromFacts, ZenonT(60)
  <2> QED
    BY <1>3, <2>1
<1>5. Signature = EncodePrefixed(b) /\ Signature[m] # 10
  BY <1>2
<1> HIDE DEF b, m
<1>6. b[1] = Signature[m]
  <2>1. 1 \in 1 .. Len(Signature) - m + 1 /\ m + 1 - 1 = m
    BY <1>1, <1>3
  <2>2. b[1] = Signature[m + 1 - 1]
    BY <1>4, <2>1
  <2> QED
    BY <2>1, <2>2
<1>7. b # Nil
  <2>1. Size(b) # 0
    BY <1>1, <1>3, <1>4 DEF Size
  <2> QED
    BY <2>1, NilFacts
<1>8. b[1] \in Byte /\ Tail(b) \in Buffer /\ b = Join(One(b[1]), Tail(b))
  BY <1>4, <1>7, HeadCut
<1> DEFINE c == Tail(b)
           t == b[1]
<1>9. t \in Byte /\ c \in Buffer /\ b = Join(One(t), c) /\ t # 10
  BY <1>5, <1>6, <1>8
<1> HIDE DEF c, t
<1>10. Size(b) = 1 + Size(c) /\ Size(c) \in Nat /\ Size(b) <= 1460
  <2>1. Size(b) = 1 + Size(c) /\ Size(c) \in Nat
    BY <1>9, Put, SizeNat
  <2>2. Size(b) <= 1460
    BY <1>1, <1>3, <1>4 DEF Size
  <2> QED
    BY <2>1, <2>2
<1>11. Size(c) \in Short
  BY <1>10 DEF Short
<1>12. Signature = Option(t, c)
  BY <1>5, <1>9, Zenon DEF Option
<1>13. Size(Signature) <= 1460
  BY <1>1 DEF Size
<1> QED
  BY <1>1, <1>9, <1>11, <1>12, <1>13

\* Options that read_options copies, whatever follows them.
OptionsEnd(o) ==
  /\ o \in Buffer /\ Size(o) # 0 /\ Size(o) <= 2000
  /\ \A s : s \in Buffer => AfterOptions[Join(o, s)] = s

\* The option that says which flow is answered.
Answers(rel) == Option(10, One(rel))

LEMMA FlowOptionsAre ==
  ASSUME NEW rel \in RelFlows
  PROVE  /\ FlowOptions(Signature, rel) = Join(Join(Signature, Answers(rel)), One(0))
         /\ rel \in 0 .. 127 /\ rel \in Byte /\ rel # NoFlow
<1>1. rel \in 1 .. 127
  BY NumbersAssumption
<1>2. rel \in 0 .. 127 /\ rel # NoFlow
  BY <1>1 DEF NoFlow
<1>3. rel \in Byte /\ EncodeVlu(rel) = One(rel)
  BY <1>2, VluOne
<1>4. EncodeVlu(1 + GetVluSize(rel)) = One(2) /\ 2 \in Byte /\ 10 \in Byte
  <2>1. 1 + GetVluSize(rel) = 2 /\ 2 \in 0 .. 127
    BY DEF GetVluSize
  <2> QED
    BY <2>1, VluOne, ByteIs
<1>5. Answers(rel) = Join(One(2), Join(One(10), One(rel)))
  <2>1. One(rel) \in Buffer /\ Size(One(rel)) = 1
    BY <1>3, OneIn
  <2>2. Size(Join(One(10), One(rel))) = 2
    BY <1>4, <2>1, Put
  <2>3. Answers(rel) = Join(EncodeVlu(Size(Join(One(10), One(rel)))), Join(One(10), One(rel)))
    BY PrefixedIs DEF Answers, Option
  <2>4. EncodeVlu(2) = One(2)
    BY VluOne
  <2> QED
    BY <2>2, <2>3, <2>4
<1>6. FlowOptions(Signature, rel)
        = Join(Join(Signature, Join(Join(EncodeVlu(1 + GetVluSize(rel)), One(10)), EncodeVlu(rel))), One(0))
  BY <1>2, Zenon DEF FlowOptions, Join, One
<1>7. Join(Join(One(2), One(10)), One(rel)) = Join(One(2), Join(One(10), One(rel)))
  BY <1>3, <1>4, OneIn, JoinAssoc
<1>8. FlowOptions(Signature, rel) = Join(Join(Signature, Join(Join(One(2), One(10)), One(rel))), One(0))
  BY <1>3, <1>4, <1>6
<1> QED
  BY <1>2, <1>3, <1>5, <1>7, <1>8

LEMMA NoFlowOptionsAre == FlowOptions(Signature, NoFlow) = Join(Signature, One(0))
<1>1. FlowOptions(Signature, NoFlow) = Join(Join(Signature, Nil), One(0))
  BY Zenon DEF FlowOptions, Join, One, Nil
<1>2. Join(Signature, Nil) = Signature
  BY SignatureIs, JoinNil
<1> QED
  BY <1>1, <1>2

LEMMA FlowOptionsEnd ==
  \A rel : rel \in RelFlows \cup {NoFlow} => OptionsEnd(FlowOptions(Signature, rel))
<1>0. PICK t \in Byte, c \in Buffer :
        /\ Signature = Option(t, c) /\ t # 10 /\ Size(c) \in Short
        /\ Signature \in Buffer /\ Size(Signature) <= 1460
  BY SignatureIs
<1>1. One(0) \in Buffer /\ Size(One(0)) = 1 /\ Size(Signature) \in Nat
  <2>1. 0 \in Byte
    BY ByteIs
  <2> QED
    BY <1>0, <2>1, OneIn, SizeNat
<1>2. OptionsEnd(Join(Signature, One(0)))
  <2>1. Join(Signature, One(0)) \in Buffer /\ Size(Join(Signature, One(0))) # 0 /\ Size(Join(Signature, One(0))) <= 2000
    <3>1. Join(Signature, One(0)) \in Buffer /\ Size(Join(Signature, One(0))) = Size(Signature) + 1
      BY <1>0, <1>1, JoinIn, JoinSize
    <3> QED
      BY <1>0, <1>1, <3>1
  <2>2. ASSUME NEW s \in Buffer PROVE AfterOptions[Join(Join(Signature, One(0)), s)] = s
    <3>1. Join(Join(Signature, One(0)), s) = Join(Signature, Join(One(0), s)) /\ Join(One(0), s) \in Buffer
      BY <1>0, <1>1, JoinAssoc, JoinIn
    <3>2. AfterOptions[Join(Option(t, c), Join(One(0), s))] = AfterOptions[Join(One(0), s)]
      BY <1>0, <3>1, AfterOption
    <3>3. AfterOptions[Join(One(0), s)] = s
      BY AfterLast
    <3> QED
      BY <1>0, <3>1, <3>2, <3>3
  <2> QED
    BY <2>1, <2>2 DEF OptionsEnd
<1>3. ASSUME NEW rel \in RelFlows PROVE OptionsEnd(FlowOptions(Signature, rel))
  <2> DEFINE a == Answers(rel)
             o == Join(Join(Signature, a), One(0))
  <2>1. FlowOptions(Signature, rel) = o /\ rel \in Byte
    BY FlowOptionsAre
  <2>2. One(rel) \in Buffer /\ Size(One(rel)) = 1 /\ Size(One(rel)) \in Short /\ 10 \in Byte
    BY <2>1, OneIn, ByteIs DEF Short
  <2>3. a \in Buffer /\ Size(a) \in Size(One(rel)) + 2 .. Size(One(rel)) + 6
    BY <2>2, OptionIn DEF Answers
  <2>4. ASSUME NEW s \in Buffer PROVE AfterOptions[Join(o, s)] = s
    <3> DEFINE e == Join(One(0), s)
    <3>1. e \in Buffer
      BY <1>1, JoinIn
    <3>2. AfterOptions[e] = s
      BY AfterLast
    <3>3. AfterOptions[Join(a, e)] = AfterOptions[e]
      BY <2>2, <3>1, AfterOption DEF Answers
    <3>4. AfterOptions[Join(Signature, Join(a, e))] = AfterOptions[Join(a, e)]
      <4>1. Join(a, e) \in Buffer
        BY <2>3, <3>1, JoinIn
      <4> QED
        BY <1>0, <4>1, AfterOption
    <3>5. Join(o, s) = Join(Signature, Join(a, e))
      <4>1. Join(Signature, a) \in Buffer
        BY <1>0, <2>3, JoinIn
      <4>2. Join(o, s) = Join(Join(Signature, a), e)
        BY <1>1, <4>1, JoinAssoc
      <4>3. Join(Join(Signature, a), e) = Join(Signature, Join(a, e))
        BY <1>0, <2>3, <3>1, JoinAssoc
      <4> QED
        BY <4>2, <4>3
    <3> QED
      BY <3>2, <3>3, <3>4, <3>5
  <2> HIDE DEF a
  <2>5. o \in Buffer /\ Size(o) # 0 /\ Size(o) <= 2000
    <3>1. Size(a) \in Nat /\ Size(a) <= 7
      BY <2>2, <2>3
    <3>2. Join(Signature, a) \in Buffer /\ Size(Join(Signature, a)) = Size(Signature) + Size(a)
      BY <1>0, <2>3, JoinIn, JoinSize
    <3>3. o \in Buffer /\ Size(o) = Size(Join(Signature, a)) + 1
      BY <1>1, <3>2, JoinIn, JoinSize
    <3> HIDE DEF o
    <3> QED
      BY <1>0, <1>1, <3>1, <3>2, <3>3
  <2> HIDE DEF o
  <2>6. OptionsEnd(o)
    BY <2>4, <2>5 DEF OptionsEnd
  <2> QED
    BY <2>1, <2>6
<1> QED
  BY <1>2, <1>3, NoFlowOptionsAre

\* The flow that is answered is found in them.
LEMMA AnswersFound ==
  ASSUME NEW rel \in RelFlows
  PROVE  ReadVluOption(FlowOptions(Signature, rel), 10, NoFlow) = rel
<1>0. PICK t \in Byte, c \in Buffer :
        /\ Signature = Option(t, c) /\ t # 10 /\ Size(c) \in Short
        /\ Signature \in Buffer /\ Size(Signature) <= 1460
  BY SignatureIs
<1> DEFINE a == Answers(rel)
           o == FlowOptions(Signature, rel)
<1>1. rel \in 0 .. 127 /\ rel \in Byte /\ o = Join(Join(Signature, a), One(0))
  BY FlowOptionsAre
<1>2. /\ One(rel) \in Buffer /\ Size(One(rel)) = 1 /\ Size(One(rel)) \in Short
      /\ 10 \in Byte /\ One(0) \in Buffer
  <2>1. 10 \in Byte /\ 0 \in Byte
    BY ByteIs
  <2> QED
    BY <1>1, <2>1, OneIn DEF Short
<1>3. a \in Buffer /\ Join(a, One(0)) \in Buffer
  BY <1>2, OptionIn, JoinIn DEF Answers
<1>4. o = Join(Signature, Join(a, One(0)))
  BY <1>0, <1>1, <1>2, <1>3, JoinAssoc
<1> HIDE DEF o
<1>5. OptionsFrom(o, 10) = OptionsFrom(Join(a, One(0)), 10)
  BY <1>0, <1>3, <1>4, OptionSkipped
<1>6. OptionsFrom(Join(a, One(0)), 10) = Join(a, One(0))
  BY <1>2, OptionFound DEF Answers
<1>7. OptionsFrom(o, 10) = Join(Option(10, One(rel)), One(0))
  BY <1>5, <1>6 DEF Answers
<1>8. ReadVluOption(o, 10, NoFlow) = DecodeVlu(Join(One(rel), One(0))).value
  BY <1>2, <1>7, ReadFound
<1>9. DecodeVlu(Join(One(rel), One(0))) = Got(rel, One(0))
  BY <1>1, <1>2, VluOneBack
<1> QED
  BY <1>8, <1>9, GotFields DEF o

-----------------------------------------------------------------------------
(***************************************************************************)
(* Public keys.                                                            *)
(***************************************************************************)
LEMMA PaddedIs ==
  ASSUME NEW k \in DhKeys
  PROVE  Padded(k) \in Buffer /\ Size(Padded(k)) = 128 /\ AsNumber(Padded(k)) = k
<1>1. k \in Buffer /\ k # <<>> /\ Len(k) <= 128 /\ Head(k) # 0
  BY NumbersAssumption DEF KeyLen
<1>2. Len(k) \in Nat /\ Len(k) # 0 /\ k[1] # 0
  <2>1. Len(k) \in Nat /\ Len(k) # 0
    BY <1>1, BufferFacts
  <2>2. Head(k) = k[1]
    BY <1>1, HeadTailProperties DEF Buffer
  <2> QED
    BY <1>1, <2>1, <2>2
<1> DEFINE n == 128 - Len(k)
           zeros == [i \in 1 .. n |-> 0]
           b == Join(zeros, k)
<1>3. n \in Nat /\ n + Len(k) = 128
  BY <1>1, <1>2
<1>4. Padded(k) = b
  BY DEF Padded, KeyLen, Join
<1> HIDE DEF n
<1>5. zeros \in Buffer /\ Len(zeros) = n /\ \A i \in 1 .. n : zeros[i] = 0
  <2>1. zeros \in [1 .. n -> Byte]
    <3>1. 0 \in Byte
      BY ByteIs
    <3> QED
      BY <3>1
  <2>2. \A i \in 1 .. n : zeros[i] = 0
    OBVIOUS
  <2> HIDE DEF zeros
  <2> QED
    BY <1>3, <2>1, <2>2 DEF Buffer
<1> HIDE DEF zeros
<1>6. b \in Buffer /\ Size(b) = 128 /\ Len(b) = 128
  BY <1>1, <1>3, <1>5, JoinIn, JoinSize, ZenonT(60) DEF Size
<1>7. /\ \A i \in 1 .. n : b[i] = 0
      /\ b[n + 1] # 0
  <2>1. /\ \A i \in 1 .. Len(zeros) : (zeros \o k)[i] = zeros[i]
        /\ \A i \in 1 .. Len(k) : (zeros \o k)[Len(zeros) + i] = k[i]
    BY <1>1, <1>5, Cat
  <2>2. 1 \in 1 .. Len(k)
    BY <1>2
  <2> QED
    BY <1>2, <1>5, <2>1, <2>2 DEF Join
<1>8. From(b, n + 1) = k
  BY <1>1, <1>5, FromJoin DEF Size
<1> HIDE DEF b
<1> DEFINE S == {i \in DOMAIN b : b[i] # 0} \cup {Len(b) + 1}
<1>9. n + 1 \in S /\ S \in SUBSET Int /\ \A y \in S : n + 1 <= y
  <2>1. DOMAIN b = 1 .. 128
    BY <1>6, BufferFacts
  <2>2. n + 1 \in 1 .. 128
    BY <1>2, <1>3
  <2>3. ASSUME NEW y \in 1 .. 128, b[y] # 0 PROVE n + 1 <= y
    BY <1>3, <1>7, <2>3
  <2>4. S = {i \in 1 .. 128 : b[i] # 0} \cup {129}
    BY <1>6, <2>1
  <2> HIDE DEF S
  <2>5. S \in SUBSET Int /\ n + 1 \in S
    BY <1>7, <2>2, <2>4
  <2>6. ASSUME NEW y \in S PROVE n + 1 <= y
    <3>1. CASE y = 129
      BY <2>2, <3>1
    <3>2. CASE y \in 1 .. 128 /\ b[y] # 0
      BY <2>3, <3>2
    <3> QED
      BY <2>4, <3>1, <3>2
  <2> QED
    BY <2>5, <2>6
<1>10. Min(S) = n + 1
  <2> HIDE DEF S
  <2> QED
    BY <1>9, MinIs
<1>11. AsNumber(b) = From(b, n + 1)
  BY <1>10 DEF AsNumber
<1> QED
  BY <1>4, <1>6, <1>8, <1>11

\* The option that carries a key: its kind, 2, and the key.
KeyPart(k) == Join(One(2), Padded(k))

LEMMA KeyPartIs ==
  \A k : k \in DhKeys =>
    /\ KeyPart(k) \in Buffer /\ Size(KeyPart(k)) = 129 /\ Size(KeyPart(k)) \in Short
    /\ Rest(KeyPart(k)) = Padded(k)
<1>1. ASSUME NEW k \in DhKeys
      PROVE  /\ KeyPart(k) \in Buffer /\ Size(KeyPart(k)) = 129 /\ Size(KeyPart(k)) \in Short
             /\ Rest(KeyPart(k)) = Padded(k)
  <2>1. 2 \in Byte /\ Padded(k) \in Buffer /\ Size(Padded(k)) = 128
    BY PaddedIs, ByteIs
  <2>2. KeyPart(k) \in Buffer /\ Size(KeyPart(k)) = 1 + 128
    BY <2>1, Put DEF KeyPart
  <2>3. Size(KeyPart(k)) \in Short
    BY <2>2 DEF Short
  <2>4. Rest(KeyPart(k)) = Padded(k)
    BY <2>1, OneFirst DEF KeyPart
  <2> QED
    BY <2>2, <2>3, <2>4
<1> QED
  BY <1>1, Zenon

LEMMA InitiatorCertIs ==
  ASSUME NEW k \in DhKeys
  PROVE  /\ InitiatorCert(k) = Option(29, KeyPart(k))
         /\ InitiatorCert(k) \in Buffer /\ Size(InitiatorCert(k)) <= 200
<1> DEFINE p == Padded(k)
           c == KeyPart(k)
<1>1. 129 \in Byte /\ 2 \in Byte /\ 29 \in Byte /\ 2 \in Byte
  BY ByteIs
<1>2. p \in Buffer /\ c \in Buffer /\ Size(c) = 129 /\ Size(c) \in Short
  BY PaddedIs, KeyPartIs
<1>3. InitiatorCert(k) = Join(<<129, 2, 29, 2>>, p)
  BY DEF InitiatorCert, Join
<1> HIDE DEF p
<1>4. <<129, 2, 29, 2>> = Join(One(129), Join(One(2), Join(One(29), One(2))))
  BY <1>1, Tuple2, Tuple3, Tuple4
<1>5. Join(Join(One(129), Join(One(2), Join(One(29), One(2)))), p)
        = Join(One(129), Join(One(2), Join(One(29), Join(One(2), p))))
  <2> DEFINE x == Join(One(29), One(2))
             y == Join(One(2), x)
  <2>1. One(2) \in Buffer /\ x \in Buffer
    BY <1>1, OneIn, Put
  <2>2. y \in Buffer
    BY <1>1, <2>1, Put
  <2>3. Join(x, p) = Join(One(29), Join(One(2), p))
    BY <1>1, <1>2, <2>1, PutJoin
  <2> HIDE DEF x
  <2>4. Join(y, p) = Join(One(2), Join(x, p))
    BY <1>1, <1>2, <2>1, PutJoin
  <2> HIDE DEF y
  <2>5. Join(Join(One(129), y), p) = Join(One(129), Join(y, p))
    BY <1>1, <1>2, <2>2, PutJoin
  <2> QED
    BY <2>3, <2>4, <2>5 DEF x, y
<1>6. Join(Option(29, c), Nil) = Join(One(129), Join(One(2), Join(One(29), Join(c, Nil))))
  BY <1>1, <1>2, KeyOption, NilFacts
<1>7. Option(29, c) \in Buffer /\ Size(Option(29, c)) \in Size(c) + 2 .. Size(c) + 6
  BY <1>1, <1>2, OptionIn
<1>8. Join(Option(29, c), Nil) = Option(29, c) /\ Join(c, Nil) = c
  BY <1>2, <1>7, JoinNil
<1>9. c = Join(One(2), p)
  BY DEF KeyPart, p
<1> HIDE DEF c
<1>10. Size(Option(29, c)) <= 200
  BY <1>2, <1>7
<1>11. InitiatorCert(k) = Option(29, c)
  BY <1>3, <1>4, <1>5, <1>6, <1>8, <1>9
<1> QED
  BY <1>7, <1>10, <1>11 DEF c

LEMMA NonceIs ==
  ASSUME NEW k \in DhKeys
  PROVE  /\ Nonce(k) = Join(Option(26, Join(One(0), One(0))),
                            Join(Option(30, One(0)), Option(13, KeyPart(k))))
         /\ Nonce(k) \in Buffer /\ Size(Nonce(k)) <= 200
<1> DEFINE p == Padded(k)
           c == KeyPart(k)
           z == Join(One(0), One(0))
<1>1. /\ 3 \in Byte /\ 26 \in Byte /\ 0 \in Byte /\ 2 \in Byte /\ 30 \in Byte /\ 129 \in Byte
      /\ 13 \in Byte
  BY ByteIs
<1>2. p \in Buffer /\ c \in Buffer /\ Size(c) = 129 /\ Size(c) \in Short /\ Size(p) = 128
  BY PaddedIs, KeyPartIs
<1>3. Nonce(k) = Join(<<3, 26, 0, 0, 2, 30, 0, 129, 2, 13, 2>>, p)
  BY DEF Nonce, Join
<1>4. c = Join(One(2), p)
  BY DEF KeyPart
<1> HIDE DEF p, c
\* Behind each byte, the bytes that follow it.
<1> DEFINE b1 == <<13, 2>>
           b2 == <<2, 13, 2>>
           b3 == <<129, 2, 13, 2>>
           b4 == <<0, 129, 2, 13, 2>>
           b5 == <<30, 0, 129, 2, 13, 2>>
           b6 == <<2, 30, 0, 129, 2, 13, 2>>
           b7 == <<0, 2, 30, 0, 129, 2, 13, 2>>
           b8 == <<0, 0, 2, 30, 0, 129, 2, 13, 2>>
           b9 == <<26, 0, 0, 2, 30, 0, 129, 2, 13, 2>>
           b10 == <<3, 26, 0, 0, 2, 30, 0, 129, 2, 13, 2>>
<1>5. /\ b1 = Join(One(13), One(2)) /\ b2 = Join(One(2), b1) /\ b3 = Join(One(129), b2)
      /\ b4 = Join(One(0), b3) /\ b5 = Join(One(30), b4) /\ b6 = Join(One(2), b5)
      /\ b7 = Join(One(0), b6) /\ b8 = Join(One(0), b7) /\ b9 = Join(One(26), b8)
      /\ b10 = Join(One(3), b9)
  BY <1>1, Tuple2, Tuple3, Tuple4, Tuple5, Tuple6, Tuple7, Tuple8, Tuple9, Tuple10, Tuple11
<1>6. Nonce(k) = Join(b10, p)
  BY <1>3
<1> HIDE DEF b1, b2, b3, b4, b5, b6, b7, b8, b9, b10
<1>7. /\ One(2) \in Buffer /\ b1 \in Buffer /\ b2 \in Buffer /\ b3 \in Buffer /\ b4 \in Buffer
      /\ b5 \in Buffer /\ b6 \in Buffer /\ b7 \in Buffer /\ b8 \in Buffer /\ b9 \in Buffer
  BY <1>1, <1>5, OneIn, Put
<1>8. /\ Join(b1, p) = Join(One(13), c) /\ Join(b2, p) = Join(One(2), Join(b1, p))
      /\ Join(b3, p) = Join(One(129), Join(b2, p)) /\ Join(b4, p) = Join(One(0), Join(b3, p))
      /\ Join(b5, p) = Join(One(30), Join(b4, p)) /\ Join(b6, p) = Join(One(2), Join(b5, p))
      /\ Join(b7, p) = Join(One(0), Join(b6, p)) /\ Join(b8, p) = Join(One(0), Join(b7, p))
      /\ Join(b9, p) = Join(One(26), Join(b8, p)) /\ Join(b10, p) = Join(One(3), Join(b9, p))
  BY <1>1, <1>2, <1>4, <1>5, <1>7, PutJoin
<1> DEFINE o3 == Option(13, c)
           o2 == Join(Option(30, One(0)), o3)
           o1 == Join(Option(26, z), o2)
<1>9. /\ z \in Buffer /\ Size(z) = 2 /\ Size(z) \in Short
      /\ One(0) \in Buffer /\ Size(One(0)) = 1 /\ Size(One(0)) \in Short
  BY <1>1, OneIn, Put DEF Short
<1>10. o3 = Join(b3, p) /\ o3 \in Buffer /\ Size(o3) <= 135 /\ Size(o3) \in Nat
  <2>1. Join(o3, Nil) = Join(One(129), Join(One(2), Join(One(13), Join(c, Nil))))
    BY <1>1, <1>2, KeyOption, NilFacts
  <2>2. o3 \in Buffer /\ Size(o3) \in Size(c) + 2 .. Size(c) + 6
    BY <1>1, <1>2, OptionIn
  <2>3. Join(o3, Nil) = o3 /\ Join(c, Nil) = c
    BY <1>2, <2>2, JoinNil
  <2>4. Size(o3) <= 135 /\ Size(o3) \in Nat
    BY <1>2, <2>2
  <2> HIDE DEF o3
  <2> QED
    BY <1>8, <2>1, <2>2, <2>3, <2>4
<1> HIDE DEF o3
<1>11. o2 = Join(b6, p) /\ o2 \in Buffer /\ Size(o2) <= 142 /\ Size(o2) \in Nat
  <2>1. o2 = Join(One(1 + Size(One(0))), Join(One(30), Join(One(0), o3)))
    BY <1>1, <1>9, <1>10, ShortOption
  <2>2. 1 + Size(One(0)) = 2
    BY <1>9
  <2>3. Option(30, One(0)) \in Buffer /\ Size(Option(30, One(0))) \in Size(One(0)) + 2 .. Size(One(0)) + 6
    BY <1>1, <1>9, OptionIn
  <2>4. o2 \in Buffer /\ Size(o2) = Size(Option(30, One(0))) + Size(o3)
    BY <1>10, <2>3, JoinIn, JoinSize
  <2>5. Size(o2) <= 142 /\ Size(o2) \in Nat
    BY <1>9, <1>10, <2>3, <2>4
  <2> HIDE DEF o2
  <2> QED
    BY <1>8, <1>10, <2>1, <2>2, <2>4, <2>5
<1> HIDE DEF o2
<1>12. o1 = Join(b10, p) /\ o1 \in Buffer /\ Size(o1) <= 200
  <2>1. o1 = Join(One(1 + Size(z)), Join(One(26), Join(z, o2)))
    BY <1>1, <1>9, <1>11, ShortOption
  <2>2. 1 + Size(z) = 3
    BY <1>9
  <2>3. Option(26, z) \in Buffer /\ Size(Option(26, z)) \in Size(z) + 2 .. Size(z) + 6
    BY <1>1, <1>9, OptionIn
  <2>4. o1 \in Buffer /\ Size(o1) = Size(Option(26, z)) + Size(o2)
    BY <1>11, <2>3, JoinIn, JoinSize
  <2>5. Size(o1) <= 200
    BY <1>9, <1>11, <2>3, <2>4
  <2>6. Join(z, o2) = Join(One(0), Join(One(0), o2))
    BY <1>1, <1>9, <1>11, PutJoin
  <2> HIDE DEF o1, z
  <2> QED
    BY <1>8, <1>11, <2>1, <2>2, <2>4, <2>5, <2>6
<1> QED
  BY <1>6, <1>12 DEF o1, o2, o3, c

\* A key is found in the certificate and in the nonce that carry it.
LEMMA KeyRead ==
  \A b, t, k, s :
    (k \in DhKeys /\ t \in Byte /\ s \in Buffer /\ OptionsFrom(b, t) = Join(Option(t, KeyPart(k)), s)) =>
       /\ AsNumber(Tail(ReadOption(b, t))) = k
       /\ ReadVluOption(b, t, 0) = 2
<1>1. ASSUME NEW b, NEW t \in Byte, NEW k \in DhKeys, NEW s \in Buffer,
             OptionsFrom(b, t) = Join(Option(t, KeyPart(k)), s)
      PROVE  AsNumber(Tail(ReadOption(b, t))) = k /\ ReadVluOption(b, t, 0) = 2
  <2> DEFINE c == KeyPart(k)
             p == Padded(k)
  <2>1. c \in Buffer /\ Size(c) \in Short /\ Rest(c) = p
    BY KeyPartIs
  <2>2. p \in Buffer /\ AsNumber(p) = k /\ Join(p, s) \in Buffer
    BY PaddedIs, JoinIn
  <2>3. c = Join(One(2), p)
    BY DEF KeyPart
  <2>4. OptionsFrom(b, t) = Join(Option(t, c), s)
    BY <1>1
  <2> HIDE DEF c, p
  <2>5. ReadOption(b, t) = c /\ ReadVluOption(b, t, 0) = DecodeVlu(Join(c, s)).value
    BY <2>1, <2>4, ReadFound
  <2>6. Tail(c) = p
    BY <2>1 DEF Rest
  <2>7. Join(c, s) = Join(One(2), Join(p, s))
    <3>1. 2 \in Byte
      BY ByteIs
    <3> QED
      BY <2>2, <2>3, <3>1, PutJoin
  <2>8. DecodeVlu(Join(One(2), Join(p, s))) = Got(2, Join(p, s))
    <3>1. 2 \in 0 .. 127
      OBVIOUS
    <3> QED
      BY <2>2, <3>1, VluOneBack
  <2>9. DecodeVlu(Join(c, s)).value = 2
    BY <2>7, <2>8, GotFields
  <2> QED
    BY <2>2, <2>5, <2>6, <2>9
<1> QED
  BY <1>1

LEMMA CertKey ==
  ASSUME NEW k \in DhKeys
  PROVE  KeyInCert(InitiatorCert(k)) = k
<1> DEFINE o == Option(29, KeyPart(k))
<1>1. 29 \in Byte /\ KeyPart(k) \in Buffer /\ Size(KeyPart(k)) \in Short /\ InitiatorCert(k) = o
  BY ByteIs, KeyPartIs, InitiatorCertIs
<1>2. o \in Buffer /\ Join(o, Nil) = o /\ Nil \in Buffer
  BY <1>1, OptionIn, JoinNil, NilFacts
<1>3. OptionsFrom(Join(o, Nil), 29) = Join(o, Nil)
  BY <1>1, NilFacts, OptionFound
<1> HIDE DEF o
<1>4. OptionsFrom(o, 29) = Join(Option(29, KeyPart(k)), Nil)
  BY <1>2, <1>3 DEF o
<1>5. AsNumber(Tail(ReadOption(o, 29))) = k
  BY <1>1, <1>2, <1>4, KeyRead
<1> QED
  BY <1>1, <1>5 DEF KeyInCert

LEMMA NonceKey ==
  ASSUME NEW k \in DhKeys
  PROVE  KeyInNonce(Nonce(k)) = k
<1> DEFINE o3 == Option(13, KeyPart(k))
           z == Join(One(0), One(0))
           o2 == Join(Option(30, One(0)), o3)
           o1 == Join(Option(26, z), o2)
<1>1. /\ 0 \in Byte /\ 13 \in Byte /\ 26 \in Byte /\ 30 \in Byte /\ 26 # 13 /\ 30 # 13
      /\ KeyPart(k) \in Buffer /\ Size(KeyPart(k)) \in Short
  BY ByteIs, KeyPartIs
<1>2. /\ z \in Buffer /\ Size(z) \in Short /\ One(0) \in Buffer /\ Size(One(0)) \in Short
  BY <1>1, OneIn, Put DEF Short
<1>3. Nonce(k) = o1
  BY NonceIs
<1>4. o3 \in Buffer /\ Join(o3, Nil) = o3 /\ Nil \in Buffer
  BY <1>1, OptionIn, JoinNil, NilFacts
<1>5. OptionsFrom(Join(o3, Nil), 13) = Join(o3, Nil)
  BY <1>1, NilFacts, OptionFound
<1>6. o2 \in Buffer
  BY <1>1, <1>2, <1>4, OptionIn, JoinIn
<1> HIDE DEF o3
<1>7. OptionsFrom(o2, 13) = OptionsFrom(o3, 13)
  BY <1>1, <1>2, <1>4, OptionSkipped
<1> HIDE DEF o2, z
<1>8. OptionsFrom(o1, 13) = OptionsFrom(o2, 13)
  BY <1>1, <1>2, <1>6, OptionSkipped
<1> HIDE DEF o1
<1>9. OptionsFrom(o1, 13) = Join(Option(13, KeyPart(k)), Nil)
  BY <1>4, <1>5, <1>7, <1>8 DEF o3
<1>10. AsNumber(Tail(ReadOption(o1, 13))) = k
  BY <1>1, <1>4, <1>9, KeyRead
<1> QED
  BY <1>3, <1>10 DEF KeyInNonce

-----------------------------------------------------------------------------
(***************************************************************************)
(* The certificates of a Flash client.                                     *)
(***************************************************************************)
\* The options of a certificate without a key, in front of what follows it.
CertOptions(p, s) ==
  Join(Option(10, Nil), Join(Option(14, p),
    Join(Option(21, One(2)), Join(Option(21, One(5)), Join(Option(21, One(14)), s)))))

LEMMA CertParts ==
  ASSUME NEW p \in PseudoIds, NEW s \in Buffer
  PROVE  Join(Certificate(p), s) = CertOptions(p, s)
<1>1. /\ 1 \in Byte /\ 10 \in Byte /\ 65 \in Byte /\ 14 \in Byte /\ 2 \in Byte /\ 21 \in Byte
      /\ 5 \in Byte /\ p \in Buffer /\ Size(p) = 64
  <2>1. p \in Buffer /\ Size(p) = 64
    BY NumbersAssumption DEF Size
  <2> QED
    BY <2>1, ByteIs
<1> DEFINE a1 == <<65, 14>>
           a2 == <<10, 65, 14>>
           a3 == <<1, 10, 65, 14>>
           b1 == <<21, 14>>
           b2 == <<2, 21, 14>>
           b3 == <<5, 2, 21, 14>>
           b4 == <<21, 5, 2, 21, 14>>
           b5 == <<2, 21, 5, 2, 21, 14>>
           b6 == <<2, 2, 21, 5, 2, 21, 14>>
           b7 == <<21, 2, 2, 21, 5, 2, 21, 14>>
           b8 == <<2, 21, 2, 2, 21, 5, 2, 21, 14>>
<1>2. Certificate(p) = Join(Join(a3, p), b8)
  BY DEF Certificate, Join
<1>3. /\ a1 = Join(One(65), One(14)) /\ a2 = Join(One(10), a1) /\ a3 = Join(One(1), a2)
      /\ b1 = Join(One(21), One(14)) /\ b2 = Join(One(2), b1) /\ b3 = Join(One(5), b2)
      /\ b4 = Join(One(21), b3) /\ b5 = Join(One(2), b4) /\ b6 = Join(One(2), b5)
      /\ b7 = Join(One(21), b6) /\ b8 = Join(One(2), b7)
  BY <1>1, Tuple2, Tuple3, Tuple4, Tuple5, Tuple6, Tuple7, Tuple8, Tuple9
<1> HIDE DEF a1, a2, a3, b1, b2, b3, b4, b5, b6, b7, b8
<1>4. /\ One(14) \in Buffer /\ a1 \in Buffer /\ a2 \in Buffer /\ a3 \in Buffer
      /\ b1 \in Buffer /\ b2 \in Buffer /\ b3 \in Buffer /\ b4 \in Buffer
      /\ b5 \in Buffer /\ b6 \in Buffer /\ b7 \in Buffer /\ b8 \in Buffer
  BY <1>1, <1>3, OneIn, Put
<1> DEFINE t == Join(b8, s)
           q == Join(p, t)
<1>5. t \in Buffer /\ q \in Buffer
  BY <1>1, <1>4, JoinIn
<1>6. Join(Certificate(p), s) = Join(a3, q)
  <2>1. Join(a3, p) \in Buffer
    BY <1>1, <1>4, JoinIn
  <2>2. Join(Join(Join(a3, p), b8), s) = Join(Join(a3, p), Join(b8, s))
    BY <1>4, <2>1, JoinAssoc
  <2>3. Join(Join(a3, p), t) = Join(a3, Join(p, t))
    BY <1>1, <1>4, <1>5, JoinAssoc
  <2> QED
    BY <1>2, <2>2, <2>3
<1>7. /\ Join(b1, s) = Join(One(21), Join(One(14), s)) /\ Join(b2, s) = Join(One(2), Join(b1, s))
      /\ Join(b3, s) = Join(One(5), Join(b2, s)) /\ Join(b4, s) = Join(One(21), Join(b3, s))
      /\ Join(b5, s) = Join(One(2), Join(b4, s)) /\ Join(b6, s) = Join(One(2), Join(b5, s))
      /\ Join(b7, s) = Join(One(21), Join(b6, s)) /\ Join(b8, s) = Join(One(2), Join(b7, s))
  BY <1>1, <1>3, <1>4, PutJoin
<1> HIDE DEF t, q
<1>8. /\ Join(a1, q) = Join(One(65), Join(One(14), q)) /\ Join(a2, q) = Join(One(10), Join(a1, q))
      /\ Join(a3, q) = Join(One(1), Join(a2, q))
  BY <1>1, <1>3, <1>4, <1>5, PutJoin
<1> DEFINE s1 == Join(Option(21, One(14)), s)
           s2 == Join(Option(21, One(5)), s1)
           s3 == Join(Option(21, One(2)), s2)
           s4 == Join(Option(14, p), s3)
           s5 == Join(Option(10, Nil), s4)
<1>9. /\ \A x \in {2, 5, 14} : /\ One(x) \in Buffer /\ Size(One(x)) = 1 /\ Size(One(x)) \in Short
      /\ Nil \in Buffer /\ Size(Nil) = 0 /\ Size(Nil) \in Short /\ Size(p) \in Short
  BY <1>1, OneIn, NilFacts DEF Short
<1>10. s1 = Join(b2, s) /\ s1 \in Buffer
  <2>1. s1 = Join(One(1 + Size(One(14))), Join(One(21), Join(One(14), s)))
    BY <1>1, <1>9, ShortOption
  <2>2. 1 + Size(One(14)) = 2
    BY <1>9
  <2>3. s1 \in Buffer
    BY <1>1, <1>9, OptionIn, JoinIn
  <2> HIDE DEF s1
  <2> QED
    BY <1>7, <2>1, <2>2, <2>3
<1> HIDE DEF s1
<1>11. s2 = Join(b5, s) /\ s2 \in Buffer
  <2>1. s2 = Join(One(1 + Size(One(5))), Join(One(21), Join(One(5), s1)))
    BY <1>1, <1>9, <1>10, ShortOption
  <2>2. 1 + Size(One(5)) = 2
    BY <1>9
  <2>3. s2 \in Buffer
    BY <1>1, <1>9, <1>10, OptionIn, JoinIn
  <2> HIDE DEF s2
  <2> QED
    BY <1>7, <1>10, <2>1, <2>2, <2>3
<1> HIDE DEF s2
<1>12. s3 = t /\ s3 \in Buffer
  <2>1. s3 = Join(One(1 + Size(One(2))), Join(One(21), Join(One(2), s2)))
    BY <1>1, <1>9, <1>11, ShortOption
  <2>2. 1 + Size(One(2)) = 2
    BY <1>9
  <2>3. s3 \in Buffer
    BY <1>1, <1>9, <1>11, OptionIn, JoinIn
  <2> HIDE DEF s3
  <2> QED
    BY <1>7, <1>11, <2>1, <2>2, <2>3 DEF t
<1> HIDE DEF s3
<1>13. s4 = Join(a1, q) /\ s4 \in Buffer
  <2>1. s4 = Join(One(1 + Size(p)), Join(One(14), Join(p, s3)))
    BY <1>1, <1>12, ShortOption
  <2>2. 1 + Size(p) = 65
    BY <1>1
  <2>3. s4 \in Buffer
    BY <1>1, <1>9, <1>12, OptionIn, JoinIn
  <2> HIDE DEF s4
  <2> QED
    BY <1>8, <1>12, <2>1, <2>2, <2>3 DEF q
<1> HIDE DEF s4
<1>14. s5 = Join(a3, q)
  <2>1. s5 = Join(One(1 + Size(Nil)), Join(One(10), Join(Nil, s4)))
    BY <1>1, <1>9, <1>13, ShortOption
  <2>2. 1 + Size(Nil) = 1 /\ Join(Nil, s4) = s4
    BY <1>9, <1>13, JoinNil
  <2> HIDE DEF s5
  <2> QED
    BY <1>8, <1>13, <2>1, <2>2
<1> QED
  BY <1>6, <1>14, Zenon DEF s1, s2, s3, s4, s5, CertOptions

LEMMA CertificateIn ==
  \A p : p \in PseudoIds => Certificate(p) \in Buffer /\ Size(Certificate(p)) = 77
<1>1. ASSUME NEW p \in PseudoIds PROVE Certificate(p) \in Buffer /\ Size(Certificate(p)) = 77
  <2>1. p \in Buffer /\ Size(p) = 64
    BY NumbersAssumption DEF Size
  <2> DEFINE a == <<1, 10, 65, 14>>
             b == <<2, 21, 2, 2, 21, 5, 2, 21, 14>>
  <2>2. a \in Buffer /\ Size(a) = 4 /\ b \in Buffer /\ Size(b) = 9
    <3>1. /\ 1 \in Byte /\ 10 \in Byte /\ 65 \in Byte /\ 14 \in Byte /\ 2 \in Byte /\ 21 \in Byte
          /\ 5 \in Byte
      BY ByteIs
    <3> DEFINE a1 == <<65, 14>>
               a2 == <<10, 65, 14>>
               b1 == <<21, 14>>
               b2 == <<2, 21, 14>>
               b3 == <<5, 2, 21, 14>>
               b4 == <<21, 5, 2, 21, 14>>
               b5 == <<2, 21, 5, 2, 21, 14>>
               b6 == <<2, 2, 21, 5, 2, 21, 14>>
               b7 == <<21, 2, 2, 21, 5, 2, 21, 14>>
    <3>2. /\ a1 = Join(One(65), One(14)) /\ a2 = Join(One(10), a1) /\ a = Join(One(1), a2)
          /\ b1 = Join(One(21), One(14)) /\ b2 = Join(One(2), b1) /\ b3 = Join(One(5), b2)
          /\ b4 = Join(One(21), b3) /\ b5 = Join(One(2), b4) /\ b6 = Join(One(2), b5)
          /\ b7 = Join(One(21), b6) /\ b = Join(One(2), b7)
      BY <3>1, Tuple2, Tuple3, Tuple4, Tuple5, Tuple6, Tuple7, Tuple8, Tuple9
    <3> HIDE DEF a, b, a1, a2, b1, b2, b3, b4, b5, b6, b7
    <3>3. One(14) \in Buffer /\ Size(One(14)) = 1
      BY <3>1, OneIn
    <3>4. a1 \in Buffer /\ Size(a1) = 2 /\ b1 \in Buffer /\ Size(b1) = 2
      BY <3>1, <3>2, <3>3, Put
    <3>5. a2 \in Buffer /\ Size(a2) = 3 /\ b2 \in Buffer /\ Size(b2) = 3
      BY <3>1, <3>2, <3>4, Put
    <3>6. b3 \in Buffer /\ Size(b3) = 4 /\ a \in Buffer /\ Size(a) = 4
      BY <3>1, <3>2, <3>5, Put
    <3>7. b4 \in Buffer /\ Size(b4) = 5
      BY <3>1, <3>2, <3>6, Put
    <3>8. b5 \in Buffer /\ Size(b5) = 6
      BY <3>1, <3>2, <3>7, Put
    <3>9. b6 \in Buffer /\ Size(b6) = 7
      BY <3>1, <3>2, <3>8, Put
    <3>10. b7 \in Buffer /\ Size(b7) = 8
      BY <3>1, <3>2, <3>9, Put
    <3> QED
      BY <3>1, <3>2, <3>6, <3>10, Put
  <2>3. Certificate(p) = Join(Join(a, p), b)
    BY DEF Certificate, Join
  <2> HIDE DEF a, b
  <2>4. Join(a, p) \in Buffer /\ Size(Join(a, p)) = 68
    BY <2>1, <2>2, JoinIn, JoinSize
  <2> QED
    BY <2>2, <2>3, <2>4, JoinIn, JoinSize
<1> QED
  BY <1>1, Zenon

\* No option of a certificate without a key has its type.
LEMMA CertSkipped ==
  ASSUME NEW p \in PseudoIds, NEW s \in Buffer
  PROVE  OptionsFrom(Join(Certificate(p), s), 29) = OptionsFrom(s, 29)
<1>1. /\ 10 \in Byte /\ 14 \in Byte /\ 2 \in Byte /\ 21 \in Byte
      /\ 5 \in Byte /\ p \in Buffer /\ Size(p) = 64 /\ 10 # 29 /\ 14 # 29 /\ 21 # 29
  <2>1. p \in Buffer /\ Size(p) = 64
    BY NumbersAssumption DEF Size
  <2> QED
    BY <2>1, ByteIs
<1>2. /\ \A x \in {2, 5, 14} : /\ One(x) \in Buffer /\ Size(One(x)) = 1 /\ Size(One(x)) \in Short
      /\ Nil \in Buffer /\ Size(Nil) = 0 /\ Size(Nil) \in Short /\ Size(p) \in Short
  BY <1>1, OneIn, NilFacts DEF Short
<1> DEFINE s1 == Join(Option(21, One(14)), s)
           s2 == Join(Option(21, One(5)), s1)
           s3 == Join(Option(21, One(2)), s2)
           s4 == Join(Option(14, p), s3)
           s5 == Join(Option(10, Nil), s4)
<1>3. OptionsFrom(s1, 29) = OptionsFrom(s, 29) /\ s1 \in Buffer
  BY <1>1, <1>2, OptionSkipped, OptionIn, JoinIn
<1> HIDE DEF s1
<1>4. OptionsFrom(s2, 29) = OptionsFrom(s1, 29) /\ s2 \in Buffer
  BY <1>1, <1>2, <1>3, OptionSkipped, OptionIn, JoinIn
<1> HIDE DEF s2
<1>5. OptionsFrom(s3, 29) = OptionsFrom(s2, 29) /\ s3 \in Buffer
  BY <1>1, <1>2, <1>4, OptionSkipped, OptionIn, JoinIn
<1> HIDE DEF s3
<1>6. OptionsFrom(s4, 29) = OptionsFrom(s3, 29) /\ s4 \in Buffer
  BY <1>1, <1>2, <1>5, OptionSkipped, OptionIn, JoinIn
<1> HIDE DEF s4
<1>7. OptionsFrom(s5, 29) = OptionsFrom(s4, 29)
  BY <1>1, <1>2, <1>6, OptionSkipped
<1>8. Join(Certificate(p), s) = s5
  BY CertParts DEF CertOptions, s1, s2, s3, s4
<1> QED
  BY <1>3, <1>4, <1>5, <1>6, <1>7, <1>8

\* The key that recv_rhello finds, and finds missing.
LEMMA RHelloKeys ==
  ASSUME NEW p \in PseudoIds, NEW k \in DhKeys
  PROVE  /\ KeyInRHello(FlashCert(p, k)) = k /\ KeyInRHello(Certificate(p)) = <<>>
         /\ FlashCert(p, k) \in Buffer /\ Size(FlashCert(p, k)) <= 500
<1> DEFINE o == Option(29, KeyPart(k))
           c == Certificate(p)
           f == FlashCert(p, k)
           b == <<129, 2, 29, 2>>
           e == Join(c, b)
<1>1. c \in Buffer /\ Size(c) = 77 /\ Padded(k) \in Buffer /\ Size(Padded(k)) = 128 /\ AsNumber(Padded(k)) = k
  BY CertificateIn, PaddedIs
<1>2. b \in Buffer /\ Size(b) = 4
  <2>1. 129 \in Byte /\ 2 \in Byte /\ 29 \in Byte
    BY ByteIs
  <2> DEFINE b1 == <<29, 2>>
             b2 == <<2, 29, 2>>
  <2>2. b1 = Join(One(29), One(2)) /\ b2 = Join(One(2), b1) /\ b = Join(One(129), b2)
    BY <2>1, Tuple2, Tuple3, Tuple4
  <2> HIDE DEF b, b1, b2
  <2>3. b1 \in Buffer /\ Size(b1) = 2
    BY <2>1, <2>2, OneIn, Put
  <2>4. b2 \in Buffer /\ Size(b2) = 3
    BY <2>1, <2>2, <2>3, Put
  <2> QED
    BY <2>1, <2>2, <2>4, Put
<1>3. f = Join(e, Padded(k)) /\ Join(b, Padded(k)) = InitiatorCert(k)
  BY DEF FlashCert, InitiatorCert, Join
<1>4. o \in Buffer /\ InitiatorCert(k) = o /\ 29 \in Byte /\ KeyPart(k) \in Buffer /\ Size(KeyPart(k)) \in Short
  BY InitiatorCertIs, KeyPartIs, ByteIs
<1> HIDE DEF b, c
<1>5. e \in Buffer /\ Size(e) = 81 /\ f = Join(c, o)
  BY <1>1, <1>2, <1>3, <1>4, JoinIn, JoinSize, JoinAssoc
<1> HIDE DEF e
<1>6. f \in Buffer /\ Size(f) = 209
  <2> DEFINE q == Padded(k)
  <2>1. f = Join(e, q) /\ q \in Buffer /\ Size(q) = 128
    BY <1>1, <1>3
  <2> HIDE DEF f, q
  <2>2. Join(e, q) \in Buffer /\ Size(Join(e, q)) = Size(e) + Size(q)
    BY <1>5, <2>1, JoinIn, JoinSize
  <2> QED
    BY <1>5, <2>1, <2>2
<1>7. From(f, 82) = Padded(k)
  <2> DEFINE q == Padded(k)
  <2>1. f = Join(e, q) /\ q \in Buffer /\ 82 = Size(e) + 1
    BY <1>1, <1>3, <1>5
  <2> HIDE DEF f, q
  <2> QED
    BY <1>5, <2>1, FromJoin DEF q
<1>8. OptionsFrom(Join(c, o), 29) = OptionsFrom(o, 29)
  BY <1>4, CertSkipped DEF c
<1>9. OptionsFrom(Join(o, Nil), 29) = Join(o, Nil) /\ Join(o, Nil) = o
  BY <1>4, NilFacts, OptionFound, JoinNil
<1> HIDE DEF f
<1>10. OptionsFrom(f, 29) = Join(Option(29, KeyPart(k)), Nil)
  BY <1>5, <1>8, <1>9
<1>11. ReadVluOption(f, 29, 0) = 2
  BY <1>4, <1>10, NilFacts, KeyRead
<1>12. KeyInRHello(f) = AsNumber(From(f, 82))
  <2>1. Len(f) = 209
    BY <1>6 DEF Size
  <2>2. Len(f) > KeyLen /\ Len(f) - KeyLen + 1 = 82
    BY <2>1 DEF KeyLen
  <2> QED
    BY <1>11, <2>2 DEF KeyInRHello
<1>13. OptionsFrom(Join(c, Nil), 29) = OptionsFrom(Nil, 29) /\ Join(c, Nil) = c
  BY <1>1, CertSkipped, NilFacts, JoinNil DEF c
<1>14. OptionsFrom(c, 29) = Nil
  BY <1>13, NoOption
<1>15. ReadVluOption(c, 29, 0) = 0
  BY <1>14, ReadMissing
<1>16. KeyInRHello(c) = <<>>
  BY <1>15 DEF KeyInRHello
<1> QED
  BY <1>1, <1>6, <1>7, <1>12, <1>16 DEF c, f

-----------------------------------------------------------------------------
(***************************************************************************)
(* The chunks of a session.                                                *)
(***************************************************************************)
LEMMA Chain3 ==
  \A a, b, c : (a \in Buffer /\ b \in Buffer /\ c \in Buffer) =>
    Join(Join(a, b), c) = Join(a, Join(b, c)) /\ Join(b, c) \in Buffer
BY JoinAssoc, JoinIn

LEMMA Chain4 ==
  \A a, b, c, d : (a \in Buffer /\ b \in Buffer /\ c \in Buffer /\ d \in Buffer) =>
    Join(Join(Join(a, b), c), d) = Join(a, Join(b, Join(c, d))) /\ Join(b, Join(c, d)) \in Buffer
<1>1. ASSUME NEW a \in Buffer, NEW b \in Buffer, NEW c \in Buffer, NEW d \in Buffer
      PROVE  Join(Join(Join(a, b), c), d) = Join(a, Join(b, Join(c, d))) /\ Join(b, Join(c, d)) \in Buffer
  <2>1. Join(a, b) \in Buffer /\ Join(c, d) \in Buffer
    BY <1>1, JoinIn
  <2>2. Join(Join(Join(a, b), c), d) = Join(Join(a, b), Join(c, d))
    BY <1>1, <2>1, JoinAssoc
  <2>3. Join(Join(a, b), Join(c, d)) = Join(a, Join(b, Join(c, d))) /\ Join(b, Join(c, d)) \in Buffer
    BY <1>1, <2>1, Chain3
  <2> QED
    BY <2>2, <2>3
<1> QED
  BY <1>1

LEMMA Chain6 ==
  ASSUME NEW a \in Buffer, NEW b \in Buffer, NEW c \in Buffer, NEW d \in Buffer,
         NEW e \in Buffer, NEW f \in Buffer
  PROVE  Join(Join(Join(Join(Join(a, b), c), d), e), f) = Join(a, Join(b, Join(c, Join(d, Join(e, f)))))
<1> DEFINE p == Join(Join(a, b), c)
<1>1. p \in Buffer /\ Join(e, f) \in Buffer /\ Join(d, Join(e, f)) \in Buffer
  BY JoinIn
<1>2. Join(Join(a, b), c) = Join(a, Join(b, c)) /\ Join(b, c) \in Buffer
  BY Chain3
<1> HIDE DEF p
<1>3. Join(Join(Join(p, d), e), f) = Join(p, Join(d, Join(e, f)))
  BY <1>1, Chain4
<1> DEFINE q == Join(d, Join(e, f))
<1> HIDE DEF q
<1>4. Join(Join(Join(a, b), c), q) = Join(a, Join(b, Join(c, q)))
  BY <1>1, Chain4 DEF q
<1> QED
  BY <1>3, <1>4 DEF p, q

\* The flags of user data say what they were made of.
FlagsOf(frag, o, a, f) == frag * 16 + Bit(o, 128) + Bit(a, 2) + Bit(f, 1)

LEMMA FlagsSay ==
  ASSUME NEW frag \in 0 .. 3, NEW o \in BOOLEAN, NEW a \in BOOLEAN, NEW f \in BOOLEAN
  PROVE  LET x == FlagsOf(frag, o, a, f)
         IN  /\ x \in Byte /\ (x >= 128 <=> o) /\ (x \div 16) % 4 = frag
             /\ ((x \div 2) % 2 = 1) = a /\ (x % 2 = 1) = f
<1> DEFINE p == IF o THEN 1 ELSE 0
           q == IF a THEN 1 ELSE 0
           r == IF f THEN 1 ELSE 0
           x == FlagsOf(frag, o, a, f)
<1>1. p \in 0 .. 1 /\ q \in 0 .. 1 /\ r \in 0 .. 1 /\ (p = 1 <=> o) /\ (q = 1 <=> a) /\ (r = 1 <=> f)
  OBVIOUS
<1>2. x = frag * 16 + p * 128 + q * 2 + r
  <2>1. Bit(o, 128) = p * 128 /\ Bit(a, 2) = q * 2 /\ Bit(f, 1) = r
    BY DEF Bit
  <2> QED
    BY <2>1 DEF FlagsOf
<1> HIDE DEF p, q, r, x
<1>3. x \in Nat /\ x < 256 /\ (x >= 128 <=> p = 1)
  BY <1>1, <1>2
<1>4. (x \div 16) % 4 = frag
  <2>1. x \div 16 = frag + 8 * p
    BY <1>1, <1>2
  <2> QED
    BY <1>1, <2>1
<1>5. (x \div 2) % 2 = q
  <2>1. x \div 2 = frag * 8 + p * 64 + q
    BY <1>1, <1>2
  <2> QED
    BY <1>1, <2>1
<1>6. x % 2 = r
  BY <1>1, <1>2
<1>7. ((x \div 2) % 2 = 1) = a /\ (x % 2 = 1) = f
  <2>1. ((x \div 2) % 2 = 1 <=> a) /\ (x % 2 = 1 <=> f)
    BY <1>1, <1>5, <1>6
  <2> QED
    BY <2>1, Zenon
<1>8. x \in Byte
  BY <1>3, ByteIs
<1> QED
  BY <1>1, <1>3, <1>4, <1>7, <1>8 DEF x

-----------------------------------------------------------------------------
(***************************************************************************)
(* User data, where its place is said and where it continues a flow.       *)
(***************************************************************************)
UserDataFields ==
  [type : {"userdata"}, frag : 0 .. 3, abandon : BOOLEAN, final : BOOLEAN, flowid : Number,
   seq : Number, offset : Number, options : Buffer, data : Buffer]

SentUserData ==
  {m \in UserDataFields : Size(m.data) <= 2000 /\ (m.options = Nil \/ OptionsEnd(m.options))}

\* Its place in its flow.
Place(m) == [flowid |-> m.flowid, seq |-> m.seq, offset |-> m.offset]

LEMMA UserDataIs ==
  ASSUME NEW m \in SentUserData
  PROVE  /\ m.type = "userdata" /\ m.frag \in 0 .. 3 /\ m.abandon \in BOOLEAN /\ m.final \in BOOLEAN
         /\ m.flowid \in Number /\ m.seq \in Number /\ m.offset \in Number
         /\ m.options \in Buffer /\ m.data \in Buffer
         /\ Size(m.data) <= 2000 /\ (m.options = Nil \/ OptionsEnd(m.options))
         /\ m = [type |-> "userdata", frag |-> m.frag, abandon |-> m.abandon, final |-> m.final,
                 flowid |-> m.flowid, seq |-> m.seq, offset |-> m.offset,
                 options |-> m.options, data |-> m.data]
BY DEF SentUserData, UserDataFields

LEMMA UserDataSaid ==
  ASSUME NEW m \in SentUserData
  PROVE  /\ UserDataFlags(m) \in Byte
         /\ UserDataAt(Place(m), UserDataFlags(m), Join(m.options, m.data)) = m
<1> DEFINE x == UserDataFlags(m)
           o == m.options
           d == m.data
           b == Join(o, d)
           h == ~ (o = <<>>)
<1>1. /\ m.frag \in 0 .. 3 /\ m.abandon \in BOOLEAN /\ m.final \in BOOLEAN
      /\ o \in Buffer /\ d \in Buffer /\ Size(d) <= 2000 /\ (o = Nil \/ OptionsEnd(o))
  BY UserDataIs
<1>2. x = FlagsOf(m.frag, h, m.abandon, m.final)
  BY DEF UserDataFlags, FlagsOf
<1>3. h \in BOOLEAN
  OBVIOUS
<1> HIDE DEF h, x
<1>4. /\ x \in Byte /\ (x >= 128 <=> h) /\ (x \div 16) % 4 = m.frag
      /\ ((x \div 2) % 2 = 1) = m.abandon /\ (x % 2 = 1) = m.final
  BY <1>1, <1>2, <1>3, FlagsSay
<1> HIDE DEF o, d
<1> DEFINE options == IF x >= 128 THEN ReadOptions(b) ELSE [value |-> <<>>, rest |-> b]
<1>5. options.value = o /\ options.rest = d
  <2>1. CASE h
    <3>1. OptionsEnd(o)
      BY <1>1, <2>1 DEF h, Nil
    <3>2. AfterOptions[b] = d
      BY <1>1, <3>1 DEF OptionsEnd
    <3>3. Size(b) = Size(o) + Size(d) /\ Size(o) \in Nat /\ Size(d) \in Nat
      BY <1>1, JoinSize, SizeNat
    <3>4. Upto(b, Size(o)) = o
      BY <1>1, UptoJoin
    <3> HIDE DEF b
    <3>5. Len(b) - Len(d) = Size(o)
      BY <3>3 DEF Size
    <3>6. ReadOptions(b).value = SubSeq(b, 1, Len(b) - Len(d)) /\ ReadOptions(b).rest = d
      BY <3>2 DEF ReadOptions
    <3>7. ReadOptions(b).value = o
      BY <3>4, <3>5, <3>6 DEF Upto
    <3> QED
      BY <1>4, <2>1, <3>6, <3>7
  <2>2. CASE ~ h
    <3>1. o = <<>> /\ o = Nil
      BY <2>2 DEF h, Nil
    <3>2. b = d
      BY <1>1, <3>1, JoinNil
    <3> QED
      BY <1>4, <2>2, <3>1, <3>2
  <2> QED
    BY <2>1, <2>2
<1> HIDE DEF b
<1>6. UserDataAt(Place(m), x, b)
        = [type |-> "userdata", frag |-> (x \div 16) % 4,
           abandon |-> (x \div 2) % 2 = 1, final |-> x % 2 = 1,
           flowid |-> Place(m).flowid, seq |-> Place(m).seq, offset |-> Place(m).offset,
           options |-> options.value, data |-> options.rest]
  BY Zenon DEF UserDataAt
<1> HIDE DEF options
<1>7. Place(m).flowid = m.flowid /\ Place(m).seq = m.seq /\ Place(m).offset = m.offset
  BY DEF Place
<1>8. UserDataAt(Place(m), x, b)
        = [type |-> "userdata", frag |-> m.frag, abandon |-> m.abandon, final |-> m.final,
           flowid |-> m.flowid, seq |-> m.seq, offset |-> m.offset,
           options |-> o, data |-> d]
  BY <1>4, <1>5, <1>6, <1>7, Zenon
<1>9. m = [type |-> "userdata", frag |-> m.frag, abandon |-> m.abandon, final |-> m.final,
           flowid |-> m.flowid, seq |-> m.seq, offset |-> m.offset,
           options |-> o, data |-> d]
  BY UserDataIs DEF o, d
<1> QED
  BY <1>4, <1>8, <1>9, Zenon DEF x, b, o, d

LEMMA NextUserDataBack ==
  ASSUME NEW m \in SentUserData
  PROVE  /\ EncodeNextUserData(m) \in Buffer /\ Size(EncodeNextUserData(m)) \in Short
         /\ DecodeNextUserData(Place(m), EncodeNextUserData(m)) = m
<1> DEFINE x == UserDataFlags(m)
           o == m.options
           d == m.data
           b == Join(o, d)
           e == EncodeNextUserData(m)
<1>1. x \in Byte /\ UserDataAt(Place(m), x, b) = m
  BY UserDataSaid
<1>2. /\ o \in Buffer /\ d \in Buffer /\ Size(d) <= 2000 /\ Size(o) \in Nat /\ Size(d) \in Nat
      /\ Size(o) <= 2000
  <2>1. o \in Buffer /\ d \in Buffer /\ Size(d) <= 2000 /\ (o = Nil \/ OptionsEnd(o))
    BY UserDataIs
  <2> HIDE DEF o, d
  <2>2. Size(o) <= 2000
    BY <2>1, NilFacts DEF OptionsEnd
  <2> QED
    BY <2>1, <2>2, SizeNat
<1>3. e = Join(Join(One(x), o), d)
  BY DEF EncodeNextUserData, Join, One
<1> HIDE DEF x, o, d
<1>4. b \in Buffer /\ Size(b) = Size(o) + Size(d)
  BY <1>2, JoinIn, JoinSize
<1>5. e = Join(One(x), b)
  BY <1>1, <1>2, <1>3, PutJoin
<1> HIDE DEF b, e
<1>6. e \in Buffer /\ Size(e) = 1 + Size(b)
  BY <1>1, <1>4, <1>5, Put
<1>7. Size(e) \in Short
  BY <1>2, <1>4, <1>6 DEF Short
<1>8. Head(e) = x /\ Tail(e) = b
  BY <1>1, <1>4, <1>5, OneFirst DEF First, Rest
<1>9. DecodeNextUserData(Place(m), e) = m
  BY <1>1, <1>8, Zenon DEF DecodeNextUserData, b
<1> QED
  BY <1>6, <1>7, <1>9 DEF e

LEMMA PlaceRead ==
  \A f, n, o, s :
    (f \in Number /\ n \in Number /\ o \in Number /\ s \in Buffer) =>
      LET b == Join(EncodeVlu(f), Join(EncodeVlu(n), Join(EncodeVlu(o), s)))
      IN  /\ DecodePlace(b).value = [flowid |-> f, seq |-> n, offset |-> o]
          /\ DecodePlace(b).rest = s
<1>1. ASSUME NEW f \in Number, NEW n \in Number, NEW o \in Number, NEW s \in Buffer
      PROVE  LET b == Join(EncodeVlu(f), Join(EncodeVlu(n), Join(EncodeVlu(o), s)))
             IN  /\ DecodePlace(b).value = [flowid |-> f, seq |-> n, offset |-> o]
                 /\ DecodePlace(b).rest = s
  <2> DEFINE b1 == Join(EncodeVlu(o), s)
             b2 == Join(EncodeVlu(n), b1)
             b3 == Join(EncodeVlu(f), b2)
  <2>1. EncodeVlu(f) \in Buffer /\ EncodeVlu(n) \in Buffer /\ EncodeVlu(o) \in Buffer
    BY VluIn
  <2>2. b1 \in Buffer /\ DecodeVlu(b1) = Got(o, s)
    BY <2>1, JoinIn, VluBack
  <2> HIDE DEF b1
  <2>3. b2 \in Buffer /\ DecodeVlu(b2) = Got(n, b1)
    BY <2>1, <2>2, JoinIn, VluBack
  <2> HIDE DEF b2
  <2>4. DecodeVlu(b3) = Got(f, b2)
    BY <2>1, <2>3, VluBack
  <2> HIDE DEF b3
  <2>5. /\ DecodeVlu(b3).value = f /\ DecodeVlu(b3).rest = b2 /\ DecodeVlu(b2).value = n
        /\ DecodeVlu(b2).rest = b1 /\ DecodeVlu(b1).value = o /\ DecodeVlu(b1).rest = s
    BY <2>2, <2>3, <2>4, GotFields
  <2>6. DecodePlace(b3).value = [flowid |-> f, seq |-> n, offset |-> o] /\ DecodePlace(b3).rest = s
    BY <2>5 DEF DecodePlace
  <2> QED
    BY <2>6 DEF b1, b2, b3
<1> QED
  BY <1>1

LEMMA UserDataBack ==
  ASSUME NEW m \in SentUserData
  PROVE  /\ EncodeUserData(m) \in Buffer /\ Size(EncodeUserData(m)) \in Short
         /\ DecodePlace(From(EncodeUserData(m), 2)).value = Place(m)
         /\ \A place : place = Place(m) => DecodeUserData(place, EncodeUserData(m)) = m
<1> DEFINE x == UserDataFlags(m)
           f == EncodeVlu(m.flowid)
           n == EncodeVlu(m.seq)
           l == EncodeVlu(m.offset)
           o == m.options
           d == m.data
           b == Join(o, d)
           p == Join(f, Join(n, Join(l, b)))
           e == EncodeUserData(m)
<1>1. x \in Byte /\ UserDataAt(Place(m), x, b) = m
  BY UserDataSaid
<1>2. /\ o \in Buffer /\ d \in Buffer /\ Size(d) <= 2000 /\ Size(o) \in Nat /\ Size(d) \in Nat
      /\ Size(o) <= 2000 /\ m.flowid \in Number /\ m.seq \in Number /\ m.offset \in Number
  <2>1. /\ o \in Buffer /\ d \in Buffer /\ Size(d) <= 2000 /\ (o = Nil \/ OptionsEnd(o))
        /\ m.flowid \in Number /\ m.seq \in Number /\ m.offset \in Number
    BY UserDataIs
  <2> HIDE DEF o, d
  <2>2. Size(o) <= 2000
    BY <2>1, NilFacts DEF OptionsEnd
  <2> QED
    BY <2>1, <2>2, SizeNat
<1>3. /\ f \in Buffer /\ n \in Buffer /\ l \in Buffer
      /\ Size(f) \in 1 .. 5 /\ Size(n) \in 1 .. 5 /\ Size(l) \in 1 .. 5
  BY <1>2, VluIn
<1>4. e = Join(Join(Join(Join(Join(One(x), f), n), l), o), d)
  BY Zenon DEF EncodeUserData, Join, One
<1>5. b \in Buffer /\ Size(b) = Size(o) + Size(d)
  BY <1>2, JoinIn, JoinSize
<1>6. DecodePlace(p).value = [flowid |-> m.flowid, seq |-> m.seq, offset |-> m.offset]
      /\ DecodePlace(p).rest = b
  <2> HIDE DEF b
  <2> QED
    BY <1>2, <1>5, PlaceRead
<1> HIDE DEF x, f, n, l, o, d
<1>7. One(x) \in Buffer
  BY <1>1, OneIn
<1>8. e = Join(One(x), p)
  BY <1>2, <1>3, <1>4, <1>7, Chain6
<1> HIDE DEF b
<1>9. p \in Buffer /\ Size(p) = Size(f) + Size(n) + Size(l) + Size(b)
  <2>1. Join(l, b) \in Buffer /\ Size(Join(l, b)) = Size(l) + Size(b)
    BY <1>3, <1>5, JoinIn, JoinSize
  <2>2. Join(n, Join(l, b)) \in Buffer /\ Size(Join(n, Join(l, b))) = Size(n) + Size(Join(l, b))
    BY <1>3, <2>1, JoinIn, JoinSize
  <2>3. p \in Buffer /\ Size(p) = Size(f) + Size(Join(n, Join(l, b)))
    BY <1>3, <2>2, JoinIn, JoinSize
  <2> HIDE DEF p
  <2>4. Size(b) \in Nat
    BY <1>5, SizeNat
  <2> QED
    BY <1>3, <2>1, <2>2, <2>3, <2>4
<1> HIDE DEF p, e
<1>10. e \in Buffer /\ Size(e) = 1 + Size(p)
  BY <1>1, <1>8, <1>9, Put
<1>11. Size(e) \in Short
  <2>1. Size(e) \in Nat /\ Size(e) < 5000
    BY <1>2, <1>3, <1>5, <1>9, <1>10
  <2> QED
    BY <2>1 DEF Short
<1>12. Head(e) = x /\ Tail(e) = p /\ From(e, 2) = p
  BY <1>1, <1>8, <1>9, OneFirst DEF First, Rest
<1>13. DecodePlace(From(e, 2)).value = Place(m)
  BY <1>6, <1>12, Zenon DEF Place
<1>14. DecodeUserData(Place(m), e) = m
  BY <1>1, <1>6, <1>12, Zenon DEF DecodeUserData
<1> QED
  BY <1>10, <1>11, <1>13, <1>14 DEF e

LEMMA OneOf ==
  ASSUME NEW a
  PROVE  <<a>> \o <<>> = <<a>>
OBVIOUS

LEMMA TwoOf ==
  ASSUME NEW a, NEW b
  PROVE  <<a>> \o (<<b>> \o <<>>) = <<a, b>>
<1>1. <<a, b>> = Append(<<a>>, b)
  OBVIOUS
<1>2. Append(<<a>>, b) = <<a>> \o <<b>>
  OBVIOUS
<1> QED
  BY <1>1, <1>2, OneOf, Zenon

LEMMA ThreeOf ==
  ASSUME NEW a, NEW b, NEW c
  PROVE  <<a>> \o (<<b>> \o (<<c>> \o <<>>)) = <<a, b, c>>
<1>1. <<a, b, c>> = <<a>> \o <<b, c>>
  OBVIOUS
<1> QED
  BY <1>1, TwoOf, Zenon

\* The others after the first.
Others(s, t) ==
  /\ Len(t) = Len(s) - 1 /\ Len(s) \in Nat /\ Len(t) \in Nat
  /\ \A i \in 1 .. Len(s) - 1 : t[i] = s[i + 1]
  /\ \A i \in 1 .. Len(s) : s[i] \in Buffer
  /\ FlattenSeq(s) = Join(s[1], FlattenSeq(t))

LEMMA FlatTail ==
  \A s : (s \in Buffers /\ Len(s) # 0) => \E t \in Buffers : Others(s, t)
<1> SUFFICES ASSUME NEW s \in Buffers, Len(s) # 0
             PROVE  \E t \in Buffers : Others(s, t)
  OBVIOUS
<1>1. s # <<>> /\ Len(s) \in Nat /\ \A i \in 1 .. Len(s) : s[i] \in Buffer
  BY EmptySeq DEF Buffers
<1>2. /\ Tail(s) \in Buffers /\ Len(Tail(s)) = Len(s) - 1
      /\ \A i \in 1 .. Len(Tail(s)) : Tail(s)[i] = s[i + 1]
  BY <1>1, HeadTailProperties DEF Buffers
<1>3. FlattenSeq(s) = Join(s[1], FlattenSeq(Tail(s)))
  BY FlatHead, Zenon DEF Join
<1> DEFINE t == Tail(s)
<1>4. /\ t \in Buffers /\ Len(t) = Len(s) - 1 /\ \A i \in 1 .. Len(s) - 1 : t[i] = s[i + 1]
      /\ FlattenSeq(s) = Join(s[1], FlattenSeq(t))
  BY <1>2, <1>3
<1> HIDE DEF t
<1>5. Len(t) \in Nat
  BY <1>1, <1>4 DEF Buffers
<1> QED
  BY <1>1, <1>4, <1>5 DEF Others

Flat1(s) == FlattenSeq(s) = s[1] /\ s[1] \in Buffer

Flat2(s) == FlattenSeq(s) = Join(s[1], s[2]) /\ s[1] \in Buffer /\ s[2] \in Buffer

Flat3(s) ==
  /\ FlattenSeq(s) = Join(s[1], Join(s[2], s[3]))
  /\ s[1] \in Buffer /\ s[2] \in Buffer /\ s[3] \in Buffer

LEMMA FlatFew ==
  /\ \A s : (s \in Buffers /\ Len(s) = 0) => FlattenSeq(s) = Nil
  /\ \A s : (s \in Buffers /\ Len(s) = 1) => Flat1(s)
  /\ \A s : (s \in Buffers /\ Len(s) = 2) => Flat2(s)
  /\ \A s : (s \in Buffers /\ Len(s) = 3) => Flat3(s)
<1>1. ASSUME NEW s \in Buffers, Len(s) = 0 PROVE FlattenSeq(s) = Nil
  BY <1>1, FlatOfEmpty DEF Nil
<1>2. ASSUME NEW s \in Buffers, Len(s) = 1 PROVE Flat1(s)
  <2>0. Len(s) # 0
    BY <1>2
  <2>1a. PICK t \in Buffers : Others(s, t)
    BY <2>0, FlatTail
  <2>1. /\ Len(t) = Len(s) - 1 /\ Len(s) \in Nat /\ Len(t) \in Nat
        /\ \A i \in 1 .. Len(s) - 1 : t[i] = s[i + 1]
        /\ \A i \in 1 .. Len(s) : s[i] \in Buffer
        /\ FlattenSeq(s) = Join(s[1], FlattenSeq(t))
    BY <2>1a DEF Others
  <2>2. Len(t) = 0 /\ 1 \in 1 .. Len(s)
    BY <1>2, <2>1
  <2>3. FlattenSeq(t) = Nil
    BY <1>1, <2>2
  <2>4. s[1] \in Buffer
    BY <2>1, <2>2
  <2> QED
    BY <2>1, <2>3, <2>4, JoinNil DEF Flat1
<1>3. ASSUME NEW s \in Buffers, Len(s) = 2 PROVE Flat2(s)
  <2>0. Len(s) # 0
    BY <1>3
  <2>1a. PICK t \in Buffers : Others(s, t)
    BY <2>0, FlatTail
  <2>1. /\ Len(t) = Len(s) - 1 /\ Len(s) \in Nat /\ Len(t) \in Nat
        /\ \A i \in 1 .. Len(s) - 1 : t[i] = s[i + 1]
        /\ \A i \in 1 .. Len(s) : s[i] \in Buffer
        /\ FlattenSeq(s) = Join(s[1], FlattenSeq(t))
    BY <2>1a DEF Others
  <2>2. Len(t) = 1 /\ 1 \in 1 .. Len(s) /\ 2 \in 1 .. Len(s) /\ 1 \in 1 .. Len(s) - 1 /\ 1 + 1 = 2
    BY <1>3, <2>1
  <2>3. FlattenSeq(t) = t[1]
    BY <1>2, <2>2 DEF Flat1
  <2>4. s[1] \in Buffer /\ s[2] \in Buffer /\ t[1] = s[2]
    BY <2>1, <2>2
  <2> QED
    BY <2>1, <2>3, <2>4 DEF Flat2
<1>4. ASSUME NEW s \in Buffers, Len(s) = 3 PROVE Flat3(s)
  <2>0. Len(s) # 0
    BY <1>4
  <2>1a. PICK t \in Buffers : Others(s, t)
    BY <2>0, FlatTail
  <2>1. /\ Len(t) = Len(s) - 1 /\ Len(s) \in Nat /\ Len(t) \in Nat
        /\ \A i \in 1 .. Len(s) - 1 : t[i] = s[i + 1]
        /\ \A i \in 1 .. Len(s) : s[i] \in Buffer
        /\ FlattenSeq(s) = Join(s[1], FlattenSeq(t))
    BY <2>1a DEF Others
  <2>2. /\ Len(t) = 2 /\ 1 \in 1 .. Len(s) /\ 2 \in 1 .. Len(s) /\ 3 \in 1 .. Len(s)
        /\ 1 \in 1 .. Len(s) - 1 /\ 2 \in 1 .. Len(s) - 1 /\ 1 + 1 = 2 /\ 2 + 1 = 3
    BY <1>4, <2>1
  <2>3. FlattenSeq(t) = Join(t[1], t[2])
    BY <1>3, <2>2 DEF Flat2
  <2>4. s[1] \in Buffer /\ s[2] \in Buffer /\ s[3] \in Buffer /\ t[1] = s[2] /\ t[2] = s[3]
    BY <2>1, <2>2
  <2> QED
    BY <2>1, <2>3, <2>4 DEF Flat3
<1> QED
  BY <1>1, <1>2, <1>3, <1>4

LEMMA AsBuffers ==
  ASSUME NEW n \in Nat, NEW s \in [1 .. n -> Buffer]
  PROVE  s \in Buffers /\ Len(s) = n
BY DEF Buffers

-----------------------------------------------------------------------------
(***************************************************************************)
(* Acks.                                                                   *)
(***************************************************************************)
LEMMA NumberLess ==
  \A n : (n \in Number /\ n # 0) => n - 1 \in Number
<1>1. ASSUME NEW n \in Number, n # 0 PROVE n - 1 \in Number
  <2> DEFINE a == n \div 8
             b == (n - 1) \div 8
  <2>1. n \in Nat /\ a < FourDigits /\ FourDigits \in Nat
    BY DigitsNat DEF Number
  <2>2. n - 1 \in Nat /\ b <= a /\ a \in Nat /\ b \in Nat
    BY <1>1, <2>1
  <2> HIDE DEF a, b
  <2>3. b < FourDigits
    BY <2>1, <2>2
  <2> QED
    BY <2>2, <2>3 DEF Number, b
<1> QED
  BY <1>1

LEMMA SmallNumbers == 0 \in Number /\ 1 \in Number /\ 1024 \in Number
<1>1. 0 \in Short /\ 1 \in Short /\ 1024 \in Short
  BY DEF Short
<1> QED
  BY <1>1, SmallNumber

\* A range, as its gap and its length.
RangeBytes(g, l) == Join(EncodeVlu(g), EncodeVlu(l))

LEMMA RangeBytesIn ==
  \A g, l : (g \in Number /\ l \in Number) =>
     RangeBytes(g, l) \in Buffer /\ Size(RangeBytes(g, l)) \in 2 .. 10
<1>1. ASSUME NEW g \in Number, NEW l \in Number
      PROVE  RangeBytes(g, l) \in Buffer /\ Size(RangeBytes(g, l)) \in 2 .. 10
  <2> DEFINE a == EncodeVlu(g)
             b == EncodeVlu(l)
  <2>1. a \in Buffer /\ b \in Buffer /\ Size(a) \in 1 .. 5 /\ Size(b) \in 1 .. 5
    BY VluIn
  <2> HIDE DEF a, b
  <2>2. Join(a, b) \in Buffer /\ Size(Join(a, b)) = Size(a) + Size(b)
    BY <2>1, JoinIn, JoinSize
  <2>3. Size(Join(a, b)) \in 2 .. 10
    BY <2>1, <2>2
  <2> QED
    BY <2>2, <2>3 DEF a, b, RangeBytes
<1> QED
  BY <1>1

LEMMA RangesStep ==
  ASSUME NEW c \in Nat, NEW g \in Number, NEW l \in Number, NEW s \in Buffer
  PROVE  DecodeRanges[<<c, Join(RangeBytes(g, l), s)>>]
           = <<[pos |-> c + g + 1, len |-> l + 1]>> \o DecodeRanges[<<(c + g + 1) + (l + 1), s>>]
<1> DEFINE b2 == Join(EncodeVlu(l), s)
           b1 == Join(EncodeVlu(g), b2)
           b == Join(RangeBytes(g, l), s)
<1>1. EncodeVlu(g) \in Buffer /\ EncodeVlu(l) \in Buffer /\ Size(EncodeVlu(g)) \in 1 .. 5
  BY VluIn
<1>2. b = b1
  BY <1>1, JoinAssoc DEF RangeBytes
<1>3. b2 \in Buffer /\ DecodeVlu(b2) = Got(l, s)
  BY <1>1, JoinIn, VluBack
<1> HIDE DEF b2
<1>4. b1 \in Buffer /\ DecodeVlu(b1) = Got(g, b2)
  BY <1>1, <1>3, JoinIn, VluBack
<1>5. b1 # <<>>
  <2>1. Size(b1) = Size(EncodeVlu(g)) + Size(b2) /\ Size(b2) \in Nat
    BY <1>1, <1>3, JoinSize, SizeNat
  <2>2. Size(b1) # 0
    BY <1>1, <2>1
  <2> QED
    BY <1>4, <2>2, NilFacts DEF Nil
<1> HIDE DEF b1, b
<1>6. /\ DecodeVlu(b).value = g /\ DecodeVlu(b).rest = b2
      /\ DecodeVlu(b2).value = l /\ DecodeVlu(b2).rest = s /\ b \in Buffer /\ b # <<>>
  BY <1>2, <1>3, <1>4, <1>5, GotFields
<1>7. DecodeRanges[<<c, b>>] =
        LET r == [pos |-> c + g + 1, len |-> l + 1]
        IN  <<r>> \o DecodeRanges[<<r.pos + r.len, s>>]
  BY <1>6, DecodeRangesIs
<1> QED
  BY <1>7 DEF b

LEMMA RangesEnd ==
  \A c : c \in Nat => DecodeRanges[<<c, Nil>>] = <<>>
<1>1. ASSUME NEW c \in Nat PROVE DecodeRanges[<<c, Nil>>] = <<>>
  <2>1. Nil \in Buffer /\ Nil = <<>>
    BY NilFacts DEF Nil
  <2> QED
    BY <2>1, DecodeRangesIs
<1> QED
  BY <1>1

\* The ranges that are written are read.
LEMMA RangesBack ==
  ASSUME NEW c \in Nat, NEW ranges \in SomeRanges(c)
  PROVE  /\ EncodeRanges(c, ranges) \in Buffer /\ Size(EncodeRanges(c, ranges)) <= 20
         /\ DecodeRanges[<<c + 1, EncodeRanges(c, ranges)>>] = ranges
<1> DEFINE f == [i \in DOMAIN ranges |->
                   EncodeVlu(ranges[i].pos - Cursor(c, ranges, i) - 1) \o EncodeVlu(ranges[i].len - 1)]
<1>1. EncodeRanges(c, ranges) = FlattenSeq(f)
  BY DEF EncodeRanges
<1>2. CASE ranges = <<>>
  <2>1. f \in [1 .. 0 -> Buffer]
    BY <1>2
  <2> HIDE DEF f
  <2>2. f \in Buffers /\ Len(f) = 0
    BY <2>1, AsBuffers
  <2>3. FlattenSeq(f) = Nil
    BY <2>2, FlatFew
  <2> QED
    BY <1>1, <1>2, <2>3, NilFacts, RangesEnd
<1>3. ASSUME NEW gap \in Numbers \ {0}, NEW len \in Numbers \ {0}
      PROVE  /\ gap \in Nat /\ len \in Nat /\ gap - 1 \in Number /\ len - 1 \in Number
  <2>1. gap \in Number /\ len \in Number /\ gap # 0 /\ len # 0
    BY NumbersAssumption DEF Number
  <2> QED
    BY <2>1, NumberLess, NumberNat
<1>4. ASSUME NEW gap \in Numbers \ {0}, NEW len \in Numbers \ {0},
             ranges = <<[pos |-> c + 1 + gap, len |-> len]>>
      PROVE  /\ EncodeRanges(c, ranges) \in Buffer /\ Size(EncodeRanges(c, ranges)) <= 20
             /\ DecodeRanges[<<c + 1, EncodeRanges(c, ranges)>>] = ranges
  <2> DEFINE e == RangeBytes(gap - 1, len - 1)
  <2>1. gap \in Nat /\ len \in Nat /\ gap - 1 \in Number /\ len - 1 \in Number
    BY <1>3
  <2>2. e \in Buffer /\ Size(e) \in 2 .. 10
    BY <2>1, RangeBytesIn
  <2>3. f = [i \in 1 .. 1 |-> e]
    <3>1. DOMAIN ranges = 1 .. 1 /\ ranges[1].pos = c + 1 + gap /\ ranges[1].len = len
      BY <1>4
    <3>2. ranges[1].pos - Cursor(c, ranges, 1) - 1 = gap - 1
      BY <2>1, <3>1 DEF Cursor
    <3>3. \A i \in 1 .. 1 : i = 1
      OBVIOUS
    <3> QED
      BY <3>1, <3>2, <3>3 DEF RangeBytes, Join
  <2> HIDE DEF f, e
  <2>4. f \in [1 .. 1 -> Buffer] /\ f[1] = e
    BY <2>2, <2>3
  <2>5. f \in Buffers /\ Len(f) = 1
    BY <2>4, AsBuffers
  <2>6. FlattenSeq(f) = e
    BY <2>4, <2>5, FlatFew DEF Flat1
  <2>7. Join(e, Nil) = e
    BY <2>2, JoinNil
  <2>8. DecodeRanges[<<c + 1, Join(e, Nil)>>]
          = <<[pos |-> c + 1 + (gap - 1) + 1, len |-> (len - 1) + 1]>>
              \o DecodeRanges[<<(c + 1 + (gap - 1) + 1) + ((len - 1) + 1), Nil>>]
    <3> DEFINE k == c + 1
               g == gap - 1
               l == len - 1
    <3>1. k \in Nat /\ g \in Number /\ l \in Number /\ e = RangeBytes(g, l)
      BY <2>1 DEF e
    <3> HIDE DEF k, g, l
    <3>2. DecodeRanges[<<k, Join(e, Nil)>>]
            = <<[pos |-> k + g + 1, len |-> l + 1]>> \o DecodeRanges[<<(k + g + 1) + (l + 1), Nil>>]
      BY <3>1, NilFacts, RangesStep, ZenonT(60)
    <3> QED
      BY <3>2, Zenon DEF k, g, l
  <2>9. /\ c + 1 + (gap - 1) + 1 = c + 1 + gap /\ (len - 1) + 1 = len
        /\ (c + 1 + (gap - 1) + 1) + ((len - 1) + 1) \in Nat
    BY <2>1
  <2>10. DecodeRanges[<<(c + 1 + (gap - 1) + 1) + ((len - 1) + 1), Nil>>] = <<>>
    BY <2>9, RangesEnd
  <2>11. DecodeRanges[<<c + 1, e>>] = <<[pos |-> c + 1 + gap, len |-> len]>>
    <3> DEFINE r == [pos |-> c + 1 + gap, len |-> len]
    <3>1. DecodeRanges[<<c + 1, e>>] = <<r>> \o <<>>
      BY <2>7, <2>8, <2>9, <2>10
    <3> HIDE DEF r
    <3>2. <<r>> \o <<>> = <<r>>
      OBVIOUS
    <3> QED
      BY <3>1, <3>2 DEF r
  <2> QED
    BY <1>1, <1>4, <2>2, <2>6, <2>11
<1>5. ASSUME NEW gap \in Numbers \ {0}, NEW len \in Numbers \ {0}, NEW r,
             r = [pos |-> c + 1 + gap, len |-> len],
             ranges = <<r, [pos |-> r.pos + r.len + 1, len |-> 1]>>
      PROVE  /\ EncodeRanges(c, ranges) \in Buffer /\ Size(EncodeRanges(c, ranges)) <= 20
             /\ DecodeRanges[<<c + 1, EncodeRanges(c, ranges)>>] = ranges
  <2> DEFINE e == RangeBytes(gap - 1, len - 1)
             z == RangeBytes(0, 0)
             n == c + 1 + gap + len
             q == [pos |-> n + 1, len |-> 1]
  <2>1. gap \in Nat /\ len \in Nat /\ gap - 1 \in Number /\ len - 1 \in Number /\ 0 \in Number
    BY <1>3, SmallNumbers
  <2>2. e \in Buffer /\ Size(e) \in 2 .. 10 /\ z \in Buffer /\ Size(z) \in 2 .. 10
    BY <2>1, RangeBytesIn
  <2>3. r.pos = c + 1 + gap /\ r.len = len /\ ranges = <<r, q>> /\ n \in Nat
    BY <1>5, <2>1
  <2>4. f \in [1 .. 2 -> Buffer] /\ f[1] = e /\ f[2] = z
    <3>1. DOMAIN ranges = 1 .. 2 /\ ranges[1] = r /\ ranges[2] = q /\ q.pos = n + 1 /\ q.len = 1
      BY <2>3
    <3>2. ranges[1].pos - Cursor(c, ranges, 1) - 1 = gap - 1
      BY <2>1, <2>3, <3>1 DEF Cursor
    <3>3. ranges[2].pos - Cursor(c, ranges, 2) - 1 = 0 /\ ranges[2].len - 1 = 0
      <4>1. Cursor(c, ranges, 2) = ranges[1].pos + ranges[1].len
        BY DEF Cursor
      <4>2. Cursor(c, ranges, 2) = n
        BY <2>1, <2>3, <3>1, <4>1
      <4> QED
        BY <2>3, <3>1, <4>2
    <3>4. \A i \in 1 .. 2 : i = 1 \/ i = 2
      OBVIOUS
    <3>5. f[1] = e
      <4>1. 1 \in DOMAIN ranges /\ ranges[1].len = len
        BY <2>3, <3>1
      <4>2. f[1] = EncodeVlu(ranges[1].pos - Cursor(c, ranges, 1) - 1) \o EncodeVlu(ranges[1].len - 1)
        BY <4>1, Zenon
      <4> HIDE DEF f
      <4>3. f[1] = EncodeVlu(gap - 1) \o EncodeVlu(len - 1)
        BY <3>2, <4>1, <4>2
      <4> QED
        BY <4>3 DEF RangeBytes, Join
    <3>6. f[2] = z
      BY <3>1, <3>3, SMTT(30) DEF RangeBytes, Join
    <3>7. f = [i \in 1 .. 2 |-> f[i]]
      BY <3>1
    <3> HIDE DEF f, e, z
    <3> QED
      BY <2>2, <3>4, <3>5, <3>6, <3>7
  <2> HIDE DEF f, e, z, q
  <2>5. f \in Buffers /\ Len(f) = 2
    BY <2>4, AsBuffers
  <2>6. FlattenSeq(f) = Join(e, z)
    BY <2>4, <2>5, FlatFew DEF Flat2
  <2>7. DecodeRanges[<<c + 1, Join(e, z)>>]
          = <<[pos |-> c + 1 + (gap - 1) + 1, len |-> (len - 1) + 1]>>
              \o DecodeRanges[<<(c + 1 + (gap - 1) + 1) + ((len - 1) + 1), z>>]
    <3> DEFINE k == c + 1
               g == gap - 1
               l == len - 1
    <3>1. k \in Nat /\ g \in Number /\ l \in Number /\ e = RangeBytes(g, l)
      BY <2>1 DEF e
    <3> HIDE DEF k, g, l
    <3>2. DecodeRanges[<<k, Join(e, z)>>]
            = <<[pos |-> k + g + 1, len |-> l + 1]>> \o DecodeRanges[<<(k + g + 1) + (l + 1), z>>]
      BY <2>2, <3>1, RangesStep
    <3> QED
      BY <3>2, Zenon DEF k, g, l
  <2>8. /\ c + 1 + (gap - 1) + 1 = c + 1 + gap /\ (len - 1) + 1 = len
        /\ (c + 1 + (gap - 1) + 1) + ((len - 1) + 1) = n
    BY <2>1
  <2>9. DecodeRanges[<<c + 1, Join(e, z)>>] = <<r>> \o DecodeRanges[<<n, z>>]
    BY <1>5, <2>7, <2>8
  <2>10. DecodeRanges[<<n, Join(z, Nil)>>]
           = <<[pos |-> n + 0 + 1, len |-> 0 + 1]>> \o DecodeRanges[<<(n + 0 + 1) + (0 + 1), Nil>>]
    <3> DEFINE o == 0
    <3>1. z = RangeBytes(o, o) /\ o \in Number
      BY <2>1 DEF z
    <3>2. Nil \in Buffer
      BY NilFacts
    <3> HIDE DEF n, o
    <3>3. DecodeRanges[<<n, Join(z, Nil)>>]
            = <<[pos |-> n + o + 1, len |-> o + 1]>> \o DecodeRanges[<<(n + o + 1) + (o + 1), Nil>>]
      BY <2>3, <3>1, <3>2, RangesStep
    <3> QED
      BY <3>3, Zenon DEF o
  <2>11. n + 0 + 1 = n + 1 /\ 0 + 1 = 1 /\ (n + 0 + 1) + (0 + 1) \in Nat
    BY <2>3
  <2>12. DecodeRanges[<<(n + 0 + 1) + (0 + 1), Nil>>] = <<>>
    BY <2>11, RangesEnd
  <2>13. Join(z, Nil) = z
    BY <2>2, JoinNil
  <2>14. DecodeRanges[<<n, z>>] = <<q>> \o <<>>
    <3> HIDE DEF n
    <3> QED
      BY <2>10, <2>11, <2>12, <2>13 DEF q
  <2>15. <<r>> \o (<<q>> \o <<>>) = <<r, q>>
    BY TwoOf
  <2>16. DecodeRanges[<<c + 1, Join(e, z)>>] = <<r, q>>
    BY <2>9, <2>14, <2>15
  <2>17. Join(e, z) \in Buffer /\ Size(Join(e, z)) <= 20
    BY <2>2, JoinIn, JoinSize
  <2> QED
    BY <1>1, <2>3, <2>6, <2>16, <2>17
<1> QED
  BY <1>2, <1>4, <1>5 DEF SomeRanges

-----------------------------------------------------------------------------
(***************************************************************************)
(* Three numbers in front of a chunk's data.                               *)
(***************************************************************************)
LEMMA ThreeNumbers ==
  \A f, n, o, s :
    (f \in Number /\ n \in Number /\ o \in Number /\ s \in Buffer) =>
      LET b == Join(EncodeVlu(f), Join(EncodeVlu(n), Join(EncodeVlu(o), s)))
      IN  /\ DecodeVlu(b).value = f /\ DecodeVlu(DecodeVlu(b).rest).value = n
          /\ DecodeVlu(DecodeVlu(DecodeVlu(b).rest).rest).value = o
          /\ DecodeVlu(DecodeVlu(DecodeVlu(b).rest).rest).rest = s
<1>1. ASSUME NEW f \in Number, NEW n \in Number, NEW o \in Number, NEW s \in Buffer
      PROVE  LET b == Join(EncodeVlu(f), Join(EncodeVlu(n), Join(EncodeVlu(o), s)))
             IN  /\ DecodeVlu(b).value = f /\ DecodeVlu(DecodeVlu(b).rest).value = n
                 /\ DecodeVlu(DecodeVlu(DecodeVlu(b).rest).rest).value = o
                 /\ DecodeVlu(DecodeVlu(DecodeVlu(b).rest).rest).rest = s
  <2> DEFINE b1 == Join(EncodeVlu(o), s)
             b2 == Join(EncodeVlu(n), b1)
             b3 == Join(EncodeVlu(f), b2)
  <2>1. EncodeVlu(f) \in Buffer /\ EncodeVlu(n) \in Buffer /\ EncodeVlu(o) \in Buffer
    BY VluIn
  <2>2. b1 \in Buffer /\ DecodeVlu(b1) = Got(o, s)
    BY <2>1, JoinIn, VluBack
  <2> HIDE DEF b1
  <2>3. b2 \in Buffer /\ DecodeVlu(b2) = Got(n, b1)
    BY <2>1, <2>2, JoinIn, VluBack
  <2> HIDE DEF b2
  <2>4. DecodeVlu(b3) = Got(f, b2)
    BY <2>1, <2>3, VluBack
  <2> HIDE DEF b3
  <2>5. /\ DecodeVlu(b3).value = f /\ DecodeVlu(DecodeVlu(b3).rest).value = n
        /\ DecodeVlu(DecodeVlu(DecodeVlu(b3).rest).rest).value = o
        /\ DecodeVlu(DecodeVlu(DecodeVlu(b3).rest).rest).rest = s
    BY <2>2, <2>3, <2>4, GotFields
  <2> QED
    BY <2>5 DEF b1, b2, b3
<1> QED
  BY <1>1

AckFields(m) ==
  /\ m.flowid \in Number /\ m.cumAck \in Number /\ m.bufAvail \div 1024 \in Number

LEMMA AckHeadRead ==
  ASSUME NEW m, AckFields(m), NEW s \in Buffer
  PROVE  LET b == Join(EncodeAckHead(m), s)
         IN  /\ b \in Buffer /\ Size(b) <= 15 + Size(s)
             /\ DecodeVlu(b).value = m.flowid
             /\ DecodeVlu(DecodeVlu(b).rest).value = m.bufAvail \div 1024
             /\ DecodeVlu(DecodeVlu(DecodeVlu(b).rest).rest).value = m.cumAck
             /\ DecodeVlu(DecodeVlu(DecodeVlu(b).rest).rest).rest = s
<1> DEFINE w == m.bufAvail \div 1024
           f == EncodeVlu(m.flowid)
           v == EncodeVlu(w)
           c == EncodeVlu(m.cumAck)
           b == Join(EncodeAckHead(m), s)
           p == Join(f, Join(v, Join(c, s)))
<1>1. m.flowid \in Number /\ m.cumAck \in Number /\ w \in Number
  BY DEF AckFields
<1>2. EncodeAckHead(m) = Join(Join(f, v), c)
  BY Zenon DEF EncodeAckHead, Join
<1> HIDE DEF w
<1>3. /\ f \in Buffer /\ v \in Buffer /\ c \in Buffer
      /\ Size(f) \in 1 .. 5 /\ Size(v) \in 1 .. 5 /\ Size(c) \in 1 .. 5
  BY <1>1, VluIn
<1>4. /\ DecodeVlu(p).value = m.flowid /\ DecodeVlu(DecodeVlu(p).rest).value = w
      /\ DecodeVlu(DecodeVlu(DecodeVlu(p).rest).rest).value = m.cumAck
      /\ DecodeVlu(DecodeVlu(DecodeVlu(p).rest).rest).rest = s
  BY <1>1, ThreeNumbers
<1> HIDE DEF f, v, c
<1>5. b = p
  BY <1>2, <1>3, Chain4
<1>6. p \in Buffer /\ Size(p) <= 15 + Size(s)
  <2>1. Join(c, s) \in Buffer /\ Size(Join(c, s)) = Size(c) + Size(s)
    BY <1>3, JoinIn, JoinSize
  <2>2. Join(v, Join(c, s)) \in Buffer /\ Size(Join(v, Join(c, s))) = Size(v) + Size(Join(c, s))
    BY <1>3, <2>1, JoinIn, JoinSize
  <2>3. p \in Buffer /\ Size(p) = Size(f) + Size(Join(v, Join(c, s)))
    BY <1>3, <2>2, JoinIn, JoinSize
  <2>4. Size(s) \in Nat
    BY SizeNat
  <2> HIDE DEF p
  <2> QED
    BY <1>3, <2>1, <2>2, <2>3, <2>4
<1> HIDE DEF p
<1> QED
  BY <1>4, <1>5, <1>6 DEF b, w

LEMMA RangeAckBack ==
  ASSUME NEW m, AckFields(m), m.ranges \in SomeRanges(m.cumAck)
  PROVE  /\ EncodeRangeAck(m) \in Buffer /\ Size(EncodeRangeAck(m)) \in Short
         /\ DecodeAck("rangeack", EncodeRangeAck(m))
              = [type |-> "rangeack", flowid |-> m.flowid, bufAvail |-> (m.bufAvail \div 1024) * 1024,
                 cumAck |-> m.cumAck, ranges |-> m.ranges]
<1> DEFINE s == EncodeRanges(m.cumAck, m.ranges)
           b == Join(EncodeAckHead(m), s)
<1>0. m.cumAck \in Nat
  BY NumberNat DEF AckFields
<1>1. s \in Buffer /\ Size(s) <= 20 /\ DecodeRanges[<<m.cumAck + 1, s>>] = m.ranges
  BY <1>0, RangesBack
<1>2. EncodeRangeAck(m) = b
  BY Zenon DEF EncodeRangeAck, Join
<1> HIDE DEF s
<1>3. /\ b \in Buffer /\ Size(b) <= 15 + Size(s)
      /\ DecodeVlu(b).value = m.flowid
      /\ DecodeVlu(DecodeVlu(b).rest).value = m.bufAvail \div 1024
      /\ DecodeVlu(DecodeVlu(DecodeVlu(b).rest).rest).value = m.cumAck
      /\ DecodeVlu(DecodeVlu(DecodeVlu(b).rest).rest).rest = s
  BY <1>1, AckHeadRead
<1> HIDE DEF b
<1>4. Size(b) \in Short
  <2>1. Size(b) \in Nat /\ Size(s) \in Nat
    BY <1>1, <1>3, SizeNat
  <2> QED
    BY <1>1, <1>3, <2>1 DEF Short
<1>5. DecodeAck("rangeack", b)
        = [type |-> "rangeack", flowid |-> m.flowid, bufAvail |-> (m.bufAvail \div 1024) * 1024,
           cumAck |-> m.cumAck, ranges |-> DecodeRanges[<<m.cumAck + 1, s>>]]
  BY <1>3 DEF DecodeAck
<1> QED
  BY <1>1, <1>2, <1>3, <1>4, <1>5

LEMMA BitmapAckBack ==
  ASSUME NEW m, AckFields(m), m.bitmap \in Buffer, Size(m.bitmap) <= 2000
  PROVE  /\ EncodeBitmapAck(m) \in Buffer /\ Size(EncodeBitmapAck(m)) \in Short
         /\ DecodeAck("bitmapack", EncodeBitmapAck(m))
              = [type |-> "rangeack", flowid |-> m.flowid, bufAvail |-> (m.bufAvail \div 1024) * 1024,
                 cumAck |-> m.cumAck, ranges |-> <<>>]
<1> DEFINE s == m.bitmap
           b == Join(EncodeAckHead(m), s)
<1>2. EncodeBitmapAck(m) = b
  BY DEF EncodeBitmapAck, Join
<1>3. /\ b \in Buffer /\ Size(b) <= 15 + Size(s)
      /\ DecodeVlu(b).value = m.flowid
      /\ DecodeVlu(DecodeVlu(b).rest).value = m.bufAvail \div 1024
      /\ DecodeVlu(DecodeVlu(DecodeVlu(b).rest).rest).value = m.cumAck
  BY AckHeadRead
<1> HIDE DEF b
<1>4. Size(b) \in Short
  <2>1. Size(b) \in Nat /\ Size(s) \in Nat
    BY <1>3, SizeNat
  <2> QED
    BY <1>3, <2>1 DEF Short
<1>5. DecodeAck("bitmapack", b)
        = [type |-> "rangeack", flowid |-> m.flowid, bufAvail |-> (m.bufAvail \div 1024) * 1024,
           cumAck |-> m.cumAck, ranges |-> <<>>]
  BY <1>3 DEF DecodeAck
<1> QED
  BY <1>2, <1>3, <1>4, <1>5

LEMMA ProbeBack ==
  ASSUME NEW n \in Number
  PROVE  /\ EncodeVlu(n) \in Buffer /\ Size(EncodeVlu(n)) \in Short
         /\ DecodeVlu(EncodeVlu(n)).value = n
<1>1. EncodeVlu(n) \in Buffer /\ Size(EncodeVlu(n)) \in 1 .. 5
  BY VluIn
<1>2. Join(EncodeVlu(n), Nil) = EncodeVlu(n)
  BY <1>1, JoinNil
<1>3. DecodeVlu(Join(EncodeVlu(n), Nil)) = Got(n, Nil)
  BY NilFacts, VluBack
<1>4. DecodeVlu(EncodeVlu(n)).value = n
  BY <1>2, <1>3, GotFields
<1> QED
  BY <1>1, <1>4 DEF Short

LEMMA ExceptionBack ==
  ASSUME NEW m, m.flowid \in Number, m.exception \in Number
  PROVE  /\ EncodeException(m) \in Buffer /\ Size(EncodeException(m)) \in Short
         /\ DecodeException(EncodeException(m))
              = [type |-> "exception", flowid |-> m.flowid, exception |-> m.exception]
<1> DEFINE f == EncodeVlu(m.flowid)
           x == EncodeVlu(m.exception)
           b == Join(f, x)
<1>1. f \in Buffer /\ Size(f) \in 1 .. 5 /\ x \in Buffer /\ Size(x) \in 1 .. 5
  BY VluIn
<1>2. DecodeVlu(b) = Got(m.flowid, x) /\ DecodeVlu(x).value = m.exception
  <2>1. DecodeVlu(x).value = m.exception
    BY ProbeBack
  <2> HIDE DEF x
  <2> QED
    BY <1>1, <2>1, VluBack
<1>3. EncodeException(m) = b
  BY Zenon DEF EncodeException, Join
<1> HIDE DEF f, x
<1>4. b \in Buffer /\ Size(b) = Size(f) + Size(x)
  BY <1>1, JoinIn, JoinSize
<1> HIDE DEF b
<1>5. Size(b) \in Short
  BY <1>1, <1>4 DEF Short
<1>6. DecodeVlu(b).value = m.flowid /\ DecodeVlu(b).rest = x
  BY <1>2, GotFields
<1> QED
  BY <1>2, <1>3, <1>4, <1>5, <1>6 DEF DecodeException

LEMMA OptionCut ==
  \A t, c, s : (t \in Byte /\ c \in Buffer /\ s \in Buffer) =>
    Part(Join(One(t), Join(c, s)), 2, 1 + Size(c)) = c
<1>1. ASSUME NEW t \in Byte, NEW c \in Buffer, NEW s \in Buffer
      PROVE  Part(Join(One(t), Join(c, s)), 2, 1 + Size(c)) = c
  <2> DEFINE a == One(t)
             m == 2
             n == 1 + Size(c)
  <2>1. a \in Buffer /\ Size(a) = 1
    BY OneIn
  <2> HIDE DEF a
  <2>2. Size(c) \in Nat
    BY SizeNat
  <2>3. m = Size(a) + 1 /\ n = Size(a) + Size(c)
    BY <2>1, <2>2
  <2> HIDE DEF m, n
  <2>4. Part(Join(a, Join(c, s)), m, n) = c
    BY <2>1, <2>3, PartJoin
  <2> QED
    BY <2>4 DEF a, m, n
<1> QED
  BY <1>1

LEMMA EndpointBack ==
  ASSUME NEW m, m.edpType \in Byte, m.edp \in Buffer, Size(m.edp) <= 2000, NEW s \in Buffer
  PROVE  /\ EncodeEndpoint(m) \in Buffer /\ Size(EncodeEndpoint(m)) <= 2020
         /\ DecodeEndpoint(Join(EncodeEndpoint(m), s))
              = [edpType |-> m.edpType, edp |-> m.edp, rest |-> s]
<1> DEFINE t == m.edpType
           c == m.edp
           n == 1 + Size(c)
           w == GetVluSize(n) + n
           v == EncodeVlu(w)
           o == Option(t, c)
           e == EncodeEndpoint(m)
           b == Join(o, s)
<1>1. Size(c) \in Nat /\ Size(c) \in Short
  BY SizeNat DEF Short
<1>2. One(t) \in Buffer /\ EncodeVlu(n) \in Buffer
  BY <1>1, OneIn, OptionBody, VluIn
<1>3. Size(Join(One(t), c)) = n
  BY <1>1, OptionBody
<1>4. o = Join(EncodeVlu(n), Join(One(t), c))
  BY <1>3, PrefixedIs DEF Option
<1>5. w \in Number
  <2>1. w = 2 + Size(c)
    BY <1>1 DEF GetVluSize
  <2>2. w \in Short
    BY <1>1, <2>1 DEF Short
  <2> QED
    BY <2>2, SmallNumber
<1>6. e = Join(Join(Join(v, EncodeVlu(n)), One(t)), c)
  BY DEF EncodeEndpoint, Join, One, Size
<1>7. v \in Buffer /\ Size(v) \in 1 .. 5
  BY <1>5, VluIn
<1>8. o \in Buffer /\ Size(o) \in Size(c) + 2 .. Size(c) + 6
  BY <1>1, OptionIn
<1>9. /\ DecodeVlu(b) = Got(n, Join(One(t), Join(c, s)))
      /\ b \in Buffer
      /\ From(Join(One(t), Join(c, s)), n + 1) = s
      /\ First(Join(One(t), Join(c, s))) = t
  BY <1>1, OptionRead
<1>10. Part(Join(One(t), Join(c, s)), 2, n) = c
  BY OptionCut
<1>11. DecodeVlu(Join(v, b)) = Got(w, b)
  <2> HIDE DEF w, b
  <2> QED
    BY <1>5, <1>9, VluBack
<1> HIDE DEF n, w, v
<1>12. e = Join(v, o)
  BY <1>2, <1>4, <1>6, <1>7, Chain4
<1> HIDE DEF o, e
<1>13. Join(e, s) = Join(v, b)
  BY <1>7, <1>8, <1>12, JoinAssoc
<1> HIDE DEF b
<1>14. e \in Buffer /\ Size(e) <= 2020
  <2>1. e \in Buffer /\ Size(e) = Size(v) + Size(o)
    BY <1>7, <1>8, <1>12, JoinIn, JoinSize
  <2> QED
    BY <1>1, <1>7, <1>8, <2>1
<1>15. DecodeEndpoint(Join(v, b)) = [edpType |-> t, edp |-> c, rest |-> s]
  <2> DEFINE r == Join(One(t), Join(c, s))
  <2> HIDE DEF r
  <2>1. DecodeVlu(Join(v, b)).rest = b
    BY <1>11, GotFields
  <2>2. DecodeVlu(b).value = n /\ DecodeVlu(b).rest = r
    BY <1>9, GotFields DEF r
  <2>3. First(r) = t /\ Part(r, 2, n) = c /\ From(r, n + 1) = s
    BY <1>9, <1>10 DEF r
  <2>4. \A x : DecodeEndpoint(x)
          = [edpType |-> First(DecodeVlu(DecodeVlu(x).rest).rest),
             edp     |-> Part(DecodeVlu(DecodeVlu(x).rest).rest, 2, DecodeVlu(DecodeVlu(x).rest).value),
             rest    |-> From(DecodeVlu(DecodeVlu(x).rest).rest, DecodeVlu(DecodeVlu(x).rest).value + 1)]
    BY DEF DecodeEndpoint, First, Part
  <2>5. DecodeEndpoint(Join(v, b)) = [edpType |-> First(r), edp |-> Part(r, 2, n), rest |-> From(r, n + 1)]
    BY <2>1, <2>2, <2>4
  <2> QED
    BY <2>3, <2>5
<1> QED
  BY <1>13, <1>14, <1>15 DEF e

LEMMA AddressIs ==
  ASSUME NEW a \in Addresses
  PROVE  /\ a = [ip |-> a.ip, port |-> a.port] /\ a.ip \in Buffer
         /\ Size(a.ip) = 4 \/ Size(a.ip) = 16
         /\ a.port \in Short
<1>1. a = [ip |-> a.ip, port |-> a.port] /\ a.ip \in {SomeBytes(4), SomeBytes(16)} /\ a.port \in {80, 65535}
  BY DEF Addresses
<1>2. \A n \in {4, 16} : SomeBytes(n) \in Buffer /\ Size(SomeBytes(n)) = n
  BY Bytes255
<1>3. a.port \in Short
  BY <1>1 DEF Short
<1> QED
  BY <1>1, <1>2, <1>3

-----------------------------------------------------------------------------
(***************************************************************************)
(* Addresses.                                                              *)
(***************************************************************************)
\* What an address is read from: the parts of it, and where they begin.
AddressAt(b, n) ==
  [value |-> [ip |-> Part(b, 2, Min({n + 1, Size(b)})), port |-> FromWord(From(b, n + 2))],
   rest  |-> From(b, n + 4)]

LEMMA DecodeAddressAt ==
  \A b : DecodeAddress(b) = AddressAt(b, IF First(b) < 128 THEN 4 ELSE 16)
BY DEF DecodeAddress, AddressAt, First, Part, Size

LEMMA AddressParts ==
  ASSUME NEW f \in Byte, NEW c \in Buffer, NEW p \in Short, NEW s \in Buffer
  PROVE  LET b == Join(One(f), Join(c, Join(Word(p), s)))
         IN  /\ b \in Buffer /\ First(b) = f
             /\ AddressAt(b, Size(c)) = Got([ip |-> c, port |-> p], s)
<1> DEFINE w == Word(p)
           r == Join(w, s)
           q == Join(c, r)
           b == Join(One(f), q)
           n == Size(c)
<1>1. w \in Buffer /\ Size(w) = 2 /\ FromWord(r) = p
  BY WordFacts, FromWordJoin
<1> HIDE DEF w
<1>2. r \in Buffer /\ Size(r) = 2 + Size(s) /\ Size(s) \in Nat
  BY <1>1, JoinIn, JoinSize, SizeNat
<1>3. q \in Buffer /\ Size(q) = n + Size(r) /\ n \in Nat
  <2> HIDE DEF r
  <2> QED
    BY <1>2, JoinIn, JoinSize, SizeNat
<1>4. b \in Buffer /\ Size(b) = 1 + Size(q)
  <2> HIDE DEF q
  <2> QED
    BY <1>3, Put
<1>5. First(b) = f
  <2> HIDE DEF q
  <2> QED
    BY <1>3, OneFirst
<1>6. Part(b, 2, 1 + n) = c
  <2> HIDE DEF r
  <2> QED
    BY <1>2, OptionCut
<1>7. Min({n + 1, Size(b)}) = n + 1
  <2> DEFINE S == {n + 1, Size(b)}
  <2>1. S \in SUBSET Int /\ n + 1 \in S /\ \A y \in S : n + 1 <= y
    BY <1>2, <1>3, <1>4
  <2> HIDE DEF S
  <2>2. Min(S) = n + 1
    BY <2>1, MinIs
  <2> QED
    BY <2>2 DEF S
<1>8. From(b, n + 2) = r
  <2> DEFINE h == Join(One(f), c)
             m == n + 2
  <2>1. h \in Buffer /\ Size(h) = 1 + n
    BY Put
  <2>2. b = Join(h, r)
    <3> HIDE DEF r
    <3> QED
      BY <1>2, PutJoin
  <2>3. m = Size(h) + 1
    BY <2>1, <1>3
  <2> HIDE DEF h, r, b, m
  <2>4. From(Join(h, r), m) = r
    BY <1>2, <2>1, <2>3, FromJoin
  <2> QED
    BY <2>2, <2>4 DEF m
<1>9. From(b, n + 4) = s
  <2> DEFINE h == Join(One(f), Join(c, w))
             m == n + 4
  <2>1. Join(c, w) \in Buffer /\ Size(Join(c, w)) = n + 2
    BY <1>1, JoinIn, JoinSize
  <2>2. h \in Buffer /\ Size(h) = 3 + n
    <3> DEFINE g == Join(c, w)
    <3> HIDE DEF g
    <3>1. Join(One(f), g) \in Buffer /\ Size(Join(One(f), g)) = 1 + Size(g)
      BY <2>1, Put DEF g
    <3> QED
      BY <1>3, <2>1, <3>1 DEF g
  <2>3. Join(Join(c, w), s) = q
    BY <1>1, JoinAssoc
  <2>4. Join(h, s) = b
    <3> DEFINE g == Join(c, w)
    <3> HIDE DEF g
    <3>1. Join(Join(One(f), g), s) = Join(One(f), Join(g, s))
      BY <2>1, PutJoin DEF g
    <3> QED
      BY <2>3, <3>1 DEF g
  <2>5. m = Size(h) + 1
    BY <2>2, <1>3
  <2> HIDE DEF h, b, m
  <2>6. From(Join(h, s), m) = s
    BY <2>2, <2>5, FromJoin
  <2> QED
    BY <2>4, <2>6 DEF m
<1>10. Part(b, 2, n + 1) = c
  BY <1>3, <1>6
<1> HIDE DEF r, q, b, n
<1>11. AddressAt(b, n) = Got([ip |-> c, port |-> p], s)
  BY <1>1, <1>7, <1>8, <1>9, <1>10 DEF AddressAt, Got
<1> QED
  BY <1>4, <1>5, <1>11 DEF b, q, r, w, n

LEMMA AddressBack ==
  ASSUME NEW a \in Addresses, NEW s \in Buffer
  PROVE  /\ EncodeAddress(a) \in Buffer /\ Size(EncodeAddress(a)) \in 1 .. 20
         /\ DecodeAddress(Join(EncodeAddress(a), s)) = Got(a, s)
<1> DEFINE c == a.ip
           p == a.port
           f == IF Size(c) = 16 THEN 128 ELSE 0
           w == Word(p)
           e == EncodeAddress(a)
           b == Join(One(f), Join(c, Join(w, s)))
<1>1. /\ a = [ip |-> c, port |-> p] /\ c \in Buffer /\ p \in Short
      /\ Size(c) = 4 \/ Size(c) = 16
  BY AddressIs
<1>2. f \in Byte /\ Size(c) = IF f < 128 THEN 4 ELSE 16
  BY <1>1, ByteIs
<1>3. w \in Buffer /\ Size(w) = 2
  BY <1>1, WordFacts
<1>4. e = Join(Join(One(f), c), w)
  BY DEF EncodeAddress, Join, One, Size
<1> HIDE DEF c, p, f
<1>5. /\ b \in Buffer /\ First(b) = f
      /\ AddressAt(b, Size(c)) = Got([ip |-> c, port |-> p], s)
  BY <1>1, <1>2, AddressParts
<1> HIDE DEF w
<1>6. One(f) \in Buffer /\ Size(One(f)) = 1
  BY <1>2, OneIn
<1>7. e \in Buffer /\ Size(e) \in 1 .. 20
  <2>1. Join(One(f), c) \in Buffer /\ Size(Join(One(f), c)) = 1 + Size(c)
    BY <1>1, <1>2, Put
  <2> DEFINE g == Join(One(f), c)
  <2> HIDE DEF g
  <2>2. Join(g, w) \in Buffer /\ Size(Join(g, w)) = Size(g) + 2
    BY <1>3, <2>1, JoinIn, JoinSize DEF g
  <2>3. e = Join(g, w)
    BY <1>4 DEF g
  <2> HIDE DEF e
  <2> QED
    BY <1>1, <2>1, <2>2, <2>3 DEF g
<1>8. Join(Join(Join(One(f), c), w), s) = b
  BY <1>1, <1>3, <1>6, Chain4
<1> HIDE DEF e, b
<1>9. DecodeAddress(b) = AddressAt(b, Size(c))
  BY <1>2, <1>5, DecodeAddressAt
<1> QED
  BY <1>1, <1>4, <1>5, <1>7, <1>8, <1>9 DEF e

LEMMA Bytes4In ==
  \A b : b \in Bytes4 => b \in Buffer /\ Size(b) = 4
<1>1. /\ <<0, 0, 0, 1>> \in Buffer /\ Size(<<0, 0, 0, 1>>) = 4
      /\ <<255, 255, 255, 255>> \in Buffer /\ Size(<<255, 255, 255, 255>>) = 4
  <2>1. 0 \in Byte /\ 1 \in Byte /\ 255 \in Byte
    BY ByteIs
  <2>2. ASSUME NEW x \in Byte, NEW y \in Byte
        PROVE  <<x, x, x, y>> \in Buffer /\ Size(<<x, x, x, y>>) = 4
    <3> HIDE DEF Buffer
    <3>1. One(y) \in Buffer /\ Size(One(y)) = 1
      BY OneIn
    <3>2. <<x, y>> \in Buffer /\ Size(<<x, y>>) = 2
      BY <3>1, Put, Tuple2
    <3>3. <<x, x, y>> \in Buffer /\ Size(<<x, x, y>>) = 3
      BY <3>2, Put, Tuple3
    <3> QED
      BY <3>3, Put, Tuple4
  <2> QED
    BY <2>1, <2>2
<1> QED
  BY <1>1 DEF Bytes4

-----------------------------------------------------------------------------
(***************************************************************************)
(* The chunks of a handshake.                                              *)
(***************************************************************************)
LEMMA EndpointIn ==
  \A b : b \in Endpoint => b \in Buffer /\ Size(b) <= 2000
BY Bytes255 DEF Endpoint

\* The chunk m is read back from what it is written as.
StartsUp(m) ==
  /\ EncodeStartup(m) \in Buffer /\ Size(EncodeStartup(m)) \in Short
  /\ DecodeStartup(m.type, EncodeStartup(m)) = m

LEMMA IHelloBack ==
  ASSUME NEW m \in [type : {"ihello"}, edpType : {10, 15}, edp : Endpoint, tag : Bytes4]
  PROVE  StartsUp(m)
<1> DEFINE e == EncodeEndpoint(m)
           g == m.tag
           b == Join(e, g)
<1>1. /\ m = [type |-> "ihello", edpType |-> m.edpType, edp |-> m.edp, tag |-> g]
      /\ m.edpType \in {10, 15} /\ m.edp \in Endpoint /\ g \in Bytes4 /\ m.type = "ihello"
  OBVIOUS
<1>2. m.edpType \in Byte
  BY <1>1, ByteIs
<1>3. m.edp \in Buffer /\ Size(m.edp) <= 2000 /\ g \in Buffer /\ Size(g) = 4
  BY <1>1, EndpointIn, Bytes4In
<1>4. EncodeStartup(m) = b
  BY <1>1 DEF EncodeStartup, Join
<1> HIDE DEF g
<1>5. /\ e \in Buffer /\ Size(e) <= 2020
      /\ DecodeEndpoint(b) = [edpType |-> m.edpType, edp |-> m.edp, rest |-> g]
  BY <1>2, <1>3, EndpointBack
<1> HIDE DEF e
<1>6. b \in Buffer /\ Size(b) \in Short
  <2>1. b \in Buffer /\ Size(b) = Size(e) + Size(g) /\ Size(e) \in Nat
    BY <1>3, <1>5, JoinIn, JoinSize, SizeNat
  <2> HIDE DEF b
  <2> QED
    BY <1>3, <1>5, <2>1 DEF Short
<1> HIDE DEF b
<1>7. DecodeStartup("ihello", b) = DecodeHello("ihello", b)
  BY DEF DecodeStartup
<1>8. DecodeHello("ihello", b) = [type |-> "ihello", edpType |-> m.edpType, edp |-> m.edp, tag |-> g]
  BY <1>5 DEF DecodeHello
<1> QED
  BY <1>1, <1>4, <1>6, <1>7, <1>8 DEF StartsUp

LEMMA FIHelloBack ==
  ASSUME NEW m \in [type : {"fihello"}, edpType : {15}, edp : Endpoint, addr : Addresses,
                    tag : Bytes4]
  PROVE  StartsUp(m)
<1> DEFINE e == EncodeEndpoint(m)
           a == EncodeAddress(m.addr)
           g == m.tag
           s == Join(a, g)
           b == Join(e, s)
<1>1. /\ m = [type |-> "fihello", edpType |-> m.edpType, edp |-> m.edp, addr |-> m.addr, tag |-> g]
      /\ m.edpType = 15 /\ m.edp \in Endpoint /\ g \in Bytes4 /\ m.type = "fihello"
      /\ m.addr \in Addresses
  OBVIOUS
<1>2. m.edpType \in Byte
  BY <1>1, ByteIs
<1>3. m.edp \in Buffer /\ Size(m.edp) <= 2000 /\ g \in Buffer /\ Size(g) = 4
  BY <1>1, EndpointIn, Bytes4In
<1>4. EncodeStartup(m) = Join(Join(e, a), g)
  BY <1>1 DEF EncodeStartup, Join
<1> HIDE DEF g
<1>5. a \in Buffer /\ Size(a) \in 1 .. 20 /\ DecodeAddress(s) = Got(m.addr, g)
  BY <1>1, <1>3, AddressBack
<1> HIDE DEF a
<1>6. s \in Buffer /\ Size(s) = Size(a) + Size(g)
  BY <1>3, <1>5, JoinIn, JoinSize
<1> HIDE DEF s
<1>7. /\ e \in Buffer /\ Size(e) <= 2020
      /\ DecodeEndpoint(b) = [edpType |-> m.edpType, edp |-> m.edp, rest |-> s]
  BY <1>2, <1>3, <1>6, EndpointBack
<1> HIDE DEF e
<1>8. b \in Buffer /\ Size(b) \in Short
  <2>1. b \in Buffer /\ Size(b) = Size(e) + Size(s) /\ Size(e) \in Nat
    BY <1>6, <1>7, JoinIn, JoinSize, SizeNat
  <2> HIDE DEF b
  <2> QED
    BY <1>3, <1>5, <1>6, <1>7, <2>1 DEF Short
<1>9. Join(Join(e, a), g) = b
  BY <1>3, <1>5, <1>7, JoinAssoc DEF s
<1> HIDE DEF b
<1>10. DecodeStartup("fihello", b) = DecodeHello("fihello", b)
  BY DEF DecodeStartup
<1>11. DecodeHello("fihello", b)
        = [type |-> "fihello", edpType |-> m.edpType, edp |-> m.edp, addr |-> m.addr, tag |-> g]
  BY <1>5, <1>7, GotFields DEF DecodeHello
<1> QED
  BY <1>1, <1>4, <1>8, <1>9, <1>10, <1>11 DEF StartsUp

LEMMA PrefixedShort ==
  \A b, s : (b \in Buffer /\ Size(b) <= 500 /\ s \in Buffer) =>
    /\ EncodePrefixed(b) \in Buffer /\ Size(EncodePrefixed(b)) <= 505
    /\ DecodePrefixed(Join(EncodePrefixed(b), s)) = Got(b, s)
<1>1. ASSUME NEW b \in Buffer, Size(b) <= 500, NEW s \in Buffer
      PROVE  /\ EncodePrefixed(b) \in Buffer /\ Size(EncodePrefixed(b)) <= 505
             /\ DecodePrefixed(Join(EncodePrefixed(b), s)) = Got(b, s)
  <2>1. Size(b) \in Nat /\ Size(b) \in Short
    BY <1>1, SizeNat DEF Short
  <2>2. Size(b) \in Number
    BY <2>1, SmallNumber
  <2>3. EncodePrefixed(b) \in Buffer /\ Size(EncodePrefixed(b)) \in Size(b) + 1 .. Size(b) + 5
    BY <2>2, PrefixedIn
  <2>4. Size(EncodePrefixed(b)) <= 505
    BY <1>1, <2>1, <2>3
  <2> QED
    BY <2>2, <2>3, <2>4, PrefixedBack
<1> QED
  BY <1>1

LEMMA CookieChangeBack ==
  ASSUME NEW m \in [type : {"cookiechange"}, old : Bytes4, cookie : Bytes4]
  PROVE  StartsUp(m)
<1> DEFINE p == EncodePrefixed(m.old)
           s == m.cookie
           b == Join(p, s)
<1>1. /\ m = [type |-> "cookiechange", old |-> m.old, cookie |-> s]
      /\ m.old \in Bytes4 /\ s \in Bytes4 /\ m.type = "cookiechange"
  OBVIOUS
<1>2. m.old \in Buffer /\ Size(m.old) = 4 /\ s \in Buffer /\ Size(s) = 4
  BY <1>1, Bytes4In
<1>3. EncodeStartup(m) = b
  BY <1>1 DEF EncodeStartup, Join
<1> HIDE DEF s
<1>4. p \in Buffer /\ Size(p) <= 505 /\ DecodePrefixed(b) = Got(m.old, s)
  <2>1. Size(m.old) <= 500
    BY <1>2
  <2> QED
    BY <1>2, <2>1, PrefixedShort
<1> HIDE DEF p
<1>5. b \in Buffer /\ Size(b) \in Short
  <2>1. b \in Buffer /\ Size(b) = Size(p) + Size(s) /\ Size(p) \in Nat
    BY <1>2, <1>4, JoinIn, JoinSize, SizeNat
  <2> HIDE DEF b
  <2> QED
    BY <1>2, <1>4, <2>1 DEF Short
<1> HIDE DEF b
<1>6. DecodeStartup("cookiechange", b) = [type |-> "cookiechange", old |-> m.old, cookie |-> s]
  BY <1>4, GotFields DEF DecodeStartup, DecodeCookieChange
<1> QED
  BY <1>1, <1>3, <1>5, <1>6 DEF StartsUp

LEMMA CertificatesIn ==
  \A c : c \in Certificates => c \in Buffer /\ Size(c) <= 500
<1>1. ASSUME NEW c \in Certificates
      PROVE  c \in Buffer /\ Size(c) <= 500
  <2>1. CASE \E p \in PseudoIds : c = Certificate(p)
    BY <2>1, CertificateIn
  <2>2. CASE \E p \in PseudoIds, k \in DhKeys : c = FlashCert(p, k)
    BY <2>2, RHelloKeys
  <2> QED
    BY <2>1, <2>2 DEF Certificates
<1> QED
  BY <1>1

LEMMA RHelloBack ==
  ASSUME NEW m \in [type : {"rhello"}, tag : Bytes4, cookie : Bytes4, cert : Certificates]
  PROVE  StartsUp(m)
<1> DEFINE p == EncodePrefixed(m.tag)
           q == EncodePrefixed(m.cookie)
           c == m.cert
           s == Join(q, c)
           b == Join(p, s)
<1>1. /\ m = [type |-> "rhello", tag |-> m.tag, cookie |-> m.cookie, cert |-> c]
      /\ m.tag \in Bytes4 /\ m.cookie \in Bytes4 /\ c \in Certificates /\ m.type = "rhello"
  OBVIOUS
<1>2. /\ m.tag \in Buffer /\ Size(m.tag) <= 500 /\ m.cookie \in Buffer /\ Size(m.cookie) <= 500
      /\ c \in Buffer /\ Size(c) <= 500
  BY <1>1, Bytes4In, CertificatesIn
<1>3. EncodeStartup(m) = Join(Join(p, q), c)
  BY <1>1 DEF EncodeStartup, Join
<1> HIDE DEF c
<1>4. q \in Buffer /\ Size(q) <= 505 /\ DecodePrefixed(s) = Got(m.cookie, c)
  BY <1>2, PrefixedShort
<1> HIDE DEF q
<1>5. s \in Buffer /\ Size(s) = Size(q) + Size(c) /\ Size(c) \in Nat
  BY <1>2, <1>4, JoinIn, JoinSize, SizeNat
<1> HIDE DEF s
<1>6. p \in Buffer /\ Size(p) <= 505 /\ DecodePrefixed(b) = Got(m.tag, s)
  BY <1>2, <1>5, PrefixedShort
<1> HIDE DEF p
<1>7. b \in Buffer /\ Size(b) \in Short
  <2>1. b \in Buffer /\ Size(b) = Size(p) + Size(s) /\ Size(p) \in Nat /\ Size(q) \in Nat
    BY <1>4, <1>5, <1>6, JoinIn, JoinSize, SizeNat
  <2> HIDE DEF b
  <2> QED
    BY <1>2, <1>4, <1>5, <1>6, <2>1 DEF Short
<1>8. Join(Join(p, q), c) = b
  BY <1>2, <1>4, <1>6, JoinAssoc DEF s
<1> HIDE DEF b
<1>9. DecodeStartup("rhello", b) = [type |-> "rhello", tag |-> m.tag, cookie |-> m.cookie, cert |-> c]
  BY <1>4, <1>6, GotFields DEF DecodeStartup, DecodeRHello
<1> QED
  BY <1>1, <1>3, <1>7, <1>8, <1>9 DEF StartsUp

LEMMA AddressesEnd == DecodeAddresses[Nil] = <<>>
<1>1. Nil \in Buffer
  BY NilFacts
<1> QED
  BY <1>1, DecodeAddressesIs DEF Nil

LEMMA AddressesStep ==
  ASSUME NEW a \in Addresses, NEW s \in Buffer
  PROVE  DecodeAddresses[Join(EncodeAddress(a), s)] = <<a>> \o DecodeAddresses[s]
<1> DEFINE e == EncodeAddress(a)
           b == Join(e, s)
<1>1. e \in Buffer /\ Size(e) \in 1 .. 20 /\ DecodeAddress(b) = Got(a, s)
  BY AddressBack
<1> HIDE DEF e
<1>2. b \in Buffer /\ Size(b) = Size(e) + Size(s) /\ Size(s) \in Nat
  BY <1>1, JoinIn, JoinSize, SizeNat
<1> HIDE DEF b
<1>3. Size(b) # 0
  BY <1>1, <1>2
<1>4. b # Nil
  BY <1>2, <1>3, NilSize
<1>5. DecodeAddress(b).value = a /\ DecodeAddress(b).rest = s
  BY <1>1, GotFields
<1>6. DecodeAddresses[b] = <<DecodeAddress(b).value>> \o DecodeAddresses[DecodeAddress(b).rest]
  BY <1>2, <1>4, DecodeAddressesIs DEF Nil
<1>7. DecodeAddresses[b] = <<a>> \o DecodeAddresses[s]
  BY <1>5, <1>6
<1> QED
  BY <1>7 DEF b, e

LEMMA TwoAddresses ==
  ASSUME NEW a \in Addresses, NEW b \in Addresses
  PROVE  DecodeAddresses[Join(EncodeAddress(a), EncodeAddress(b))] = <<a, b>>
<1> DEFINE y == EncodeAddress(b)
<1>1. y \in Buffer
  BY NilFacts, AddressBack
<1>2. DecodeAddresses[Join(y, Nil)] = <<b>> \o DecodeAddresses[Nil]
  BY NilFacts, AddressesStep
<1>3. DecodeAddresses[y] = <<b>> \o <<>>
  BY <1>1, <1>2, JoinNil, AddressesEnd
<1> HIDE DEF y
<1>4. DecodeAddresses[Join(EncodeAddress(a), y)] = <<a>> \o DecodeAddresses[y]
  BY <1>1, AddressesStep
<1>5. <<a>> \o (<<b>> \o <<>>) = <<a, b>>
  BY TwoOf
<1>6. DecodeAddresses[Join(EncodeAddress(a), y)] = <<a>> \o (<<b>> \o <<>>)
  BY Zenon, <1>3, <1>4
<1>7. DecodeAddresses[Join(EncodeAddress(a), y)] = <<a, b>>
  BY Zenon, <1>5, <1>6
<1> QED
  BY <1>7 DEF y

LEMMA AddressesBack ==
  ASSUME NEW addrs \in {<<>>} \cup {<<a, b>> : a, b \in Addresses}
  PROVE  LET e == FlattenSeq([i \in DOMAIN addrs |-> EncodeAddress(addrs[i])])
         IN  e \in Buffer /\ Size(e) <= 40 /\ DecodeAddresses[e] = addrs
<1> DEFINE f == [i \in DOMAIN addrs |-> EncodeAddress(addrs[i])]
           e == FlattenSeq(f)
<1>1. CASE addrs = <<>>
  <2> DEFINE n == 0
  <2>1. n \in Nat /\ f \in [1 .. n -> Buffer]
    BY <1>1
  <2> HIDE DEF f, n
  <2>2. f \in Buffers /\ Len(f) = n
    BY <2>1, AsBuffers
  <2> USE DEF n
  <2>3. e = Nil
    BY <2>2, FlatFew
  <2> HIDE DEF e
  <2>4. e \in Buffer /\ Size(e) <= 40 /\ DecodeAddresses[e] = addrs
    BY <1>1, <2>3, NilFacts, AddressesEnd DEF Nil
  <2> QED
    BY <2>4 DEF e, f
<1>2. CASE \E a, b \in Addresses : addrs = <<a, b>>
  <2>1. PICK a \in Addresses, b \in Addresses : addrs = <<a, b>>
    BY <1>2
  <2> DEFINE x == EncodeAddress(a)
             y == EncodeAddress(b)
  <2>2. x \in Buffer /\ Size(x) \in 1 .. 20 /\ y \in Buffer /\ Size(y) \in 1 .. 20
    BY NilFacts, AddressBack
  <2>3. DOMAIN addrs = 1 .. 2 /\ addrs[1] = a /\ addrs[2] = b
    BY <2>1
  <2>4. f \in [1 .. 2 -> Buffer] /\ f[1] = x /\ f[2] = y
    BY <2>2, <2>3
  <2> DEFINE n == 2
  <2> HIDE DEF f
  <2>12. n \in Nat /\ f \in [1 .. n -> Buffer]
    BY <2>4
  <2> HIDE DEF n
  <2>5. f \in Buffers /\ Len(f) = n
    BY <2>12, AsBuffers
  <2> USE DEF n
  <2>6. Flat2(f)
    BY <2>5, FlatFew
  <2>7. e = Join(x, y)
    BY <2>4, <2>6 DEF Flat2
  <2> HIDE DEF e
  <2>8. e \in Buffer /\ Size(e) <= 40
    <3> HIDE DEF x, y
    <3>1. e \in Buffer /\ Size(e) = Size(x) + Size(y) /\ Size(x) \in Nat /\ Size(y) \in Nat
      BY <2>2, <2>7, JoinIn, JoinSize, SizeNat
    <3>2. Size(x) <= 20 /\ Size(y) <= 20
      BY <2>2
    <3> HIDE DEF e
    <3> QED
      BY <3>1, <3>2
  <2>11. DecodeAddresses[e] = addrs
    <3>2. DecodeAddresses[e] = <<a, b>>
      BY <2>2, <2>7, TwoAddresses
    <3> QED
      BY <2>1, <3>2
  <2> QED
    BY <2>8, <2>11 DEF e, f
<1> QED
  BY <1>1, <1>2

LEMMA RedirectBack ==
  ASSUME NEW m \in [type : {"redirect"}, tag : Bytes4,
                    addrs : {<<>>} \cup {<<a, b>> : a, b \in Addresses}]
  PROVE  StartsUp(m)
<1> DEFINE p == EncodePrefixed(m.tag)
           s == FlattenSeq([i \in DOMAIN m.addrs |-> EncodeAddress(m.addrs[i])])
           buf == Join(p, s)
<1>1. /\ m = [type |-> "redirect", tag |-> m.tag, addrs |-> m.addrs]
      /\ m.tag \in Bytes4 /\ m.type = "redirect"
      /\ m.addrs \in {<<>>} \cup {<<a, b>> : a, b \in Addresses}
  OBVIOUS
<1>2. m.tag \in Buffer /\ Size(m.tag) <= 500
  BY <1>1, Bytes4In
<1>3. EncodeStartup(m) = buf
  BY <1>1 DEF EncodeStartup, Join
<1>4. s \in Buffer /\ Size(s) <= 40 /\ DecodeAddresses[s] = m.addrs
  BY <1>1, AddressesBack
<1> HIDE DEF s
<1>5. p \in Buffer /\ Size(p) <= 505 /\ DecodePrefixed(buf) = Got(m.tag, s)
  BY <1>2, <1>4, PrefixedShort
<1> HIDE DEF p
<1>6. buf \in Buffer /\ Size(buf) \in Short
  <2>1. buf \in Buffer /\ Size(buf) = Size(p) + Size(s) /\ Size(p) \in Nat /\ Size(s) \in Nat
    BY <1>4, <1>5, JoinIn, JoinSize, SizeNat
  <2> HIDE DEF buf
  <2> QED
    BY <1>4, <1>5, <2>1 DEF Short
<1> HIDE DEF buf
<1>7. DecodeStartup("redirect", buf) = [type |-> "redirect", tag |-> m.tag, addrs |-> m.addrs]
  BY <1>4, <1>5, GotFields DEF DecodeStartup, DecodeRedirect
<1> QED
  BY <1>1, <1>3, <1>6, <1>7 DEF StartsUp

LEMMA SessionIdBack ==
  \A sid, s : (sid \in Short /\ s \in Buffer) =>
    /\ SessionId(sid) \in Buffer /\ Size(SessionId(sid)) = 4
    /\ FromSessionId(Join(SessionId(sid), s)) = sid
    /\ From(Join(SessionId(sid), s), 5) = s
<1>1. ASSUME NEW sid \in Short, NEW s \in Buffer
      PROVE  /\ SessionId(sid) \in Buffer /\ Size(SessionId(sid)) = 4
             /\ FromSessionId(Join(SessionId(sid), s)) = sid
             /\ From(Join(SessionId(sid), s), 5) = s
  <2> DEFINE z == Join(One(0), One(0))
             w == Word(sid)
             e == SessionId(sid)
             r == Join(w, s)
  <2>1. 0 \in Byte
    BY ByteIs
  <2>2. z \in Buffer /\ Size(z) = 2 /\ z = <<0, 0>>
    BY <2>1, OneIn, Put, Tuple2
  <2>3. w \in Buffer /\ Size(w) = 2 /\ FromWord(r) = sid
    BY WordFacts, FromWordJoin
  <2>4. e = Join(z, w)
    BY <2>2 DEF SessionId, Join
  <2> HIDE DEF z, w, e
  <2>5. e \in Buffer /\ Size(e) = 4
    BY <2>2, <2>3, <2>4, JoinIn, JoinSize
  <2>6. Join(e, s) = Join(z, r)
    BY <2>2, <2>3, <2>4, JoinAssoc
  <2>7. r \in Buffer
    BY <2>3, JoinIn
  <2> HIDE DEF r
  <2>8. From(Join(z, r), 3) = r
    <3> DEFINE n == 3
    <3>1. n = Size(z) + 1
      BY <2>2
    <3> HIDE DEF n
    <3>2. From(Join(z, r), n) = r
      BY <2>2, <2>7, <3>1, FromJoin
    <3> QED
      BY <3>2 DEF n
  <2>9. From(Join(e, s), 5) = s
    <3> DEFINE n == 5
    <3>1. n = Size(e) + 1
      BY <2>5
    <3> HIDE DEF n
    <3>2. From(Join(e, s), n) = s
      BY <2>5, <3>1, FromJoin
    <3> QED
      BY <3>2 DEF n
  <2> QED
    BY <2>3, <2>5, <2>6, <2>8, <2>9 DEF FromSessionId, e
<1> QED
  BY <1>1

LEMMA Chain5 ==
  ASSUME NEW a \in Buffer, NEW b \in Buffer, NEW c \in Buffer, NEW d \in Buffer, NEW e \in Buffer
  PROVE  Join(Join(Join(Join(a, b), c), d), e) = Join(a, Join(b, Join(c, Join(d, e))))
<1> DEFINE g == Join(a, b)
           r == Join(c, Join(d, e))
<1>1. g \in Buffer
  BY JoinIn
<1>2. Join(d, e) \in Buffer
  BY JoinIn
<1>3. r \in Buffer
  BY <1>2, JoinIn
<1>4. Join(g, r) = Join(a, Join(b, r))
  <2> HIDE DEF r
  <2> QED
    BY <1>3, JoinAssoc
<1> HIDE DEF g
<1>5. Join(Join(Join(g, c), d), e) = Join(g, r)
  BY <1>1, Chain4
<1> QED
  BY <1>4, <1>5 DEF g, r

NonceLike == {Nonce(k) : k \in DhKeys} \cup {SomeBytes(8)}

LEMMA NonceLikeIn ==
  \A n : n \in NonceLike => n \in Buffer /\ Size(n) <= 500
<1>1. ASSUME NEW n \in NonceLike
      PROVE  n \in Buffer /\ Size(n) <= 500
  <2>1. CASE n = SomeBytes(8)
    <3> DEFINE l == 8
    <3>1. l \in Nat
      OBVIOUS
    <3> HIDE DEF l
    <3>2. SomeBytes(l) \in Buffer /\ Size(SomeBytes(l)) = l
      BY <3>1, Bytes255
    <3>3. n \in Buffer /\ Size(n) = l
      BY <2>1, <3>2 DEF l
    <3> QED
      BY <3>3 DEF l
  <2>2. CASE \E k \in DhKeys : n = Nonce(k)
    <3>1. PICK k \in DhKeys : n = Nonce(k)
      BY <2>2
    <3>2. n \in Buffer /\ Size(n) <= 200
      BY <3>1, NonceIs
    <3>3. Size(n) \in Nat
      BY <3>2, SizeNat
    <3> QED
      BY <3>2, <3>3
  <2> QED
    BY <2>1, <2>2 DEF NonceLike
<1> QED
  BY <1>1

LEMMA RIKeyingBack ==
  ASSUME NEW m \in [type : {"rikeying"}, sid : {1, 256}, nonce : NonceLike]
  PROVE  StartsUp(m)
<1> DEFINE i == SessionId(m.sid)
           p == EncodePrefixed(m.nonce)
           z == One(88)
           s == Join(p, z)
           b == Join(i, s)
<1>1. /\ m = [type |-> "rikeying", sid |-> m.sid, nonce |-> m.nonce]
      /\ m.sid \in {1, 256} /\ m.nonce \in NonceLike /\ m.type = "rikeying"
  OBVIOUS
<1>2. m.sid \in Short /\ m.nonce \in Buffer /\ Size(m.nonce) <= 500
  BY <1>1, NonceLikeIn DEF Short
<1>3. EncodeStartup(m) = Join(Join(i, p), z)
  BY <1>1 DEF EncodeStartup, Join, One
<1>4. z \in Buffer /\ Size(z) = 1
  <2>1. 88 \in Byte
    BY ByteIs
  <2> QED
    BY <2>1, OneIn
<1> HIDE DEF z
<1>5. p \in Buffer /\ Size(p) <= 505 /\ DecodePrefixed(s) = Got(m.nonce, z)
  BY <1>2, <1>4, PrefixedShort
<1> HIDE DEF p
<1>6. s \in Buffer /\ Size(s) = Size(p) + Size(z) /\ Size(p) \in Nat
  BY <1>4, <1>5, JoinIn, JoinSize, SizeNat
<1> HIDE DEF s
<1>7. i \in Buffer /\ Size(i) = 4 /\ FromSessionId(b) = m.sid /\ From(b, 5) = s
  BY <1>2, <1>6, SessionIdBack
<1> HIDE DEF i
<1>8. b \in Buffer /\ Size(b) \in Short
  <2>1. b \in Buffer /\ Size(b) = Size(i) + Size(s)
    BY <1>6, <1>7, JoinIn, JoinSize
  <2> HIDE DEF b
  <2> QED
    BY <1>4, <1>5, <1>6, <1>7, <2>1 DEF Short
<1>9. Join(Join(i, p), z) = b
  BY <1>4, <1>5, <1>7, JoinAssoc DEF s
<1> HIDE DEF b
<1>10. DecodeStartup("rikeying", b) = [type |-> "rikeying", sid |-> m.sid, nonce |-> m.nonce]
  BY <1>5, <1>7, GotFields DEF DecodeStartup, DecodeRIKeying
<1> QED
  BY <1>1, <1>3, <1>8, <1>9, <1>10 DEF StartsUp

LEMMA IIKeyingBack ==
  ASSUME NEW m \in [type : {"iikeying"}, sid : {1, 65535}, cookie : Bytes4,
                    cert : {InitiatorCert(k) : k \in DhKeys}, nonce : {Nonce(k) : k \in DhKeys}]
  PROVE  StartsUp(m)
<1> DEFINE i == SessionId(m.sid)
           c == EncodePrefixed(m.cookie)
           t == EncodePrefixed(m.cert)
           p == EncodePrefixed(m.nonce)
           z == One(88)
           s1 == Join(p, z)
           s2 == Join(t, s1)
           s3 == Join(c, s2)
           b == Join(i, s3)
<1>1. /\ m = [type |-> "iikeying", sid |-> m.sid, cookie |-> m.cookie, cert |-> m.cert,
              nonce |-> m.nonce]
      /\ m.sid \in {1, 65535} /\ m.cookie \in Bytes4 /\ m.type = "iikeying"
      /\ m.cert \in {InitiatorCert(k) : k \in DhKeys} /\ m.nonce \in {Nonce(k) : k \in DhKeys}
  OBVIOUS
<1>2. /\ m.sid \in Short /\ m.nonce \in Buffer /\ Size(m.nonce) <= 500
      /\ m.cookie \in Buffer /\ Size(m.cookie) <= 500
      /\ m.cert \in Buffer /\ Size(m.cert) <= 500
  <2>1. m.sid \in Short
    BY <1>1 DEF Short
  <2>2. m.nonce \in Buffer /\ Size(m.nonce) <= 500
    BY <1>1, NonceLikeIn DEF NonceLike
  <2>3. m.cert \in Buffer /\ Size(m.cert) <= 500
    <3>1. \A k \in DhKeys : InitiatorCert(k) \in Buffer /\ Size(InitiatorCert(k)) <= 200
      BY InitiatorCertIs
    <3>2. m.cert \in Buffer /\ Size(m.cert) <= 200
      BY <1>1, <3>1
    <3>3. Size(m.cert) \in Nat
      BY <3>2, SizeNat
    <3> QED
      BY <3>2, <3>3
  <2>4. m.cookie \in Buffer /\ Size(m.cookie) <= 500
    BY <1>1, Bytes4In
  <2> QED
    BY <2>1, <2>2, <2>3, <2>4
<1>3. EncodeStartup(m) = Join(Join(Join(Join(i, c), t), p), z)
  BY <1>1 DEF EncodeStartup, Join, One
<1>4. z \in Buffer /\ Size(z) = 1
  <2>1. 88 \in Byte
    BY ByteIs
  <2> QED
    BY <2>1, OneIn
<1> HIDE DEF z
<1>5. p \in Buffer /\ Size(p) <= 505 /\ DecodePrefixed(s1) = Got(m.nonce, z)
  BY <1>2, <1>4, PrefixedShort
<1> HIDE DEF p
<1>6. s1 \in Buffer /\ Size(s1) = Size(p) + Size(z) /\ Size(p) \in Nat
  BY <1>4, <1>5, JoinIn, JoinSize, SizeNat
<1> HIDE DEF s1
<1>7. t \in Buffer /\ Size(t) <= 505 /\ DecodePrefixed(s2) = Got(m.cert, s1)
  BY <1>2, <1>6, PrefixedShort
<1> HIDE DEF t
<1>8. s2 \in Buffer /\ Size(s2) = Size(t) + Size(s1) /\ Size(t) \in Nat
  BY <1>6, <1>7, JoinIn, JoinSize, SizeNat
<1> HIDE DEF s2
<1>9. c \in Buffer /\ Size(c) <= 505 /\ DecodePrefixed(s3) = Got(m.cookie, s2)
  BY <1>2, <1>8, PrefixedShort
<1> HIDE DEF c
<1>10. s3 \in Buffer /\ Size(s3) = Size(c) + Size(s2) /\ Size(c) \in Nat
  BY <1>8, <1>9, JoinIn, JoinSize, SizeNat
<1> HIDE DEF s3
<1>11. i \in Buffer /\ Size(i) = 4 /\ FromSessionId(b) = m.sid /\ From(b, 5) = s3
  BY <1>2, <1>10, SessionIdBack
<1> HIDE DEF i
<1>12. b \in Buffer /\ Size(b) \in Short
  <2>1. b \in Buffer /\ Size(b) = Size(i) + Size(s3)
    BY <1>10, <1>11, JoinIn, JoinSize
  <2> HIDE DEF b
  <2> QED
    BY <1>4, <1>5, <1>6, <1>7, <1>8, <1>9, <1>10, <1>11, <2>1 DEF Short
<1>13. Join(Join(Join(Join(i, c), t), p), z) = b
  BY <1>4, <1>5, <1>7, <1>9, <1>11, Chain5 DEF s1, s2, s3
<1> HIDE DEF b
<1>14. DecodeStartup("iikeying", b)
         = [type |-> "iikeying", sid |-> m.sid, cookie |-> m.cookie, cert |-> m.cert,
            nonce |-> m.nonce]
  BY <1>5, <1>7, <1>9, <1>11, GotFields DEF DecodeStartup, DecodeIIKeying
<1> QED
  BY <1>1, <1>3, <1>12, <1>13, <1>14 DEF StartsUp

-----------------------------------------------------------------------------
(***************************************************************************)
(* The values of messages: of what they are made, and in how many bytes    *)
(* they are written.                                                       *)
(***************************************************************************)
LEMMA FlatIn ==
  \A s : s \in Buffers => FlattenSeq(s) \in Buffer
<1>1. ASSUME NEW s \in Buffers
      PROVE  FlattenSeq(s) \in Buffer
  <2>1. CASE Len(s) = 0
    BY <2>1, FlatFew, NilFacts
  <2>2. CASE Len(s) # 0
    BY <2>2, FlatHead
  <2> QED
    BY <2>1, <2>2
<1> QED
  BY <1>1

ValueTypes == {"null", "number", "bool", "string", "bytes", "object"}

LEMMA ValueIs ==
  ASSUME NEW v \in Values
  PROVE  /\ v.type \in ValueTypes
         /\ v.type = "null" => v = AmfNull
         /\ v.type = "number" => /\ v = [type |-> "number", number |-> v.number]
                                 /\ v.number \in Buffer /\ Size(v.number) = 8
         /\ v.type = "bool" => v = [type |-> "bool", bool |-> v.bool] /\ v.bool \in BOOLEAN
         /\ v.type = "string" => /\ v = [type |-> "string", string |-> v.string]
                                 /\ v.string \in Buffer /\ Size(v.string) \in Short
         /\ v.type = "bytes" => /\ v = [type |-> "bytes", bytes |-> v.bytes]
                                /\ v.bytes \in Buffer /\ Size(v.bytes) \in Short
         /\ v.type = "object" => v = [type |-> "object", fields |-> v.fields] /\ v.fields \in Fields
<1>0. /\ v \in ValueType
      /\ v.type = "number" => Len(v.number) = 8
      /\ v.type = "string" => Len(v.string) < 65536
      /\ v.type = "bytes" => Len(v.bytes) < 65536
  BY AmfAssumption
<1>1. CASE v = AmfNull
  BY <1>1 DEF AmfNull, ValueTypes
<1>2. CASE v \in [type : {"number"}, number : Buffer]
  BY <1>0, <1>2 DEF ValueTypes, Size
<1>3. CASE v \in [type : {"bool"}, bool : BOOLEAN]
  BY <1>3 DEF ValueTypes
<1>4. CASE v \in [type : {"string"}, string : Buffer]
  BY <1>0, <1>4, LenNat DEF ValueTypes, Size, Short
<1>5. CASE v \in [type : {"bytes"}, bytes : Buffer]
  BY <1>0, <1>5, LenNat DEF ValueTypes, Size, Short
<1>6. CASE v \in [type : {"object"}, fields : Fields]
  BY <1>6 DEF ValueTypes
<1> QED
  BY <1>0, <1>1, <1>2, <1>3, <1>4, <1>5, <1>6 DEF ValueType

FieldsTyped(v, fs) ==
  /\ DOMAIN fs = 1 .. Len(fs) /\ Len(fs) \in Nat
  /\ \A i \in 1 .. Len(fs) :
       /\ fs[i] = [key |-> fs[i].key, value |-> fs[i].value]
       /\ fs[i].key \in Buffer /\ fs[i].value \in Values
       /\ Size(fs[i].key) \in Short /\ Size(fs[i].key) # 0
       /\ Size(fs[i].key) < 2304
       /\ Nesting[fs[i].value] < Nesting[v]

LEMMA FieldsAre ==
  ASSUME NEW v \in Values, v.type = "object"
  PROVE  FieldsTyped(v, v.fields)
<1> DEFINE fs == v.fields
<1>1. fs \in Fields
  BY ValueIs
<1>2. \A i \in DOMAIN fs : /\ fs[i].key # <<>> /\ Len(fs[i].key) < 2304
                           /\ Nesting[fs[i].value] < Nesting[v]
  BY AmfAssumption
<1> HIDE DEF fs
<1>3. /\ DOMAIN fs = 1 .. Len(fs) /\ Len(fs) \in Nat
      /\ \A i \in 1 .. Len(fs) : fs[i] \in [key : Buffer, value : Values]
  <2> DEFINE S == [key : Buffer, value : Values]
  <2>1. fs \in Seq(S)
    BY <1>1 DEF Fields
  <2> HIDE DEF S
  <2>2. DOMAIN fs = 1 .. Len(fs) /\ Len(fs) \in Nat /\ \A i \in 1 .. Len(fs) : fs[i] \in S
    BY <2>1
  <2> QED
    BY <2>2 DEF S
<1>4. ASSUME NEW i \in 1 .. Len(fs)
      PROVE  /\ fs[i] = [key |-> fs[i].key, value |-> fs[i].value]
             /\ fs[i].key \in Buffer /\ fs[i].value \in Values
             /\ Size(fs[i].key) \in Short /\ Size(fs[i].key) # 0
             /\ Size(fs[i].key) < 2304
             /\ Nesting[fs[i].value] < Nesting[v]
  <2>1. fs[i] \in [key : Buffer, value : Values]
    BY <1>3
  <2>2. Nesting[fs[i].value] < Nesting[v]
    BY <1>2, <1>3
  <2> DEFINE n == Len(fs[i].key)
  <2>3. fs[i].key # <<>> /\ n < 2304
    BY <1>2, <1>3
  <2>4. n \in Nat /\ n # 0
    BY <2>1, <2>3, BufferFacts
  <2> HIDE DEF n
  <2>5. n \in Short
    BY <2>3, <2>4 DEF Short
  <2> QED
    BY <2>1, <2>2, <2>3, <2>4, <2>5 DEF Size, n
<1> QED
  BY <1>3, <1>4 DEF fs, FieldsTyped

LEMMA StringIs ==
  \A s : (s \in Buffer /\ Size(s) \in Short) =>
    /\ WriteString(s) = Join(Word(Size(s)), s)
    /\ WriteString(s) \in Buffer /\ Size(WriteString(s)) = 2 + Size(s)
<1>1. ASSUME NEW s \in Buffer, Size(s) \in Short
      PROVE  /\ WriteString(s) = Join(Word(Size(s)), s)
             /\ WriteString(s) \in Buffer /\ Size(WriteString(s)) = 2 + Size(s)
  <2> DEFINE n == Size(s)
             w == Word(n)
  <2>1. n % 65536 = n
    BY <1>1 DEF Short
  <2>2. WriteString(s) = Join(Word(n % 65536), s)
    BY DEF WriteString, Join, Size
  <2>3. WriteString(s) = Join(w, s)
    BY <2>1, <2>2
  <2>4. w \in Buffer /\ Size(w) = 2
    BY <1>1, WordFacts
  <2> HIDE DEF w
  <2>5. Join(w, s) \in Buffer /\ Size(Join(w, s)) = 2 + Size(s)
    BY <2>4, JoinIn, JoinSize
  <2> QED
    BY <2>3, <2>5 DEF w
<1> QED
  BY <1>1

ArrayBytes(b) == Join(WriteU29(2 * Size(b) + 1), b)

LEMMA ArrayBytesBack ==
  \A b, s : (b \in Buffer /\ Size(b) \in Short /\ s \in Buffer) =>
    /\ ArrayBytes(b) \in Buffer
    /\ ReadByteArray(Join(ArrayBytes(b), s)) = Got(b, s)
<1>1. ASSUME NEW b \in Buffer, Size(b) \in Short, NEW s \in Buffer
      PROVE  /\ ArrayBytes(b) \in Buffer
             /\ ReadByteArray(Join(ArrayBytes(b), s)) = Got(b, s)
  <2> DEFINE n == Size(b)
             v == 2 * n + 1
             u == WriteU29(v)
             r == Join(b, s)
  <2>1. v \in Nat /\ v \div 2 = n /\ n \in Nat
    BY <1>1 DEF Short
  <2>2. v < ThreeDigits
    BY <1>1, DigitsNat DEF Short
  <2>3. r \in Buffer
    BY JoinIn
  <2> HIDE DEF r, v
  <2>4. ReadU29(Join(u, r)) = Got(v, r) /\ u \in Buffer
    BY <2>1, <2>2, <2>3, ShortU29 DEF Join
  <2> HIDE DEF u
  <2>5. Join(Join(u, b), s) = Join(u, r)
    BY <2>4, JoinAssoc DEF r
  <2>6. ArrayBytes(b) = Join(u, b)
    BY DEF ArrayBytes, u, v
  <2>7. ArrayBytes(b) \in Buffer
    BY <2>4, <2>6, JoinIn
  <2>8. Upto(r, n) = b
    BY UptoJoin DEF r
  <2>9. From(r, n + 1) = s
    BY FromJoin DEF r
  <2>10. \A x : ReadByteArray(x)
           = Got(Upto(ReadU29(x).rest, ReadU29(x).value \div 2),
                 From(ReadU29(x).rest, ReadU29(x).value \div 2 + 1))
    BY DEF ReadByteArray, Upto, Got
  <2>11. ReadU29(Join(u, r)).value = v /\ ReadU29(Join(u, r)).rest = r
    BY <2>4, GotFields
  <2>12. ReadByteArray(Join(u, r)) = Got(Upto(r, n), From(r, n + 1))
    BY <2>1, <2>10, <2>11
  <2> QED
    BY <2>5, <2>6, <2>7, <2>8, <2>9, <2>12
<1> QED
  BY <1>1

\* The fields of an object, when f says what their values are written as.
FieldBytes(field, f) == Join(WriteString(field.key), f[field.value])
FieldsBytes(fs, f) == FlattenSeq([i \in DOMAIN fs |-> FieldBytes(fs[i], f)])

AmfBytes(f, v) ==
  CASE v.type = "number" -> Join(One(0), v.number)
    [] v.type = "bool"   -> <<1, IF v.bool THEN 1 ELSE 0>>
    [] v.type = "string" -> Join(One(2), WriteString(v.string))
    [] v.type = "object" ->
         Join(Join(Join(One(3), FieldsBytes(v.fields, f)), WriteString(Nil)), One(9))
    [] v.type = "null"   -> One(5)
    [] v.type = "bytes"  -> Join(<<17, 12>>, ArrayBytes(v.bytes))

LEMMA WriteAmf0Is ==
  WriteAmf0 = CHOOSE f : f = [v \in Values |-> AmfBytes(f, v)]
<1>1. WriteAmf0 = CHOOSE f : f = [v \in Values |-> WriteValue(v, f)]
  BY DEF WriteAmf0
<1>2. ASSUME NEW f, NEW v
      PROVE  WriteValue(v, f) = AmfBytes(f, v)
  BY Zenon DEF WriteValue, AmfBytes, FieldsBytes, FieldBytes, ArrayBytes, WriteByteArray, Join, One,
               Nil, Size
<1> QED
  BY <1>1, <1>2

LEMMA FieldsBytesIn ==
  ASSUME NEW f \in [Values -> Buffer], NEW v \in Values, v.type = "object"
  PROVE  /\ FieldsBytes(v.fields, f) \in Buffer
         /\ [i \in DOMAIN v.fields |-> FieldBytes(v.fields[i], f)] \in [1 .. Len(v.fields) -> Buffer]
<1> DEFINE fs == v.fields
           n == Len(fs)
           s == [i \in DOMAIN fs |-> FieldBytes(fs[i], f)]
<1>1. /\ DOMAIN fs = 1 .. n /\ n \in Nat
      /\ \A i \in 1 .. n : /\ fs[i].key \in Buffer /\ fs[i].value \in Values
                           /\ Size(fs[i].key) \in Short
  <2>1. FieldsTyped(v, fs)
    BY FieldsAre
  <2> HIDE DEF fs
  <2> QED
    BY <2>1 DEF FieldsTyped
<1> HIDE DEF fs, n
<1>2. ASSUME NEW i \in 1 .. n
      PROVE  FieldBytes(fs[i], f) \in Buffer
  <2>1. WriteString(fs[i].key) \in Buffer /\ f[fs[i].value] \in Buffer
    BY <1>1, StringIs
  <2> QED
    BY <2>1, JoinIn DEF FieldBytes
<1>3. s \in [1 .. n -> Buffer]
  BY <1>1, <1>2
<1> HIDE DEF s
<1>4. s \in Buffers
  BY <1>1, <1>3, AsBuffers
<1>5. FlattenSeq(s) \in Buffer
  BY <1>4, FlatIn
<1> QED
  BY <1>3, <1>5 DEF s, fs, n, FieldsBytes

LEMMA AmfBytesIn ==
  ASSUME NEW f \in [Values -> Buffer], NEW v \in Values
  PROVE  AmfBytes(f, v) \in Buffer
<1>0. /\ 0 \in Byte /\ 1 \in Byte /\ 2 \in Byte /\ 3 \in Byte /\ 5 \in Byte /\ 9 \in Byte
      /\ 12 \in Byte /\ 17 \in Byte
  BY ByteIs
<1>1. CASE v.type = "number"
  <2>1. v.number \in Buffer
    BY <1>1, ValueIs
  <2>2. Join(One(0), v.number) \in Buffer
    BY <1>0, <2>1, Put
  <2> QED
    BY <1>1, <2>2 DEF AmfBytes
<1>2. CASE v.type = "bool"
  <2> DEFINE x == IF v.bool THEN 1 ELSE 0
  <2>1. x \in Byte
    BY <1>0
  <2> HIDE DEF x
  <2>2. <<1, x>> = Join(One(1), One(x)) /\ One(x) \in Buffer
    BY <1>0, <2>1, Tuple2, OneIn
  <2>3. <<1, x>> \in Buffer
    BY <1>0, <2>2, Put
  <2> QED
    BY <1>2, <2>3 DEF AmfBytes, x
<1>3. CASE v.type = "string"
  <2>1. v.string \in Buffer /\ Size(v.string) \in Short
    BY <1>3, ValueIs
  <2>2. WriteString(v.string) \in Buffer
    BY <2>1, StringIs
  <2>3. Join(One(2), WriteString(v.string)) \in Buffer
    BY <1>0, <2>2, Put
  <2> QED
    BY <1>3, <2>3 DEF AmfBytes
<1>4. CASE v.type = "object"
  <2> DEFINE x == FieldsBytes(v.fields, f)
             y == WriteString(Nil)
  <2>1. x \in Buffer
    BY <1>4, FieldsBytesIn
  <2>2. y \in Buffer
    <3>1. Size(Nil) \in Short
      BY NilFacts DEF Short
    <3> QED
      BY <3>1, NilFacts, StringIs
  <2> HIDE DEF x, y
  <2>3. Join(Join(Join(One(3), x), y), One(9)) \in Buffer
    BY <1>0, <2>1, <2>2, OneIn, JoinIn
  <2> QED
    BY <1>4, <2>3 DEF AmfBytes, x, y
<1>5. CASE v.type = "null"
  <2>1. One(5) \in Buffer
    BY <1>0, OneIn
  <2> QED
    BY <1>5, <2>1 DEF AmfBytes
<1>6. CASE v.type = "bytes"
  <2>1. v.bytes \in Buffer /\ Size(v.bytes) \in Short
    BY <1>6, ValueIs
  <2>2. ArrayBytes(v.bytes) \in Buffer
    BY <2>1, NilFacts, ArrayBytesBack
  <2>3. <<17, 12>> = Join(One(17), One(12)) /\ One(12) \in Buffer
    BY <1>0, Tuple2, OneIn
  <2>4. <<17, 12>> \in Buffer
    BY <1>0, <2>3, Put
  <2>5. Join(<<17, 12>>, ArrayBytes(v.bytes)) \in Buffer
    BY <2>2, <2>4, JoinIn
  <2> QED
    BY <1>6, <2>5 DEF AmfBytes
<1> QED
  BY <1>1, <1>2, <1>3, <1>4, <1>5, <1>6, ValueIs DEF ValueTypes

LEMMA AmfBytesLocal ==
  ASSUME NEW f, NEW g, NEW v \in Values,
         \A w \in Values : Nesting[w] < Nesting[v] => f[w] = g[w]
  PROVE  AmfBytes(f, v) = AmfBytes(g, v)
<1>1. CASE v.type = "object"
  <2> DEFINE fs == v.fields
             F == [i \in DOMAIN fs |-> FieldBytes(fs[i], f)]
             G == [i \in DOMAIN fs |-> FieldBytes(fs[i], g)]
  <2>1. \A i \in DOMAIN fs : fs[i].value \in Values /\ Nesting[fs[i].value] < Nesting[v]
    <3>1. FieldsTyped(v, fs)
      BY <1>1, FieldsAre
    <3> HIDE DEF fs
    <3> QED
      BY <3>1 DEF FieldsTyped
  <2> HIDE DEF fs
  <2>2. \A i \in DOMAIN fs : FieldBytes(fs[i], f) = FieldBytes(fs[i], g)
    BY <2>1 DEF FieldBytes
  <2>3. F = G
    BY <2>2
  <2> HIDE DEF F, G
  <2>4. FlattenSeq(F) = FlattenSeq(G)
    BY <2>3
  <2>5. FieldsBytes(fs, f) = FieldsBytes(fs, g)
    BY <2>4 DEF F, G, FieldsBytes
  <2> QED
    BY <1>1, <2>5 DEF fs, AmfBytes
<1>2. CASE v.type # "object"
  BY <1>2, ValueIs DEF AmfBytes, ValueTypes
<1> QED
  BY <1>1, <1>2

LEMMA WriteAmf0In ==
  /\ WriteAmf0 \in [Values -> Buffer]
  /\ \A v \in Values : WriteAmf0[v] = AmfBytes(WriteAmf0, v)
<1> DEFINE step == [p \in [Values -> Buffer] \X Values |-> AmfBytes(p[1], p[2])]
<1>1. step \in [[Values -> Buffer] \X Values -> Buffer]
  <2>1. ASSUME NEW p \in [Values -> Buffer] \X Values
        PROVE  AmfBytes(p[1], p[2]) \in Buffer
    <3>1. p[1] \in [Values -> Buffer] /\ p[2] \in Values
      BY PairParts
    <3> QED
      BY <3>1, AmfBytesIn
  <2> QED
    BY <2>1
<1>2. ASSUME NEW f \in [Values -> Buffer], NEW v \in Values
      PROVE  step[<<f, v>>] = AmfBytes(f, v)
  OBVIOUS
<1> HIDE DEF step
<1>3. ASSUME NEW f \in [Values -> Buffer], NEW g \in [Values -> Buffer], NEW v \in Values,
             \A w \in Values : Nesting[w] < Nesting[v] => f[w] = g[w]
      PROVE  step[<<f, v>>] = step[<<g, v>>]
  BY <1>2, <1>3, AmfBytesLocal
<1>4. Nesting \in [Values -> Nat] /\ Buffer # {}
  BY AmfAssumption, NilFacts
<1>5. Descends(step, Values, Buffer, Nesting)
  BY <1>1, <1>3, <1>4 DEF Descends
<1>6. PICK f \in [Values -> Buffer] : f = [v \in Values |-> step[<<f, v>>]]
  BY <1>5, Recursion DEF Unfolds
<1>7. f = [v \in Values |-> AmfBytes(f, v)]
  BY <1>2, <1>6
<1>8. WriteAmf0 = [v \in Values |-> AmfBytes(WriteAmf0, v)]
  BY <1>7, WriteAmf0Is
<1>9. \A v \in Values : WriteAmf0[v] = AmfBytes(WriteAmf0, v)
  BY <1>8, Zenon
<1> DEFINE T == {v \in Values : WriteAmf0[v] \in Buffer}
<1>10. ASSUME NEW v \in Values, \A w \in Values : Nesting[w] < Nesting[v] => w \in T
       PROVE  v \in T
  <2> DEFINE g == [w \in Values |-> IF WriteAmf0[w] \in Buffer THEN WriteAmf0[w] ELSE Nil]
  <2>1. g \in [Values -> Buffer]
    BY NilFacts
  <2>2. \A w \in Values : Nesting[w] < Nesting[v] => WriteAmf0[w] = g[w]
    BY <1>10
  <2> HIDE DEF g
  <2>3. AmfBytes(WriteAmf0, v) = AmfBytes(g, v)
    BY <2>2, AmfBytesLocal
  <2>4. AmfBytes(g, v) \in Buffer
    BY <2>1, AmfBytesIn
  <2> QED
    BY <1>9, <2>3, <2>4
<1>11. T = Values
  <2>1. T \in SUBSET Values
    OBVIOUS
  <2> HIDE DEF T
  <2>2. Progresses(T, Values, Nesting)
    BY <1>4, <1>10, <2>1 DEF Progresses
  <2> QED
    BY <2>2, SizeInduction
<1>12. WriteAmf0 \in [Values -> Buffer]
  <2>1. \A v \in Values : WriteAmf0[v] \in Buffer
    BY <1>11
  <2> QED
    BY <1>8, <2>1
<1> QED
  BY <1>9, <1>12

-----------------------------------------------------------------------------
(***************************************************************************)
(* Messages: a header, a command, a callback and a parameter.              *)
(***************************************************************************)
Zeros(n) == [i \in 1 .. n |-> 0]

LEMMA ZerosIn ==
  \A n : n \in Nat => Zeros(n) \in Buffer /\ Size(Zeros(n)) = n
<1>1. ASSUME NEW n \in Nat
      PROVE  Zeros(n) \in Buffer /\ Size(Zeros(n)) = n
  <2>1. 0 \in Byte
    BY ByteIs
  <2>2. Zeros(n) \in [1 .. n -> Byte]
    BY <2>1 DEF Zeros
  <2> QED
    BY <2>2 DEF Buffer, Size
<1> QED
  BY <1>1

CallBack(form) == IF form = 15 THEN Nil ELSE Join(Zeros(9), One(5))

LEMMA CallBackIn ==
  \A form : CallBack(form) \in Buffer /\ Size(CallBack(form)) <= Size(CallBack(17))
              /\ Size(CallBack(form)) \in Nat
<1> DEFINE c == Join(Zeros(9), One(5))
<1>1. c \in Buffer
  <2> DEFINE n == 9
             z == Zeros(n)
  <2>1. n \in Nat /\ 5 \in Byte
    BY ByteIs
  <2> HIDE DEF n
  <2>2. z \in Buffer
    BY <2>1, ZerosIn
  <2> HIDE DEF z
  <2>3. Join(z, One(5)) \in Buffer
    BY <2>1, <2>2, OneIn, JoinIn
  <2> QED
    BY <2>3 DEF z, n
<1> HIDE DEF c
<1>2. Size(c) \in Nat
  BY <1>1, SizeNat
<1>3. \A form : CallBack(form) = IF form = 15 THEN Nil ELSE c
  BY DEF CallBack, c
<1> QED
  BY <1>1, <1>2, <1>3, NilFacts

LEMMA PlayIn == Play \in Buffer /\ Size(Play) = 4
<1>1. 112 \in Byte /\ 108 \in Byte /\ 97 \in Byte /\ 121 \in Byte
  BY ByteIs
<1>2. ASSUME NEW a \in Byte, NEW b \in Byte, NEW c \in Byte, NEW d \in Byte
      PROVE  <<a, b, c, d>> \in Buffer /\ Size(<<a, b, c, d>>) = 4
  <2>1. One(d) \in Buffer /\ Size(One(d)) = 1
    BY OneIn
  <2>2. <<c, d>> \in Buffer /\ Size(<<c, d>>) = 2
    BY <2>1, Put, Tuple2
  <2>3. <<b, c, d>> \in Buffer /\ Size(<<b, c, d>>) = 3
    BY <2>2, Put, Tuple3
  <2> QED
    BY <2>3, Put, Tuple4
<1> QED
  BY <1>1, <1>2 DEF Play

MsgBytes(form, v) ==
  Join(One(form), Join(Zeros(HeaderLen(form)), Join(One(2),
    Join(WriteString(Play), Join(CallBack(form), WriteAmf0[v])))))

LEMMA MsgIs ==
  ASSUME NEW form \in {15, 17, 20}, NEW v \in Values
  PROVE  /\ EncodeMsg(form, Play, v) = MsgBytes(form, v)
         /\ MsgBytes(form, v) \in Buffer
         /\ Size(MsgBytes(form, v))
              = 8 + HeaderLen(form) + Size(CallBack(form)) + Size(WriteAmf0[v])
         /\ HeaderLen(form) \in Nat /\ HeaderLen(form) <= HeaderLen(17)
         /\ WriteAmf0[v] \in Buffer /\ Size(WriteAmf0[v]) \in Nat
<1> DEFINE h == HeaderLen(form)
           z == Zeros(h)
           s == WriteString(Play)
           c == CallBack(form)
           w == WriteAmf0[v]
<1>1. form \in Byte /\ 2 \in Byte
  BY ByteIs
<1>2. h \in Nat /\ h <= HeaderLen(17)
  BY DEF HeaderLen
<1> HIDE DEF h
<1>3. z \in Buffer /\ Size(z) = h
  BY <1>2, ZerosIn
<1>4. s \in Buffer /\ Size(s) = 6
  <2>1. Play \in Buffer /\ Size(Play) = 4 /\ Size(Play) \in Short
    BY PlayIn DEF Short
  <2> QED
    BY <2>1, StringIs
<1>5. c \in Buffer /\ Size(c) \in Nat
  BY CallBackIn
<1>6. w \in Buffer /\ Size(w) \in Nat
  BY WriteAmf0In, SizeNat
<1>7. EncodeMsg(form, Play, v) = Join(Join(Join(Join(Join(One(form), z), One(2)), s), c), w)
  BY Zenon DEF EncodeMsg, Join, One, Zeros, CallBack, Nil, h
<1>8. /\ One(form) \in Buffer /\ Size(One(form)) = 1 /\ One(2) \in Buffer /\ Size(One(2)) = 1
  BY <1>1, OneIn
<1> HIDE DEF z, s, c, w
<1> DEFINE a == One(form)
           b == One(2)
           j1 == Join(c, w)
           j2 == Join(s, j1)
           j3 == Join(b, j2)
           j4 == Join(z, j3)
           j5 == Join(a, j4)
<1> HIDE DEF a, b
<1>9. Join(Join(Join(Join(Join(a, z), b), s), c), w) = j5
  BY <1>3, <1>4, <1>5, <1>6, <1>8, Chain6 DEF a, b
<1>10. j1 \in Buffer /\ Size(j1) = Size(c) + Size(w)
  BY <1>5, <1>6, JoinIn, JoinSize
<1> HIDE DEF j1
<1>11. j2 \in Buffer /\ Size(j2) = Size(s) + Size(j1)
  BY <1>4, <1>10, JoinIn, JoinSize
<1> HIDE DEF j2
<1>12. j3 \in Buffer /\ Size(j3) = Size(b) + Size(j2)
  BY <1>8, <1>11, JoinIn, JoinSize DEF b
<1> HIDE DEF j3
<1>13. j4 \in Buffer /\ Size(j4) = Size(z) + Size(j3)
  BY <1>3, <1>12, JoinIn, JoinSize
<1> HIDE DEF j4
<1>14. j5 \in Buffer /\ Size(j5) = Size(a) + Size(j4)
  BY <1>8, <1>13, JoinIn, JoinSize DEF a
<1> HIDE DEF j5
<1>15. Size(j5) = 8 + h + Size(c) + Size(w)
  BY <1>2, <1>3, <1>4, <1>5, <1>6, <1>8, <1>10, <1>11, <1>12, <1>13, <1>14 DEF a, b
<1>16. MsgBytes(form, v) = j5
  BY Zenon DEF MsgBytes, j1, j2, j3, j4, j5, a, b, z, s, c, w, h
<1>17. EncodeMsg(form, Play, v) = j5
  BY <1>7, <1>9 DEF a, b
<1> QED
  BY <1>2, <1>6, <1>14, <1>15, <1>16, <1>17 DEF h, c, w

LEMMA CommandIn ==
  \A d : d \in CommandBytes => d \in Buffer /\ Size(d) <= 2000
<1>1. ASSUME NEW form \in {15, 17, 20}, NEW v \in Values
      PROVE  EncodeMsg(form, Play, v) \in Buffer /\ Size(EncodeMsg(form, Play, v)) <= 2000
  <2> DEFINE d == EncodeMsg(form, Play, v)
             e == EncodeMsg(17, Play, v)
             h == HeaderLen(form)
             c == Size(CallBack(form))
             w == Size(WriteAmf0[v])
  <2>1. /\ d \in Buffer /\ Size(d) = 8 + h + c + w
        /\ h \in Nat /\ h <= HeaderLen(17) /\ w \in Nat
    BY MsgIs
  <2>2. Size(e) = 8 + HeaderLen(17) + Size(CallBack(17)) + w /\ HeaderLen(17) \in Nat
    <3> DEFINE f == 17
    <3>1. f \in {15, 17, 20}
      OBVIOUS
    <3> HIDE DEF f
    <3>2. Size(EncodeMsg(f, Play, v)) = 8 + HeaderLen(f) + Size(CallBack(f)) + w /\ HeaderLen(f) \in Nat
      BY <3>1, MsgIs
    <3> QED
      BY <3>2 DEF f
  <2>3. Size(e) <= 1460
    BY CommandsAssumption DEF Size, Smss
  <2>4. c \in Nat /\ Size(CallBack(17)) \in Nat /\ c <= Size(CallBack(17))
    BY CallBackIn
  <2> HIDE DEF d, e, h, c, w
  <2>5. Size(d) <= 2000
    BY <2>1, <2>2, <2>3, <2>4
  <2> QED
    BY <2>1, <2>5 DEF d
<1> QED
  BY <1>1 DEF CommandBytes

-----------------------------------------------------------------------------
(***************************************************************************)
(* All chunks that are sent, alone, arrive as what they are, rounded.      *)
(***************************************************************************)
LEMMA SizesIn ==
  \A b : b \in Sizes => b \in Buffer /\ Size(b) <= 2000
<1>1. ASSUME NEW b \in Sizes
      PROVE  b \in Buffer /\ Size(b) <= 2000
  <2>1. PICK n \in DataSizes : b = SomeBytes(n)
    BY DEF Sizes
  <2>2. n \in 0 .. Smss
    BY NumbersAssumption
  <2>3. n \in Nat /\ n <= 2000
    BY <2>2 DEF Smss
  <2>4. b \in Buffer /\ Size(b) = n
    BY <2>1, <2>3, Bytes255
  <2> QED
    BY <2>3, <2>4
<1> QED
  BY <1>1

LEMMA NumbersIn ==
  /\ \A n : n \in Numbers => n \in Number
  /\ 1 \in Number /\ 0 \in Number /\ 2 \in Number /\ 127 \in Number /\ 128 \in Number
<1>1. \A n : n \in Numbers => n \in Number
  BY NumbersAssumption DEF Number
<1>2. 1 \in Short /\ 0 \in Short /\ 2 \in Short /\ 127 \in Short /\ 128 \in Short
  BY DEF Short
<1> QED
  BY <1>1, <1>2, SmallNumber

AllShort(D) == \A d \in D : d \in Buffer /\ Size(d) <= 2000

UserDatum(g, a, f, n, o, d, rel) ==
  [type |-> "userdata", frag |-> g, abandon |-> a, final |-> a, flowid |-> f,
   seq |-> n, offset |-> o, data |-> d,
   options |-> IF n = 1 THEN FlowOptions(Signature, rel) ELSE <<>>]

LEMMA UserDataIn ==
  ASSUME NEW F \in SUBSET (0 .. 3), NEW I \in SUBSET Number, NEW S \in SUBSET Number,
         NEW O \in SUBSET Number, NEW D, AllShort(D), NEW m \in UserData(F, I, S, O, D)
  PROVE  /\ m \in SentUserData
         /\ m.frag \in F /\ m.flowid \in I /\ m.seq \in S /\ m.offset \in O /\ m.data \in D
         /\ m.options = Nil \/ \E rel \in RelFlows \cup {NoFlow} : m.options = FlowOptions(Signature, rel)
<1>1. PICK g \in F, a \in BOOLEAN, f \in I, n \in S, o \in O, d \in D, rel \in RelFlows \cup {NoFlow} :
        m = [type |-> "userdata", frag |-> g, abandon |-> a, final |-> a, flowid |-> f,
             seq |-> n, offset |-> o, data |-> d,
             options |-> IF n = 1 THEN FlowOptions(Signature, rel) ELSE <<>>]
  <2>0. m \in UserData(F, I, S, O, D)
    OBVIOUS
  <2>1. m \in {UserDatum(g, a, f, n, o, d, rel) :
                 g \in F, a \in BOOLEAN, f \in I, n \in S, o \in O, d \in D,
                 rel \in RelFlows \cup {NoFlow}}
    BY ONLY <2>0, SMTT(30) DEF UserData, UserDatum
  <2>2. \E g \in F, a \in BOOLEAN, f \in I, n \in S, o \in O, d \in D, rel \in RelFlows \cup {NoFlow} :
          m = UserDatum(g, a, f, n, o, d, rel)
    BY ONLY <2>1, SMT
  <2> QED
    BY ONLY <2>2, SMT DEF UserDatum
<1> DEFINE p == IF n = 1 THEN FlowOptions(Signature, rel) ELSE Nil
<1>2. OptionsEnd(FlowOptions(Signature, rel))
  BY <1>1, FlowOptionsEnd
<1>3. p = Nil \/ p = FlowOptions(Signature, rel)
  OBVIOUS
<1>4. p \in Buffer /\ (p = Nil \/ OptionsEnd(p))
  BY <1>2, <1>3, NilFacts DEF OptionsEnd
<1>5. m = [type |-> "userdata", frag |-> g, abandon |-> a, final |-> a, flowid |-> f,
           seq |-> n, offset |-> o, data |-> d, options |-> p]
  BY <1>1 DEF Nil
<1> HIDE DEF p
<1>6. /\ m.type = "userdata" /\ m.frag = g /\ m.abandon = a /\ m.final = a /\ m.flowid = f
      /\ m.seq = n /\ m.offset = o /\ m.data = d /\ m.options = p
  BY <1>5
<1>7. d \in Buffer /\ Size(d) <= 2000
  BY DEF AllShort
<1>8. m \in UserDataFields
  BY <1>4, <1>5, <1>7 DEF UserDataFields
<1>9. m \in SentUserData
  BY <1>4, <1>6, <1>7, <1>8 DEF SentUserData
<1> QED
  BY <1>3, <1>6, <1>9

\* What a chunk that does not continue another says, and how it is read after place.
DataOf(m) == IF m.type \in StartupTypes THEN EncodeStartup(m) ELSE EncodeSessionChunk(m)
ReadAs(type, place, d) ==
  IF type \in StartupTypes THEN DecodeStartup(type, d) ELSE DecodeSessionChunk(type, place, d)

GetsThere(m) ==
  /\ m.type \in DOMAIN ChunkTypes /\ DataOf(m) \in Buffer /\ Size(DataOf(m)) \in Short
  /\ \A place : ReadAs(m.type, PlaceAfter(m.type, place, DataOf(m)), DataOf(m)) = Rounded(m)

LEMMA StartupArrives ==
  \A m : (m.type \in StartupTypes /\ StartsUp(m)) => GetsThere(m)
<1>1. ASSUME NEW m, m.type \in StartupTypes, StartsUp(m)
      PROVE  GetsThere(m)
  <2>1. DataOf(m) = EncodeStartup(m)
    BY <1>1 DEF DataOf
  <2>2. m.type \in DOMAIN ChunkTypes
    BY <1>1 DEF StartupTypes, ChunkTypes
  <2>3. Rounded(m) = m
    BY <1>1 DEF Rounded, StartupTypes
  <2>4. \A place : ReadAs(m.type, place, DataOf(m)) = m
    BY <1>1, <2>1 DEF ReadAs, StartsUp
  <2> QED
    BY <1>1, <2>1, <2>2, <2>3, <2>4 DEF GetsThere, StartsUp
<1> QED
  BY <1>1

LEMMA UserDataArrives ==
  ASSUME NEW m \in SentUserData
  PROVE  GetsThere(m)
<1> DEFINE e == EncodeUserData(m)
<1>1. /\ e \in Buffer /\ Size(e) \in Short
      /\ DecodePlace(From(e, 2)).value = Place(m)
      /\ \A place : place = Place(m) => DecodeUserData(place, e) = m
  BY UserDataBack
<1>2. m.type = "userdata"
  BY UserDataIs
<1>3. DataOf(m) = e
  BY <1>2 DEF DataOf, EncodeSessionChunk, StartupTypes
<1> HIDE DEF e
<1>4. \A place : PlaceAfter("userdata", place, e) = Place(m)
  BY <1>1 DEF PlaceAfter
<1>5. ReadAs("userdata", Place(m), e) = m
  BY <1>1 DEF ReadAs, StartupTypes, DecodeSessionChunk
<1>6. Rounded(m) = m
  BY <1>2 DEF Rounded
<1>7. "userdata" \in DOMAIN ChunkTypes
  BY DEF ChunkTypes
<1> QED
  BY <1>1, <1>2, <1>3, <1>4, <1>5, <1>6, <1>7 DEF GetsThere

LEMMA HelloArrives ==
  \A m : m \in Hellos => GetsThere(m) /\ m.type \in StartupTypes
<1>1. ASSUME NEW m \in [type : {"ihello"}, edpType : {10, 15}, edp : Endpoint, tag : Bytes4]
      PROVE  GetsThere(m) /\ m.type \in StartupTypes
  BY IHelloBack, StartupArrives DEF StartupTypes
<1>2. ASSUME NEW m \in [type : {"fihello"}, edpType : {15}, edp : Endpoint, addr : Addresses,
                        tag : Bytes4]
      PROVE  GetsThere(m) /\ m.type \in StartupTypes
  BY FIHelloBack, StartupArrives DEF StartupTypes
<1>3. ASSUME NEW m \in [type : {"rhello"}, tag : Bytes4, cookie : Bytes4, cert : Certificates]
      PROVE  GetsThere(m) /\ m.type \in StartupTypes
  BY RHelloBack, StartupArrives DEF StartupTypes
<1>4. ASSUME NEW m \in [type : {"redirect"}, tag : Bytes4,
                        addrs : {<<>>} \cup {<<a, b>> : a, b \in Addresses}]
      PROVE  GetsThere(m) /\ m.type \in StartupTypes
  BY RedirectBack, StartupArrives DEF StartupTypes
<1>5. ASSUME NEW m \in [type : {"cookiechange"}, old : Bytes4, cookie : Bytes4]
      PROVE  GetsThere(m) /\ m.type \in StartupTypes
  BY CookieChangeBack, StartupArrives DEF StartupTypes
<1> QED
  BY <1>1, <1>2, <1>3, <1>4, <1>5 DEF Hellos

LEMMA KeyingArrives ==
  \A m : m \in Keyings \cup [type : {"rikeying"}, sid : {1}, nonce : {SomeBytes(8)}] =>
     GetsThere(m) /\ m.type \in StartupTypes
<1>1. ASSUME NEW m \in [type : {"iikeying"}, sid : {1, 65535}, cookie : Bytes4,
                        cert : {InitiatorCert(k) : k \in DhKeys}, nonce : {Nonce(k) : k \in DhKeys}]
      PROVE  GetsThere(m) /\ m.type \in StartupTypes
  BY IIKeyingBack, StartupArrives DEF StartupTypes
<1>2. ASSUME NEW m \in [type : {"rikeying"}, sid : {1, 256}, nonce : NonceLike]
      PROVE  GetsThere(m) /\ m.type \in StartupTypes
  BY RIKeyingBack, StartupArrives DEF StartupTypes
<1>3. /\ [type : {"rikeying"}, sid : {1, 256}, nonce : {Nonce(k) : k \in DhKeys}]
           \subseteq [type : {"rikeying"}, sid : {1, 256}, nonce : NonceLike]
      /\ [type : {"rikeying"}, sid : {1}, nonce : {SomeBytes(8)}]
           \subseteq [type : {"rikeying"}, sid : {1, 256}, nonce : NonceLike]
  BY DEF NonceLike
<1> QED
  BY <1>1, <1>2, <1>3 DEF Keyings

\* A chunk of a session that does not depend on its place.
Tells(m) ==
  /\ EncodeSessionChunk(m) \in Buffer /\ Size(EncodeSessionChunk(m)) \in Short
  /\ \A place : DecodeSessionChunk(m.type, place, EncodeSessionChunk(m)) = Rounded(m)

OtherTypes ==
  {"rangeack", "bitmapack", "probe", "exception", "ping", "pingreply", "closerequest", "closeack"}

LEMMA SessionArrives ==
  \A m : (m.type \in OtherTypes /\ Tells(m)) => GetsThere(m)
<1>1. ASSUME NEW m, m.type \in OtherTypes, Tells(m)
      PROVE  GetsThere(m)
  <2>1. DataOf(m) = EncodeSessionChunk(m)
    BY <1>1 DEF DataOf, OtherTypes, StartupTypes
  <2>2. m.type \in DOMAIN ChunkTypes
    BY <1>1 DEF OtherTypes, ChunkTypes
  <2>3. \A place, d : ReadAs(m.type, place, d) = DecodeSessionChunk(m.type, place, d)
    BY <1>1 DEF ReadAs, OtherTypes, StartupTypes
  <2> QED
    BY <1>1, <2>1, <2>2, <2>3 DEF GetsThere, Tells
<1> QED
  BY <1>1

LEMMA WindowIn ==
  \A w : w \in {0, 1023, 1024, 1024 * 1024} => w \div 1024 \in Number
<1>1. ASSUME NEW w \in {0, 1023, 1024, 1024 * 1024}
      PROVE  w \div 1024 \in {0, 1024, 1}
  OBVIOUS
<1> QED
  BY <1>1, SmallNumbers

LEMMA RangeAckArrives ==
  ASSUME NEW c \in Numbers,
         NEW m \in [type : {"rangeack"}, flowid : {1}, bufAvail : {0, 1023, 1024, 1024 * 1024},
                    cumAck : {c}, ranges : SomeRanges(c)]
  PROVE  Tells(m) /\ m.type = "rangeack"
<1> DEFINE e == EncodeRangeAck(m)
<1>1. /\ m.type = "rangeack" /\ m.flowid = 1 /\ m.cumAck = c /\ m.ranges \in SomeRanges(c)
      /\ m.bufAvail \in {0, 1023, 1024, 1024 * 1024}
  OBVIOUS
<1>2. AckFields(m)
  <2>1. m.bufAvail \div 1024 \in Number
    BY <1>1, WindowIn
  <2> QED
    BY <1>1, <2>1, NumbersIn DEF AckFields
<1>3. /\ e \in Buffer /\ Size(e) \in Short
      /\ DecodeAck("rangeack", e)
           = [type |-> "rangeack", flowid |-> m.flowid, bufAvail |-> (m.bufAvail \div 1024) * 1024,
              cumAck |-> m.cumAck, ranges |-> m.ranges]
  BY <1>1, <1>2, RangeAckBack
<1>4. EncodeSessionChunk(m) = e
  BY <1>1 DEF EncodeSessionChunk
<1> HIDE DEF e
<1>5. \A place : DecodeSessionChunk("rangeack", place, e) = DecodeAck("rangeack", e)
  BY DEF DecodeSessionChunk
<1>6. Rounded(m)
        = [type |-> "rangeack", flowid |-> m.flowid, bufAvail |-> (m.bufAvail \div 1024) * 1024,
           cumAck |-> m.cumAck, ranges |-> m.ranges]
  <2> DEFINE w == (m.bufAvail \div 1024) * 1024
  <2> HIDE DEF w
  <2>1. Rounded(m) = [type |-> "rangeack", flowid |-> m.flowid, cumAck |-> m.cumAck,
                      bufAvail |-> w, ranges |-> m.ranges]
    BY <1>1 DEF Rounded, w
  <2> QED
    BY <2>1 DEF w
<1> QED
  BY <1>1, <1>3, <1>4, <1>5, <1>6 DEF Tells

LEMMA BitmapAckArrives ==
  ASSUME NEW m \in [type : {"bitmapack"}, flowid : {1}, bufAvail : {1024}, cumAck : Numbers,
                    bitmap : Sizes]
  PROVE  Tells(m) /\ m.type = "bitmapack"
<1> DEFINE e == EncodeBitmapAck(m)
<1>1. /\ m.type = "bitmapack" /\ m.flowid = 1 /\ m.cumAck \in Numbers /\ m.bitmap \in Sizes
      /\ m.bufAvail \in {0, 1023, 1024, 1024 * 1024}
  OBVIOUS
<1>2. AckFields(m)
  <2>1. m.bufAvail \div 1024 \in Number
    BY <1>1, WindowIn
  <2> QED
    BY <1>1, <2>1, NumbersIn DEF AckFields
<1>3. /\ e \in Buffer /\ Size(e) \in Short
      /\ DecodeAck("bitmapack", e)
           = [type |-> "rangeack", flowid |-> m.flowid, bufAvail |-> (m.bufAvail \div 1024) * 1024,
              cumAck |-> m.cumAck, ranges |-> <<>>]
  BY <1>1, <1>2, SizesIn, BitmapAckBack
<1>4. EncodeSessionChunk(m) = e
  BY <1>1 DEF EncodeSessionChunk
<1> HIDE DEF e
<1>5. \A place : DecodeSessionChunk("bitmapack", place, e) = DecodeAck("bitmapack", e)
  BY DEF DecodeSessionChunk
<1>6. Rounded(m)
        = [type |-> "rangeack", flowid |-> m.flowid, bufAvail |-> (m.bufAvail \div 1024) * 1024,
           cumAck |-> m.cumAck, ranges |-> <<>>]
  <2> DEFINE w == (m.bufAvail \div 1024) * 1024
  <2> HIDE DEF w
  <2>1. Rounded(m) = [type |-> "rangeack", flowid |-> m.flowid, cumAck |-> m.cumAck,
                      bufAvail |-> w, ranges |-> <<>>]
    BY <1>1 DEF Rounded, w
  <2> QED
    BY <2>1 DEF w
<1> QED
  BY <1>1, <1>3, <1>4, <1>5, <1>6 DEF Tells

LEMMA ProbeArrives ==
  ASSUME NEW m \in [type : {"probe"}, flowid : Numbers]
  PROVE  Tells(m) /\ m.type = "probe"
<1>1. m = [type |-> "probe", flowid |-> m.flowid] /\ m.type = "probe" /\ m.flowid \in Number
  BY NumbersIn
<1> DEFINE e == EncodeVlu(m.flowid)
<1>2. e \in Buffer /\ Size(e) \in Short /\ DecodeVlu(e).value = m.flowid
  BY <1>1, ProbeBack
<1>3. EncodeSessionChunk(m) = e
  BY <1>1 DEF EncodeSessionChunk
<1> HIDE DEF e
<1>4. \A place : DecodeSessionChunk("probe", place, e) = [type |-> "probe", flowid |-> m.flowid]
  BY <1>2 DEF DecodeSessionChunk
<1>5. Rounded(m) = m
  BY <1>1 DEF Rounded
<1> QED
  BY <1>1, <1>2, <1>3, <1>4, <1>5 DEF Tells

LEMMA ExceptionArrives ==
  ASSUME NEW m \in [type : {"exception"}, flowid : Numbers, exception : Numbers]
  PROVE  Tells(m) /\ m.type = "exception"
<1>1. /\ m = [type |-> "exception", flowid |-> m.flowid, exception |-> m.exception]
      /\ m.type = "exception" /\ m.flowid \in Number /\ m.exception \in Number
  BY NumbersIn
<1> DEFINE e == EncodeException(m)
<1>2. /\ e \in Buffer /\ Size(e) \in Short
      /\ DecodeException(e) = [type |-> "exception", flowid |-> m.flowid, exception |-> m.exception]
  BY <1>1, ExceptionBack
<1>3. EncodeSessionChunk(m) = e
  BY <1>1 DEF EncodeSessionChunk
<1> HIDE DEF e
<1>4. \A place : DecodeSessionChunk("exception", place, e) = DecodeException(e)
  BY DEF DecodeSessionChunk
<1>5. Rounded(m) = m
  BY <1>1 DEF Rounded
<1> QED
  BY <1>1, <1>2, <1>3, <1>4, <1>5 DEF Tells

LEMMA PingArrives ==
  ASSUME NEW m \in [type : {"ping", "pingreply"}, body : Sizes]
  PROVE  Tells(m) /\ m.type \in {"ping", "pingreply"}
<1>1. m = [type |-> m.type, body |-> m.body] /\ m.type \in {"ping", "pingreply"} /\ m.body \in Sizes
  OBVIOUS
<1>2. m.body \in Buffer /\ Size(m.body) \in Short
  <2>1. m.body \in Buffer /\ Size(m.body) <= 2000
    BY <1>1, SizesIn
  <2>2. Size(m.body) \in Nat
    BY <2>1, SizeNat
  <2> QED
    BY <2>1, <2>2 DEF Short
<1>3. EncodeSessionChunk(m) = m.body
  BY <1>1 DEF EncodeSessionChunk
<1>4. \A place, b : DecodeSessionChunk(m.type, place, b) = [type |-> m.type, body |-> b]
  BY <1>1 DEF DecodeSessionChunk
<1>5. Rounded(m) = m
  BY <1>1 DEF Rounded
<1>6. \A place : DecodeSessionChunk(m.type, place, m.body) = m
  BY <1>1, <1>4
<1> QED
  BY <1>1, <1>2, <1>3, <1>5, <1>6 DEF Tells

LEMMA CloseArrives ==
  ASSUME NEW m \in [type : {"closerequest", "closeack"}]
  PROVE  Tells(m) /\ m.type \in {"closerequest", "closeack"}
<1>1. m = [type |-> m.type] /\ m.type \in {"closerequest", "closeack"}
  OBVIOUS
<1>2. EncodeSessionChunk(m) = Nil
  BY <1>1 DEF EncodeSessionChunk, Nil
<1>3. \A place, b : DecodeSessionChunk(m.type, place, b) = [type |-> m.type]
  BY <1>1 DEF DecodeSessionChunk
<1>4. Rounded(m) = m
  BY <1>1 DEF Rounded
<1>5. Nil \in Buffer /\ Size(Nil) \in Short
  BY NilFacts DEF Short
<1> QED
  BY <1>1, <1>2, <1>3, <1>4, <1>5 DEF Tells

LEMMA WriteU29In ==
  ASSUME NEW v \in Nat, v \div 256 < ThreeDigits
  PROVE  WriteU29(v) \in Buffer /\ Size(WriteU29(v)) <= 4
<1>1. CASE v < ThreeDigits
  <2> DEFINE u == WriteU29(v)
  <2>1. u \in Buffer /\ Size(u) \in 1 .. 4
    BY <1>1, NilFacts, ShortU29 DEF Size
  <2> HIDE DEF u
  <2>2. Size(u) <= 4
    BY <2>1
  <2> QED
    BY <2>1, <2>2 DEF u
<1>2. CASE ~ (v < ThreeDigits)
  <2> DEFINE w == v \div 256
             y == v % 256
             x == (w % 128) + 128
             d == Leading[w]
             f == Append(d, x)
             e == Append(f, y)
  <2>1. w \in Nat /\ y \in Byte
    BY By256 DEF Byte
  <2>2. WriteU29(v) = e
    BY <1>2 DEF WriteU29, InternalEncode
  <2> HIDE DEF w, y
  <2>3. w % 128 \in 0 .. 127
    BY <2>1, By128
  <2>4. x \in Byte
    <3> DEFINE k == w % 128
    <3>1. k \in 0 .. 127 /\ x = k + 128
      BY <2>3
    <3> HIDE DEF k, x
    <3> QED
      BY <3>1 DEF Byte
  <2>5. w < ThreeDigits
    BY DEF w
  <2>6. d \in Buffer /\ Len(d) <= 2
    BY <2>1, <2>5, LeadingFacts, LeadingSize
  <2> HIDE DEF x, d
  <2>7. f \in Buffer /\ Len(f) = Len(d) + 1
    BY <2>4, <2>6, Appended
  <2> HIDE DEF f
  <2>8. e \in Buffer /\ Len(e) = Len(f) + 1
    BY <2>1, <2>7, Appended
  <2>9. Len(d) \in Nat
    BY <2>6, LenNat
  <2> HIDE DEF e
  <2>10. Len(e) <= 4
    BY <2>6, <2>7, <2>8, <2>9
  <2> QED
    BY <2>2, <2>8, <2>10 DEF Size
<1> QED
  BY <1>1, <1>2

LEMMA ByteArrayIn ==
  \A len : len \in Lengths =>
    /\ ByteArray(len) \in Buffer /\ Size(ByteArray(len)) <= 2000
    /\ 2 * len + 1 \in Nat /\ len \in Nat /\ (2 * len + 1) \div 256 < ThreeDigits
    /\ (2 * len + 1) \div 2 = len
<1>1. ASSUME NEW len \in Lengths
      PROVE  /\ ByteArray(len) \in Buffer /\ Size(ByteArray(len)) <= 2000
             /\ 2 * len + 1 \in Nat /\ len \in Nat /\ (2 * len + 1) \div 256 < ThreeDigits
             /\ (2 * len + 1) \div 2 = len
  <2> DEFINE v == 2 * len + 1
             u == WriteU29(v)
             o == 1
             s == SomeBytes(o)
  <2>1. len \in Nat /\ len < FourDigits
    BY NumbersAssumption
  <2>2. v \in Nat /\ v \div 256 < ThreeDigits /\ v \div 2 = len
    BY <2>1, DigitsNat
  <2> HIDE DEF v
  <2>3. u \in Buffer /\ Size(u) <= 4
    BY <2>2, WriteU29In
  <2>4. o \in Nat
    OBVIOUS
  <2> HIDE DEF o
  <2>5. s \in Buffer /\ Size(s) = o
    BY <2>4, Bytes255
  <2> HIDE DEF u, s
  <2>6. Join(u, s) \in Buffer /\ Size(Join(u, s)) = Size(u) + Size(s) /\ Size(u) \in Nat
    BY <2>3, <2>5, JoinIn, JoinSize, SizeNat
  <2>7. ByteArray(len) = Join(u, s)
    BY DEF ByteArray, Join, u, v, s, o
  <2>8. Size(Join(u, s)) <= 2000
    BY <2>3, <2>5, <2>6 DEF o
  <2> QED
    BY <2>1, <2>2, <2>6, <2>7, <2>8 DEF v
<1> QED
  BY <1>1

LEMMA DataSent ==
  /\ AllShort(Sizes \cup {ByteArray(len) : len \in Lengths}) /\ AllShort(CommandBytes)
  /\ AllShort(Sizes) /\ AllShort({SomeBytes(3)})
<1>1. AllShort(Sizes)
  BY SizesIn DEF AllShort
<1>2. AllShort({ByteArray(len) : len \in Lengths})
  BY ByteArrayIn DEF AllShort
<1>3. AllShort(CommandBytes)
  BY CommandIn DEF AllShort
<1>4. AllShort({SomeBytes(3)})
  <2> DEFINE n == 3
  <2>1. n \in Nat /\ n <= 2000
    OBVIOUS
  <2> HIDE DEF n
  <2>2. SomeBytes(n) \in Buffer /\ Size(SomeBytes(n)) = n
    BY <2>1, Bytes255
  <2> QED
    BY <2>1, <2>2 DEF n, AllShort
<1> HIDE DEF AllShort
<1>5. AllShort(Sizes \cup {ByteArray(len) : len \in Lengths})
  BY <1>1, <1>2 DEF AllShort
<1> QED
  BY <1>1, <1>3, <1>4, <1>5

LEMMA OneUserData ==
  \A m : m \in UserData(0 .. 3, Numbers, Numbers, {0, 128},
                        Sizes \cup {ByteArray(len) : len \in Lengths})
                 \cup UserData({0}, {2}, {2}, {2}, CommandBytes) =>
    /\ m \in SentUserData
    /\ m.options = Nil \/ \E rel \in RelFlows \cup {NoFlow} : m.options = FlowOptions(Signature, rel)
<1> DEFINE F == 0 .. 3
           O == {0, 128}
           D == Sizes \cup {ByteArray(len) : len \in Lengths}
           Z == {0}
           W == {2}
<1>1. /\ F \in SUBSET (0 .. 3) /\ Numbers \in SUBSET Number /\ O \in SUBSET Number
      /\ Z \in SUBSET (0 .. 3) /\ W \in SUBSET Number /\ AllShort(D) /\ AllShort(CommandBytes)
  BY NumbersIn, DataSent
<1> HIDE DEF F, O, D, Z, W
<1>2. ASSUME NEW m \in UserData(F, Numbers, Numbers, O, D)
      PROVE  /\ m \in SentUserData
             /\ m.options = Nil \/ \E rel \in RelFlows \cup {NoFlow} : m.options = FlowOptions(Signature, rel)
  BY <1>1, UserDataIn
<1>3. ASSUME NEW m \in UserData(Z, W, W, W, CommandBytes)
      PROVE  /\ m \in SentUserData
             /\ m.options = Nil \/ \E rel \in RelFlows \cup {NoFlow} : m.options = FlowOptions(Signature, rel)
  BY <1>1, UserDataIn
<1> QED
  BY <1>2, <1>3 DEF F, O, D, Z, W

LEMMA OneChunkArrives ==
  \A m : m \in OneChunk => GetsThere(m) /\ (m.type = "userdata" => m \in SentUserData)
<1> DEFINE A == UserData(0 .. 3, Numbers, Numbers, {0, 128},
                         Sizes \cup {ByteArray(len) : len \in Lengths})
                  \cup UserData({0}, {2}, {2}, {2}, CommandBytes)
<1>1. \A m : m \in A => GetsThere(m) /\ m \in SentUserData
  BY OneUserData, UserDataArrives
<1>2. \A m : m \in Acks => GetsThere(m) /\ m.type \in OtherTypes
  <2> DEFINE R(c) == [type : {"rangeack"}, flowid : {1}, bufAvail : {0, 1023, 1024, 1024 * 1024},
                      cumAck : {c}, ranges : SomeRanges(c)]
             B == [type : {"bitmapack"}, flowid : {1}, bufAvail : {1024}, cumAck : Numbers,
                   bitmap : Sizes]
  <2>1. ASSUME NEW c \in Numbers, NEW m \in R(c)
        PROVE  GetsThere(m) /\ m.type \in OtherTypes
    BY RangeAckArrives, SessionArrives DEF OtherTypes
  <2>2. ASSUME NEW m \in B
        PROVE  GetsThere(m) /\ m.type \in OtherTypes
    BY BitmapAckArrives, SessionArrives DEF OtherTypes
  <2> DEFINE U == UNION {R(c) : c \in Numbers}
  <2>3. Acks = B \cup U
    BY DEF Acks
  <2> HIDE DEF B
  <2>4. ASSUME NEW m \in U
        PROVE  \E c \in Numbers : m \in R(c)
    <3> HIDE DEF R
    <3>1. PICK S \in {R(c) : c \in Numbers} : m \in S
      BY Zenon
    <3> QED
      BY <3>1, Zenon
  <2> HIDE DEF R, U
  <2>5. ASSUME NEW m \in Acks
        PROVE  GetsThere(m) /\ m.type \in OtherTypes
    <3>1. m \in U \/ m \in B
      BY <2>3
    <3> QED
      BY <2>1, <2>2, <2>4, <3>1
  <2> QED
    BY <2>5
<1>3. \A m : m \in [type : {"probe"}, flowid : Numbers] => GetsThere(m) /\ m.type \in OtherTypes
  BY ProbeArrives, SessionArrives DEF OtherTypes
<1>4. \A m : m \in [type : {"exception"}, flowid : Numbers, exception : Numbers] =>
        GetsThere(m) /\ m.type \in OtherTypes
  BY ExceptionArrives, SessionArrives DEF OtherTypes
<1>5. \A m : m \in [type : {"ping", "pingreply"}, body : Sizes] => GetsThere(m) /\ m.type \in OtherTypes
  BY PingArrives, SessionArrives DEF OtherTypes
<1>6. \A m : m \in [type : {"closerequest", "closeack"}] => GetsThere(m) /\ m.type \in OtherTypes
  BY CloseArrives, SessionArrives DEF OtherTypes
<1>7. "userdata" \notin OtherTypes
  BY DEF OtherTypes
<1>8. OneChunk = A \cup Acks \cup [type : {"probe"}, flowid : Numbers]
                   \cup [type : {"exception"}, flowid : Numbers, exception : Numbers]
                   \cup [type : {"ping", "pingreply"}, body : Sizes]
                   \cup [type : {"closerequest", "closeack"}]
  BY DEF OneChunk
<1> HIDE DEF A
<1> QED
  BY <1>1, <1>2, <1>3, <1>4, <1>5, <1>6, <1>7, <1>8

-----------------------------------------------------------------------------
(***************************************************************************)
(* The reader of a packet: from frame to chunk, with the place of the last *)
(* user data.                                                              *)
(***************************************************************************)
LEMMA ChunkTypesIn ==
  \A t : t \in DOMAIN ChunkTypes => ChunkTypes[t] \in Byte /\ TypeNamed(ChunkTypes[t]) = t
<1>1. \A t : t \in DOMAIN ChunkTypes => ChunkTypes[t] \in Nat /\ ChunkTypes[t] < 256
  BY DEF ChunkTypes
<1>2. \A s, t : (s \in DOMAIN ChunkTypes /\ t \in DOMAIN ChunkTypes /\ ChunkTypes[s] = ChunkTypes[t]) => s = t
  BY DEF ChunkTypes
<1>3. ASSUME NEW t \in DOMAIN ChunkTypes
      PROVE  TypeNamed(ChunkTypes[t]) = t
  BY <1>2 DEF TypeNamed
<1> QED
  BY <1>1, <1>3, ByteIs

LEMMA AddChunkIs ==
  \A t, d : (t \in DOMAIN ChunkTypes /\ d \in Buffer /\ Size(d) \in Short) =>
    AddChunk(t, d) = Framed(ChunkTypes[t], d)
<1>1. ASSUME NEW t \in DOMAIN ChunkTypes, NEW d \in Buffer, Size(d) \in Short
      PROVE  AddChunk(t, d) = Framed(ChunkTypes[t], d)
  <2> DEFINE x == ChunkTypes[t]
             w == Word(Size(d))
  <2>1. x \in Byte
    BY ChunkTypesIn
  <2>2. w \in Buffer
    BY <1>1, WordFacts
  <2>3. AddChunk(t, d) = Join(Join(One(x), w), d)
    BY Zenon DEF AddChunk, Join, One, Size
  <2> HIDE DEF x, w
  <2>4. Join(Join(One(x), w), d) = Join(One(x), Join(w, d))
    BY <2>1, <2>2, PutJoin
  <2> QED
    BY <2>3, <2>4 DEF Framed, x, w
<1> QED
  BY <1>1

NoPlace == [flowid |-> 0, seq |-> 0, offset |-> 0]
PlaceBehind(frame, last) == PlaceAfter(TypeNamed(frame.type), last, frame.data)
Places(s) == CHOOSE f : f = [i \in 0 .. Len(s) |-> IF i = 0 THEN NoPlace ELSE PlaceBehind(s[i], f[i - 1])]
ReadFrame(place, frame) == ReadAs(TypeNamed(frame.type), place, frame.data)

LEMMA ReadChunksIs ==
  \A b : ReadChunks(b) = [i \in DOMAIN Frames[b] |-> ReadFrame(Places(Frames[b])[i], Frames[b][i])]
BY DEF ReadChunks, ReadFrame, Places, PlaceBehind, NoPlace, ReadAs

LEMMA PlacesAre ==
  ASSUME NEW s, NEW n \in {1, 2, 3}, Len(s) = n
  PROVE  /\ Places(s)[1] = PlaceBehind(s[1], NoPlace)
         /\ n >= 2 => Places(s)[2] = PlaceBehind(s[2], Places(s)[1])
         /\ n >= 3 => Places(s)[3] = PlaceBehind(s[3], Places(s)[2])
<1> DEFINE p1 == PlaceBehind(s[1], NoPlace)
           p2 == PlaceBehind(s[2], p1)
           p3 == PlaceBehind(s[3], p2)
           w == [i \in 0 .. n |-> IF i = 0 THEN NoPlace ELSE IF i = 1 THEN p1 ELSE IF i = 2 THEN p2 ELSE p3]
           Q(f) == f = [i \in 0 .. n |-> IF i = 0 THEN NoPlace ELSE PlaceBehind(s[i], f[i - 1])]
<1> HIDE DEF NoPlace, PlaceBehind
<1>1. Q(w)
  <2>1. \A i \in 0 .. n : w[i] = IF i = 0 THEN NoPlace ELSE PlaceBehind(s[i], w[i - 1])
    <3>1. \A i \in 0 .. n : i = 0 \/ i = 1 \/ i = 2 \/ i = 3
      OBVIOUS
    <3>2. w[0] = NoPlace
      OBVIOUS
    <3>3. w[1] = p1
      OBVIOUS
    <3>4. n >= 2 => w[2] = p2
      OBVIOUS
    <3>5. n >= 3 => w[3] = p3
      OBVIOUS
    <3> HIDE DEF w
    <3> QED
      BY <3>1, <3>2, <3>3, <3>4, <3>5
  <2>2. w = [i \in 0 .. n |-> w[i]]
    OBVIOUS
  <2> HIDE DEF w
  <2> QED
    BY <2>1, <2>2
<1>2. Places(s) = CHOOSE f : Q(f)
  BY DEF Places
<1> DEFINE g == Places(s)
<1>3. Q(g)
  <2> HIDE DEF Q, w
  <2> QED
    BY <1>1, <1>2
<1> HIDE DEF g
<1>4. g[0] = NoPlace /\ g[1] = PlaceBehind(s[1], g[0])
  BY <1>3
<1>5. n >= 2 => g[2] = PlaceBehind(s[2], g[1])
  BY <1>3
<1>6. n >= 3 => g[3] = PlaceBehind(s[3], g[2])
  BY <1>3
<1> QED
  BY <1>4, <1>5, <1>6 DEF g

-----------------------------------------------------------------------------
(***************************************************************************)
(* The frames of one, two and three chunks, in front of padding.           *)
(***************************************************************************)
LEMMA FramesOne ==
  \A t, d, k : (t \in Byte /\ d \in Buffer /\ Size(d) \in Short /\ k \in 0 .. 15) =>
    Frames[Join(Framed(t, d), SomeBytes(k))] = <<Frame(t, d)>>
<1>1. ASSUME NEW t \in Byte, NEW d \in Buffer, Size(d) \in Short, NEW k \in 0 .. 15
      PROVE  Frames[Join(Framed(t, d), SomeBytes(k))] = <<Frame(t, d)>>
  <2> DEFINE p == SomeBytes(k)
  <2>0. k \in Nat
    OBVIOUS
  <2>1. p \in Buffer /\ Frames[p] = <<>>
    <3>1. p \in Buffer
      BY <2>0, Bytes255
    <3>2. Frames[p] = <<>>
      BY FramesEnd
    <3> QED
      BY <3>1, <3>2
  <2> HIDE DEF p
  <2>2. Frames[Join(Framed(t, d), p)] = <<Frame(t, d)>> \o Frames[p]
    BY <1>1, <2>1, FramesStep
  <2>3. <<Frame(t, d)>> \o <<>> = <<Frame(t, d)>>
    BY OneOf
  <2>4. Frames[Join(Framed(t, d), p)] = <<Frame(t, d)>>
    BY <2>1, <2>2, <2>3
  <2> QED
    BY <2>4 DEF p
<1> QED
  BY <1>1

\* A chunk that is written as the bytes c.
IsFramed(c, t, d) == c = Framed(t, d) /\ t \in Byte /\ d \in Buffer /\ Size(d) \in Short

LEMMA IsFramedIn ==
  \A c, t, d : IsFramed(c, t, d) => c \in Buffer /\ Size(c) <= 65538
<1>1. ASSUME NEW c, NEW t, NEW d, IsFramed(c, t, d)
      PROVE  c \in Buffer /\ Size(c) <= 65538
  <2>1. c \in Buffer /\ Size(c) = 3 + Size(d) /\ Size(d) \in Short
    BY <1>1, FramedIn DEF IsFramed
  <2> QED
    BY <2>1 DEF Short
<1> QED
  BY <1>1

LEMMA FramesMore ==
  ASSUME NEW c, NEW t, NEW d, IsFramed(c, t, d), NEW b \in Buffer, NEW p \in Buffer
  PROVE  Frames[Join(Join(c, b), p)] = <<Frame(t, d)>> \o Frames[Join(b, p)]
<1> DEFINE f == Framed(t, d)
<1>1. c = f /\ t \in Byte /\ d \in Buffer /\ Size(d) \in Short
  BY DEF IsFramed
<1>2. c \in Buffer
  BY IsFramedIn
<1>3. Join(Join(c, b), p) = Join(c, Join(b, p)) /\ Join(b, p) \in Buffer
  BY <1>2, Chain3
<1> DEFINE r == Join(b, p)
<1> HIDE DEF r
<1>4. Frames[Join(f, r)] = <<Frame(t, d)>> \o Frames[r]
  BY <1>1, <1>3, FramesStep DEF r
<1> QED
  BY <1>1, <1>3, <1>4 DEF r

LEMMA FramesTwo ==
  ASSUME NEW c1, NEW t1, NEW d1, IsFramed(c1, t1, d1),
         NEW c2, NEW t2, NEW d2, IsFramed(c2, t2, d2), NEW k \in 0 .. 15
  PROVE  Frames[Join(Join(c1, c2), SomeBytes(k))] = <<Frame(t1, d1), Frame(t2, d2)>>
<1> DEFINE p == SomeBytes(k)
           x == Frame(t1, d1)
           y == Frame(t2, d2)
<1>1. p \in Buffer
  BY Bytes255
<1>2. c2 \in Buffer
  BY IsFramedIn
<1>3. Frames[Join(c2, p)] = <<y>>
  BY FramesOne DEF IsFramed
<1> HIDE DEF p, x, y
<1>4. Frames[Join(Join(c1, c2), p)] = <<x>> \o Frames[Join(c2, p)]
  BY <1>1, <1>2, FramesMore DEF x
<1>5. <<y>> = <<y>> \o <<>>
  BY OneOf
<1>6. <<x>> \o (<<y>> \o <<>>) = <<x, y>>
  BY TwoOf
<1>7. Frames[Join(Join(c1, c2), p)] = <<x, y>>
  BY Zenon, <1>3, <1>4, <1>5, <1>6
<1> QED
  BY <1>7 DEF p, x, y

LEMMA FramesThree ==
  ASSUME NEW c1, NEW t1, NEW d1, IsFramed(c1, t1, d1),
         NEW c2, NEW t2, NEW d2, IsFramed(c2, t2, d2),
         NEW c3, NEW t3, NEW d3, IsFramed(c3, t3, d3), NEW k \in 0 .. 15
  PROVE  Frames[Join(Join(c1, Join(c2, c3)), SomeBytes(k))]
           = <<Frame(t1, d1), Frame(t2, d2), Frame(t3, d3)>>
<1> DEFINE p == SomeBytes(k)
           x == Frame(t1, d1)
           y == Frame(t2, d2)
           z == Frame(t3, d3)
<1>1. p \in Buffer
  BY Bytes255
<1>2. Join(c2, c3) \in Buffer
  BY IsFramedIn, JoinIn
<1>3. Frames[Join(Join(c2, c3), p)] = <<y, z>>
  BY FramesTwo
<1> DEFINE r == Join(c2, c3)
<1> HIDE DEF p, x, y, z, r
<1>4. Frames[Join(Join(c1, r), p)] = <<x>> \o Frames[Join(r, p)]
  BY <1>1, <1>2, FramesMore DEF x, r
<1>5. <<y, z>> = <<y>> \o (<<z>> \o <<>>)
  BY TwoOf
<1>6. <<x>> \o (<<y>> \o (<<z>> \o <<>>)) = <<x, y, z>>
  BY ThreeOf
<1>7. Frames[Join(Join(c1, r), p)] = <<x, y, z>>
  BY Zenon, <1>3, <1>4, <1>5, <1>6 DEF r
<1> QED
  BY <1>7 DEF p, x, y, z, r

-----------------------------------------------------------------------------
(***************************************************************************)
(* What a reader of AMF leaves is no longer than what it reads, whatever   *)
(* the bytes: so it is defined for every buffer, although an object may    *)
(* hold objects.                                                           *)
(***************************************************************************)
\* What is left of a buffer: no more than it.
LeftOf(s, b) == s \in Buffer /\ Size(s) <= Size(b)

LEMMA LeftOfFrom ==
  \A b, n : (b \in Buffer /\ n \in Nat \ {0}) => LeftOf(From(b, n), b)
BY FromIn DEF LeftOf

LEMMA LeftOfLeft ==
  \A r, s, b : (b \in Buffer /\ LeftOf(s, b) /\ LeftOf(r, s)) => LeftOf(r, b)
BY SizeNat DEF LeftOf

LEMMA U29Takes ==
  ASSUME NEW b \in Buffer
  PROVE  ReadU29(b).value \in Nat /\ LeftOf(ReadU29(b).rest, b)
<1> DEFINE scan == Append(b, 0)
           U == {i \in 1 .. 3 \cap DOMAIN scan : ~ Marked(scan[i])} \cup {4}
           n == Min(U)
           m == 1
<1>1. 0 \in Byte /\ ~ Marked(0)
  BY DEF Byte, Marked
<1>2. Len(b) \in Nat
  BY LenNat
<1>3. /\ scan \in Buffer /\ Len(scan) = Len(b) + 1 /\ scan[Len(b) + 1] = 0
      /\ DOMAIN scan = 1 .. Len(scan) /\ \A i \in 1 .. Len(scan) : scan[i] \in Byte
  <2>1. scan \in Buffer /\ Len(scan) = Len(b) + 1 /\ scan[Len(b) + 1] = 0
    BY <1>1, Appended
  <2> HIDE DEF scan
  <2> QED
    BY <2>1, BufferFacts
<1> HIDE DEF scan
<1>4. U \in SUBSET Nat /\ U # {} /\ \A i \in U : i = 4 \/ (i < 4 /\ i > 0 /\ i <= Len(scan))
  BY <1>2, <1>3
<1>5. n \in U /\ \A i \in U : n <= i
  <2> HIDE DEF U
  <2> QED
    BY <1>4, MinIn
<1>6. n = 4 => Len(scan) >= 4
  <2>1. ASSUME n = 4, Len(scan) < 4
        PROVE  FALSE
    <3>1. Len(scan) \in 1 .. 3 /\ Len(scan) \in DOMAIN scan /\ scan[Len(scan)] = 0
      BY <1>2, <1>3, <2>1
    <3>2. Len(scan) \in U
      BY <1>1, <3>1
    <3> QED
      BY <1>5, <2>1, <3>2
  <2> QED
    BY <1>2, <1>3, <2>1
<1>7. ReadU29(b) = [value |-> IF n < 4 THEN FromDigits[SubSeq(scan, 1, n)]
                              ELSE FromDigits[SubSeq(scan, 1, 3)] * 256 + scan[4],
                    rest |-> From(b, n + 1)]
  BY DEF ReadU29, scan
<1>8. n \in Nat /\ n \in {1, 2, 3, 4} /\ n <= Len(scan)
  <2> HIDE DEF U, n
  <2> QED
    BY <1>2, <1>3, <1>4, <1>5, <1>6
<1> HIDE DEF n, U
<1>9. \A k \in Nat : k <= Len(scan) => FromDigits[SubSeq(scan, 1, k)] \in Nat
  <2>1. m = 1 /\ m \in Nat \ {0}
    OBVIOUS
  <2> HIDE DEF m
  <2>2. \A k \in Nat : k <= Len(scan) => SubSeq(scan, m, k) \in Buffer
    BY <1>3, <2>1, Cut
  <2> QED
    BY <2>1, <2>2, FromDigitsNat
<1>10. n < 4 => FromDigits[SubSeq(scan, 1, n)] \in Nat
  BY <1>8, <1>9
<1>11. ~ (n < 4) => FromDigits[SubSeq(scan, 1, 3)] \in Nat /\ scan[4] \in Byte
  <2>1. ~ (n < 4) => Len(scan) >= 4 /\ 4 \in 1 .. Len(scan)
    BY <1>2, <1>3, <1>6, <1>8
  <2>2. ~ (n < 4) => scan[4] \in Byte
    BY <1>3, <2>1
  <2>3. 3 \in Nat /\ (~ (n < 4) => 3 <= Len(scan))
    BY <1>2, <1>3, <2>1
  <2> QED
    BY <1>9, <2>2, <2>3
<1> DEFINE x == FromDigits[SubSeq(scan, 1, n)]
           y == FromDigits[SubSeq(scan, 1, 3)]
           z == scan[4]
<1>12. (IF n < 4 THEN x ELSE y * 256 + z) \in Nat
  <2>1. (n < 4 => x \in Nat) /\ (~ (n < 4) => y \in Nat /\ z \in Nat)
    BY <1>10, <1>11, ByteIs
  <2> HIDE DEF x, y, z
  <2> QED
    BY <2>1
<1>13. n + 1 \in Nat \ {0}
  BY <1>8
<1>14. LeftOf(From(b, n + 1), b)
  BY <1>13, LeftOfFrom
<1> QED
  BY <1>7, <1>12, <1>14

LEMMA StringTakes ==
  ASSUME NEW b \in Buffer
  PROVE  /\ LeftOf(ReadString(b).rest, b)
         /\ Size(b) # 0 => Size(ReadString(b).rest) < Size(b)
         /\ Size(b) = 0 => ReadString(b).value = <<>>
<1> DEFINE n == FromWord(b)
           m == 3 + n
<1>1. n \in Nat
  BY FromWordNat
<1>2. ReadString(b) = [value |-> SubSeq(b, 3, 2 + n), rest |-> From(b, m)]
  BY DEF ReadString
<1>3. Size(b) = 0 => n = 0
  BY DEF FromWord, Size
<1> HIDE DEF n
<1>4. m \in Nat \ {0} /\ m > 1
  BY <1>1
<1>5. SubSeq(b, 3, 2) = <<>>
  OBVIOUS
<1>6. Size(b) = 0 => SubSeq(b, 3, 2 + n) = <<>>
  <2>1. ASSUME Size(b) = 0
        PROVE  2 + n = 2
    BY <1>3, <2>1
  <2> QED
    BY <1>5, <2>1
<1> HIDE DEF m
<1>7. LeftOf(From(b, m), b)
  BY <1>4, LeftOfFrom
<1>8. Size(b) # 0 => Size(From(b, m)) < Size(b)
  BY <1>4, FromIn
<1> QED
  BY <1>2, <1>6, <1>7, <1>8

\* What is read, fields or a value, from which bytes.
ReadsAt == {"fields", "value"} \X Buffer
ReadOnce(f, x) == IF x[1] = "fields" THEN ReadFields(x[2], f) ELSE ReadValue(x[2], f)
Weight(x) == 2 * Size(x[2]) + (IF x[1] = "value" THEN 1 ELSE 0)
Agree(f, g, n) == \A y \in ReadsAt : Weight(y) < n => f[y] = g[y] /\ LeftOf(f[y].rest, y[2])

LEMMA WeightIs ==
  /\ \A b : b \in Buffer => /\ <<"fields", b>> \in ReadsAt /\ Weight(<<"fields", b>>) = 2 * Size(b)
                            /\ <<"value", b>> \in ReadsAt /\ Weight(<<"value", b>>) = 2 * Size(b) + 1
  /\ \A x : x \in ReadsAt => /\ x[1] \in {"fields", "value"} /\ x[2] \in Buffer
                             /\ x = <<x[1], x[2]>> /\ Weight(x) \in Nat
<1>1. \A b : b \in Buffer => Size(b) \in Nat
  BY SizeNat
<1>2. ASSUME NEW b \in Buffer
      PROVE  /\ <<"fields", b>> \in ReadsAt /\ Weight(<<"fields", b>>) = 2 * Size(b)
             /\ <<"value", b>> \in ReadsAt /\ Weight(<<"value", b>>) = 2 * Size(b) + 1
  BY <1>1 DEF ReadsAt, Weight
<1>3. ASSUME NEW x \in ReadsAt
      PROVE  x[1] \in {"fields", "value"} /\ x[2] \in Buffer /\ x = <<x[1], x[2]>>
  BY DEF ReadsAt
<1>4. ASSUME NEW x \in ReadsAt
      PROVE  Weight(x) \in Nat
  BY <1>1, <1>3 DEF Weight
<1> QED
  BY <1>2, <1>3, <1>4

LEMMA FieldsLocal ==
  ASSUME NEW b \in Buffer, NEW f, NEW g, Agree(f, g, 2 * Size(b))
  PROVE  ReadFields(b, f) = ReadFields(b, g) /\ LeftOf(ReadFields(b, f).rest, b)
<1> DEFINE k == ReadString(b)
           y == <<"value", k.rest>>
           z == <<"fields", f[y].rest>>
           ends == Head(b) = 9 \/ k.value = <<>>
           R(h) == IF ends THEN [value |-> <<>>, rest |-> EndOfFields(b)]
                   ELSE [value |-> <<[key |-> k.value, value |-> h[y].value]>>
                                     \o h[<<"fields", h[y].rest>>].value,
                         rest  |-> h[<<"fields", h[y].rest>>].rest]
<1>1. ReadFields(b, f) = R(f) /\ ReadFields(b, g) = R(g)
  BY DEF ReadFields
<1>2. LeftOf(k.rest, b) /\ (Size(b) # 0 => Size(k.rest) < Size(b)) /\ (Size(b) = 0 => ends)
  BY StringTakes
<1>3. LeftOf(EndOfFields(b), b)
  BY LeftOfFrom DEF EndOfFields
<1> HIDE DEF k, ends
<1>4. ASSUME ~ ends
      PROVE  /\ f[y] = g[y] /\ f[z] = g[z] /\ LeftOf(f[z].rest, b)
  <2>1. k.rest \in Buffer /\ Size(k.rest) < Size(b) /\ Size(k.rest) \in Nat /\ Size(b) \in Nat
    BY <1>2, <1>4, SizeNat DEF LeftOf
  <2>2. y \in ReadsAt /\ Weight(y) < 2 * Size(b) /\ y[2] = k.rest
    <3>1. y \in ReadsAt /\ Weight(y) = 2 * Size(k.rest) + 1 /\ y[2] = k.rest
      BY <2>1, WeightIs
    <3> HIDE DEF y
    <3> QED
      BY <2>1, <3>1
  <2>3. f[y] = g[y] /\ LeftOf(f[y].rest, k.rest)
    <3> HIDE DEF y
    <3> QED
      BY <2>2 DEF Agree
  <2> HIDE DEF y
  <2> DEFINE r == f[y].rest
  <2>4. r \in Buffer /\ Size(r) <= Size(k.rest) /\ Size(r) \in Nat
    BY <2>3, SizeNat DEF LeftOf
  <2> HIDE DEF r
  <2>5. z \in ReadsAt /\ Weight(z) < 2 * Size(b) /\ z[2] = r
    <3>1. z = <<"fields", r>>
      BY DEF r
    <3>2. z \in ReadsAt /\ Weight(z) = 2 * Size(r) /\ z[2] = r
      BY <2>4, <3>1, WeightIs
    <3> HIDE DEF z
    <3> QED
      BY <2>1, <2>4, <3>2
  <2> HIDE DEF z
  <2>6. f[z] = g[z] /\ LeftOf(f[z].rest, r)
    BY <2>5 DEF Agree
  <2>7. LeftOf(f[z].rest, b)
    BY <2>1, <2>4, <2>6, SizeNat DEF LeftOf
  <2> QED
    BY <2>3, <2>6, <2>7
<1>5. CASE ends
  BY <1>1, <1>3, <1>5
<1>6. CASE ~ ends
  <2> HIDE DEF y
  <2>1. f[y] = g[y] /\ f[z] = g[z] /\ LeftOf(f[z].rest, b)
    BY <1>4, <1>6
  <2>2. g[<<"fields", g[y].rest>>] = f[z]
    BY <2>1
  <2> DEFINE w == [value |-> <<[key |-> k.value, value |-> f[y].value]>> \o f[z].value,
                   rest  |-> f[z].rest]
  <2>3. R(f) = w
    BY <1>6
  <2>4. R(g) = [value |-> <<[key |-> k.value, value |-> g[y].value]>>
                             \o g[<<"fields", g[y].rest>>].value,
                rest  |-> g[<<"fields", g[y].rest>>].rest]
    BY <1>6
  <2>5. R(g) = w
    BY Zenon, <2>1, <2>2, <2>4
  <2>6. w.rest = f[z].rest
    OBVIOUS
  <2> HIDE DEF w, R
  <2> QED
    BY <1>1, <2>1, <2>3, <2>5, <2>6
<1> QED
  BY <1>5, <1>6

LEMMA ValueLocal ==
  ASSUME NEW b \in Buffer, NEW f, NEW g, Agree(f, g, 2 * Size(b) + 1)
  PROVE  ReadValue(b, f) = ReadValue(b, g) /\ LeftOf(ReadValue(b, f).rest, b)
<1> DEFINE t == Head(b)
           here == From(b, 2)
           y == <<"fields", here>>
<1>1. here \in Buffer /\ LeftOf(here, b)
  BY LeftOfFrom DEF LeftOf
<1> HIDE DEF here
<1>2. f[y] = g[y] /\ LeftOf(f[y].rest, here)
  <2>1. y \in ReadsAt /\ Weight(y) = 2 * Size(here) /\ y[2] = here
    BY <1>1, WeightIs
  <2>2. Size(here) \in Nat /\ Size(b) \in Nat /\ Size(here) <= Size(b)
    BY <1>1, SizeNat DEF LeftOf
  <2> HIDE DEF y
  <2>3. Weight(y) < 2 * Size(b) + 1
    BY <2>1, <2>2
  <2> QED
    BY <2>1, <2>3 DEF Agree
<1>3. \A r : LeftOf(r, here) => LeftOf(r, b)
  BY <1>1, LeftOfLeft
<1>4. LeftOf(From(here, 9), b) /\ LeftOf(From(here, 2), b)
  BY <1>1, <1>3, LeftOfFrom
<1>5. LeftOf(ReadString(here).rest, b)
  BY <1>1, <1>3, StringTakes
<1>6. LeftOf(ReadByteArray(From(here, 2)).rest, b)
  <2> DEFINE h == From(here, 2)
             u == ReadU29(h)
             n == u.value \div 2
  <2>1. h \in Buffer /\ LeftOf(h, here)
    BY <1>1, LeftOfFrom DEF LeftOf
  <2> HIDE DEF h
  <2>2. u.value \in Nat /\ LeftOf(u.rest, h)
    BY <2>1, U29Takes
  <2>3. n \in Nat /\ n + 1 \in Nat \ {0}
    <3> DEFINE v == u.value
    <3>1. v \in Nat
      BY <2>2
    <3> HIDE DEF v
    <3>2. v \div 2 \in Nat
      BY <3>1
    <3> QED
      BY <3>2 DEF v
  <2>4. ReadByteArray(h).rest = From(u.rest, n + 1)
    BY DEF ReadByteArray
  <2> HIDE DEF u, n
  <2>5. LeftOf(From(u.rest, n + 1), u.rest)
    BY <2>2, <2>3, LeftOfFrom DEF LeftOf
  <2>6. LeftOf(From(u.rest, n + 1), here)
    BY <1>1, <2>1, <2>2, <2>5, LeftOfLeft
  <2> QED
    BY <1>3, <2>4, <2>6 DEF h
<1>7. LeftOf(<<>>, b) /\ LeftOf(here, b)
  BY <1>1, NilFacts, SizeNat DEF LeftOf, Nil
<1>8. LeftOf(f[y].rest, b)
  BY <1>2, <1>3
<1> DEFINE s == ReadString(here)
           a == ReadByteArray(From(here, 2))
           R(o) == CASE t = 0 -> [value |-> [type |-> "number", number |-> SubSeq(here, 1, 8)],
                                  rest  |-> From(here, 9)]
                     [] t = 1 -> [value |-> [type |-> "bool", bool |-> Head(here) > 0],
                                  rest  |-> From(here, 2)]
                     [] t = 2 -> [value |-> [type |-> "string", string |-> s.value], rest |-> s.rest]
                     [] t = 3 -> [value |-> [type |-> "object", fields |-> o.value], rest |-> o.rest]
                     [] t \in {5, 6} -> [value |-> AmfNull, rest |-> here]
                     [] t = 17 -> [value |-> [type |-> "bytes", bytes |-> a.value], rest |-> a.rest]
                     [] OTHER -> [value |-> AmfNull, rest |-> <<>>]
<1>9. ReadValue(b, f) = R(f[y]) /\ ReadValue(b, g) = R(g[y])
  BY Zenon DEF ReadValue, here
<1> DEFINE o == f[y]
<1>10. LeftOf(R(o).rest, b)
  <2> HIDE DEF t, y, o, s, a
  <2>1. LeftOf(o.rest, b) /\ LeftOf(s.rest, b) /\ LeftOf(a.rest, b)
    BY <1>5, <1>6, <1>8 DEF o, s, a
  <2>2. CASE t = 0
    BY <1>4, <2>2
  <2>3. CASE t = 1
    BY <1>4, <2>3
  <2>4. CASE t = 2
    BY <2>1, <2>4
  <2>5. CASE t = 3
    BY <2>1, <2>5
  <2>6. CASE t \in {5, 6}
    BY <1>7, <2>6
  <2>7. CASE t = 17
    BY <2>1, <2>7
  <2>8. CASE t \notin {0, 1, 2, 3, 5, 6, 17}
    BY <1>7, <2>8
  <2> QED
    BY <2>2, <2>3, <2>4, <2>5, <2>6, <2>7, <2>8
<1> HIDE DEF R
<1> QED
  BY <1>2, <1>9, <1>10

LEMMA StepLocal ==
  ASSUME NEW x \in ReadsAt, NEW f, NEW g, Agree(f, g, Weight(x))
  PROVE  ReadOnce(f, x) = ReadOnce(g, x) /\ LeftOf(ReadOnce(f, x).rest, x[2])
<1> DEFINE b == x[2]
<1>1. x[1] \in {"fields", "value"} /\ b \in Buffer /\ x = <<x[1], b>>
  BY WeightIs
<1> HIDE DEF b
<1>2. CASE x[1] = "fields"
  <2>1. Weight(x) = 2 * Size(b)
    BY <1>1, <1>2, WeightIs
  <2>2. ReadFields(b, f) = ReadFields(b, g) /\ LeftOf(ReadFields(b, f).rest, b)
    BY <1>1, <2>1, FieldsLocal
  <2> QED
    BY <1>2, <2>2 DEF ReadOnce, b
<1>3. CASE x[1] = "value"
  <2>1. Weight(x) = 2 * Size(b) + 1
    BY <1>1, <1>3, WeightIs
  <2>2. ReadValue(b, f) = ReadValue(b, g) /\ LeftOf(ReadValue(b, f).rest, b)
    BY <1>1, <2>1, ValueLocal
  <2> QED
    BY <1>3, <2>2 DEF ReadOnce, b
<1> QED
  BY <1>1, <1>2, <1>3

Lighter(n) == {x \in ReadsAt : Weight(x) < n}
Reads(f, n) == f = [x \in Lighter(n) |-> ReadOnce(f, x)]

LEMMA ReadsAgree ==
  ASSUME NEW m \in Nat, NEW n \in Nat, m <= n, NEW f, NEW g, Reads(f, m), Reads(g, n)
  PROVE  Agree(f, g, m)
<1> DEFINE S == Lighter(m)
           size == [x \in S |-> Weight(x)]
           T == {x \in S : f[x] = g[x] /\ LeftOf(f[x].rest, x[2])}
<1>1. \A x \in S : x \in ReadsAt /\ Weight(x) \in Nat /\ Weight(x) < m /\ x \in Lighter(n)
  BY WeightIs DEF Lighter
<1>2. \A x \in ReadsAt : Weight(x) < m => x \in S
  BY DEF Lighter
<1>3. \A x \in S : f[x] = ReadOnce(f, x) /\ g[x] = ReadOnce(g, x)
  BY <1>1 DEF Reads
<1> HIDE DEF S
<1>4. ASSUME NEW x \in S, \A y \in S : size[y] < size[x] => y \in T
      PROVE  x \in T
  <2> DEFINE w == Weight(x)
  <2>1. ASSUME NEW y \in ReadsAt, Weight(y) < w
        PROVE  f[y] = g[y] /\ LeftOf(f[y].rest, y[2])
    <3>1. Weight(y) \in Nat /\ w \in Nat /\ w < m
      BY <1>1, WeightIs
    <3>2. y \in S
      BY <1>2, <2>1, <3>1
    <3>3. y \in T
      BY <1>4, <2>1, <3>2
    <3> QED
      BY <3>3
  <2>2. Agree(f, g, w)
    BY <2>1 DEF Agree
  <2>3. ReadOnce(f, x) = ReadOnce(g, x) /\ LeftOf(ReadOnce(f, x).rest, x[2])
    BY <1>1, <2>2, StepLocal
  <2> QED
    BY <1>3, <2>3
<1>5. Progresses(T, S, size)
  <2>1. size \in [S -> Nat] /\ T \in SUBSET S
    BY <1>1
  <2> HIDE DEF size, T
  <2> QED
    BY <1>4, <2>1 DEF Progresses
<1>6. T = S
  <2> HIDE DEF size, T
  <2> QED
    BY <1>5, SizeInduction
<1> QED
  BY <1>2, <1>6 DEF Agree

LEMMA AgreeLess ==
  ASSUME NEW f, NEW g, NEW m \in Nat, NEW n \in Nat, m <= n, Agree(f, g, n)
  PROVE  Agree(f, g, m)
<1>1. ASSUME NEW y \in ReadsAt, Weight(y) < m
      PROVE  Weight(y) < n
  <2>1. Weight(y) \in Nat
    BY WeightIs
  <2> QED
    BY <1>1, <2>1
<1> QED
  BY <1>1 DEF Agree

LEMMA ReadsExist ==
  \A n \in Nat : \E f : Reads(f, n)
<1> DEFINE T == {n \in Nat : \E f : Reads(f, n)}
<1>1. 0 \in T
  <2>1. Lighter(0) = {}
    BY WeightIs DEF Lighter
  <2>2. \A f : Reads([x \in {} |-> x], 0)
    BY <2>1 DEF Reads
  <2> QED
    BY <2>2
<1>2. ASSUME NEW n \in T
      PROVE  n + 1 \in T
  <2>1. PICK f : Reads(f, n)
    OBVIOUS
  <2> DEFINE m == n + 1
             g == [x \in Lighter(m) |-> ReadOnce(f, x)]
  <2>2. n \in Nat /\ m \in Nat /\ n <= m
    OBVIOUS
  <2>3. Agree(f, f, n)
    BY <2>1, <2>2, ReadsAgree
  <2>4. ASSUME NEW x \in ReadsAt, Weight(x) < n
        PROVE  f[x] = g[x]
    <3>1. Weight(x) < m
      <4>1. Weight(x) \in Nat
        BY WeightIs
      <4> QED
        BY <2>2, <2>4, <4>1
    <3>2. x \in Lighter(n) /\ x \in Lighter(m)
      BY <2>4, <3>1 DEF Lighter
    <3> HIDE DEF m
    <3>3. f[x] = ReadOnce(f, x)
      BY <2>1, <3>2 DEF Reads
    <3> QED
      BY <3>2, <3>3
  <2>5. Agree(f, g, n)
    <3> HIDE DEF g
    <3> QED
      BY <2>3, <2>4 DEF Agree
  <2>6. ASSUME NEW x \in Lighter(m)
        PROVE  ReadOnce(f, x) = ReadOnce(g, x)
    <3> DEFINE w == Weight(x)
    <3>1. x \in ReadsAt /\ w \in Nat /\ w <= n
      BY <2>2, WeightIs DEF Lighter
    <3> HIDE DEF g, w
    <3>2. Agree(f, g, w)
      BY <2>2, <2>5, <3>1, AgreeLess
    <3> QED
      BY <3>1, <3>2, StepLocal DEF w
  <2>7. g = [x \in Lighter(m) |-> ReadOnce(g, x)]
    <3> DEFINE A(x) == ReadOnce(f, x)
               B(x) == ReadOnce(g, x)
    <3>1. g = [x \in Lighter(m) |-> A(x)] /\ \A x \in Lighter(m) : A(x) = B(x)
      BY <2>6
    <3> HIDE DEF g, m, A, B
    <3>2. g = [x \in Lighter(m) |-> B(x)]
      BY <3>1
    <3> QED
      BY <3>2 DEF B
  <2>8. Reads(g, m)
    <3> HIDE DEF g, m
    <3> QED
      BY <2>7 DEF Reads
  <2> HIDE DEF g
  <2> QED
    BY <2>2, <2>8
<1>3. T = Nat
  <2> HIDE DEF T
  <2>1. T \in SUBSET Nat
    BY DEF T
  <2> QED
    BY <1>1, <1>2, <2>1, SetInduction
<1> QED
  BY <1>3

LEMMA ReadAmfIs ==
  ReadAmf = [x \in ReadsAt |-> ReadOnce(ReadAmf, x)]
<1> DEFINE D(n) == CHOOSE f : Reads(f, n)
           F == [x \in ReadsAt |-> ReadOnce(D(Weight(x)), x)]
           Q(f) == f = [x \in ReadsAt |-> ReadOnce(f, x)]
<1>1. \A n \in Nat : Reads(D(n), n)
  BY ReadsExist
<1> HIDE DEF D
<1>2. ASSUME NEW x \in ReadsAt
      PROVE  ReadOnce(D(Weight(x)), x) = ReadOnce(F, x)
  <2> DEFINE n == Weight(x)
             f == D(n)
  <2>1. n \in Nat /\ Reads(f, n)
    BY <1>1, WeightIs
  <2> HIDE DEF f
  <2>2. ASSUME NEW y \in ReadsAt, Weight(y) < n
        PROVE  f[y] = F[y] /\ LeftOf(f[y].rest, y[2])
    <3> DEFINE m == Weight(y)
               g == D(m)
    <3>1. m \in Nat /\ Reads(g, m) /\ m <= n
      BY <1>1, <2>1, <2>2, WeightIs
    <3>2. F[y] = ReadOnce(g, y)
      OBVIOUS
    <3>3. f[y] = ReadOnce(f, y)
      <4>1. y \in Lighter(n)
        BY <2>2 DEF Lighter
      <4> HIDE DEF n
      <4> QED
        BY <2>1, <4>1 DEF Reads
    <3> HIDE DEF F, g, m, n
    <3>4. Agree(g, f, m)
      BY <2>1, <3>1, ReadsAgree
    <3>5. ReadOnce(g, y) = ReadOnce(f, y) /\ LeftOf(ReadOnce(g, y).rest, y[2])
      BY <3>4, StepLocal DEF m
    <3> QED
      BY <3>2, <3>3, <3>5
  <2> HIDE DEF F
  <2>3. Agree(f, F, n)
    BY <2>2 DEF Agree
  <2>4. ReadOnce(f, x) = ReadOnce(F, x)
    BY <2>3, StepLocal
  <2> QED
    BY <2>4 DEF f
<1>3. Q(F)
  <2> DEFINE A(x) == ReadOnce(D(Weight(x)), x)
             B(x) == ReadOnce(F, x)
  <2>1. F = [x \in ReadsAt |-> A(x)] /\ \A x \in ReadsAt : A(x) = B(x)
    BY <1>2
  <2> HIDE DEF F, A, B
  <2>2. F = [x \in ReadsAt |-> B(x)]
    BY <2>1
  <2> QED
    BY <2>2 DEF B
<1>4. ReadAmf = CHOOSE f : Q(f)
  BY DEF ReadAmf, ReadsAt, ReadOnce
<1>5. Q(ReadAmf)
  <2> HIDE DEF Q, F
  <2> QED
    BY <1>3, <1>4
<1> QED
  BY <1>5

-----------------------------------------------------------------------------
(***************************************************************************)
(* A value is read back from the bytes it is written as, and what follows  *)
(* it is left: by induction on how deep objects are nested in it and, for  *)
(* an object, on the number of its fields.                                 *)
(***************************************************************************)
LEMMA ReadAmfAt ==
  \A b : b \in Buffer => /\ ReadAmf[<<"fields", b>>] = ReadFields(b, ReadAmf)
                         /\ ReadAmf[<<"value", b>>] = ReadValue(b, ReadAmf)
<1>1. ASSUME NEW x \in ReadsAt
      PROVE  ReadAmf[x] = ReadOnce(ReadAmf, x)
  BY ReadAmfIs
<1>2. ASSUME NEW b \in Buffer
      PROVE  ReadAmf[<<"fields", b>>] = ReadFields(b, ReadAmf)
  <2> DEFINE x == <<"fields", b>>
  <2>1. x \in ReadsAt /\ x[1] = "fields" /\ x[2] = b
    BY WeightIs
  <2> HIDE DEF x
  <2>2. ReadAmf[x] = ReadFields(b, ReadAmf)
    BY <1>1, <2>1 DEF ReadOnce
  <2> QED
    BY <2>2 DEF x
<1>3. ASSUME NEW b \in Buffer
      PROVE  ReadAmf[<<"value", b>>] = ReadValue(b, ReadAmf)
  <2> DEFINE x == <<"value", b>>
  <2>1. x \in ReadsAt /\ x[1] = "value" /\ x[2] = b
    BY WeightIs
  <2> HIDE DEF x
  <2>2. ReadAmf[x] = ReadValue(b, ReadAmf)
    BY <1>1, <2>1 DEF ReadOnce
  <2> QED
    BY <2>2 DEF x
<1> QED
  BY <1>2, <1>3

LEMMA StringBack ==
  \A k, s : (k \in Buffer /\ Size(k) \in Short /\ s \in Buffer) =>
    ReadString(Join(WriteString(k), s)) = Got(k, s)
<1>1. ASSUME NEW k \in Buffer, Size(k) \in Short, NEW s \in Buffer
      PROVE  ReadString(Join(WriteString(k), s)) = Got(k, s)
  <2> DEFINE n == Size(k)
             w == Word(n)
             buf == Join(w, Join(k, s))
             i == 3
             j == 2 + n
             h == 3 + n
  <2>1. w \in Buffer /\ Size(w) = 2 /\ n \in Nat /\ n \in Short
    BY <1>1, WordFacts, SizeNat
  <2>2. WriteString(k) = Join(w, k)
    BY <1>1, StringIs
  <2> HIDE DEF w
  <2>3. Join(WriteString(k), s) = buf /\ Join(k, s) \in Buffer
    BY <2>1, <2>2, Chain3
  <2>4. FromWord(buf) = n
    BY <2>1, <2>3, FromWordJoin DEF w
  <2>5. i = Size(w) + 1 /\ j = Size(w) + Size(k)
    BY <2>1
  <2>6. h = Size(Join(w, k)) + 1 /\ Join(w, k) \in Buffer /\ Join(Join(w, k), s) = buf
    <3>1. Join(w, k) \in Buffer /\ Size(Join(w, k)) = Size(w) + Size(k)
      BY <2>1, JoinIn, JoinSize
    <3>2. Join(Join(w, k), s) = buf
      BY <2>1, Chain3
    <3> HIDE DEF buf
    <3> QED
      BY <2>1, <3>1, <3>2
  <2>7. ReadString(buf) = Got(Part(buf, 3, 2 + FromWord(buf)), From(buf, 3 + FromWord(buf)))
    BY DEF ReadString, Got, Part
  <2>8. Part(buf, 3, 2 + FromWord(buf)) = Part(buf, i, j) /\ From(buf, 3 + FromWord(buf)) = From(buf, h)
    BY <2>4
  <2> HIDE DEF i, j, h, n
  <2>9. Part(buf, i, j) = k
    BY <2>1, <2>5, PartJoin
  <2>10. From(buf, h) = s
    <3> DEFINE a == Join(w, k)
    <3> HIDE DEF a, buf
    <3>1. h = Size(a) + 1 /\ a \in Buffer /\ Join(a, s) = buf
      BY <2>6 DEF a
    <3> QED
      BY <3>1, FromJoin
  <2> HIDE DEF buf
  <2> QED
    BY <2>3, <2>7, <2>8, <2>9, <2>10
<1> QED
  BY <1>1

ValueBack(v) ==
  \A s : s \in Buffer => ReadAmf[<<"value", Join(WriteAmf0[v], s)>>] = Got(v, s)

\* A value whose bytes begin with that of its type.
LEMMA ValueHead ==
  \A t, r : (t \in Byte /\ r \in Buffer) =>
     LET b == Join(One(t), r)
     IN  /\ b \in Buffer /\ Head(b) = t /\ From(b, 2) = r
         /\ ReadAmf[<<"value", b>>] = ReadValue(b, ReadAmf)
<1>1. ASSUME NEW t \in Byte, NEW r \in Buffer
      PROVE  /\ Join(One(t), r) \in Buffer /\ First(Join(One(t), r)) = t /\ From(Join(One(t), r), 2) = r
  BY OneIn, JoinIn, OneFirst
<1> QED
  BY <1>1, ReadAmfAt DEF First

LEMMA NumberBack ==
  ASSUME NEW v \in Values, v.type = "number"
  PROVE  ValueBack(v)
<1>1. v = [type |-> "number", number |-> v.number] /\ v.number \in Buffer /\ Size(v.number) = 8
  BY ValueIs
<1>2. WriteAmf0[v] = Join(One(0), v.number)
  BY WriteAmf0In DEF AmfBytes
<1>3. ASSUME NEW s \in Buffer
      PROVE  ReadAmf[<<"value", Join(WriteAmf0[v], s)>>] = Got(v, s)
  <2> DEFINE n == v.number
             r == Join(n, s)
             t == 0
             b == Join(One(t), r)
             i == 8
             j == 9
  <2>1. t \in Byte /\ t = 0 /\ i = 8 /\ j = 9
    BY ByteIs
  <2> HIDE DEF t
  <2>2. r \in Buffer /\ One(t) \in Buffer
    BY <1>1, <2>1, JoinIn, OneIn
  <2>3. Join(Join(One(t), n), s) = b
    BY <1>1, <2>2, JoinAssoc
  <2>4. Head(b) = t /\ From(b, 2) = r /\ ReadAmf[<<"value", b>>] = ReadValue(b, ReadAmf)
    BY <2>1, <2>2, ValueHead
  <2> HIDE DEF i, j
  <2>5. Upto(r, i) = n /\ From(r, j) = s
    <3>1. i = Size(n) /\ j = Size(n) + 1
      BY <1>1, <2>1
    <3> QED
      BY <1>1, <3>1, UptoJoin, FromJoin
  <2> HIDE DEF b, r
  <2>6. ReadValue(b, ReadAmf) = Got([type |-> "number", number |-> Upto(r, 8)], From(r, 9))
    BY <2>1, <2>4 DEF ReadValue, Got, Upto
  <2>7. ReadValue(b, ReadAmf) = Got(v, s)
    BY <1>1, <2>1, <2>5, <2>6
  <2>8. Join(WriteAmf0[v], s) = b
    BY <1>2, <2>1, <2>3
  <2> QED
    BY <2>4, <2>7, <2>8
<1> QED
  BY <1>3 DEF ValueBack

LEMMA BoolBack ==
  ASSUME NEW v \in Values, v.type = "bool"
  PROVE  ValueBack(v)
<1> DEFINE x == IF v.bool THEN 1 ELSE 0
           t == 1
<1>1. v = [type |-> "bool", bool |-> v.bool] /\ v.bool \in BOOLEAN
  BY ValueIs
<1>2. x \in Byte /\ t \in Byte /\ t = 1 /\ (x > 0) = v.bool
  BY <1>1, ByteIs
<1>3. WriteAmf0[v] = <<1, x>>
  BY WriteAmf0In DEF AmfBytes
<1> HIDE DEF x, t
<1>4. <<t, x>> = Join(One(t), One(x))
  BY <1>2, Tuple2
<1>5. ASSUME NEW s \in Buffer
      PROVE  ReadAmf[<<"value", Join(WriteAmf0[v], s)>>] = Got(v, s)
  <2> DEFINE r == Join(One(x), s)
             b == Join(One(t), r)
  <2>1. r \in Buffer /\ One(t) \in Buffer /\ One(x) \in Buffer
    BY <1>2, JoinIn, OneIn
  <2>2. Join(Join(One(t), One(x)), s) = b
    BY <2>1, JoinAssoc
  <2>3. Head(b) = t /\ From(b, 2) = r /\ ReadAmf[<<"value", b>>] = ReadValue(b, ReadAmf)
    BY <1>2, <2>1, ValueHead
  <2>4. Head(r) = x /\ From(r, 2) = s
    BY <1>2, ValueHead
  <2> HIDE DEF b, r
  <2>5. ReadValue(b, ReadAmf) = Got([type |-> "bool", bool |-> Head(r) > 0], From(r, 2))
    BY <1>2, <2>3 DEF ReadValue, Got
  <2>6. ReadValue(b, ReadAmf) = Got(v, s)
    BY <1>1, <1>2, <2>4, <2>5
  <2>7. Join(WriteAmf0[v], s) = b
    BY <1>2, <1>3, <1>4, <2>2
  <2> QED
    BY <2>3, <2>6, <2>7
<1> QED
  BY <1>5 DEF ValueBack

LEMMA TextBack ==
  ASSUME NEW v \in Values, v.type = "string"
  PROVE  ValueBack(v)
<1> DEFINE k == v.string
           w == WriteString(k)
           t == 2
<1>1. v = [type |-> "string", string |-> k] /\ k \in Buffer /\ Size(k) \in Short
  BY ValueIs
<1>2. t \in Byte /\ t = 2
  BY ByteIs
<1>3. WriteAmf0[v] = Join(One(t), w)
  BY WriteAmf0In DEF AmfBytes
<1>4. w \in Buffer
  BY <1>1, StringIs
<1> HIDE DEF t
<1>5. ASSUME NEW s \in Buffer
      PROVE  ReadAmf[<<"value", Join(WriteAmf0[v], s)>>] = Got(v, s)
  <2> DEFINE r == Join(w, s)
             b == Join(One(t), r)
  <2>1. r \in Buffer /\ One(t) \in Buffer
    BY <1>2, <1>4, JoinIn, OneIn
  <2>2. Join(Join(One(t), w), s) = b
    BY <1>4, <2>1, JoinAssoc
  <2>3. Head(b) = t /\ From(b, 2) = r /\ ReadAmf[<<"value", b>>] = ReadValue(b, ReadAmf)
    BY <1>2, <2>1, ValueHead
  <2>4. ReadString(r) = Got(k, s)
    BY <1>1, StringBack
  <2> HIDE DEF b, r, k
  <2>5. ReadValue(b, ReadAmf) = Got([type |-> "string", string |-> ReadString(r).value], ReadString(r).rest)
    BY <1>2, <2>3 DEF ReadValue, Got
  <2>6. ReadValue(b, ReadAmf) = Got(v, s)
    BY <1>1, <2>4, <2>5, GotFields
  <2>7. Join(WriteAmf0[v], s) = b
    BY <1>3, <2>2
  <2> QED
    BY <2>3, <2>6, <2>7
<1> QED
  BY <1>5 DEF ValueBack

LEMMA NullBack ==
  ASSUME NEW v \in Values, v.type = "null"
  PROVE  ValueBack(v)
<1> DEFINE t == 5
<1>1. v = AmfNull
  BY ValueIs
<1>2. t \in Byte /\ t = 5
  BY ByteIs
<1>3. WriteAmf0[v] = One(t)
  BY WriteAmf0In DEF AmfBytes
<1> HIDE DEF t
<1>5. ASSUME NEW s \in Buffer
      PROVE  ReadAmf[<<"value", Join(WriteAmf0[v], s)>>] = Got(v, s)
  <2> DEFINE b == Join(One(t), s)
  <2>3. Head(b) = t /\ From(b, 2) = s /\ ReadAmf[<<"value", b>>] = ReadValue(b, ReadAmf)
    BY <1>2, ValueHead
  <2> HIDE DEF b
  <2>5. ReadValue(b, ReadAmf) = Got(AmfNull, s)
    BY <1>2, <2>3 DEF ReadValue, Got
  <2>7. Join(WriteAmf0[v], s) = b
    BY <1>3 DEF b
  <2> QED
    BY <1>1, <2>3, <2>5, <2>7
<1> QED
  BY <1>5 DEF ValueBack

LEMMA BytesBack ==
  ASSUME NEW v \in Values, v.type = "bytes"
  PROVE  ValueBack(v)
<1> DEFINE k == v.bytes
           w == ArrayBytes(k)
           t == 17
           x == 12
<1>1. v = [type |-> "bytes", bytes |-> k] /\ k \in Buffer /\ Size(k) \in Short
  BY ValueIs
<1>2. t \in Byte /\ t = 17 /\ x \in Byte
  BY ByteIs
<1>3. WriteAmf0[v] = Join(<<t, x>>, w)
  BY WriteAmf0In DEF AmfBytes
<1>4. w \in Buffer
  BY <1>1, ArrayBytesBack
<1> HIDE DEF t, x
<1>a. <<t, x>> = Join(One(t), One(x)) /\ One(t) \in Buffer /\ One(x) \in Buffer
  BY <1>2, Tuple2, OneIn
<1>5. ASSUME NEW s \in Buffer
      PROVE  ReadAmf[<<"value", Join(WriteAmf0[v], s)>>] = Got(v, s)
  <2> DEFINE q == Join(w, s)
             r == Join(One(x), q)
             b == Join(One(t), r)
  <2>1. q \in Buffer /\ r \in Buffer
    BY <1>a, <1>4, JoinIn
  <2>2. Join(Join(Join(One(t), One(x)), w), s) = b
    <3> HIDE DEF w
    <3> QED
      BY <1>a, <1>4, Chain4
  <2>3. Head(b) = t /\ From(b, 2) = r /\ ReadAmf[<<"value", b>>] = ReadValue(b, ReadAmf)
    BY <1>2, <2>1, ValueHead
  <2>b. From(r, 2) = q
    BY <1>2, <2>1, ValueHead
  <2>4. ReadByteArray(q) = Got(k, s)
    BY <1>1, ArrayBytesBack
  <2> HIDE DEF b, r, k, q
  <2>5. ReadValue(b, ReadAmf) = Got([type |-> "bytes", bytes |-> ReadByteArray(q).value], ReadByteArray(q).rest)
    BY <1>2, <2>3, <2>b DEF ReadValue, Got
  <2>6. ReadValue(b, ReadAmf) = Got(v, s)
    BY <1>1, <2>4, <2>5, GotFields
  <2>7. Join(WriteAmf0[v], s) = b
    BY <1>3, <1>a, <2>2
  <2> QED
    BY <2>3, <2>6, <2>7
<1> QED
  BY <1>5 DEF ValueBack

\* The end of an object's fields, and what follows them.
EndThen(s) == Join(WriteString(Nil), Join(One(9), s))

LEMMA EndBack ==
  \A s : s \in Buffer =>
    EndThen(s) \in Buffer /\ ReadAmf[<<"fields", EndThen(s)>>] = Got(<<>>, s)
<1>1. ASSUME NEW s \in Buffer
      PROVE  EndThen(s) \in Buffer /\ ReadAmf[<<"fields", EndThen(s)>>] = Got(<<>>, s)
  <2> DEFINE x == 0
             t == 9
             r == Join(One(t), s)
             w == WriteString(Nil)
             b == EndThen(s)
             i == 4
  <2>1. x = 0 /\ t = 9 /\ x \in Byte /\ t \in Byte /\ i = 4
    BY ByteIs
  <2>2. Nil \in Buffer /\ Size(Nil) = 0 /\ Size(Nil) \in Short
    BY NilFacts DEF Short
  <2>3. w = <<x, x>>
    <3>1. w = Join(Word(Size(Nil)), Nil) /\ Word(Size(Nil)) \in Buffer
      BY <2>2, StringIs, WordFacts
    <3>2. Word(Size(Nil)) = Word(0)
      BY <2>2
    <3>3. Word(0) = <<0, 0>>
      BY DEF Word
    <3>4. Join(Word(Size(Nil)), Nil) = Word(Size(Nil))
      BY <3>1, JoinNil
    <3> QED
      BY <3>1, <3>2, <3>3, <3>4
  <2> HIDE DEF x, t, w
  <2>4. w = Join(One(x), One(x)) /\ One(x) \in Buffer /\ One(t) \in Buffer /\ r \in Buffer
    BY <2>1, <2>3, Tuple2, OneIn, JoinIn
  <2>5. w \in Buffer /\ Size(w) = 2
    BY <2>2, StringIs DEF w
  <2>6. b = Join(w, r)
    BY DEF EndThen, w, t
  <2> HIDE DEF r, b
  <2>7. b \in Buffer
    BY <2>4, <2>5, <2>6, JoinIn
  <2>8. b = Join(One(x), Join(One(x), r)) /\ Join(One(x), r) \in Buffer
    BY <2>4, <2>6, JoinAssoc, JoinIn
  <2>9. Head(b) = x
    BY <2>1, <2>8, ValueHead
  <2>10. ReadString(b).value = <<>>
    <3>1. ReadString(b) = Got(Nil, r)
      BY <2>2, <2>4, <2>6, StringBack DEF w
    <3> QED
      BY <3>1, GotFields DEF Nil
  <2>11. From(b, i) = s
    <3> DEFINE a == Join(w, One(t))
    <3>1. a \in Buffer /\ Size(a) = 3
      BY <2>1, <2>4, <2>5, JoinIn, JoinSize, OneIn
    <3>2. Join(a, s) = b
      BY <2>4, <2>5, <2>6, JoinAssoc DEF r
    <3> HIDE DEF a, i
    <3>3. i = Size(a) + 1
      BY <2>1, <3>1
    <3> QED
      BY <3>1, <3>2, <3>3, FromJoin
  <2>12. ReadFields(b, ReadAmf) = Got(<<>>, From(b, i))
    <3> HIDE DEF i
    <3>1. EndOfFields(b) = From(b, i)
      BY <2>1, <2>9 DEF EndOfFields
    <3> QED
      BY <2>10, <3>1 DEF ReadFields, Got
  <2> QED
    BY <2>7, <2>11, <2>12, ReadAmfAt DEF b
<1> QED
  BY <1>1

FieldBack(f) ==
  /\ f = [key |-> f.key, value |-> f.value] /\ f.key \in Buffer /\ f.value \in Values
  /\ Size(f.key) \in Short /\ Size(f.key) # 0 /\ Size(f.key) < 2304 /\ ValueBack(f.value)

LEMMA KeyHead ==
  ASSUME NEW k \in Buffer, Size(k) \in Short, Size(k) < 2304, NEW r \in Buffer
  PROVE  Head(Join(WriteString(k), r)) # 9
<1> DEFINE n == Size(k)
           x == n \div 256
           y == n % 256
           t == Join(One(y), Join(k, r))
<1>1. Word(n) = Join(One(x), One(y)) /\ x \in Byte /\ y \in Byte
  BY WordBytes
<1>2. x # 9
  <2>1. n \in Nat /\ n < 2304
    BY SizeNat
  <2> HIDE DEF n
  <2> QED
    BY <2>1
<1> HIDE DEF x, y
<1>3. One(x) \in Buffer /\ One(y) \in Buffer /\ t \in Buffer
  BY <1>1, OneIn, JoinIn
<1>4. WriteString(k) = Join(Join(One(x), One(y)), k)
  BY <1>1, StringIs
<1>5. Join(Join(Join(One(x), One(y)), k), r) = Join(One(x), t)
  BY <1>3, Chain4
<1> HIDE DEF t
<1>6. Head(Join(One(x), t)) = x
  BY <1>1, <1>3, OneFirst DEF First
<1> QED
  BY <1>2, <1>4, <1>5, <1>6

LEMMA FieldsStep ==
  ASSUME NEW f, FieldBack(f), NEW r \in Buffer, NEW more, NEW s,
         ReadAmf[<<"fields", r>>] = Got(more, s)
  PROVE  LET b == Join(FieldBytes(f, WriteAmf0), r)
         IN  b \in Buffer /\ ReadAmf[<<"fields", b>>] = Got(<<f>> \o more, s)
<1> DEFINE k == f.key
           v == WriteAmf0[f.value]
           w == WriteString(k)
           q == Join(v, r)
           b == Join(FieldBytes(f, WriteAmf0), r)
<1>1. /\ f = [key |-> k, value |-> f.value] /\ k \in Buffer /\ f.value \in Values
      /\ Size(k) \in Short /\ Size(k) # 0 /\ Size(k) < 2304 /\ ValueBack(f.value)
  BY DEF FieldBack
<1>2. v \in Buffer /\ w \in Buffer
  BY <1>1, WriteAmf0In, StringIs
<1>3. FieldBytes(f, WriteAmf0) = Join(w, v)
  BY DEF FieldBytes
<1>4. q \in Buffer /\ b = Join(w, q) /\ b \in Buffer
  <2> HIDE DEF v, w
  <2> QED
    BY <1>2, <1>3, Chain3, JoinIn
<1>5. ReadAmf[<<"value", q>>] = Got(f.value, r)
  BY <1>1 DEF ValueBack
<1>6. ReadString(b) = Got(k, q) /\ Head(b) # 9
  <2>1. ReadString(Join(w, q)) = Got(k, q)
    BY <1>1, <1>4, StringBack
  <2>2. Head(Join(w, q)) # 9
    BY <1>1, <1>4, KeyHead
  <2> QED
    BY <1>4, <2>1, <2>2
<1>7. k # <<>>
  BY <1>1, NilSize DEF Nil
<1> HIDE DEF b, q, k
<1>8. ReadString(b).value = k /\ ReadString(b).rest = q
  BY <1>6, GotFields
<1>9. ReadAmf[<<"value", q>>].value = f.value /\ ReadAmf[<<"value", q>>].rest = r
  BY <1>5, GotFields
<1>10. ReadAmf[<<"fields", r>>].value = more /\ ReadAmf[<<"fields", r>>].rest = s
  BY GotFields
<1>11. ReadFields(b, ReadAmf) = [value |-> <<[key |-> k, value |-> f.value]>> \o more, rest |-> s]
  <2> DEFINE kk == ReadString(b)
             vv == ReadAmf[<<"value", kk.rest>>]
             mm == ReadAmf[<<"fields", vv.rest>>]
  <2>1. ReadFields(b, ReadAmf) = IF Head(b) = 9 \/ kk.value = <<>>
                                 THEN [value |-> <<>>, rest |-> EndOfFields(b)]
                                 ELSE [value |-> <<[key |-> kk.value, value |-> vv.value]>> \o mm.value,
                                       rest |-> mm.rest]
    BY DEF ReadFields
  <2>2. kk.value = k /\ kk.rest = q /\ vv.value = f.value /\ vv.rest = r /\ mm.value = more /\ mm.rest = s
    <3>1. kk.value = k /\ kk.rest = q
      BY <1>8
    <3>2. vv.value = f.value /\ vv.rest = r
      BY <1>9, <3>1
    <3> HIDE DEF vv
    <3> QED
      BY <1>10, <3>1, <3>2
  <2> HIDE DEF kk, vv, mm
  <2> QED
    <3>1. ~ (Head(b) = 9 \/ kk.value = <<>>)
      BY <1>6, <1>7, <2>2
    <3>2. ReadFields(b, ReadAmf) = [value |-> <<[key |-> kk.value, value |-> vv.value]>> \o mm.value,
                                    rest |-> mm.rest]
      BY <2>1, <3>1
    <3> QED
      <4> DEFINE E(a1, a2, a3, a4) == [value |-> <<[key |-> a1, value |-> a2]>> \o a3, rest |-> a4]
      <4>1. ReadFields(b, ReadAmf) = E(kk.value, vv.value, mm.value, mm.rest)
        BY <3>2
      <4> HIDE DEF E
      <4>2. ReadFields(b, ReadAmf) = E(k, f.value, more, s)
        BY <2>2, <4>1
      <4> QED
        BY <4>2 DEF E
<1>12. ReadFields(b, ReadAmf) = Got(<<f>> \o more, s)
  <2> DEFINE w2 == [key |-> k, value |-> f.value]
  <2>1. w2 = f
    BY <1>1
  <2>2. ReadFields(b, ReadAmf) = Got(<<w2>> \o more, s)
    BY <1>11 DEF Got
  <2> HIDE DEF w2
  <2> QED
    BY <2>1, <2>2
<1> QED
  BY <1>4, <1>12, ReadAmfAt DEF b

LEMMA SeqParts ==
  ASSUME NEW R, NEW s \in Seq(R), Len(s) # 0
  PROVE  /\ s = <<s[1]>> \o Tail(s) /\ Tail(s) \in Seq(R) /\ Len(Tail(s)) = Len(s) - 1
         /\ Len(s) \in Nat /\ s[1] \in R
         /\ \A i \in 1 .. Len(s) - 1 : Tail(s)[i] = s[i + 1]
<1>1. s # <<>>
  OBVIOUS
<1>2. /\ Tail(s) \in Seq(R) /\ Len(Tail(s)) = Len(s) - 1
      /\ \A i \in 1 .. Len(Tail(s)) : Tail(s)[i] = s[i + 1]
  BY <1>1, HeadTailProperties
<1>3. Len(s) \in Nat /\ s[1] \in R
  BY <1>1
<1> DEFINE t == Tail(s)
           a == <<s[1]>>
<1>4. a \in Seq(R) /\ Len(a) = 1 /\ a[1] = s[1]
  BY <1>3
<1>5. /\ t \in Seq(R) /\ Len(t) = Len(s) - 1 /\ \A i \in 1 .. Len(s) - 1 : t[i] = s[i + 1]
  BY <1>2
<1> HIDE DEF t, a
<1>6. /\ a \o t \in Seq(R) /\ Len(a \o t) = Len(s)
      /\ \A i \in 1 .. Len(s) : (a \o t)[i] = IF i <= 1 THEN a[i] ELSE t[i - 1]
  <2>1. /\ a \o t \in Seq(R) /\ Len(a \o t) = Len(a) + Len(t)
        /\ \A i \in 1 .. Len(a) + Len(t) : (a \o t)[i] = IF i <= Len(a) THEN a[i] ELSE t[i - Len(a)]
    <3>1. a \in Seq(R) /\ t \in Seq(R)
      BY <1>4, <1>5
    <3> QED
      BY ONLY <3>1, ConcatProperties
  <2>2. Len(a) = 1 /\ Len(a) + Len(t) = Len(s)
    BY <1>3, <1>4, <1>5
  <2> QED
    BY <2>1, <2>2
<1>7. \A i \in 1 .. Len(s) : (a \o t)[i] = s[i]
  <2>1. ASSUME NEW i \in 1 .. Len(s)
        PROVE  (a \o t)[i] = s[i]
    <3>1. CASE i = 1
      BY <1>4, <1>6, <3>1
    <3>2. CASE i # 1
      <4>1. i - 1 \in 1 .. Len(s) - 1 /\ ~ (i <= 1) /\ (i - 1) + 1 = i
        BY <1>3, <3>2
      <4>2. t[i - 1] = s[(i - 1) + 1]
        BY <1>5, <4>1
      <4> QED
        BY <1>6, <4>1, <4>2
    <3> QED
      BY <3>1, <3>2
  <2> QED
    BY <2>1
<1>8. a \o t = s
  BY <1>6, <1>7, SeqEqual
<1> QED
  BY <1>2, <1>3, <1>5, <1>8 DEF a, t

GoodFields(fs) == fs \in Fields /\ \A i \in 1 .. Len(fs) : FieldBack(fs[i])

LEMMA FieldsBytesOf ==
  ASSUME NEW fs, GoodFields(fs)
  PROVE  /\ [i \in DOMAIN fs |-> FieldBytes(fs[i], WriteAmf0)] \in [1 .. Len(fs) -> Buffer]
         /\ [i \in DOMAIN fs |-> FieldBytes(fs[i], WriteAmf0)] \in Buffers
         /\ Len([i \in DOMAIN fs |-> FieldBytes(fs[i], WriteAmf0)]) = Len(fs)
         /\ Len(fs) \in Nat /\ DOMAIN fs = 1 .. Len(fs)
<1> DEFINE n == Len(fs)
           u == [i \in DOMAIN fs |-> FieldBytes(fs[i], WriteAmf0)]
<1>1. DOMAIN fs = 1 .. n /\ n \in Nat
  <2>1. \A R : fs \in Seq(R) => DOMAIN fs = 1 .. Len(fs) /\ Len(fs) \in Nat
    OBVIOUS
  <2> QED
    BY <2>1 DEF GoodFields, Fields
<1> HIDE DEF n
<1>2. ASSUME NEW i \in 1 .. n
      PROVE  FieldBytes(fs[i], WriteAmf0) \in Buffer
  <2> DEFINE f == fs[i]
  <2>1. FieldBack(f)
    BY DEF GoodFields, n
  <2> HIDE DEF f
  <2>2. WriteString(f.key) \in Buffer /\ WriteAmf0[f.value] \in Buffer
    BY <2>1, StringIs, WriteAmf0In DEF FieldBack
  <2>3. FieldBytes(f, WriteAmf0) \in Buffer
    BY <2>2, JoinIn DEF FieldBytes
  <2> QED
    BY <2>3 DEF f
<1>3. u \in [1 .. n -> Buffer]
  BY <1>1, <1>2
<1> HIDE DEF u
<1>4. u \in Buffers /\ Len(u) = n
  BY <1>1, <1>3, AsBuffers
<1> QED
  BY <1>1, <1>3, <1>4 DEF u, n

LEMMA FieldsTail ==
  ASSUME NEW fs, GoodFields(fs), Len(fs) # 0
  PROVE  /\ GoodFields(Tail(fs)) /\ Len(Tail(fs)) = Len(fs) - 1 /\ FieldBack(fs[1])
         /\ fs = <<fs[1]>> \o Tail(fs)
         /\ FieldsBytes(fs, WriteAmf0) = Join(FieldBytes(fs[1], WriteAmf0), FieldsBytes(Tail(fs), WriteAmf0))
         /\ FieldsBytes(Tail(fs), WriteAmf0) \in Buffer
<1> DEFINE gs == Tail(fs)
           n == Len(fs)
           B(f) == FieldBytes(f, WriteAmf0)
           u == [i \in DOMAIN fs |-> B(fs[i])]
           w == [i \in DOMAIN gs |-> B(gs[i])]
<1>1. /\ fs = <<fs[1]>> \o gs /\ gs \in Fields /\ Len(gs) = n - 1 /\ n \in Nat
      /\ \A i \in 1 .. n - 1 : gs[i] = fs[i + 1]
  <2> DEFINE R == [key : Buffer, value : Values]
  <2>1. fs \in Seq(R)
    BY DEF GoodFields, Fields
  <2> HIDE DEF R
  <2>2. /\ fs = <<fs[1]>> \o gs /\ gs \in Seq(R) /\ Len(gs) = n - 1 /\ n \in Nat
        /\ \A i \in 1 .. n - 1 : gs[i] = fs[i + 1]
    BY <2>1, SeqParts
  <2> QED
    BY <2>2 DEF R, Fields
<1>2. FieldBack(fs[1])
  <2>1. 1 \in 1 .. n
    BY <1>1
  <2> QED
    BY <2>1 DEF GoodFields
<1>3. GoodFields(gs)
  <2>1. ASSUME NEW i \in 1 .. Len(gs)
        PROVE  FieldBack(gs[i])
    <3> HIDE DEF gs, n
    <3>1. i + 1 \in 1 .. n /\ i \in 1 .. n - 1
      BY <1>1
    <3>2. gs[i] = fs[i + 1]
      BY <1>1, <3>1
    <3> QED
      BY <3>1, <3>2 DEF GoodFields, n
  <2> HIDE DEF gs
  <2> QED
    BY <1>1, <2>1 DEF GoodFields
<1>4. u \in [1 .. n -> Buffer] /\ u \in Buffers /\ Len(u) = n /\ DOMAIN fs = 1 .. n
  BY FieldsBytesOf
<1> HIDE DEF gs
<1>5. w \in [1 .. Len(gs) -> Buffer] /\ w \in Buffers /\ DOMAIN gs = 1 .. Len(gs)
  BY <1>3, FieldsBytesOf
<1>6. u[1] = B(fs[1])
  <2>1. 1 \in 1 .. n
    BY <1>1
  <2> QED
    BY <1>4, <2>1
<1>7. \A i \in 1 .. n - 1 : w[i] = u[i + 1]
  <2>1. ASSUME NEW i \in 1 .. n - 1
        PROVE  w[i] = u[i + 1]
    <3> HIDE DEF n
    <3>1. i + 1 \in 1 .. n /\ i \in 1 .. Len(gs)
      BY <1>1
    <3>2. gs[i] = fs[i + 1]
      BY <1>1
    <3> HIDE DEF B
    <3>3. w[i] = B(gs[i]) /\ u[i + 1] = B(fs[i + 1])
      BY <1>4, <1>5, <3>1
    <3> QED
      BY <3>2, <3>3
  <2> QED
    BY <2>1
<1> HIDE DEF u, w, n
<1>8. PICK t \in Buffers : Others(u, t)
  BY <1>4, FlatTail DEF n
<1>9. /\ t \in [1 .. n - 1 -> Buffer] /\ \A i \in 1 .. n - 1 : t[i] = u[i + 1]
      /\ FlattenSeq(u) = Join(u[1], FlattenSeq(t))
  <2>1. Len(t) = n - 1 /\ \A i \in 1 .. n - 1 : t[i] = u[i + 1]
    BY <1>4, <1>8 DEF Others
  <2>2. t \in [1 .. Len(t) -> Buffer]
    <3>1. \A S : t \in Seq(S) => t \in [1 .. Len(t) -> S]
      OBVIOUS
    <3> QED
      BY <3>1 DEF Buffers
  <2> QED
    BY <1>8, <2>1, <2>2 DEF Others
<1>10. w = t
  <2> DEFINE D == 1 .. n - 1
  <2>1. w \in [D -> Buffer]
    BY <1>1, <1>5
  <2>2. t \in [D -> Buffer] /\ \A i \in D : w[i] = t[i]
    BY <1>7, <1>9
  <2> HIDE DEF D
  <2>3. w = [i \in D |-> w[i]] /\ t = [i \in D |-> t[i]]
    BY <2>1, <2>2
  <2>4. [i \in D |-> w[i]] = [i \in D |-> t[i]]
    BY Zenon, <2>2
  <2> QED
    BY Zenon, <2>3, <2>4
<1>11. FieldsBytes(fs, WriteAmf0) = FlattenSeq(u) /\ FieldsBytes(gs, WriteAmf0) = FlattenSeq(w)
  BY Zenon DEF FieldsBytes, u, w
<1>12. FlattenSeq(w) \in Buffer
  BY <1>5, FlatIn
<1> QED
  BY <1>1, <1>2, <1>3, <1>6, <1>9, <1>10, <1>11, <1>12 DEF gs, n

\* Fields are read back when they are as many as n.
FieldsReadBack(n) ==
  \A fs, s : (GoodFields(fs) /\ Len(fs) = n /\ s \in Buffer) =>
    LET b == Join(FieldsBytes(fs, WriteAmf0), EndThen(s))
    IN  b \in Buffer /\ ReadAmf[<<"fields", b>>] = Got(fs, s)

LEMMA NoFieldsBack == FieldsReadBack(0)
<1>1. ASSUME NEW fs, NEW s \in Buffer, GoodFields(fs), Len(fs) = 0
      PROVE  LET b == Join(FieldsBytes(fs, WriteAmf0), EndThen(s))
             IN  b \in Buffer /\ ReadAmf[<<"fields", b>>] = Got(fs, s)
  <2> DEFINE u == [i \in DOMAIN fs |-> FieldBytes(fs[i], WriteAmf0)]
             e == EndThen(s)
  <2>1. u \in Buffers /\ Len(u) = 0
    BY <1>1, FieldsBytesOf
  <2>2. FieldsBytes(fs, WriteAmf0) = Nil
    <3> HIDE DEF u
    <3>1. FlattenSeq(u) = Nil
      BY <2>1, FlatOfEmpty DEF Nil
    <3> QED
      BY <3>1 DEF FieldsBytes, u
  <2>3. fs = <<>>
    <3>1. fs \in Fields
      BY <1>1 DEF GoodFields
    <3> DEFINE R == [key : Buffer, value : Values]
    <3>2. fs \in Seq(R)
      BY <3>1 DEF Fields
    <3> HIDE DEF R
    <3> QED
      BY <1>1, <3>2
  <2>4. e \in Buffer /\ ReadAmf[<<"fields", e>>] = Got(<<>>, s)
    BY <1>1, EndBack
  <2> HIDE DEF e
  <2>5. Join(Nil, e) = e
    BY <2>4, JoinNil
  <2> QED
    BY <2>2, <2>3, <2>4, <2>5 DEF e
<1> QED
  BY <1>1 DEF FieldsReadBack

LEMMA MoreFieldsBack ==
  ASSUME NEW n \in Nat, FieldsReadBack(n)
  PROVE  FieldsReadBack(n + 1)
<1>1. ASSUME NEW fs, NEW s \in Buffer, GoodFields(fs), Len(fs) = n + 1
      PROVE  LET b == Join(FieldsBytes(fs, WriteAmf0), EndThen(s))
             IN  b \in Buffer /\ ReadAmf[<<"fields", b>>] = Got(fs, s)
  <2> DEFINE f == fs[1]
             gs == Tail(fs)
             x == FieldBytes(f, WriteAmf0)
             y == FieldsBytes(gs, WriteAmf0)
             e == EndThen(s)
             r == Join(y, e)
  <2>1. Len(fs) # 0
    BY <1>1
  <2>2. /\ GoodFields(gs) /\ Len(gs) = Len(fs) - 1 /\ FieldBack(f)
        /\ fs = <<f>> \o gs /\ FieldsBytes(fs, WriteAmf0) = Join(x, y) /\ y \in Buffer
    BY <1>1, <2>1, FieldsTail
  <2>3. x \in Buffer
    <3> HIDE DEF f
    <3>1. WriteString(f.key) \in Buffer /\ WriteAmf0[f.value] \in Buffer
      BY <2>2, StringIs, WriteAmf0In DEF FieldBack
    <3> QED
      BY <3>1, JoinIn DEF FieldBytes
  <2>4. e \in Buffer
    BY <1>1, EndBack
  <2> HIDE DEF gs, e, x
  <2>5. Len(gs) = n
    BY <1>1, <2>2
  <2>6. r \in Buffer /\ ReadAmf[<<"fields", r>>] = Got(gs, s)
    BY <1>1, <2>2, <2>5 DEF FieldsReadBack, e
  <2> HIDE DEF y, f
  <2>7. Join(x, r) \in Buffer /\ ReadAmf[<<"fields", Join(x, r)>>] = Got(<<f>> \o gs, s)
    <3> HIDE DEF r
    <3> QED
      BY <2>2, <2>6, FieldsStep DEF x
  <2>8. Join(Join(x, y), e) = Join(x, r)
    BY <2>2, <2>3, <2>4, JoinAssoc
  <2> HIDE DEF r
  <2>9. Join(FieldsBytes(fs, WriteAmf0), e) = Join(x, r)
    BY <2>2, <2>8
  <2>10. Got(<<f>> \o gs, s) = Got(fs, s)
    BY <2>2
  <2> QED
    BY <2>7, <2>9, <2>10 DEF e
<1> QED
  BY <1>1 DEF FieldsReadBack

LEMMA FieldsBack ==
  ASSUME NEW fs, GoodFields(fs), NEW s \in Buffer
  PROVE  LET b == Join(FieldsBytes(fs, WriteAmf0), EndThen(s))
         IN  b \in Buffer /\ ReadAmf[<<"fields", b>>] = Got(fs, s)
<1> DEFINE T == {n \in Nat : FieldsReadBack(n)}
<1>1. 0 \in T
  BY NoFieldsBack
<1>2. \A n \in T : n + 1 \in T
  BY MoreFieldsBack
<1>3. T = Nat
  <2> HIDE DEF T
  <2>1. T \in SUBSET Nat
    BY DEF T
  <2> QED
    BY <1>1, <1>2, <2>1, SetInduction
<1>4. Len(fs) \in Nat
  BY FieldsBytesOf
<1>5. FieldsReadBack(Len(fs))
  BY <1>3, <1>4
<1> QED
  BY <1>5 DEF FieldsReadBack

\* An object is read back when the values in it are.
LEMMA ObjectBack ==
  ASSUME NEW v \in Values, v.type = "object",
         \A w \in Values : Nesting[w] < Nesting[v] => ValueBack(w)
  PROVE  ValueBack(v)
<1> DEFINE fs == v.fields
           y == FieldsBytes(fs, WriteAmf0)
           z == WriteString(Nil)
           t == 3
           x == 9
<1>1. v = [type |-> "object", fields |-> fs] /\ fs \in Fields
  BY ValueIs
<1>2. t \in Byte /\ t = 3 /\ x \in Byte
  BY ByteIs
<1>3. WriteAmf0[v] = Join(Join(Join(One(t), y), z), One(x))
  <2>1. v.type = "object" /\ WriteAmf0[v] = AmfBytes(WriteAmf0, v)
    BY WriteAmf0In
  <2> QED
    BY <2>1 DEF AmfBytes
<1>4. GoodFields(fs)
  <2>1. FieldsTyped(v, fs)
    BY FieldsAre
  <2>2. ASSUME NEW i \in 1 .. Len(fs)
        PROVE  FieldBack(fs[i])
    <3> HIDE DEF fs
    <3>1. /\ fs[i] = [key |-> fs[i].key, value |-> fs[i].value]
          /\ fs[i].key \in Buffer /\ fs[i].value \in Values
          /\ Size(fs[i].key) \in Short /\ Size(fs[i].key) # 0
          /\ Size(fs[i].key) < 2304
          /\ Nesting[fs[i].value] < Nesting[v]
      BY <2>1, <2>2 DEF FieldsTyped
    <3>2. ValueBack(fs[i].value)
      BY <3>1
    <3> QED
      BY <3>1, <3>2 DEF FieldBack
  <2> QED
    BY <1>1, <2>2 DEF GoodFields
<1>5. y \in Buffer
  BY FieldsBytesIn, WriteAmf0In
<1>6. z \in Buffer
  BY NilFacts, StringIs DEF Short
<1> HIDE DEF t, x, y, z
<1>7. One(t) \in Buffer /\ One(x) \in Buffer
  BY <1>2, OneIn
<1>8. ASSUME NEW s \in Buffer
      PROVE  ReadAmf[<<"value", Join(WriteAmf0[v], s)>>] = Got(v, s)
  <2> DEFINE e == Join(z, Join(One(x), s))
             r == Join(y, e)
             b == Join(One(t), r)
  <2>1. e = EndThen(s)
    BY DEF EndThen, x, z
  <2>2. e \in Buffer
    BY <2>1, EndBack
  <2>3. r \in Buffer /\ ReadAmf[<<"fields", r>>] = Got(fs, s)
    <3>1. /\ Join(y, EndThen(s)) \in Buffer
          /\ ReadAmf[<<"fields", Join(y, EndThen(s))>>] = Got(fs, s)
      <4> HIDE DEF fs
      <4> QED
        BY <1>4, FieldsBack DEF y
    <3> HIDE DEF e
    <3> QED
      BY <2>1, <3>1
  <2>4. Join(Join(Join(Join(One(t), y), z), One(x)), s) = b
    BY <1>5, <1>6, <1>7, Chain5
  <2> HIDE DEF b, r, e, fs
  <2>5. Head(b) = t /\ From(b, 2) = r /\ ReadAmf[<<"value", b>>] = ReadValue(b, ReadAmf)
    BY <1>2, <2>3, ValueHead DEF b
  <2>6. ReadValue(b, ReadAmf) = Got([type |-> "object", fields |-> ReadAmf[<<"fields", r>>].value],
                                    ReadAmf[<<"fields", r>>].rest)
    BY <1>2, <2>5 DEF ReadValue, Got
  <2>7. ReadValue(b, ReadAmf) = Got(v, s)
    BY <1>1, <2>3, <2>6, GotFields
  <2>8. Join(WriteAmf0[v], s) = b
    BY <1>3, <2>4
  <2> QED
    BY <2>5, <2>7, <2>8
<1> QED
  BY <1>8 DEF ValueBack

LEMMA AllBack ==
  \A v \in Values : ValueBack(v)
<1> DEFINE T == {v \in Values : ValueBack(v)}
<1>1. Nesting \in [Values -> Nat] /\ T \in SUBSET Values
  BY AmfAssumption
<1>2. ASSUME NEW v \in Values, \A w \in Values : Nesting[w] < Nesting[v] => w \in T
      PROVE  v \in T
  <2>1. \A w \in Values : Nesting[w] < Nesting[v] => ValueBack(w)
    BY <1>2
  <2>2. v.type \in ValueTypes
    BY ValueIs
  <2>3. ValueBack(v)
    BY <2>1, <2>2, NumberBack, BoolBack, TextBack, NullBack, BytesBack, ObjectBack DEF ValueTypes
  <2> QED
    BY <2>3
<1> HIDE DEF T
<1>3. Progresses(T, Values, Nesting)
  BY <1>1, <1>2 DEF Progresses
<1>4. T = Values
  BY <1>3, SizeInduction
<1> QED
  BY <1>4 DEF T

-----------------------------------------------------------------------------
(***************************************************************************)
(* A message is read back, in each of its forms.                           *)
(***************************************************************************)
LEMMA ByteBehind ==
  \A a, x, b, n : (a \in Buffer /\ x \in Byte /\ b \in Buffer /\ n = Size(a) + 1) =>
    Join(a, Join(One(x), b))[n] = x
<1>1. ASSUME NEW a \in Buffer, NEW x \in Byte, NEW b \in Buffer, NEW n, n = Size(a) + 1
      PROVE  Join(a, Join(One(x), b))[n] = x
  <2> DEFINE c == Join(One(x), b)
             k == 1
  <2>1. c \in Buffer /\ Size(c) = 1 + Size(b) /\ Size(b) \in Nat /\ Size(a) \in Nat
    BY Put, SizeNat
  <2>2. c[1] = x
    BY OneAt
  <2>3. k \in 1 .. Size(c)
    BY <2>1
  <2> HIDE DEF c
  <2>4. \A i \in 1 .. Len(c) : (a \o c)[Len(a) + i] = c[i]
    BY <2>1, Cat
  <2>5. (a \o c)[Len(a) + k] = c[k]
    <3> HIDE DEF k
    <3> QED
      BY <2>3, <2>4 DEF Size
  <2>6. (a \o c)[n] = c[1]
    BY <1>1, <2>5 DEF Size
  <2> QED
    BY <2>2, <2>6 DEF Join, c
<1> QED
  BY <1>1

\* What follows the command: its callback, which is skipped, and the parameter.
LEMMA CallbackBack ==
  ASSUME NEW form \in {15, 17, 20}, NEW w \in Buffer
  PROVE  (IF form = 15 THEN Join(CallBack(form), w) ELSE AfterCallback(Join(CallBack(form), w))) = w
<1>1. CASE form = 15
  <2>1. CallBack(form) = Nil
    BY <1>1 DEF CallBack
  <2>2. Join(Nil, w) = w
    BY JoinNil
  <2> QED
    BY <1>1, <2>1, <2>2
<1>2. CASE form # 15
  <2> DEFINE z == Zeros(9)
             x == 5
             b == Join(z, Join(One(x), w))
             i == 10
             j == 11
  <2>1. z \in Buffer /\ Size(z) = 9
    BY ZerosIn
  <2>2. x \in Byte /\ x = 5 /\ i = 10 /\ j = 11
    BY ByteIs
  <2>3. CallBack(form) = Join(z, One(x))
    BY <1>2 DEF CallBack
  <2> HIDE DEF x, z, i, j
  <2>4. One(x) \in Buffer /\ Size(One(x)) = 1
    BY <2>2, OneIn
  <2>5. Join(Join(z, One(x)), w) = b
    BY <2>1, <2>4, JoinAssoc
  <2>6. b[i] = x
    <3>1. i = Size(z) + 1
      BY <2>1, <2>2
    <3> QED
      BY <2>1, <2>2, <3>1, ByteBehind
  <2>7. From(b, j) = w
    <3> DEFINE a == Join(z, One(x))
    <3>1. a \in Buffer /\ Size(a) = 10
      BY <2>1, <2>4, JoinIn, JoinSize
    <3> HIDE DEF a
    <3>2. From(Join(a, w), j) = w
      <4>1. j = Size(a) + 1
        BY <2>2, <3>1
      <4> QED
        BY <3>1, <4>1, FromJoin
    <3> QED
      BY <2>5, <3>2 DEF a
  <2> HIDE DEF b
  <2>8. AfterCallback(b) = From(b, j)
    BY <2>2, <2>6 DEF AfterCallback
  <2>9. Join(CallBack(form), w) = b
    BY <2>3, <2>5
  <2> QED
    BY <1>2, <2>7, <2>8, <2>9
<1> QED
  BY <1>1, <1>2

(***************************************************************************)
(* decode_msg reads from what encode_msg wrote the command and the         *)
(* parameter, in each form of a message: numbers, strings, byte arrays and *)
(* objects, however deep, with any number of fields.                       *)
(***************************************************************************)
THEOREM MsgReadsBack ==
  ASSUME NEW form \in {15, 17, 20}, NEW v \in Values
  PROVE  DecodeMsg(EncodeMsg(form, Play, v)) = [cmd |-> Play, param |-> v]
<1> DEFINE h == HeaderLen(form)
           z == Zeros(h)
           x == 2
           p == WriteString(Play)
           c == CallBack(form)
           w == WriteAmf0[v]
           q == Join(c, w)
           s == Join(p, q)
           a == Join(Join(One(form), z), One(x))
           b == MsgBytes(form, v)
<1>1. EncodeMsg(form, Play, v) = b /\ b \in Buffer /\ w \in Buffer /\ h \in Nat
  BY MsgIs
<1>2. form \in Byte /\ x \in Byte /\ Play \in Buffer /\ Size(Play) \in Short
  BY PlayIn, ByteIs DEF Short
<1>3. b = Join(One(form), Join(z, Join(One(x), Join(p, Join(c, w)))))
  BY DEF MsgBytes
<1> HIDE DEF x, h
<1>4. One(form) \in Buffer /\ Size(One(form)) = 1 /\ One(x) \in Buffer /\ Size(One(x)) = 1
  BY <1>2, OneIn
<1>5. z \in Buffer /\ Size(z) = h /\ p \in Buffer /\ c \in Buffer
  BY <1>1, <1>2, ZerosIn, StringIs, CallBackIn
<1> HIDE DEF z, p, c, w, b
<1>6. q \in Buffer /\ s \in Buffer
  BY <1>1, <1>5, JoinIn
<1>7. Head(b) = form
  <2>1. Join(z, Join(One(x), Join(p, Join(c, w)))) \in Buffer
    BY <1>4, <1>5, <1>6, JoinIn
  <2> QED
    BY <1>2, <1>3, <2>1, OneFirst DEF First
<1>8. From(b, 3 + h) = s
  <2>1. a \in Buffer /\ Size(a) = 2 + h
    <3>1. Join(One(form), z) \in Buffer /\ Size(Join(One(form), z)) = 1 + h
      BY <1>4, <1>5, JoinIn, JoinSize
    <3> HIDE DEF a
    <3>2. a = Join(Join(One(form), z), One(x))
      BY DEF a
    <3> QED
      BY <1>1, <1>4, <3>1, <3>2, JoinIn, JoinSize
  <2>2. Join(a, s) = b
    <3> HIDE DEF s
    <3>1. Join(Join(Join(One(form), z), One(x)), s) = Join(One(form), Join(z, Join(One(x), s)))
      BY <1>4, <1>5, <1>6, Chain4
    <3> QED
      BY <1>3, <3>1 DEF s
  <2>3. 3 + h = Size(a) + 1
    BY <1>1, <2>1
  <2> HIDE DEF a, s
  <2> DEFINE n == 3 + h
  <2>4. n = Size(a) + 1
    BY <2>3
  <2> HIDE DEF n
  <2>5. From(Join(a, s), n) = s
    BY <1>6, <2>1, <2>4, FromJoin
  <2> QED
    BY <2>2, <2>5 DEF n
<1>9. ReadString(s) = Got(Play, q)
  <2> HIDE DEF q
  <2> QED
    BY <1>2, <1>6, StringBack DEF p
<1>10. (IF form = 15 THEN q ELSE AfterCallback(q)) = w
  BY <1>1, CallbackBack DEF c
<1>11. ReadAmf0(w).value = v
  <2>1. ReadAmf[<<"value", Join(w, Nil)>>] = Got(v, Nil)
    BY AllBack, NilFacts DEF ValueBack, w
  <2>2. Join(w, Nil) = w
    BY <1>1, JoinNil
  <2>3. ReadAmf[<<"value", w>>].value = v
    BY <2>1, <2>2, GotFields
  <2> QED
    BY <2>3 DEF ReadAmf0
<1> HIDE DEF q, s, a
<1>12. DecodeMsg(b) = [cmd |-> Play, param |-> v]
  <2>1. DecodeMsg(b) =
          [cmd |-> ReadString(From(b, 3 + HeaderLen(Head(b)))).value,
           param |-> ReadAmf0(IF Head(b) = 15 THEN ReadString(From(b, 3 + HeaderLen(Head(b)))).rest
                              ELSE AfterCallback(ReadString(From(b, 3 + HeaderLen(Head(b)))).rest)).value]
    BY DEF DecodeMsg
  <2>2. ReadString(From(b, 3 + HeaderLen(Head(b)))) = Got(Play, q)
    BY <1>7, <1>8, <1>9 DEF h
  <2>3. ReadString(From(b, 3 + HeaderLen(Head(b)))).value = Play
    BY <2>2, GotFields
  <2>4. ReadString(From(b, 3 + HeaderLen(Head(b)))).rest = q
    BY <2>2, GotFields
  <2> DEFINE E(d, e) == [cmd |-> d, param |-> ReadAmf0(e).value]
  <2>5. DecodeMsg(b) = E(Play, IF form = 15 THEN q ELSE AfterCallback(q))
    BY <1>7, <2>1, <2>3, <2>4
  <2>6. DecodeMsg(b) = E(Play, w)
    <3> HIDE DEF E
    <3> QED
      BY <1>10, <2>5
  <2> QED
    BY <1>11, <2>6
<1> QED
  BY <1>1, <1>12

\* The numbers of at most three digits, and those of four that begin with no
\* zero byte.
HeldByU29(n) == n < ThreeDigits \/ TwoDigits <= n \div 256

LEMMA LengthBack ==
  ASSUME NEW len \in Lengths, HeldByU29(2 * len + 1)
  PROVE  ArrayLength(ByteArray(len)) = len
<1> DEFINE n == 2 * len + 1
           m == 1
           s == SomeBytes(m)
<1>1. n \in Nat /\ len \in Nat /\ n \div 256 < ThreeDigits /\ n \div 2 = len
  BY ByteArrayIn
<1>2. s \in Buffer
  <2>1. m \in Nat
    OBVIOUS
  <2> HIDE DEF m
  <2> QED
    BY <2>1, Bytes255
<1>3. HeldByU29(n)
  OBVIOUS
<1> HIDE DEF s
<1>4. ByteArray(len) = WriteU29(n) \o s
  BY DEF ByteArray, s
<1> HIDE DEF n
<1>5. ReadU29(WriteU29(n) \o s) = Got(n, s)
  <2>1. CASE n < ThreeDigits
    BY <1>1, <1>2, <2>1, ShortU29
  <2>2. CASE TwoDigits <= n \div 256
    BY <1>1, <1>2, <2>2, LongU29
  <2> QED
    BY <1>3, <2>1, <2>2 DEF HeldByU29
<1>6. ReadU29(ByteArray(len)).value = n
  BY <1>4, <1>5, GotFields
<1> QED
  BY <1>1, <1>6 DEF ArrayLength
=============================================================================
