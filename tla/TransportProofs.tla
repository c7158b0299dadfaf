--------------------------- MODULE TransportProofs ---------------------------
(***************************************************************************)
(* A transport keeps its packets: the properties of modules NoisyChan and  *)
(* Pipeline, for every size of its channels, every delay, rate, capacity   *)
(* and disorder, and however its goroutines take turns.                    *)
(***************************************************************************)
EXTENDS Transport, SequenceTheorems, FiniteSetTheorems, TLAPS

(***************************************************************************)
(* The inductive invariant of the noisy channel, in parts.  The item send  *)
(* works on is in the queue until send removes it.                         *)
(***************************************************************************)
Working == sender \in {"delayed", "due", "throttled", "send", "remove"}

FrontQueued ==
  Working => \E i \in DOMAIN packets :
               packets[i].id = front.id /\ packets[i].size = front.size

\* A packet has its number from when it arrived, and its place in the queue.
Numbered ==
  /\ accepted \subseteq 1 .. arrived
  /\ \A i, j \in DOMAIN packets : packets[i].id = packets[j].id => i = j

SentIsOut == sender = "remove" => front.id \in ToSet(out)

\* send sleeps no less than the delay the item still has.
DelayCounted ==
  sender = "delayed"
    => \A i \in DOMAIN packets : packets[i].id = front.id => packets[i].due <= sleeping

ChanIInv ==
  /\ ChanTypeOK /\ FrontQueued /\ Numbered /\ SentIsOut /\ DelayCounted
  /\ Conserved /\ DelayRespected

-----------------------------------------------------------------------------
(***************************************************************************)
(* The rate.  A packet of size debt was let through while the bucket was   *)
(* full again; all else that went was paid for.                            *)
(***************************************************************************)
Least(a, b) == IF a <= b THEN a ELSE b

SizesFit ==
  /\ ~ TooLong(front.size)
  /\ \A i \in DOMAIN packets : ~ TooLong(packets[i].size)

\* What the bucket would hold if it were filled now.
Filled == Least(Speed, bucket + IncRate * elapsed)

\* The same, had send() not paid for the packet it is to send, but the debt.
FilledUnpaid(debt) == Least(Speed, bucket + front.size - debt + IncRate * elapsed)

Held(debt) == IF sender = "send" THEN FilledUnpaid(debt) ELSE Filled - debt

\* c, of a bucket of Speed bytes a second, is worth held bytes.
Covers(c, held) == c >= Second * held

Paid == \E debt \in Sizes \cup {0} : ~ TooLong(debt) /\ Covers(credit, Held(debt))

RateIInv ==
  /\ SizesFit
  /\ credit \in Int /\ credit <= Speed * Second
  /\ sender = "send" => bucket + front.size <= Speed
  /\ Paid

-----------------------------------------------------------------------------
(***************************************************************************)
(* The inductive invariant of the pipeline.  The datagrams that were read  *)
(* and that the dispatcher has yet to handle are each in one place, in the *)
(* order they were read, and those in a tap were read before those in the  *)
(* channel.                                                                *)
(***************************************************************************)
InTaps(d) == UNION {Range(taps[d][t]) : t \in DOMAIN taps[d]}

InReader(d) == IF reader[d].at = "packet" THEN {reader[d].packet} ELSE {}

Pending == Range(source["in"]) \cup InTaps("in") \cup InReader("in")

Ascending(seq) == \A i, j \in DOMAIN seq : i < j => seq[i] < seq[j]

\* What PipeTypeOK says, but for the number of sessions.
PipeShape ==
  /\ kinds \in [Packet -> Kind] /\ read \in 0 .. MaxDatagrams
  /\ source \in [Path -> Seq(Packet)] /\ taps \in [Path -> Seq(Seq(Packet))]
  /\ field \in [Path -> Nat] /\ direct \in [Path -> SUBSET Packet]
  /\ reader \in [Path -> [at : {"field", "wait", "packet"}, from : Nat,
                          packet : 0 .. MaxDatagrams]]
  /\ sessions \in Seq(Seq(Packet)) /\ answering \subseteq Packet
  /\ handled \in [SessionId -> Seq(Packet)]
  /\ written \subseteq Packet /\ refused \subseteq Packet
  /\ \A d \in Path :
       /\ field[d] = Len(taps[d]) /\ reader[d].from <= Len(taps[d])
       /\ reader[d].at = "packet" => reader[d].packet \in Packet

ChannelsBounded ==
  /\ \A d \in Path : Len(source[d]) <= ChanSize
  /\ \A s \in DOMAIN sessions : Len(sessions[s]) <= ChanSize

OnePlace ==
  /\ Pending \subseteq 1 .. read
  /\ Ascending(source["in"])
  /\ \A t \in DOMAIN taps["in"] :
       /\ Ascending(taps["in"][t])
       /\ \A p \in Range(taps["in"][t]), q \in Range(source["in"]) : p < q
       /\ \A u \in DOMAIN taps["in"] :
            t # u => Range(taps["in"][t]) \cap Range(taps["in"][u]) = {}
  /\ InReader("in") \cap (Range(source["in"]) \cup InTaps("in")) = {}

\* Every session was made for an iikeying of its own.
SessionsKeyed ==
  \E keyings \in SUBSET (1 .. read) :
    Cardinality(keyings) = Len(sessions) /\ keyings \cap Pending = {}

\* The reader takes one packet past a tap, from the channel it waited on when
\* the tap was put in.
DirectOnce ==
  \A d \in Path :
    /\ taps[d] = <<>> => direct[d] = {}
    /\ reader[d].at = "wait" /\ direct[d] # {} => reader[d].from # 0
    /\ Cardinality(direct[d]) <= 1

PipeIInv == PipeShape /\ ChannelsBounded /\ OnePlace /\ SessionsKeyed /\ DirectOnce

-----------------------------------------------------------------------------
(***************************************************************************)
(* Order, where each of the two parameters is set once at most.            *)
(***************************************************************************)
\* Nothing of P is to overtake anything of Q, but for over.
Before(P, Q, over) == \A p \in P, q \in Q : p > q => p \in over

InLine(seq, over) ==
  \A i, j \in DOMAIN seq : i < j /\ seq[i] > seq[j] => seq[i] \in over

Line(s) == IF s \in DOMAIN sessions THEN sessions[s] ELSE <<>>

ReaderFirst ==
  Before(InReader("in"), Range(source["in"]) \cup InTaps("in"), direct["in"])

SessionFirst(s) ==
  /\ InLine(handled[s], direct["in"]) /\ InLine(Line(s), direct["in"])
  /\ Before(Range(handled[s]), Range(Line(s)), direct["in"])
  /\ Before(Range(handled[s]) \cup Range(Line(s)), Pending, direct["in"])
  /\ Range(handled[s]) \cup Range(Line(s)) \subseteq 1 .. read

InOrder ==
  /\ Len(taps["in"]) <= MaxTaps
  /\ ReaderFirst
  /\ \A s \in SessionId : SessionFirst(s)

-----------------------------------------------------------------------------
(***************************************************************************)
(* An item put into a sequence moves those from its place on.              *)
(***************************************************************************)
LEMMA InsertFacts ==
  ASSUME NEW S, NEW q \in Seq(S), NEW i \in 1 .. Len(q) + 1, NEW e \in S
  PROVE  /\ InsertAt(q, i, e) \in Seq(S)
         /\ Len(InsertAt(q, i, e)) = Len(q) + 1
         /\ \A j \in 1 .. Len(q) + 1 :
              InsertAt(q, i, e)[j] = IF j < i THEN q[j] ELSE IF j = i THEN e ELSE q[j - 1]
<1> DEFINE a == SubSeq(q, 1, i - 1)
           b == SubSeq(q, i, Len(q))
<1>1. Len(q) \in Nat /\ i \in Nat /\ 1 <= i /\ i <= Len(q) + 1
      /\ \A j \in 1 .. Len(q) : q[j] \in S
  OBVIOUS
<1>2. a \in Seq(S) /\ Len(a) = i - 1 /\ \A j \in 1 .. i - 1 : a[j] = q[j]
  <2>1. \A j \in 1 .. i - 1 : q[j] \in S
    BY <1>1
  <2>2. /\ a \in Seq(S) /\ Len(a) = IF 1 <= i - 1 THEN i - 1 - 1 + 1 ELSE 0
        /\ \A j \in 1 .. i - 1 - 1 + 1 : a[j] = q[1 + j - 1]
    BY <1>1, <2>1, SubSeqProperties
  <2> QED
    BY <1>1, <2>2
<1>3. b \in Seq(S) /\ Len(b) = Len(q) - i + 1 /\ \A j \in 1 .. Len(q) - i + 1 : b[j] = q[i + j - 1]
  <2>1. \A j \in i .. Len(q) : q[j] \in S
    BY <1>1
  <2>2. /\ b \in Seq(S) /\ Len(b) = IF i <= Len(q) THEN Len(q) - i + 1 ELSE 0
        /\ \A j \in 1 .. Len(q) - i + 1 : b[j] = q[i + j - 1]
    BY <1>1, <2>1, SubSeqProperties
  <2> QED
    BY <1>1, <2>2
<1> HIDE DEF a, b
<1>4. <<e>> \in Seq(S) /\ Len(<<e>>) = 1 /\ <<e>>[1] = e
  OBVIOUS
<1> DEFINE c == a \o <<e>>
<1>5. /\ c \in Seq(S) /\ Len(c) = i
      /\ \A j \in 1 .. i : c[j] = IF j < i THEN q[j] ELSE e
  <2>1. /\ c \in Seq(S) /\ Len(c) = Len(a) + Len(<<e>>)
        /\ \A j \in 1 .. Len(a) + Len(<<e>>) :
             c[j] = IF j <= Len(a) THEN a[j] ELSE <<e>>[j - Len(a)]
    BY <1>2, <1>4, ConcatProperties
  <2> HIDE DEF c
  <2> QED
    BY <1>1, <1>2, <1>4, <2>1, SMTT(30)
<1> HIDE DEF c
<1>6. /\ c \o b \in Seq(S) /\ Len(c \o b) = Len(c) + Len(b)
      /\ \A j \in 1 .. Len(c) + Len(b) :
           (c \o b)[j] = IF j <= Len(c) THEN c[j] ELSE b[j - Len(c)]
  BY <1>3, <1>5, ConcatProperties
<1>7. InsertAt(q, i, e) = c \o b
  BY DEF InsertAt, a, b, c
<1>8. \A j \in 1 .. Len(q) + 1 :
        (c \o b)[j] = IF j < i THEN q[j] ELSE IF j = i THEN e ELSE q[j - 1]
  <2> SUFFICES ASSUME NEW j \in 1 .. Len(q) + 1
               PROVE  (c \o b)[j] = IF j < i THEN q[j] ELSE IF j = i THEN e ELSE q[j - 1]
    OBVIOUS
  <2>1. CASE j <= i
    BY <1>1, <1>3, <1>5, <1>6, <2>1
  <2>2. CASE j > i
    <3>1. j - i \in 1 .. Len(q) - i + 1 /\ (c \o b)[j] = b[j - i]
      BY <1>1, <1>3, <1>5, <1>6, <2>2
    <3>2. b[j - i] = q[i + (j - i) - 1] /\ i + (j - i) - 1 = j - 1
      BY <1>1, <1>3, <3>1
    <3> QED
      BY <1>1, <2>2, <3>1, <3>2
  <2>3. j <= i \/ j > i
    BY <1>1
  <2> QED
    BY <2>1, <2>2, <2>3, Zenon
<1> HIDE DEF c
<1> QED
  BY <1>1, <1>3, <1>5, <1>6, <1>7, <1>8

(***************************************************************************)
(* An item taken out of a sequence leaves the others, in their order.      *)
(***************************************************************************)
LEMMA RemoveFacts ==
  ASSUME NEW S, NEW q \in Seq(S), NEW i \in 1 .. Len(q)
  PROVE  /\ RemoveAt(q, i) \in Seq(S)
         /\ Len(RemoveAt(q, i)) = Len(q) - 1
         /\ \A j \in 1 .. Len(q) - 1 : RemoveAt(q, i)[j] = IF j < i THEN q[j] ELSE q[j + 1]
<1> DEFINE a == SubSeq(q, 1, i - 1)
           b == SubSeq(q, i + 1, Len(q))
<1>1. Len(q) \in Nat /\ i \in Nat /\ 1 <= i /\ i <= Len(q)
      /\ \A j \in 1 .. Len(q) : q[j] \in S
  OBVIOUS
<1>2. a \in Seq(S) /\ Len(a) = i - 1 /\ \A j \in 1 .. i - 1 : a[j] = q[j]
  <2>1. \A j \in 1 .. i - 1 : q[j] \in S
    BY <1>1
  <2>2. /\ a \in Seq(S) /\ Len(a) = IF 1 <= i - 1 THEN i - 1 - 1 + 1 ELSE 0
        /\ \A j \in 1 .. i - 1 - 1 + 1 : a[j] = q[1 + j - 1]
    BY <1>1, <2>1, SubSeqProperties
  <2> QED
    BY <1>1, <2>2
<1>3. b \in Seq(S) /\ Len(b) = Len(q) - i /\ \A j \in 1 .. Len(q) - i : b[j] = q[i + j]
  <2>1. \A j \in i + 1 .. Len(q) : q[j] \in S
    BY <1>1
  <2>2. /\ b \in Seq(S) /\ Len(b) = IF i + 1 <= Len(q) THEN Len(q) - (i + 1) + 1 ELSE 0
        /\ \A j \in 1 .. Len(q) - (i + 1) + 1 : b[j] = q[i + 1 + j - 1]
    BY <1>1, <2>1, SubSeqProperties
  <2> QED
    BY <1>1, <2>2
<1> HIDE DEF a, b
<1> DEFINE c == a \o b
<1>4. /\ c \in Seq(S) /\ Len(c) = Len(a) + Len(b)
      /\ \A j \in 1 .. Len(a) + Len(b) :
           c[j] = IF j <= Len(a) THEN a[j] ELSE b[j - Len(a)]
  BY <1>2, <1>3, ConcatProperties
<1>5. RemoveAt(q, i) = c
  BY DEF RemoveAt, a, b
<1> HIDE DEF c
<1>6. \A j \in 1 .. Len(q) - 1 : c[j] = IF j < i THEN q[j] ELSE q[j + 1]
  <2> SUFFICES ASSUME NEW j \in 1 .. Len(q) - 1
               PROVE  c[j] = IF j < i THEN q[j] ELSE q[j + 1]
    OBVIOUS
  <2>place. j \in 1 .. Len(a) + Len(b)
    BY <1>1, <1>2, <1>3
  <2>value. c[j] = IF j <= i - 1 THEN a[j] ELSE b[j - (i - 1)]
    BY <1>2, <1>4, <2>place
  <2>1. CASE j < i
    <3>1. j <= i - 1 /\ j \in 1 .. i - 1
      BY <1>1, <2>1
    <3> QED
      BY <1>2, <2>value, <2>1, <3>1
  <2>2. CASE j >= i
    <3>1. j - (i - 1) \in 1 .. Len(q) - i /\ c[j] = b[j - (i - 1)]
      BY <1>1, <2>value, <2>2
    <3>2. b[j - (i - 1)] = q[i + (j - (i - 1))] /\ i + (j - (i - 1)) = j + 1
      BY <1>1, <1>3, <3>1
    <3> QED
      BY <1>1, <2>2, <3>1, <3>2
  <2>3. j < i \/ j >= i
    BY <1>1
  <2> QED
    BY <2>1, <2>2, <2>3, Zenon
<1>7. Len(c) = Len(q) - 1
  BY <1>1, <1>2, <1>3, <1>4
<1> QED
  BY <1>4, <1>5, <1>6, <1>7, Zenon

(***************************************************************************)
(* A sequence with every item changed is as long.                          *)
(***************************************************************************)
LEMMA ChangeFacts ==
  ASSUME NEW S, NEW q \in Seq(S), NEW r \in [DOMAIN q -> S]
  PROVE  r \in Seq(S) /\ Len(r) = Len(q)
<1>1. Len(q) \in Nat /\ DOMAIN q = 1 .. Len(q)
  OBVIOUS
<1>2. r \in [1 .. Len(q) -> S]
  BY <1>1, Zenon
<1>3. r \in Seq(S)
  BY <1>1, <1>2, SeqDef, Zenon
<1>4. DOMAIN r = 1 .. Len(r) /\ Len(r) \in Nat
  BY <1>3, LenProperties
<1> QED
  BY <1>1, <1>3, <1>4

-----------------------------------------------------------------------------
(***************************************************************************)
(* No two items of a queue are the same packet.                            *)
(***************************************************************************)
Distinct(q) == \A i, j \in DOMAIN q : q[i].id = q[j].id => i = j

(***************************************************************************)
(* recv_packet puts its item in the queue, wherever, and leaves the others *)
(* there.                                                                  *)
(***************************************************************************)
LEMMA InsertItems ==
  ASSUME NEW q \in Seq(Items), NEW i \in 1 .. Len(q) + 1, NEW e \in Items
  PROVE  LET r == InsertAt(q, i, e)
         IN  /\ r \in Seq(Items) /\ Len(r) = Len(q) + 1
             /\ \A j \in DOMAIN r : r[j] = e \/ \E k \in DOMAIN q : r[j] = q[k]
             /\ \A k \in DOMAIN q : \E j \in DOMAIN r : r[j] = q[k]
             /\ \E j \in DOMAIN r : r[j] = e
             /\ Distinct(q) /\ (\A k \in DOMAIN q : q[k].id # e.id) => Distinct(r)
<1> DEFINE r == InsertAt(q, i, e)
           old(j) == IF j < i THEN j ELSE j - 1
           new(k) == IF k < i THEN k ELSE k + 1
<1>1. /\ r \in Seq(Items) /\ Len(r) = Len(q) + 1
      /\ \A j \in 1 .. Len(q) + 1 :
           r[j] = IF j < i THEN q[j] ELSE IF j = i THEN e ELSE q[j - 1]
  <2>1. r \in Seq(Items) /\ Len(r) = Len(q) + 1
    BY InsertFacts
  <2>2. \A j \in 1 .. Len(q) + 1 :
          r[j] = IF j < i THEN q[j] ELSE IF j = i THEN e ELSE q[j - 1]
    BY InsertFacts, SMTT(60)
  <2> QED
    BY <2>1, <2>2
<1> HIDE DEF r
<1>2. DOMAIN r = 1 .. Len(q) + 1 /\ DOMAIN q = 1 .. Len(q) /\ Len(q) \in Nat
      /\ i \in Nat /\ 1 <= i /\ i <= Len(q) + 1
  BY <1>1
<1>3. \A j \in DOMAIN r : j # i => old(j) \in DOMAIN q /\ r[j] = q[old(j)]
  BY <1>1, <1>2
<1>4. i \in DOMAIN r /\ r[i] = e
  BY <1>1, <1>2
<1>5. \A k \in DOMAIN q : new(k) \in DOMAIN r /\ r[new(k)] = q[k]
  <2> SUFFICES ASSUME NEW k \in DOMAIN q PROVE new(k) \in DOMAIN r /\ r[new(k)] = q[k]
    OBVIOUS
  <2>1. new(k) \in DOMAIN r /\ new(k) # i /\ old(new(k)) = k
    BY <1>2
  <2> QED
    BY <1>3, <2>1, Zenon
<1>6. ASSUME Distinct(q), \A k \in DOMAIN q : q[k].id # e.id
      PROVE  Distinct(r)
  <2> SUFFICES ASSUME NEW j \in DOMAIN r, NEW k \in DOMAIN r, r[j].id = r[k].id
               PROVE  j = k
    BY DEF Distinct
  <2>1. CASE j = i
    BY <1>3, <1>4, <1>6, <2>1
  <2>2. CASE k = i
    BY <1>3, <1>4, <1>6, <2>2
  <2>3. CASE j # i /\ k # i
    <3>1. old(j) = old(k)
      BY <1>3, <1>6, <2>3, Zenon DEF Distinct
    <3> QED
      BY <1>2, <2>3, <3>1
  <2> QED
    BY <2>1, <2>2, <2>3, Zenon
<1>7. \A j \in DOMAIN r : r[j] = e \/ \E k \in DOMAIN q : r[j] = q[k]
  <2> SUFFICES ASSUME NEW j \in DOMAIN r, j # i PROVE \E k \in DOMAIN q : r[j] = q[k]
    BY <1>4
  <2> QED
    BY <1>3, Zenon
<1>8. \A k \in DOMAIN q : \E j \in DOMAIN r : r[j] = q[k]
  BY <1>5, Zenon
<1> QED
  BY <1>1, <1>4, <1>6, <1>7, <1>8, Zenon DEF r

(***************************************************************************)
(* Remove takes that one packet out, wherever it is, and no other.         *)
(***************************************************************************)
LEMMA RemoveItems ==
  ASSUME NEW q \in Seq(Items), NEW i \in 1 .. Len(q), Distinct(q)
  PROVE  LET r == RemoveAt(q, i)
         IN  /\ r \in Seq(Items) /\ Len(r) = Len(q) - 1
             /\ \A j \in DOMAIN r : r[j].id # q[i].id /\ \E k \in DOMAIN q : r[j] = q[k]
             /\ \A k \in DOMAIN q : k # i => \E j \in DOMAIN r : r[j] = q[k]
             /\ Distinct(r)
<1> DEFINE r == RemoveAt(q, i)
           old(j) == IF j < i THEN j ELSE j + 1
           new(k) == IF k < i THEN k ELSE k - 1
<1>1. /\ r \in Seq(Items) /\ Len(r) = Len(q) - 1
      /\ \A j \in 1 .. Len(q) - 1 : r[j] = IF j < i THEN q[j] ELSE q[j + 1]
  BY RemoveFacts
<1> HIDE DEF r
<1>2. DOMAIN r = 1 .. Len(q) - 1 /\ DOMAIN q = 1 .. Len(q) /\ Len(q) \in Nat
      /\ i \in Nat /\ 1 <= i /\ i <= Len(q) /\ i \in DOMAIN q
  BY <1>1
<1>3. \A j \in DOMAIN r : old(j) \in DOMAIN q /\ old(j) # i /\ r[j] = q[old(j)]
  BY <1>1, <1>2
<1>4. \A k \in DOMAIN q : k # i => new(k) \in DOMAIN r /\ r[new(k)] = q[k]
  <2> SUFFICES ASSUME NEW k \in DOMAIN q, k # i PROVE new(k) \in DOMAIN r /\ r[new(k)] = q[k]
    OBVIOUS
  <2>1. new(k) \in DOMAIN r /\ old(new(k)) = k
    BY <1>2
  <2> QED
    BY <1>3, <2>1, Zenon
<1>5. \A j \in DOMAIN r : r[j].id # q[i].id
  BY <1>2, <1>3, Zenon DEF Distinct
<1>6. Distinct(r)
  <2> SUFFICES ASSUME NEW j \in DOMAIN r, NEW k \in DOMAIN r, r[j].id = r[k].id
               PROVE  j = k
    BY DEF Distinct
  <2>1. old(j) = old(k)
    BY <1>3, SMTT(30) DEF Distinct
  <2> QED
    BY <1>2, <2>1
<1> QED
  BY <1>1, <1>3, <1>4, <1>5, <1>6, Zenon DEF r

(***************************************************************************)
(* The items of a queue get older where they are.                          *)
(***************************************************************************)
LEMMA AgedItems ==
  ASSUME NEW q \in Seq(Items)
  PROVE  LET r == [i \in DOMAIN q |-> [q[i] EXCEPT !.due = Less1(@)]]
         IN  /\ r \in Seq(Items) /\ Len(r) = Len(q) /\ DOMAIN r = DOMAIN q
             /\ \A i \in DOMAIN q : /\ r[i].id = q[i].id /\ r[i].size = q[i].size
                                    /\ r[i].due = Less1(q[i].due)
<1> DEFINE r == [i \in DOMAIN q |-> [q[i] EXCEPT !.due = Less1(@)]]
<1>1. \A i \in DOMAIN q : q[i] \in Items
  OBVIOUS
<1>2. \A i \in DOMAIN q : r[i] = [q[i] EXCEPT !.due = Less1(@)]
  OBVIOUS
<1>3. \A n \in 0 .. Delay : Less1(n) \in 0 .. Delay
  BY NoisyChanAssumption DEF Less1
<1>4. ASSUME NEW i \in DOMAIN q
      PROVE  /\ r[i] \in Items /\ r[i].id = q[i].id /\ r[i].size = q[i].size
             /\ r[i].due = Less1(q[i].due)
  BY <1>1, <1>2, <1>3 DEF Items
<1>5. DOMAIN r = DOMAIN q /\ r \in [DOMAIN q -> Items]
  BY <1>4
<1>6. r \in Seq(Items) /\ Len(r) = Len(q)
  BY <1>5, ChangeFacts
<1> QED
  BY <1>4, <1>5, <1>6

-----------------------------------------------------------------------------
(***************************************************************************)
(* The noisy channel starts empty.                                         *)
(***************************************************************************)
LEMMA ChanInitInv == ChanInit => ChanIInv
<1> SUFFICES ASSUME ChanInit PROVE ChanIInv
  OBVIOUS
<1>1. packets = <<>> /\ out = <<>> /\ DOMAIN packets = {} /\ DOMAIN out = {} /\ Len(packets) = 0
  BY DEF ChanInit
<1>2. ChanTypeOK
  BY <1>1, NoisyChanAssumption DEF ChanInit, ChanTypeOK
<1>3. Queued = {} /\ ToSet(out) = {} /\ accepted = {}
  BY <1>1 DEF ChanInit, Queued, ToSet
<1>4. Conserved
  BY <1>1, <1>3 DEF Conserved
<1>5. Numbered
  BY <1>1, <1>3 DEF Numbered
<1>6. FrontQueued /\ SentIsOut /\ DelayCounted /\ DelayRespected
  BY DEF ChanInit, FrontQueued, Working, SentIsOut, DelayCounted, DelayRespected
<1> QED
  BY <1>2, <1>4, <1>5, <1>6 DEF ChanIInv

(***************************************************************************)
(* recv_packet: the new item is another than the one send works on.        *)
(***************************************************************************)
LEMMA EnqueueKeeps ==
  ASSUME ChanIInv, NEW size \in Sizes, Enqueue(size)
  PROVE  ChanIInv'
<1> DEFINE item == [id |-> arrived + 1, size |-> size, due |-> Delay]
<1>1. /\ ChanTypeOK /\ FrontQueued /\ Numbered /\ SentIsOut /\ DelayCounted
      /\ Conserved /\ DelayRespected
  BY DEF ChanIInv
<1>2. /\ packets \in Seq(Items) /\ arrived \in 0 .. MaxPackets /\ arrived < MaxPackets
      /\ Len(packets) \in Nat /\ DOMAIN packets = 1 .. Len(packets)
      /\ arrived' = arrived + 1 /\ accepted' = accepted \cup {arrived + 1}
  BY <1>1 DEF ChanTypeOK, Enqueue
<1>3. item \in Items
  BY <1>2, NoisyChanAssumption DEF Items
<1>4. PICK i \in Places : packets' = InsertAt(packets, i, item)
  BY DEF Enqueue
<1>5. i \in 1 .. Len(packets) + 1
  <2>1. i = Len(packets) + 1 \/ (packets # <<>> /\ i = Len(packets))
    BY DEF Places
  <2>2. packets # <<>> => Len(packets) >= 1
    BY <1>2
  <2> QED
    BY <1>2, <2>1, <2>2
<1>6. Distinct(packets) /\ \A k \in DOMAIN packets : packets[k].id \in accepted
  BY <1>1 DEF Numbered, Distinct, Conserved, Queued
<1>7. arrived + 1 \notin accepted /\ item.id = arrived + 1 /\ item.due = Delay
  BY <1>1, <1>2 DEF Numbered
<1> HIDE DEF item
<1>8. /\ packets' \in Seq(Items) /\ Len(packets') = Len(packets) + 1
      /\ \A j \in DOMAIN packets' :
           packets'[j] = item \/ \E k \in DOMAIN packets : packets'[j] = packets[k]
      /\ \A k \in DOMAIN packets : \E j \in DOMAIN packets' : packets'[j] = packets[k]
      /\ \E j \in DOMAIN packets' : packets'[j] = item
      /\ Distinct(packets')
  <2>1. \A k \in DOMAIN packets : packets[k].id # item.id
    BY <1>6, <1>7
  <2> QED
    BY <1>2, <1>3, <1>4, <1>5, <1>6, <2>1, InsertItems, ZenonT(60)
<1>9. UNCHANGED <<sender, front, sleeping, elapsed, bucket, out>>
  BY DEF Enqueue, timeVars
<1>10. Queued' = Queued \cup {arrived + 1}
  BY <1>7, <1>8 DEF Queued
<1>11. ChanTypeOK'
  <2>1. Capacity > 0 => Len(packets) < Capacity
    BY <1>2, NoisyChanAssumption DEF Enqueue, Full
  <2>2. Capacity > 0 => Len(packets') <= Capacity
    BY <1>2, <1>8, <2>1, NoisyChanAssumption
  <2>3. receiver' = "queued"
    BY DEF Enqueue
  <2>4. arrived' \in 0 .. MaxPackets /\ accepted' \subseteq 1 .. MaxPackets
    BY <1>1, <1>2, NoisyChanAssumption DEF ChanTypeOK
  <2> QED
    BY <1>1, <1>8, <1>9, <2>2, <2>3, <2>4 DEF ChanTypeOK
<1>12. ToSet(out)' = ToSet(out)
  BY <1>9 DEF ToSet
<1>13. Working => front.id # arrived + 1
  BY <1>1, <1>6, <1>7 DEF FrontQueued
<1>14. Conserved'
  <2>1. ToSet(out) \subseteq accepted
    BY <1>1 DEF Conserved
  <2> QED
    BY <1>1, <1>2, <1>7, <1>9, <1>10, <1>12, <2>1 DEF Conserved
<1>15. Numbered'
  BY <1>1, <1>2, <1>8 DEF Numbered, Distinct
<1>16. SentIsOut' /\ (Working' <=> Working)
  BY <1>1, <1>9, <1>12 DEF SentIsOut, Working
<1>17. FrontQueued'
  <2> SUFFICES ASSUME Working
               PROVE  \E j \in DOMAIN packets' :
                        packets'[j].id = front.id /\ packets'[j].size = front.size
    BY <1>9, <1>16 DEF FrontQueued
  <2>1. PICK k \in DOMAIN packets : packets[k].id = front.id /\ packets[k].size = front.size
    BY <1>1 DEF FrontQueued
  <2>2. PICK j \in DOMAIN packets' : packets'[j] = packets[k]
    BY <1>8
  <2> QED
    BY <2>1, <2>2
<1>18. DelayCounted'
  BY <1>1, <1>7, <1>8, <1>9, <1>13 DEF DelayCounted, Working
<1>19. DelayRespected'
  BY <1>1, <1>7, <1>8, <1>9, <1>13 DEF DelayRespected, Working
<1> QED
  BY <1>11, <1>14, <1>15, <1>16, <1>17, <1>18, <1>19 DEF ChanIInv

(***************************************************************************)
(* send: the packet in hand goes out once.                                 *)
(***************************************************************************)
LEMMA SendPacketKeeps ==
  ASSUME ChanIInv, SendPacket
  PROVE  ChanIInv'
<1>1. /\ ChanTypeOK /\ FrontQueued /\ Numbered /\ SentIsOut /\ DelayCounted
      /\ Conserved /\ DelayRespected
  BY DEF ChanIInv
<1>2. /\ sender = "send" /\ sender' = "remove" /\ out' = Append(out, front.id)
      /\ UNCHANGED <<arrived, packets, receiver, accepted, sleeping, elapsed, front, bucket>>
  BY DEF SendPacket, recvVars
<1>3. PICK k \in DOMAIN packets : packets[k].id = front.id /\ packets[k].size = front.size
  BY <1>1, <1>2 DEF FrontQueued, Working
<1>4. packets[k] \in Items /\ front.id \in 1 .. MaxPackets /\ front.id \in Queued
  <2>1. packets[k] \in Items
    BY <1>1 DEF ChanTypeOK
  <2>2. packets[k].id \in 1 .. MaxPackets
    BY <2>1 DEF Items
  <2> QED
    BY <1>3, <2>1, <2>2 DEF Queued
<1>5. front.id \notin ToSet(out)
  BY <1>1, <1>2, <1>4 DEF Conserved
<1>6. out \in Seq(1 .. MaxPackets) /\ Len(out) \in Nat /\ DOMAIN out = 1 .. Len(out)
  BY <1>1 DEF ChanTypeOK
<1>7. /\ out' \in Seq(1 .. MaxPackets) /\ DOMAIN out' = 1 .. Len(out) + 1
      /\ \A i \in DOMAIN out : out'[i] = out[i]
      /\ out'[Len(out) + 1] = front.id
  BY <1>2, <1>4, <1>6, AppendProperties
<1>8. ToSet(out)' = ToSet(out) \cup {front.id}
  <2>1. DOMAIN out' = DOMAIN out \cup {Len(out) + 1}
    BY <1>6, <1>7
  <2> QED
    BY <1>7, <2>1, ZenonT(60) DEF ToSet
<1>9. ChanTypeOK'
  BY <1>1, <1>2, <1>7 DEF ChanTypeOK
<1>10. Queued' = Queued
  BY <1>2 DEF Queued
<1>11. \A i, j \in DOMAIN out' : out'[i] = out'[j] => i = j
  <2>1. \A i \in DOMAIN out : out'[i] # front.id /\ out'[i] = out[i]
    BY <1>5, <1>7 DEF ToSet
  <2>2. DOMAIN out' = DOMAIN out \cup {Len(out) + 1}
    BY <1>6, <1>7
  <2> QED
    BY <1>1, <1>7, <2>1, <2>2 DEF Conserved
<1>12. Conserved'
  BY <1>1, <1>2, <1>4, <1>8, <1>10, <1>11 DEF Conserved
<1>13. Numbered' /\ SentIsOut' /\ DelayCounted' /\ DelayRespected'
  BY <1>1, <1>2, <1>8 DEF Numbered, SentIsOut, DelayCounted, DelayRespected
<1>14. FrontQueued'
  BY <1>2, <1>3 DEF FrontQueued
<1> QED
  BY <1>9, <1>12, <1>13, <1>14 DEF ChanIInv

(***************************************************************************)
(* packets.Remove: the packet that was sent, and no other, leaves the      *)
(* queue.                                                                  *)
(***************************************************************************)
LEMMA RemoveFrontKeeps ==
  ASSUME ChanIInv, RemoveFront
  PROVE  ChanIInv'
<1>1. /\ ChanTypeOK /\ FrontQueued /\ Numbered /\ SentIsOut /\ DelayCounted
      /\ Conserved /\ DelayRespected
  BY DEF ChanIInv
<1>2. /\ sender = "remove" /\ sender' = "loop"
      /\ UNCHANGED <<arrived, receiver, accepted, sleeping, elapsed, front, bucket, out>>
  BY DEF RemoveFront, timeVars
<1> DEFINE k == CHOOSE i \in DOMAIN packets : packets[i].id = front.id
<1>3. k \in DOMAIN packets /\ packets[k].id = front.id
  BY <1>1, <1>2 DEF FrontQueued, Working
<1>4. packets' = RemoveAt(packets, k)
  BY DEF RemoveFront, Remaining
<1> HIDE DEF k
<1>5. /\ packets \in Seq(Items) /\ Len(packets) \in Nat /\ DOMAIN packets = 1 .. Len(packets)
      /\ Distinct(packets)
  BY <1>1 DEF ChanTypeOK, Numbered, Distinct
<1>6. /\ packets' \in Seq(Items) /\ Len(packets') = Len(packets) - 1
      /\ \A j \in DOMAIN packets' : /\ packets'[j].id # packets[k].id
                                    /\ \E i \in DOMAIN packets : packets'[j] = packets[i]
      /\ \A i \in DOMAIN packets : i # k => \E j \in DOMAIN packets' : packets'[j] = packets[i]
      /\ Distinct(packets')
  <2>1. k \in 1 .. Len(packets)
    BY <1>3, <1>5
  <2> QED
    BY <1>4, <1>5, <2>1, RemoveItems, ZenonT(60)
<1>7. Queued' = Queued \ {front.id}
  <2>1. \A id \in Queued' : id \in Queued /\ id # front.id
    BY <1>3, <1>6 DEF Queued
  <2>2. ASSUME NEW id \in Queued, id # front.id
        PROVE  id \in Queued'
    <3>1. PICK i \in DOMAIN packets : packets[i].id = id
      BY DEF Queued
    <3>2. PICK j \in DOMAIN packets' : packets'[j] = packets[i]
      BY <1>3, <1>6, <2>2, <3>1
    <3> QED
      BY <3>1, <3>2 DEF Queued
  <2> QED
    BY <2>1, <2>2
<1>8. ToSet(out)' = ToSet(out) /\ front.id \in ToSet(out)
  BY <1>1, <1>2 DEF ToSet, SentIsOut
<1>9. ChanTypeOK'
  <2>1. Capacity > 0 => Len(packets') <= Capacity
    BY <1>1, <1>5, <1>6, NoisyChanAssumption DEF ChanTypeOK
  <2> QED
    BY <1>1, <1>2, <1>6, <2>1 DEF ChanTypeOK
<1>10. Conserved'
  BY <1>1, <1>2, <1>7, <1>8 DEF Conserved
<1>11. Numbered'
  BY <1>1, <1>2, <1>6 DEF Numbered, Distinct
<1>12. FrontQueued' /\ SentIsOut' /\ DelayCounted' /\ DelayRespected'
  BY <1>2 DEF FrontQueued, Working, SentIsOut, DelayCounted, DelayRespected
<1> QED
  BY <1>9, <1>10, <1>11, <1>12 DEF ChanIInv

(***************************************************************************)
(* A tick makes the items older, and what is left of a sleep shorter.      *)
(***************************************************************************)
LEMMA TickKeeps ==
  ASSUME ChanIInv, Tick
  PROVE  ChanIInv'
<1>1. /\ ChanTypeOK /\ FrontQueued /\ Numbered /\ SentIsOut /\ DelayCounted
      /\ Conserved /\ DelayRespected
  BY DEF ChanIInv
<1>2. /\ packets \in Seq(Items) /\ sleeping \in Nat /\ elapsed \in Nat
      /\ \A i \in DOMAIN packets : packets[i].due \in Nat
  <2>1. \A i \in DOMAIN packets : packets[i] \in Items
    BY <1>1 DEF ChanTypeOK
  <2> QED
    BY <1>1, <2>1, NoisyChanAssumption DEF ChanTypeOK, Items
<1>3. /\ packets' \in Seq(Items) /\ Len(packets') = Len(packets)
      /\ DOMAIN packets' = DOMAIN packets
      /\ \A i \in DOMAIN packets : /\ packets'[i].id = packets[i].id
                                   /\ packets'[i].size = packets[i].size
                                   /\ packets'[i].due = Less1(packets[i].due)
  <2>1. packets' = [i \in DOMAIN packets |-> [packets[i] EXCEPT !.due = Less1(@)]]
    BY DEF Tick
  <2> QED
    BY <1>2, <2>1, AgedItems, ZenonT(60)
<1>4. /\ sleeping' = Less1(sleeping) /\ sleeping' \in Nat /\ elapsed' \in Nat
      /\ UNCHANGED <<arrived, receiver, accepted, sender, front, bucket, out>>
  BY <1>2 DEF Tick, Less1
<1>5. ChanTypeOK'
  BY <1>1, <1>3, <1>4 DEF ChanTypeOK
<1>6. Queued' = Queued /\ ToSet(out)' = ToSet(out)
  BY <1>3, <1>4 DEF Queued, ToSet
<1>7. Conserved'
  BY <1>1, <1>4, <1>6 DEF Conserved
<1>8. Numbered' /\ SentIsOut'
  BY <1>1, <1>3, <1>4, <1>6 DEF Numbered, SentIsOut
<1>9. FrontQueued'
  BY <1>1, <1>3, <1>4 DEF FrontQueued, Working
<1>10. DelayCounted'
  BY <1>1, <1>2, <1>3, <1>4 DEF DelayCounted, Less1
<1>11. DelayRespected'
  BY <1>1, <1>2, <1>3, <1>4 DEF DelayRespected, Less1
<1> QED
  BY <1>5, <1>7, <1>8, <1>9, <1>10, <1>11 DEF ChanIInv

(***************************************************************************)
(* The rate at which the bucket fills is no more than the speed.           *)
(***************************************************************************)
LEMMA RateFacts ==
  /\ IncRate \in Nat /\ Second * IncRate <= Speed
  /\ Speed >= Second => IncRate # 0
  /\ \A n \in Nat : /\ IncRate * n \in Nat
                    /\ IncRate * (n + 1) = IncRate * n + IncRate
<1>1. Speed \in Nat /\ Second \in Nat \ {0}
  BY NoisyChanAssumption
<1>2. IncRate \in Nat /\ Speed = Second * IncRate + (Speed % Second)
      /\ Speed % Second \in 0 .. Second - 1
  BY <1>1 DEF IncRate
<1> HIDE DEF IncRate
<1>3. Speed >= Second => IncRate # 0
  <2> SUFFICES ASSUME IncRate = 0 PROVE Speed < Second
    BY <1>1
  <2>1. Second * IncRate = 0
    BY <1>1
  <2> QED
    BY <1>1, <1>2, <2>1
<1>4. \A n \in Nat : IncRate * n \in Nat /\ IncRate * (n + 1) = IncRate * n + IncRate
  BY <1>2
<1>5. Second * IncRate \in Nat
  BY <1>1, <1>2
<1>6. Second * IncRate <= Speed
  BY <1>1, <1>2, <1>5
<1> QED
  BY <1>2, <1>3, <1>4, <1>6

(***************************************************************************)
(* update_send_bucket leaves the bucket between nothing and a second of    *)
(* bytes, and lets a packet through or sleeps for at least a tick.         *)
(***************************************************************************)
LEMMA BucketStep ==
  ASSUME ChanTypeOK, front \in Items, UpdateSendBucket
  PROVE  /\ bucket' \in 0 .. Speed /\ elapsed' \in Nat /\ sleeping' \in Nat
         /\ sender = "due" /\ sender' \in {"send", "throttled"}
         /\ UNCHANGED <<recvVars, credit, front, out>>
<1> DEFINE g == IncRate * elapsed
           grown == bucket + g
           filled == IF grown > Speed THEN Speed ELSE grown
           ticks == (front.size - filled) \div IncRate
<1>1. elapsed \in Nat /\ bucket \in 0 .. Speed /\ Speed \in Nat /\ front.size \in Nat
      /\ sleeping \in Nat
  BY NoisyChanAssumption DEF ChanTypeOK, Items
<1>2. g \in Nat /\ IncRate \in Nat
  BY <1>1, RateFacts
<1> HIDE DEF g
<1>3. filled \in 0 .. Speed
  BY <1>1, <1>2
<1>4. /\ sender = "due" /\ UNCHANGED <<recvVars, credit, front, out>>
      /\ IF IncRate = 0
         THEN sender' = "send" /\ UNCHANGED <<bucket, elapsed, sleeping>>
         ELSE /\ elapsed' = 0
              /\ IF filled >= front.size
                 THEN /\ sender' = "send" /\ bucket' = filled - front.size
                      /\ UNCHANGED sleeping
                 ELSE /\ sender' = "throttled" /\ bucket' = filled
                      /\ sleeping' = IF ticks = 0 THEN 1 ELSE ticks
  BY DEF UpdateSendBucket, Enough, g
<1>5. IncRate # 0 /\ filled < front.size => ticks \in Nat
  BY <1>1, <1>2, <1>3
<1> HIDE DEF filled, ticks
<1>6. CASE IncRate = 0
  BY <1>1, <1>4, <1>6
<1>7. CASE IncRate # 0 /\ filled >= front.size
  BY <1>1, <1>3, <1>4, <1>7
<1>8. CASE IncRate # 0 /\ ~ (filled >= front.size)
  BY <1>1, <1>3, <1>4, <1>5, <1>8
<1> QED
  BY <1>6, <1>7, <1>8

(***************************************************************************)
(* No step of the noisy channel breaks the invariant.                      *)
(***************************************************************************)
LEMMA ChanStepInv ==
  ASSUME ChanIInv, ChanNext \/ UNCHANGED chanVars
  PROVE  ChanIInv'
<1> USE DEF ChanIInv
<1>0. \A q \in Seq(Items) : DOMAIN q = 1 .. Len(q) /\ Len(q) \in Nat
  OBVIOUS
<1>1. UNCHANGED packets => Queued' = Queued
  BY DEF Queued
<1>2. UNCHANGED out => ToSet(out)' = ToSet(out)
  BY DEF ToSet
<1>3. CASE UNCHANGED chanVars
  BY <1>1, <1>2, <1>3 DEF chanVars, recvVars, timeVars, ChanTypeOK, FrontQueued, Working,
     Numbered, SentIsOut, DelayCounted, Conserved, DelayRespected
<1>4. ASSUME NEW size \in Sizes, Drop(size)
      PROVE  ChanIInv'
  <2>1. /\ UNCHANGED <<packets, receiver, accepted, sleeping, elapsed, credit, sender, front,
                       bucket, out>>
        /\ arrived' = arrived + 1 /\ arrived < MaxPackets
    BY <1>4 DEF Drop, timeVars
  <2>2. arrived' \in 0 .. MaxPackets /\ 1 .. arrived \subseteq 1 .. arrived'
    BY <2>1, NoisyChanAssumption DEF ChanTypeOK
  <2> QED
    BY <1>1, <1>2, <2>1, <2>2 DEF ChanTypeOK, FrontQueued, Working,
       Numbered, SentIsOut, DelayCounted, Conserved, DelayRespected
<1>5. ASSUME NEW size \in Sizes, Enqueue(size)
      PROVE  ChanIInv'
  BY <1>5, EnqueueKeeps
<1>6. CASE Signal
  BY <1>1, <1>2, <1>6 DEF Signal, timeVars, ChanTypeOK, FrontQueued, Working,
     Numbered, SentIsOut, DelayCounted, Conserved, DelayRespected
<1>7. CASE CheckQueue \/ Wait \/ LoopEnds
  BY <1>1, <1>2, <1>7 DEF CheckQueue, Wait, LoopEnds, recvVars, timeVars, ChanTypeOK,
     FrontQueued, Working, Numbered, SentIsOut, DelayCounted, Conserved, DelayRespected
<1>8. CASE TakeFront
  <2>1. /\ packets # <<>> /\ front' = Head(packets) /\ sleeping' = Head(packets).due
        /\ sender = "loop" /\ sender' = "delayed"
        /\ UNCHANGED <<arrived, packets, receiver, accepted, elapsed, bucket, out>>
    BY <1>8 DEF TakeFront, DelayOf, recvVars
  <2>2. /\ 1 \in DOMAIN packets /\ Head(packets) = packets[1] /\ packets[1] \in Items
        /\ packets[1].due \in Nat
    <3>1. packets \in Seq(Items)
      BY DEF ChanTypeOK
    <3>2. 1 \in DOMAIN packets /\ Head(packets) = packets[1] /\ packets[1] \in Items
      BY <2>1, <3>1
    <3> QED
      BY <3>2, NoisyChanAssumption DEF Items
  <2>3. ChanTypeOK' /\ Numbered' /\ SentIsOut' /\ Conserved' /\ DelayRespected'
    BY <1>1, <1>2, <2>1, <2>2 DEF ChanTypeOK, Numbered, SentIsOut, Conserved, DelayRespected
  <2>4. FrontQueued'
    BY <2>1, <2>2 DEF FrontQueued
  <2>5. DelayCounted'
    BY <2>1, <2>2 DEF DelayCounted, Numbered
  <2> QED
    BY <2>3, <2>4, <2>5
<1>9. CASE WakeUp
  <2>1. /\ sleeping = 0
        /\ \/ sender = "delayed" /\ sender' = "due"
           \/ sender = "throttled" /\ sender' = "loop"
        /\ UNCHANGED <<arrived, packets, receiver, accepted, sleeping, elapsed, credit, front,
                       bucket, out>>
    BY <1>9 DEF WakeUp, recvVars, timeVars
  <2>2. ChanTypeOK' /\ Numbered' /\ SentIsOut' /\ Conserved' /\ FrontQueued' /\ DelayCounted'
    BY <1>1, <1>2, <2>1 DEF ChanTypeOK, Numbered, SentIsOut, Conserved, FrontQueued, Working,
       DelayCounted
  <2>3. \A i \in DOMAIN packets : packets[i].due \in Nat
    <3>1. \A i \in DOMAIN packets : packets[i] \in Items
      BY DEF ChanTypeOK
    <3> QED
      BY <3>1, NoisyChanAssumption DEF Items
  <2>4. DelayRespected'
    BY <2>1, <2>3 DEF DelayRespected, DelayCounted
  <2> QED
    BY <2>2, <2>4
<1>10. CASE UpdateSendBucket
  <2>1. sender = "due"
    BY <1>10 DEF UpdateSendBucket
  <2>2. front \in Items
    <3>1. PICK i \in DOMAIN packets : packets[i].id = front.id
      BY <2>1 DEF FrontQueued, Working
    <3>2. packets[i] \in Items
      BY <3>1 DEF ChanTypeOK
    <3>3. packets[i].id # 0
      BY <3>2, NoisyChanAssumption DEF Items
    <3> QED
      BY <3>1, <3>3 DEF ChanTypeOK, NoItem
  <2>3. /\ bucket' \in 0 .. Speed /\ elapsed' \in Nat /\ sleeping' \in Nat
        /\ sender = "due" /\ sender' \in {"send", "throttled"}
        /\ UNCHANGED <<arrived, packets, receiver, accepted, front, out>>
    BY <1>10, <2>2, BucketStep DEF recvVars
  <2> QED
    BY <1>1, <1>2, <2>3 DEF ChanTypeOK, FrontQueued, Working,
       Numbered, SentIsOut, DelayCounted, Conserved, DelayRespected
<1>11. CASE SendPacket
  BY <1>11, SendPacketKeeps
<1>12. CASE RemoveFront
  BY <1>12, RemoveFrontKeeps
<1>13. CASE Tick
  BY <1>13, TickKeeps
<1> QED
  BY <1>3, <1>4, <1>5, <1>6, <1>7, <1>8, <1>9, <1>10, <1>11, <1>12, <1>13
  DEF ChanNext, RecvStep, SendStep

-----------------------------------------------------------------------------
(***************************************************************************)
(* Seconds of bytes compare as bytes do.                                   *)
(***************************************************************************)
LEMMA SecondsMonotonic ==
  ASSUME NEW a \in Int, NEW b \in Int
  PROVE  /\ Second * a \in Int
         /\ a <= b => Second * a <= Second * b
         /\ Second * (a + b) = Second * a + Second * b
         /\ Second * (a - b) = Second * a - Second * b
<1>1. Second \in Nat
  BY NoisyChanAssumption
<1> QED
  BY <1>1

(***************************************************************************)
(* A tick brings no more to the bucket than it does to the rate.           *)
(***************************************************************************)
LEMMA TickCovers ==
  ASSUME NEW c \in Int, NEW d \in Int, NEW held \in Int, NEW more \in Int,
         c <= Speed * Second, Covers(c, held), more <= held + IncRate, more <= Speed,
         d = IF c + Speed > Speed * Second THEN Speed * Second ELSE c + Speed
  PROVE  Covers(d, more) /\ d <= Speed * Second
<1>1. Speed \in Nat /\ Second \in Nat /\ IncRate \in Nat /\ Second * IncRate <= Speed
  BY NoisyChanAssumption, RateFacts
<1>2. Second * more <= Second * (held + IncRate) /\ Second * more <= Second * Speed
  BY <1>1, SecondsMonotonic
<1>3. Second * (held + IncRate) = Second * held + Second * IncRate
      /\ Second * held \in Int /\ Second * IncRate \in Int /\ Second * more \in Int
  BY <1>1, SecondsMonotonic
<1>4. Second * Speed = Speed * Second /\ Speed * Second \in Int
  BY <1>1
<1> DEFINE x == Second * more
           y == Second * held
           z == Second * IncRate
           w == Speed * Second
<1>5. x \in Int /\ y \in Int /\ z \in Int /\ w \in Int /\ x <= y + z /\ x <= w
      /\ z <= Speed /\ c >= y /\ d = (IF c + Speed > w THEN w ELSE c + Speed)
  BY <1>1, <1>2, <1>3, <1>4 DEF Covers
<1>6. Covers(d, more) <=> d >= x
  BY DEF Covers
<1> HIDE DEF x, y, z, w
<1>7. d >= x /\ d <= w
  BY <1>1, <1>5
<1> QED
  BY <1>6, <1>7 DEF w

(***************************************************************************)
(* What the rate reads of the state.                                       *)
(***************************************************************************)
LEMMA RateTypes ==
  ASSUME ChanTypeOK
  PROVE  /\ bucket \in 0 .. Speed /\ Speed \in Nat /\ front.size \in Nat
         /\ IncRate * elapsed \in Nat
         /\ Filled \in Nat /\ Filled <= Speed
         /\ \A debt \in Sizes \cup {0} :
              /\ debt \in Nat /\ FilledUnpaid(debt) \in Int /\ Held(debt) \in Int
              /\ Held(debt) >= -debt
<1>1. bucket \in 0 .. Speed /\ Speed \in Nat /\ elapsed \in Nat
  BY NoisyChanAssumption DEF ChanTypeOK
<1>2. front.size \in Nat
  <2>1. front \in Items \/ front = NoItem
    BY DEF ChanTypeOK
  <2>2. front.size \in Sizes \cup {0}
    BY <2>1 DEF Items, NoItem
  <2>3. Sizes \cup {0} \subseteq Nat
    BY NoisyChanAssumption
  <2> QED
    BY <2>2, <2>3, Zenon
<1>3. IncRate * elapsed \in Nat
  BY <1>1, RateFacts
<1> DEFINE g == IncRate * elapsed
<1>4. g \in Nat /\ Filled = Least(Speed, bucket + g)
      /\ \A debt : FilledUnpaid(debt) = Least(Speed, bucket + front.size - debt + g)
  BY <1>3 DEF Filled, FilledUnpaid
<1> HIDE DEF g
<1>5. Filled \in Nat /\ Filled <= Speed
  BY <1>1, <1>4 DEF Least
<1>6. ASSUME NEW debt \in Sizes \cup {0}
      PROVE  /\ debt \in Nat /\ FilledUnpaid(debt) \in Int /\ Held(debt) \in Int
             /\ Held(debt) >= -debt
  <2>1. debt \in Nat
    BY NoisyChanAssumption
  <2>2. FilledUnpaid(debt) \in Int /\ FilledUnpaid(debt) >= -debt
    BY <1>1, <1>2, <1>4, <2>1 DEF Least
  <2> QED
    BY <1>5, <2>1, <2>2 DEF Held
<1> QED
  BY <1>1, <1>2, <1>3, <1>5, <1>6

(***************************************************************************)
(* The packet that is sent was paid for, or is the debt there is from now  *)
(* on: a debt there was before does not add to it.                         *)
(***************************************************************************)
LEMMA SendPays ==
  ASSUME ChanIInv, RateIInv, Speed >= Second, SendPacket
  PROVE  Paid' /\ credit' \in Int /\ credit' <= Speed * Second
<1>1. /\ ChanTypeOK /\ ~ TooLong(front.size) /\ credit \in Int /\ credit <= Speed * Second
      /\ sender = "send"
  BY DEF ChanIInv, RateIInv, SizesFit, SendPacket
<1>2. Speed \in Nat /\ Second \in Nat \ {0} /\ Speed # 0
  BY NoisyChanAssumption
<1>3. /\ bucket \in 0 .. Speed /\ front.size \in Nat /\ IncRate * elapsed \in Nat
  BY <1>1, RateTypes
<1>4. PICK debt \in Sizes \cup {0} : ~ TooLong(debt) /\ Covers(credit, FilledUnpaid(debt))
  BY <1>1 DEF RateIInv, Paid, Held
<1>5. credit' = credit - front.size * Second
  BY <1>2 DEF SendPacket
<1>6. UNCHANGED <<bucket, elapsed, front>> /\ sender' = "remove"
  BY DEF SendPacket
<1> DEFINE g == IncRate * elapsed
<1>debt. PICK owed \in Nat : owed = IF debt <= front.size THEN front.size ELSE debt
  BY <1>3, <1>4, NoisyChanAssumption
<1>7. /\ Filled = Least(Speed, bucket + g) /\ Filled' = Filled
      /\ FilledUnpaid(debt) = Least(Speed, bucket + front.size - debt + g)
      /\ \A d : Held(d)' = Filled - d
  BY <1>6 DEF Filled, FilledUnpaid, Held
<1>8. debt \in Nat /\ g \in Nat
  BY <1>3, NoisyChanAssumption
<1> HIDE DEF g
<1>9. FilledUnpaid(debt) \in Int /\ Filled \in Int 
      /\ Filled - owed <= FilledUnpaid(debt) - front.size
  BY <1>2, <1>3, <1>7, <1>8, <1>debt DEF Least
<1>10. owed \in Sizes \cup {0} /\ ~ TooLong(owed)
  <2>1. front \in Items \/ front = NoItem
    BY <1>1 DEF ChanTypeOK
  <2>2. front.size \in Sizes \cup {0}
    BY <2>1 DEF Items, NoItem
  <2> QED
    BY <1>1, <1>4, <1>debt, <2>2
<1> DEFINE u == FilledUnpaid(debt)
           h == Filled - owed
<1>11. u \in Int /\ h \in Int /\ h <= u - front.size
  BY <1>9
<1>12. Covers(credit, u)
  BY <1>4
<1>13. Held(owed)' = h
  BY <1>7
<1> HIDE DEF u, h
<1>14. Second * h <= Second * (u - front.size) /\ Second * h \in Int
  <2>1. u - front.size \in Int
    BY <1>3, <1>11
  <2> QED
    BY <1>11, <2>1, SecondsMonotonic
<1>15. Second * (u - front.size) = Second * u - Second * front.size
       /\ Second * u \in Int /\ Second * front.size \in Int
  <2>1. front.size \in Int
    BY <1>3
  <2> QED
    BY <1>11, <2>1, SecondsMonotonic
<1>16. Second * front.size = front.size * Second /\ Second * front.size >= 0
  BY <1>2, <1>3
<1>17. credit' \in Int /\ credit' >= Second * h
  BY <1>1, <1>5, <1>12, <1>14, <1>15, <1>16 DEF Covers
<1>18. Speed * Second \in Int /\ credit' <= Speed * Second
  BY <1>1, <1>2, <1>5, <1>15, <1>16
<1>19. Paid'
  BY <1>10, <1>13, <1>17 DEF Paid, Covers, TooLong
<1> QED
  BY <1>17, <1>18, <1>19

(***************************************************************************)
(* While a tick passes, packets are no more than what they were.           *)
(***************************************************************************)
LEMMA TickPays ==
  ASSUME ChanIInv, RateIInv, Tick
  PROVE  Paid' /\ credit' \in Int /\ credit' <= Speed * Second
<1>1. ChanTypeOK /\ credit \in Int /\ credit <= Speed * Second
  BY DEF ChanIInv, RateIInv
<1>2. Speed \in Nat /\ Second \in Nat /\ elapsed \in Nat /\ IncRate \in Nat
  BY <1>1, NoisyChanAssumption, RateFacts DEF ChanTypeOK
<1>3. /\ bucket \in 0 .. Speed /\ front.size \in Nat /\ IncRate * elapsed \in Nat
  BY <1>1, RateTypes
<1>4. PICK debt \in Sizes \cup {0} : ~ TooLong(debt) /\ Covers(credit, Held(debt))
  BY DEF RateIInv, Paid
<1>5. debt \in Nat /\ Held(debt) \in Int
  BY <1>1, RateTypes
<1>6. /\ elapsed' = IF IncRate * elapsed >= Speed THEN elapsed ELSE elapsed + 1
      /\ UNCHANGED <<bucket, front, sender>>
      /\ credit' = IF credit + Speed > Speed * Second THEN Speed * Second ELSE credit + Speed
  BY DEF Tick
<1> DEFINE g == IncRate * elapsed
           h == IncRate * elapsed'
<1>7. g \in Nat /\ h \in Nat /\ g <= h /\ h <= g + IncRate
  <2>1. IncRate * (elapsed + 1) = IncRate * elapsed + IncRate
    BY <1>2, RateFacts
  <2>2. h = g \/ h = g + IncRate
    BY <1>6, <2>1
  <2> QED
    BY <1>2, <1>3, <2>2
<1>8. Held(debt)' = IF sender = "send" THEN Least(Speed, bucket + front.size - debt + h)
                    ELSE Least(Speed, bucket + h) - debt
  BY <1>6 DEF Held, FilledUnpaid, Filled
<1>9. Held(debt) = IF sender = "send" THEN Least(Speed, bucket + front.size - debt + g)
                   ELSE Least(Speed, bucket + g) - debt
  BY DEF Held, FilledUnpaid, Filled
<1> HIDE DEF g, h
<1> DEFINE m == Held(debt)'
<1>10. m \in Int /\ m <= Held(debt) + IncRate /\ m <= Speed
  BY <1>2, <1>3, <1>5, <1>7, <1>8, <1>9 DEF Least
<1> HIDE DEF m
<1>11. Covers(credit', m) /\ credit' <= Speed * Second /\ credit' \in Int
  <2>1. Speed * Second \in Int
    BY <1>2
  <2>2. credit' \in Int
    BY <1>1, <1>2, <1>6, <2>1
  <2> QED
    BY <1>1, <1>4, <1>5, <1>6, <1>10, <2>2, TickCovers
<1>12. Paid'
  BY <1>4, <1>11 DEF Paid, m, Covers, TooLong
<1> QED
  BY <1>11, <1>12

(***************************************************************************)
(* update_send_bucket takes from the bucket what it lets through.          *)
(***************************************************************************)
LEMMA UpdatePays ==
  ASSUME ChanIInv, RateIInv, Speed >= Second, UpdateSendBucket
  PROVE  /\ Paid' /\ UNCHANGED <<credit, front, packets>>
         /\ sender' = "send" => bucket' + front.size <= Speed
<1>1. ChanTypeOK /\ sender = "due"
  BY DEF ChanIInv, UpdateSendBucket
<1>2. Speed \in Nat /\ IncRate # 0 /\ IncRate \in Nat
  BY NoisyChanAssumption, RateFacts
<1>3. /\ bucket \in 0 .. Speed /\ front.size \in Nat /\ IncRate * elapsed \in Nat
      /\ Filled \in Nat /\ Filled <= Speed
  BY <1>1, RateTypes
<1>4. PICK debt \in Sizes \cup {0} : ~ TooLong(debt) /\ Covers(credit, Filled - debt)
  BY <1>1 DEF RateIInv, Paid, Held
<1>5. debt \in Nat
  BY <1>1, RateTypes
<1> DEFINE g == IncRate * elapsed
           filled == IF bucket + g > Speed THEN Speed ELSE bucket + g
<1>6. filled = Filled
  BY <1>2, <1>3 DEF Filled, Least
<1>7. /\ elapsed' = 0 /\ UNCHANGED <<credit, front, packets>>
      /\ \/ sender' = "send" /\ bucket' = filled - front.size /\ filled >= front.size
         \/ sender' = "throttled" /\ bucket' = filled
  BY <1>2 DEF UpdateSendBucket, Enough, recvVars
<1> HIDE DEF filled
<1>8. IncRate * elapsed' = 0
  BY <1>2, <1>7
<1>9. Held(debt)' = IF sender' = "send" THEN Least(Speed, bucket' + front.size - debt + 0)
                    ELSE Least(Speed, bucket' + 0) - debt
  BY <1>7, <1>8 DEF Held, FilledUnpaid, Filled
<1>10. Held(debt)' = Filled - debt
  BY <1>2, <1>3, <1>5, <1>6, <1>7, <1>9 DEF Least
<1>11. Paid'
  BY <1>4, <1>7, <1>10 DEF Paid, Covers, TooLong
<1>12. sender' = "send" => bucket' + front.size <= Speed
  BY <1>3, <1>6, <1>7
<1> QED
  BY <1>7, <1>11, <1>12

(***************************************************************************)
(* Only packets that are let in are in the queue, and in hand.             *)
(***************************************************************************)
LEMMA SizesStep ==
  ASSUME ChanIInv, SizesFit, ChanNext \/ UNCHANGED chanVars
  PROVE  SizesFit'
<1>1. ChanTypeOK /\ FrontQueued /\ Numbered
  BY DEF ChanIInv
<1>2. packets \in Seq(Items) /\ Len(packets) \in Nat /\ DOMAIN packets = 1 .. Len(packets)
  BY <1>1 DEF ChanTypeOK
<1>3. CASE UNCHANGED <<packets, front>>
  BY <1>3 DEF SizesFit, TooLong
<1>4. ASSUME NEW size \in Sizes, Enqueue(size)
      PROVE  SizesFit'
  <2> DEFINE item == [id |-> arrived + 1, size |-> size, due |-> Delay]
  <2>1. item \in Items /\ item.size = size
    BY <1>1, <1>4, NoisyChanAssumption DEF Items, Enqueue, ChanTypeOK
  <2>2. PICK i \in Places : packets' = InsertAt(packets, i, item)
    BY <1>4 DEF Enqueue
  <2>3. i \in 1 .. Len(packets) + 1
    <3>1. i = Len(packets) + 1 \/ (packets # <<>> /\ i = Len(packets))
      BY DEF Places
    <3>2. packets # <<>> => Len(packets) >= 1
      BY <1>2
    <3> QED
      BY <1>2, <3>1, <3>2
  <2> HIDE DEF item
  <2>4. \A j \in DOMAIN packets' :
          packets'[j] = item \/ \E k \in DOMAIN packets : packets'[j] = packets[k]
    BY <1>2, <2>1, <2>2, <2>3, InsertItems, ZenonT(60)
  <2>5. UNCHANGED front /\ ~ TooLong(size)
    BY <1>4 DEF Enqueue
  <2> QED
    BY <2>1, <2>4, <2>5 DEF SizesFit, TooLong
<1>5. CASE TakeFront
  <2>1. packets # <<>> /\ front' = packets[1] /\ UNCHANGED packets /\ 1 \in DOMAIN packets
    BY <1>2, <1>5 DEF TakeFront, recvVars
  <2> QED
    BY <2>1 DEF SizesFit, TooLong
<1>6. CASE RemoveFront
  <2> DEFINE k == CHOOSE i \in DOMAIN packets : packets[i].id = front.id
  <2>1. k \in 1 .. Len(packets) /\ packets' = RemoveAt(packets, k) /\ UNCHANGED front
    BY <1>1, <1>2, <1>6 DEF FrontQueued, Working, RemoveFront, Remaining
  <2> HIDE DEF k
  <2>2. Distinct(packets)
    BY <1>1 DEF Numbered, Distinct
  <2>3. \A j \in DOMAIN packets' : \E i \in DOMAIN packets : packets'[j] = packets[i]
    BY <1>2, <2>1, <2>2, RemoveItems, ZenonT(60)
  <2> QED
    BY <2>1, <2>3 DEF SizesFit, TooLong
<1>7. CASE Tick
  <2>1. packets' = [i \in DOMAIN packets |-> [packets[i] EXCEPT !.due = Less1(@)]]
        /\ UNCHANGED front
    BY <1>7 DEF Tick
  <2>2. DOMAIN packets' = DOMAIN packets
        /\ \A i \in DOMAIN packets : packets'[i].size = packets[i].size
    BY <1>2, <2>1, AgedItems, ZenonT(60)
  <2> QED
    BY <2>1, <2>2 DEF SizesFit, TooLong
<1>8. (\E size \in Sizes : Enqueue(size)) \/ TakeFront \/ RemoveFront \/ Tick
      \/ UNCHANGED <<packets, front>>
  BY DEF ChanNext, RecvStep, SendStep, Drop, Signal, CheckQueue, Wait, LoopEnds, WakeUp,
     UpdateSendBucket, SendPacket, chanVars, recvVars
<1> QED
  BY <1>3, <1>4, <1>5, <1>6, <1>7, <1>8

(***************************************************************************)
(* No step of the noisy channel sends on more than is paid for.            *)
(***************************************************************************)
LEMMA RateStepInv ==
  ASSUME ChanIInv, RateIInv, Speed >= Second, ChanNext \/ UNCHANGED chanVars
  PROVE  RateIInv'
<1>1. SizesFit'
  BY SizesStep DEF RateIInv
<1>2. CASE SendPacket
  <2>1. sender' = "remove"
    BY <1>2 DEF SendPacket
  <2> QED
    BY <1>1, <1>2, <2>1, SendPays DEF RateIInv
<1>3. CASE Tick
  <2>1. UNCHANGED <<sender, bucket, front>>
    BY <1>3 DEF Tick
  <2> QED
    BY <1>1, <1>3, <2>1, TickPays DEF RateIInv
<1>4. CASE UpdateSendBucket
  <2>1. Paid' /\ UNCHANGED <<credit, front>>
        /\ (sender' = "send" => bucket' + front.size <= Speed)
    BY <1>4, UpdatePays
  <2> QED
    BY <1>1, <2>1 DEF RateIInv
<1>5. CASE /\ UNCHANGED <<credit, bucket, elapsed>>
           /\ \/ UNCHANGED <<sender, front>>
              \/ sender # "send" /\ sender' # "send"
  <2>1. \A debt : Held(debt)' = Held(debt)
    BY <1>5 DEF Held, Filled, FilledUnpaid
  <2>2. Paid'
    BY <1>5, <2>1 DEF RateIInv, Paid, Covers, TooLong
  <2> QED
    BY <1>1, <1>5, <2>2 DEF RateIInv
<1>6. \/ SendPacket \/ Tick \/ UpdateSendBucket
      \/ /\ UNCHANGED <<credit, bucket, elapsed>>
         /\ \/ UNCHANGED <<sender, front>>
            \/ sender # "send" /\ sender' # "send"
  <2>1. CASE RecvStep
    BY <2>1 DEF RecvStep, Drop, Enqueue, Signal, timeVars
  <2>2. CASE CheckQueue \/ Wait \/ LoopEnds \/ TakeFront \/ WakeUp \/ RemoveFront
    BY <2>2 DEF CheckQueue, Wait, LoopEnds, TakeFront, WakeUp, RemoveFront, timeVars
  <2>3. CASE UNCHANGED chanVars
    BY <2>3 DEF chanVars, timeVars
  <2> QED
    BY <2>1, <2>2, <2>3 DEF ChanNext, SendStep
<1> QED
  BY <1>2, <1>3, <1>4, <1>5, <1>6

(***************************************************************************)
(* The bucket starts full, and nothing is owed.                            *)
(***************************************************************************)
LEMMA RateInitInv == ChanInit => RateIInv
<1> SUFFICES ASSUME ChanInit PROVE RateIInv
  OBVIOUS
<1>1. Speed \in Nat /\ Second \in Nat \ {0} /\ IncRate \in Nat /\ Speed * Second \in Int
      /\ Second * Speed = Speed * Second
  BY NoisyChanAssumption, RateFacts
<1>2. /\ bucket = Speed /\ elapsed = 0 /\ sender = "check" /\ credit = Speed * Second
      /\ front.size = 0 /\ DOMAIN packets = {}
  BY DEF ChanInit, NoItem
<1>3. ~ TooLong(0)
  BY NoisyChanAssumption DEF TooLong
<1>4. IncRate * elapsed = 0
  BY <1>1, <1>2
<1>5. Held(0) = Speed
  BY <1>1, <1>2, <1>4 DEF Held, Filled, Least
<1>6. Paid
  BY <1>1, <1>2, <1>3, <1>5 DEF Paid, Covers
<1> QED
  BY <1>1, <1>2, <1>3, <1>6 DEF RateIInv, SizesFit

(***************************************************************************)
(* What is paid for is what the limit allows.                              *)
(***************************************************************************)
LEMMA PaidIsLimited ==
  ASSUME ChanTypeOK, RateIInv
  PROVE  RateLimited
<1>1. PICK debt \in Sizes \cup {0} : ~ TooLong(debt) /\ credit >= Second * Held(debt)
  BY DEF RateIInv, Paid, Covers
<1>2. debt \in Nat /\ Held(debt) \in Int /\ Held(debt) >= -debt /\ Second \in Nat /\ credit \in Int
  BY RateTypes, NoisyChanAssumption DEF RateIInv
<1>3. Second * Held(debt) >= Second * (-debt) /\ Second * Held(debt) \in Int
  <2>1. -debt \in Int
    BY <1>2
  <2> QED
    BY <1>2, <2>1, SecondsMonotonic
<1>4. Second * (-debt) = -(debt * Second) /\ debt * Second \in Nat
  BY <1>2
<1>5. credit >= -(debt * Second)
  BY <1>1, <1>2, <1>3, <1>4
<1> QED
  BY <1>1, <1>5 DEF RateLimited

(***************************************************************************)
(* A channel in the way of a transport keeps its invariant.                *)
(***************************************************************************)
LEMMA ChanInvariant == Spec => []ChanIInv
<1>1. Init => ChanIInv
  BY ChanInitInv DEF Init
<1>2. ChanIInv /\ [Next]_vars => ChanIInv'
  BY ChanStepInv DEF Next, vars
<1> QED
  BY <1>1, <1>2, PTL DEF Spec

(***************************************************************************)
(* No packet is lost or sent on twice by the queue, however recv() and     *)
(* send() interleave and whatever disorder does to the front.              *)
(***************************************************************************)
THEOREM ChannelConserves == Spec => []Conserved
<1>1. ChanIInv => Conserved
  BY DEF ChanIInv
<1> QED
  BY <1>1, ChanInvariant, PTL

(***************************************************************************)
(* No packet is sent on before its delay is over.                          *)
(***************************************************************************)
THEOREM ChannelDelays == Spec => []DelayRespected
<1>1. ChanIInv => DelayRespected
  BY DEF ChanIInv
<1> QED
  BY <1>1, ChanInvariant, PTL

(***************************************************************************)
(* The channel sends on no more than its speed allows, where it has one of *)
(* at least a byte a tick: a lower one is no limit in the code.            *)
(***************************************************************************)
THEOREM ChannelKeepsRate ==
  ASSUME Speed = 0 \/ Speed >= Second
  PROVE  Spec => []RateLimited
<1>1. CASE Speed >= Second
  <2>1. Init => RateIInv
    BY RateInitInv DEF Init
  <2>2. ChanIInv /\ RateIInv /\ [Next]_vars => RateIInv'
    BY <1>1, RateStepInv DEF Next, vars
  <2>3. ChanIInv /\ RateIInv => RateLimited
    BY PaidIsLimited DEF ChanIInv
  <2> QED
    BY <2>1, <2>2, <2>3, ChanInvariant, PTL DEF Spec
<1>2. CASE Speed = 0
  <2>1. Init => credit = 0
    BY <1>2, NoisyChanAssumption DEF Init, ChanInit
  <2>2. credit = 0 /\ [Next]_vars => (credit = 0)'
    <3> SUFFICES ASSUME credit = 0, [Next]_vars PROVE credit' = 0
      OBVIOUS
    <3>1. CASE Tick
      BY <1>2, <3>1, NoisyChanAssumption DEF Tick
    <3>2. CASE SendPacket
      BY <1>2, <3>2 DEF SendPacket
    <3>3. CASE UNCHANGED credit
      BY <3>3
    <3>4. Tick \/ SendPacket \/ UNCHANGED credit
      BY DEF Next, vars, chanVars, timeVars, ChanNext, RecvStep, SendStep, Drop, Enqueue,
         Signal, CheckQueue, Wait, LoopEnds, TakeFront, WakeUp, UpdateSendBucket, RemoveFront
    <3> QED
      BY <3>1, <3>2, <3>3, <3>4
  <2>3. credit = 0 => RateLimited
    <3>1. Second \in Nat /\ MaxPacketSize \in Nat
      BY NoisyChanAssumption
    <3>2. ~ TooLong(0) /\ 0 * Second = 0
      BY <3>1 DEF TooLong
    <3> QED
      BY <3>2 DEF RateLimited
  <2> QED
    BY <2>1, <2>2, <2>3, PTL DEF Spec
<1> QED
  BY <1>1, <1>2

-----------------------------------------------------------------------------
(***************************************************************************)
(* A packet that goes into a channel is the last in it.                    *)
(***************************************************************************)
LEMMA PutFacts ==
  ASSUME NEW S, NEW q \in Seq(S), NEW p \in S
  PROVE  /\ Append(q, p) \in Seq(S) /\ Len(Append(q, p)) = Len(q) + 1
         /\ DOMAIN Append(q, p) = DOMAIN q \cup {Len(q) + 1}
         /\ \A i \in DOMAIN q : Append(q, p)[i] = q[i] /\ i < Len(q) + 1
         /\ Append(q, p)[Len(q) + 1] = p
         /\ Range(Append(q, p)) = Range(q) \cup {p}
<1> DEFINE r == Append(q, p)
<1>1. /\ r \in Seq(S) /\ Len(r) = Len(q) + 1 /\ r[Len(q) + 1] = p
      /\ \A i \in 1 .. Len(q) : r[i] = q[i]
  BY AppendProperties
<1>2. Len(q) \in Nat /\ DOMAIN q = 1 .. Len(q) /\ DOMAIN r = 1 .. Len(r)
  BY <1>1
<1> HIDE DEF r
<1>3. DOMAIN r = DOMAIN q \cup {Len(q) + 1}
  BY <1>1, <1>2
<1>4. \A i \in DOMAIN q : r[i] = q[i] /\ i < Len(q) + 1
  BY <1>1, <1>2
<1>5. Range(r) = Range(q) \cup {p}
  BY <1>1, <1>3, <1>4 DEF Range
<1> QED
  BY <1>1, <1>3, <1>4, <1>5 DEF r

(***************************************************************************)
(* A packet that is taken from a channel is the first in it.               *)
(***************************************************************************)
LEMMA TakeFacts ==
  ASSUME NEW S, NEW q \in Seq(S), q # <<>>
  PROVE  /\ Head(q) \in S /\ Tail(q) \in Seq(S) /\ Len(Tail(q)) = Len(q) - 1
         /\ \A i \in DOMAIN Tail(q) : i + 1 \in DOMAIN q /\ Tail(q)[i] = q[i + 1]
         /\ 1 \in DOMAIN q /\ Head(q) = q[1]
         /\ Range(q) = {Head(q)} \cup Range(Tail(q))
<1> DEFINE r == Tail(q)
<1>1. /\ Head(q) \in S /\ r \in Seq(S) /\ Len(r) = Len(q) - 1
      /\ \A i \in 1 .. Len(r) : r[i] = q[i + 1]
  BY HeadTailProperties
<1>2. /\ Len(q) \in Nat /\ DOMAIN q = 1 .. Len(q) /\ DOMAIN r = 1 .. Len(r)
      /\ 1 \in DOMAIN q /\ Head(q) = q[1]
  BY <1>1
<1> HIDE DEF r
<1>3. \A i \in DOMAIN r : i + 1 \in DOMAIN q /\ r[i] = q[i + 1]
  BY <1>1, <1>2
<1>4. \A i \in DOMAIN q : i = 1 \/ (i - 1 \in DOMAIN r /\ r[i - 1] = q[i])
  <2> SUFFICES ASSUME NEW i \in DOMAIN q, i # 1 PROVE i - 1 \in DOMAIN r /\ r[i - 1] = q[i]
    OBVIOUS
  <2>1. i - 1 \in DOMAIN r /\ (i - 1) + 1 = i
    BY <1>1, <1>2
  <2> QED
    BY <1>3, <2>1
<1>5. Range(q) = {q[1]} \cup Range(r)
  <2>1. \A x \in Range(q) : x = q[1] \/ x \in Range(r)
    BY <1>4 DEF Range
  <2>2. q[1] \in Range(q)
    BY <1>2 DEF Range
  <2>3. \A x \in Range(r) : x \in Range(q)
    BY <1>3 DEF Range
  <2> QED
    BY <2>1, <2>2, <2>3
<1> QED
  BY <1>1, <1>2, <1>3, <1>5 DEF r

(***************************************************************************)
(* Channels keep the order in which packets were read.                     *)
(***************************************************************************)
LEMMA AscendingPut ==
  ASSUME NEW q \in Seq(Packet), NEW p \in Packet, Ascending(q), \A x \in Range(q) : x < p
  PROVE  Ascending(Append(q, p))
<1> DEFINE r == Append(q, p)
<1>1. /\ DOMAIN r = DOMAIN q \cup {Len(q) + 1} /\ DOMAIN q \subseteq Nat /\ Len(q) \in Nat
      /\ \A i \in DOMAIN q : r[i] = q[i] /\ i < Len(q) + 1
      /\ r[Len(q) + 1] = p
  BY PutFacts
<1> HIDE DEF r
<1>2. \A i \in DOMAIN q : q[i] < p
  BY DEF Range
<1>3. Ascending(r)
  BY <1>1, <1>2 DEF Ascending
<1> QED
  BY <1>3 DEF r

(***************************************************************************)
(* What is left in a channel is in order, and was read after what went.    *)
(***************************************************************************)
LEMMA AscendingTake ==
  ASSUME NEW q \in Seq(Packet), q # <<>>, Ascending(q)
  PROVE  Ascending(Tail(q)) /\ \A x \in Range(Tail(q)) : Head(q) < x
<1> DEFINE r == Tail(q)
<1>1. /\ \A i \in DOMAIN r : i + 1 \in DOMAIN q /\ r[i] = q[i + 1]
      /\ 1 \in DOMAIN q /\ Head(q) = q[1] /\ r \in Seq(Packet)
  BY TakeFacts
<1>2. DOMAIN r \subseteq Nat \ {0}
  BY <1>1
<1> HIDE DEF r
<1>3. Ascending(r)
  BY <1>1, <1>2 DEF Ascending
<1>4. \A x \in Range(r) : q[1] < x
  BY <1>1, <1>2 DEF Ascending, Range
<1> QED
  BY <1>1, <1>3, <1>4 DEF r

-----------------------------------------------------------------------------
(***************************************************************************)
(* A tap that takes or gives a packet is still a tap.                      *)
(***************************************************************************)
LEMMA TapShape ==
  ASSUME PipeShape, NEW d \in Path, NEW t \in DOMAIN taps[d], NEW q \in Seq(Packet),
         taps' = [taps EXCEPT ![d][t] = q]
  PROVE  /\ taps' \in [Path -> Seq(Seq(Packet))]
         /\ \A e \in Path : Len(taps'[e]) = Len(taps[e]) /\ DOMAIN taps'[e] = DOMAIN taps[e]
         /\ \A e \in Path : e # d => taps'[e] = taps[e]
         /\ taps'[d][t] = q
         /\ \A u \in DOMAIN taps[d] : u # t => taps'[d][u] = taps[d][u]
<1> DEFINE s == taps[d]
           r == [s EXCEPT ![t] = q]
<1>1. taps \in [Path -> Seq(Seq(Packet))] /\ s \in Seq(Seq(Packet)) /\ t \in 1 .. Len(s)
      /\ DOMAIN s = 1 .. Len(s)
  BY DEF PipeShape
<1>2. r \in Seq(Seq(Packet)) /\ Len(r) = Len(s)
      /\ \A j \in 1 .. Len(s) : r[j] = IF j = t THEN q ELSE s[j]
  BY <1>1, ExceptSeq
<1>3. DOMAIN r = DOMAIN s
  BY <1>1, <1>2
<1>4. taps' = [taps EXCEPT ![d] = r]
  OBVIOUS
<1> HIDE DEF r
<1>5. taps'[d] = r /\ (\A e \in Path : e # d => taps'[e] = taps[e])
      /\ taps' \in [Path -> Seq(Seq(Packet))]
  BY <1>1, <1>2, <1>4
<1>6. r[t] = q /\ \A u \in DOMAIN taps[d] : u # t => r[u] = taps[d][u]
  BY <1>1, <1>2
<1> QED
  BY <1>2, <1>3, <1>5, <1>6

(***************************************************************************)
(* The reader of a path that is done with its packet looks at the field.   *)
(***************************************************************************)
LEMMA DoneShape ==
  ASSUME PipeShape, NEW d \in Path, Done(d)
  PROVE  /\ reader' \in [Path -> [at : {"field", "wait", "packet"}, from : Nat,
                                  packet : 0 .. MaxDatagrams]]
         /\ reader'[d] = AtField /\ reader'[d].at = "field"
         /\ \A e \in Path : e # d => reader'[e] = reader[e]
         /\ \A e \in Path : /\ reader'[e].from <= Len(taps[e])
                            /\ reader'[e].at = "packet" => reader'[e].packet \in Packet
<1>1. AtField \in [at : {"field", "wait", "packet"}, from : Nat, packet : 0 .. MaxDatagrams]
      /\ AtField.at = "field" /\ AtField.from = 0
  BY PipelineAssumption DEF AtField
<1>2. /\ reader' = [reader EXCEPT ![d] = AtField]
      /\ reader \in [Path -> [at : {"field", "wait", "packet"}, from : Nat,
                              packet : 0 .. MaxDatagrams]]
      /\ \A e \in Path : Len(taps[e]) \in Nat
      /\ \A e \in Path : /\ reader[e].from <= Len(taps[e])
                         /\ reader[e].at = "packet" => reader[e].packet \in Packet
  BY DEF Done, PipeShape
<1> QED
  BY <1>1, <1>2

(***************************************************************************)
(* The next packet of the channel a reader waits on.                       *)
(***************************************************************************)
LEMMA TakeShape ==
  ASSUME PipeShape, NEW d \in Path, Take(d)
  PROVE  \E p \in Packet :
           /\ reader' = [reader EXCEPT ![d] = [@ EXCEPT !.at = "packet", !.packet = p]]
           /\ \/ /\ reader[d].from = 0 /\ source[d] # <<>> /\ p = Head(source[d])
                 /\ source' = [source EXCEPT ![d] = Tail(@)] /\ UNCHANGED taps
                 /\ direct' = [direct EXCEPT ![d] = IF taps[d] # <<>> THEN @ \cup {p} ELSE @]
              \/ /\ reader[d].from \in DOMAIN taps[d] /\ UNCHANGED source
                 /\ taps[d][reader[d].from] # <<>> /\ p = Head(taps[d][reader[d].from])
                 /\ taps' = [taps EXCEPT ![d][reader[d].from] = Tail(@)]
                 /\ UNCHANGED direct
           /\ reader[d].at = "wait"
           /\ UNCHANGED <<kinds, read, field, sessions, answering, handled, written, refused>>
<1> DEFINE t == reader[d].from
<1>1. /\ source[d] \in Seq(Packet) /\ taps[d] \in Seq(Seq(Packet)) /\ t \in Nat
      /\ t <= Len(taps[d]) /\ direct \in [Path -> SUBSET Packet]
  BY DEF PipeShape
<1>2. t # 0 => t \in DOMAIN taps[d] /\ taps[d][t] \in Seq(Packet)
  BY <1>1
<1>3. direct = [direct EXCEPT ![d] = @]
  BY <1>1
<1>4. CASE t = 0
  <2>1. Head(source[d]) \in Packet
    BY <1>1, <1>4, TakeFacts DEF Take
  <2> QED
    BY <1>4, <2>1 DEF Take
<1>5. CASE t # 0
  <2>1. Head(taps[d][t]) \in Packet
    BY <1>2, <1>5, TakeFacts DEF Take
  <2>2. UNCHANGED direct
    BY <1>3, <1>5 DEF Take
  <2> QED
    BY <1>2, <1>5, <2>1, <2>2 DEF Take
<1> QED
  BY <1>4, <1>5

(***************************************************************************)
(* The reader of a path that took a packet holds it.                       *)
(***************************************************************************)
LEMMA HoldShape ==
  ASSUME PipeShape, NEW d \in Path, NEW p \in Packet,
         reader' = [reader EXCEPT ![d] = [@ EXCEPT !.at = "packet", !.packet = p]]
  PROVE  /\ reader' \in [Path -> [at : {"field", "wait", "packet"}, from : Nat,
                                  packet : 0 .. MaxDatagrams]]
         /\ reader'[d].at = "packet" /\ reader'[d].packet = p
         /\ \A e \in Path : e # d => reader'[e] = reader[e]
         /\ \A e \in Path : /\ reader'[e].from <= Len(taps[e])
                            /\ reader'[e].at = "packet" => reader'[e].packet \in Packet
<1> DEFINE r == [reader[d] EXCEPT !.at = "packet", !.packet = p]
<1>1. /\ reader \in [Path -> [at : {"field", "wait", "packet"}, from : Nat,
                              packet : 0 .. MaxDatagrams]]
      /\ \A e \in Path : /\ reader[e].from <= Len(taps[e])
                         /\ reader[e].at = "packet" => reader[e].packet \in Packet
  BY DEF PipeShape
<1>2. p \in 0 .. MaxDatagrams
  BY PipelineAssumption DEF Packet
<1>3. /\ r \in [at : {"field", "wait", "packet"}, from : Nat, packet : 0 .. MaxDatagrams]
      /\ r.at = "packet" /\ r.packet = p /\ r.from = reader[d].from
  BY <1>1, <1>2
<1>4. reader' = [reader EXCEPT ![d] = r]
  OBVIOUS
<1> HIDE DEF r
<1>5. /\ reader' \in [Path -> [at : {"field", "wait", "packet"}, from : Nat,
                               packet : 0 .. MaxDatagrams]]
      /\ reader'[d] = r /\ \A e \in Path : e # d => reader'[e] = reader[e]
  BY <1>1, <1>3, <1>4
<1> QED
  BY <1>1, <1>3, <1>5

(***************************************************************************)
(* The channel of a session gets or gives a packet.                        *)
(***************************************************************************)
LEMMA SessionShape ==
  ASSUME PipeShape, NEW s \in DOMAIN sessions, NEW q \in Seq(Packet),
         sessions' = [sessions EXCEPT ![s] = q]
  PROVE  /\ sessions' \in Seq(Seq(Packet)) /\ Len(sessions') = Len(sessions)
         /\ DOMAIN sessions' = DOMAIN sessions /\ sessions'[s] = q
         /\ \A u \in DOMAIN sessions : u # s => sessions'[u] = sessions[u]
<1>1. sessions \in Seq(Seq(Packet)) /\ DOMAIN sessions = 1 .. Len(sessions)
      /\ s \in 1 .. Len(sessions)
  BY DEF PipeShape
<1> DEFINE r == [sessions EXCEPT ![s] = q]
<1>2. /\ r \in Seq(Seq(Packet)) /\ Len(r) = Len(sessions)
      /\ \A j \in 1 .. Len(sessions) : r[j] = IF j = s THEN q ELSE sessions[j]
  BY <1>1, ExceptSeq
<1>3. DOMAIN r = 1 .. Len(r)
  BY <1>2
<1> HIDE DEF r
<1>4. /\ r[s] = q /\ DOMAIN r = DOMAIN sessions
      /\ \A u \in DOMAIN sessions : u # s => r[u] = sessions[u]
  BY <1>1, <1>2, <1>3
<1> QED
  BY <1>2, <1>4 DEF r

(***************************************************************************)
(* A session that is made has an empty channel.                            *)
(***************************************************************************)
LEMMA SessionMade ==
  ASSUME PipeShape, sessions' = Append(sessions, <<>>)
  PROVE  /\ sessions' \in Seq(Seq(Packet)) /\ Len(sessions') = Len(sessions) + 1
         /\ DOMAIN sessions' = DOMAIN sessions \cup {Len(sessions) + 1}
         /\ \A s \in DOMAIN sessions : sessions'[s] = sessions[s]
         /\ sessions'[Len(sessions) + 1] = <<>>
<1>1. sessions \in Seq(Seq(Packet)) /\ <<>> \in Seq(Packet)
  BY DEF PipeShape
<1> DEFINE r == Append(sessions, <<>>)
<1>2. /\ r \in Seq(Seq(Packet)) /\ Len(r) = Len(sessions) + 1
      /\ DOMAIN r = DOMAIN sessions \cup {Len(sessions) + 1}
      /\ \A s \in DOMAIN sessions : r[s] = sessions[s] /\ s < Len(sessions) + 1
      /\ r[Len(sessions) + 1] = <<>>
  BY <1>1, PutFacts
<1> HIDE DEF r
<1> QED
  BY <1>2 DEF r

(***************************************************************************)
(* Every step of the pipeline keeps what its variables hold, and no        *)
(* channel gets more than its size.                                        *)
(***************************************************************************)
LEMMA PipeShapeStep ==
  ASSUME PipeShape, ChannelsBounded, PipeNext \/ UNCHANGED pipeVars
  PROVE  PipeShape' /\ ChannelsBounded'
<1>1. /\ source \in [Path -> Seq(Packet)] /\ taps \in [Path -> Seq(Seq(Packet))]
      /\ direct \in [Path -> SUBSET Packet] /\ field \in [Path -> Nat]
      /\ sessions \in Seq(Seq(Packet)) /\ handled \in [SessionId -> Seq(Packet)]
      /\ "in" \in Path /\ "out" \in Path /\ ChanSize \in Nat \ {0}
  BY PipelineAssumption DEF PipeShape, Path
<1>2. \A d \in Path, p \in Packet :
        /\ [source EXCEPT ![d] = Append(@, p)] \in [Path -> Seq(Packet)]
        /\ HasRoom(source[d])
             => \A e \in Path : Len([source EXCEPT ![d] = Append(@, p)][e]) <= ChanSize
  <2> SUFFICES ASSUME NEW d \in Path, NEW p \in Packet
               PROVE  LET s == [source EXCEPT ![d] = Append(@, p)]
                      IN  /\ s \in [Path -> Seq(Packet)]
                          /\ HasRoom(source[d]) => \A e \in Path : Len(s[e]) <= ChanSize
    OBVIOUS
  <2> DEFINE q == Append(source[d], p)
             s == [source EXCEPT ![d] = q]
  <2>1. source[d] \in Seq(Packet) /\ Len(source[d]) \in Nat
    BY <1>1
  <2>2. q \in Seq(Packet) /\ Len(q) = Len(source[d]) + 1
    BY <2>1, PutFacts
  <2> HIDE DEF q
  <2>3. s \in [Path -> Seq(Packet)] /\ s[d] = q /\ \A e \in Path : e # d => s[e] = source[e]
    BY <1>1, <2>2
  <2>4. HasRoom(source[d]) => \A e \in Path : Len(s[e]) <= ChanSize
    BY <1>1, <2>1, <2>2, <2>3 DEF HasRoom, ChannelsBounded
  <2> QED
    BY <2>3, <2>4 DEF q
<1>3. \A d \in Path :
        source[d] # <<>>
          => /\ [source EXCEPT ![d] = Tail(@)] \in [Path -> Seq(Packet)]
             /\ \A e \in Path : Len([source EXCEPT ![d] = Tail(@)][e]) <= ChanSize
             /\ Head(source[d]) \in Packet
  <2> SUFFICES ASSUME NEW d \in Path, source[d] # <<>>
               PROVE  LET s == [source EXCEPT ![d] = Tail(@)]
                      IN  /\ s \in [Path -> Seq(Packet)]
                          /\ \A e \in Path : Len(s[e]) <= ChanSize
                          /\ Head(source[d]) \in Packet
    OBVIOUS
  <2> DEFINE q == Tail(source[d])
             s == [source EXCEPT ![d] = q]
  <2>1. source[d] \in Seq(Packet) /\ Len(source[d]) \in Nat
    BY <1>1
  <2>2. q \in Seq(Packet) /\ Len(q) = Len(source[d]) - 1 /\ Head(source[d]) \in Packet
    BY <2>1, TakeFacts
  <2> HIDE DEF q
  <2>3. s \in [Path -> Seq(Packet)] /\ s[d] = q /\ \A e \in Path : e # d => s[e] = source[e]
    BY <1>1, <2>2
  <2>4. \A e \in Path : Len(s[e]) <= ChanSize
    BY <1>1, <2>1, <2>2, <2>3 DEF ChannelsBounded
  <2> QED
    BY <2>2, <2>3, <2>4 DEF q
<1>4. CASE UNCHANGED pipeVars
  BY <1>4 DEF pipeVars, pathVars, PipeShape, ChannelsBounded
<1>5. CASE SocketRecv
  <2>1. read + 1 \in Packet /\ read + 1 \in 0 .. MaxDatagrams
    BY <1>5, PipelineAssumption DEF SocketRecv, PipeShape, Packet
  <2>2. /\ source' \in [Path -> Seq(Packet)] /\ \A e \in Path : Len(source'[e]) <= ChanSize
        /\ read' = read + 1
        /\ UNCHANGED <<kinds, taps, field, reader, direct, sessions, answering, handled,
                       written, refused>>
    BY <1>1, <1>2, <1>5, <2>1 DEF SocketRecv
  <2> QED
    BY <2>1, <2>2 DEF PipeShape, ChannelsBounded
<1>6. ASSUME NEW d \in Path, SetChannelParam(d)
      PROVE  PipeShape' /\ ChannelsBounded'
  <2> DEFINE q == Append(taps[d], <<>>)
  <2>1. taps[d] \in Seq(Seq(Packet)) /\ <<>> \in Seq(Packet) /\ Len(taps[d]) \in Nat
    BY <1>1
  <2>2. q \in Seq(Seq(Packet)) /\ Len(q) = Len(taps[d]) + 1
    BY <2>1, PutFacts
  <2>3. /\ taps' = [taps EXCEPT ![d] = q] /\ field' = [field EXCEPT ![d] = Len(taps[d]) + 1]
        /\ UNCHANGED <<kinds, read, source, reader, direct, sessions, answering, handled,
                       written, refused>>
    BY <1>6 DEF SetChannelParam
  <2> HIDE DEF q
  <2>4. /\ taps' \in [Path -> Seq(Seq(Packet))] /\ field' \in [Path -> Nat]
        /\ \A e \in Path : field'[e] = Len(taps'[e]) /\ reader'[e].from <= Len(taps'[e])
    <3>1. /\ taps' \in [Path -> Seq(Seq(Packet))] /\ taps'[d] = q
          /\ \A e \in Path : e # d => taps'[e] = taps[e] /\ field'[e] = field[e]
          /\ field' \in [Path -> Nat] /\ field'[d] = Len(taps[d]) + 1
      BY <1>1, <2>1, <2>2, <2>3
    <3>2. \A e \in Path : /\ field[e] = Len(taps[e]) /\ reader[e].from <= Len(taps[e])
                          /\ reader[e].from \in Nat /\ reader'[e] = reader[e]
      BY <2>3 DEF PipeShape
    <3>3. ASSUME NEW e \in Path
          PROVE  field'[e] = Len(taps'[e]) /\ reader'[e].from <= Len(taps'[e])
      <4>1. CASE e = d
        BY <2>1, <2>2, <3>1, <3>2, <4>1, SMTT(30)
      <4>2. CASE e # d
        BY <3>1, <3>2, <4>2
      <4> QED
        BY <4>1, <4>2
    <3> QED
      BY <3>1, <3>3
  <2> QED
    BY <2>3, <2>4 DEF PipeShape, ChannelsBounded
<1>7. ASSUME NEW d \in Path, TapTakes(d)
      PROVE  PipeShape' /\ ChannelsBounded'
  <2>1. PICK t \in DOMAIN taps[d] :
          taps' = [taps EXCEPT ![d][t] = Append(@, Head(source[d]))]
    BY <1>7 DEF TapTakes
  <2>2. /\ source' \in [Path -> Seq(Packet)] /\ \A e \in Path : Len(source'[e]) <= ChanSize
        /\ Head(source[d]) \in Packet
        /\ UNCHANGED <<kinds, read, field, reader, direct, sessions, answering, handled,
                       written, refused>>
    BY <1>3, <1>7 DEF TapTakes
  <2> DEFINE q == Append(taps[d][t], Head(source[d]))
  <2>3. taps[d][t] \in Seq(Packet)
    BY <1>1
  <2>4. q \in Seq(Packet) /\ taps' = [taps EXCEPT ![d][t] = q]
    BY <2>1, <2>2, <2>3, PutFacts
  <2> HIDE DEF q
  <2>5. taps' \in [Path -> Seq(Seq(Packet))] /\ \A e \in Path : Len(taps'[e]) = Len(taps[e])
    BY <2>4, TapShape
  <2> QED
    BY <2>2, <2>5 DEF PipeShape, ChannelsBounded
<1>8. ASSUME NEW d \in Path, Look(d)
      PROVE  PipeShape' /\ ChannelsBounded'
  <2>1. /\ reader' = [reader EXCEPT ![d] = [at |-> "wait", from |-> field[d], packet |-> 0]]
        /\ UNCHANGED <<kinds, read, source, taps, field, direct, sessions, answering,
                       handled, written, refused>>
    BY <1>8 DEF Look, FieldNow
  <2>2. [at |-> "wait", from |-> field[d], packet |-> 0]
          \in [at : {"field", "wait", "packet"}, from : Nat, packet : 0 .. MaxDatagrams]
    BY <1>1, PipelineAssumption
  <2>3. \A e \in Path : field[e] = Len(taps[e]) /\ Len(taps[e]) \in Nat
    BY <1>1 DEF PipeShape
  <2>4. /\ reader' \in [Path -> [at : {"field", "wait", "packet"}, from : Nat,
                                 packet : 0 .. MaxDatagrams]]
        /\ \A e \in Path : /\ reader'[e].from <= Len(taps[e])
                           /\ reader'[e].at = "packet" => reader'[e].packet \in Packet
    BY <2>1, <2>2, <2>3 DEF PipeShape
  <2> QED
    BY <2>1, <2>4 DEF PipeShape, ChannelsBounded
<1>9. ASSUME NEW d \in Path, Take(d)
      PROVE  PipeShape' /\ ChannelsBounded'
  <2>1. PICK p \in Packet :
          /\ reader' = [reader EXCEPT ![d] = [@ EXCEPT !.at = "packet", !.packet = p]]
          /\ \/ /\ reader[d].from = 0 /\ source[d] # <<>> /\ p = Head(source[d])
                /\ source' = [source EXCEPT ![d] = Tail(@)] /\ UNCHANGED taps
                /\ direct' = [direct EXCEPT ![d] = IF taps[d] # <<>> THEN @ \cup {p} ELSE @]
             \/ /\ reader[d].from \in DOMAIN taps[d] /\ UNCHANGED source
                /\ taps[d][reader[d].from] # <<>> /\ p = Head(taps[d][reader[d].from])
                /\ taps' = [taps EXCEPT ![d][reader[d].from] = Tail(@)]
                /\ UNCHANGED direct
          /\ reader[d].at = "wait"
          /\ UNCHANGED <<kinds, read, field, sessions, answering, handled, written, refused>>
    BY <1>9, TakeShape
  <2>2. /\ reader' \in [Path -> [at : {"field", "wait", "packet"}, from : Nat,
                                 packet : 0 .. MaxDatagrams]]
        /\ \A e \in Path : /\ reader'[e].from <= Len(taps[e])
                           /\ reader'[e].at = "packet" => reader'[e].packet \in Packet
    BY <2>1, HoldShape
  <2>3. direct' \in [Path -> SUBSET Packet]
    <3>1. direct[d] \cup {p} \in SUBSET Packet /\ direct[d] \in SUBSET Packet
      BY <1>1
    <3>2. \E r \in SUBSET Packet : direct' = [direct EXCEPT ![d] = r]
      <4>1. direct = [direct EXCEPT ![d] = direct[d]]
        BY <1>1
      <4> QED
        BY <2>1, <3>1, <4>1, Zenon
    <3> QED
      BY <1>1, <3>2
  <2>4. source' \in [Path -> Seq(Packet)] /\ \A e \in Path : Len(source'[e]) <= ChanSize
    BY <1>1, <1>3, <2>1 DEF ChannelsBounded
  <2>5. taps' \in [Path -> Seq(Seq(Packet))] /\ \A e \in Path : Len(taps'[e]) = Len(taps[e])
    <3>1. CASE UNCHANGED taps
      BY <1>1, <3>1
    <3>2. CASE /\ reader[d].from \in DOMAIN taps[d] /\ taps[d][reader[d].from] # <<>>
               /\ taps' = [taps EXCEPT ![d][reader[d].from] = Tail(@)]
      <4>1. taps[d][reader[d].from] \in Seq(Packet)
        BY <1>1, <3>2
      <4> DEFINE q == Tail(taps[d][reader[d].from])
      <4>2. q \in Seq(Packet) /\ taps' = [taps EXCEPT ![d][reader[d].from] = q]
        BY <3>2, <4>1, TakeFacts
      <4> HIDE DEF q
      <4> QED
        BY <3>2, <4>2, TapShape
    <3> QED
      BY <2>1, <3>1, <3>2
  <2> QED
    BY <2>1, <2>2, <2>3, <2>4, <2>5 DEF PipeShape, ChannelsBounded
<1>10. ASSUME NEW d \in Path, Done(d), reader[d].at = "packet"
       PROVE  /\ reader' \in [Path -> [at : {"field", "wait", "packet"}, from : Nat,
                                       packet : 0 .. MaxDatagrams]]
              /\ \A e \in Path : /\ reader'[e].from <= Len(taps[e])
                                 /\ reader'[e].at = "packet" => reader'[e].packet \in Packet
              /\ reader[d].packet \in Packet
  BY <1>10, DoneShape DEF PipeShape
<1>11. CASE HandleHello
  <2>1. /\ Done("in") /\ reader["in"].at = "packet"
        /\ answering' = answering \cup {reader["in"].packet}
        /\ UNCHANGED <<kinds, read, source, taps, field, direct, sessions, handled,
                       written, refused>>
    BY <1>11 DEF HandleHello
  <2> QED
    BY <1>1, <1>10, <2>1 DEF PipeShape, ChannelsBounded
<1>12. CASE SendAnswer
  <2>1. PICK p \in answering :
          /\ HasRoom(source["out"]) /\ answering' = answering \ {p}
          /\ source' = [source EXCEPT !["out"] = Append(@, p)]
          /\ UNCHANGED <<kinds, read, taps, field, reader, direct, sessions, handled, written,
                         refused>>
    BY <1>12 DEF SendAnswer
  <2>2. p \in Packet
    BY DEF PipeShape
  <2>3. source' \in [Path -> Seq(Packet)] /\ \A e \in Path : Len(source'[e]) <= ChanSize
    BY <1>1, <1>2, <2>1, <2>2
  <2> QED
    BY <2>1, <2>3 DEF PipeShape, ChannelsBounded
<1>13. CASE HandleKeying
  <2>1. /\ Done("in") /\ reader["in"].at = "packet"
        /\ \/ /\ HasRoom(source["out"])
              /\ source' = [source EXCEPT !["out"] = Append(@, reader["in"].packet)]
              /\ UNCHANGED refused
           \/ /\ refused' = refused \cup {reader["in"].packet} /\ UNCHANGED source
        /\ sessions' = Append(sessions, <<>>)
        /\ UNCHANGED <<kinds, read, taps, field, direct, answering, handled, written>>
    BY <1>13 DEF HandleKeying
  <2>2. reader["in"].packet \in Packet
    BY <1>1, <1>10, <2>1
  <2>3. /\ source' \in [Path -> Seq(Packet)] /\ \A e \in Path : Len(source'[e]) <= ChanSize
        /\ refused' \subseteq Packet
    <3>1. CASE /\ HasRoom(source["out"]) /\ UNCHANGED refused
               /\ source' = [source EXCEPT !["out"] = Append(@, reader["in"].packet)]
      <4>1. refused' \subseteq Packet
        BY <3>1 DEF PipeShape
      <4> QED
        BY <1>1, <1>2, <2>2, <3>1, <4>1
    <3>2. CASE refused' = refused \cup {reader["in"].packet} /\ UNCHANGED source
      BY <1>1, <2>2, <3>2 DEF PipeShape, ChannelsBounded
    <3> QED
      BY <2>1, <3>1, <3>2
  <2>4. /\ sessions' \in Seq(Seq(Packet))
        /\ \A s \in DOMAIN sessions' : Len(sessions'[s]) <= ChanSize
    <3>1. Len(<<>>) = 0
      OBVIOUS
    <3>2. /\ sessions' \in Seq(Seq(Packet))
          /\ DOMAIN sessions' = DOMAIN sessions \cup {Len(sessions) + 1}
          /\ \A s \in DOMAIN sessions : sessions'[s] = sessions[s]
          /\ sessions'[Len(sessions) + 1] = <<>>
      BY <2>1, SessionMade
    <3> QED
      BY <1>1, <3>1, <3>2 DEF ChannelsBounded
  <2> QED
    BY <1>1, <1>10, <2>1, <2>3, <2>4 DEF PipeShape, ChannelsBounded
<1>14. CASE DispatchToSession
  <2> DEFINE p == reader["in"].packet
             s == kinds[p].session
  <2>1. /\ Done("in") /\ reader["in"].at = "packet"
        /\ \/ /\ s \in DOMAIN sessions /\ HasRoom(sessions[s])
              /\ sessions' = [sessions EXCEPT ![s] = Append(@, p)] /\ UNCHANGED refused
           \/ refused' = refused \cup {p} /\ UNCHANGED sessions
        /\ UNCHANGED <<kinds, read, source, taps, field, direct, answering, handled, written>>
    BY <1>14 DEF DispatchToSession
  <2>2. p \in Packet
    BY <1>1, <1>10, <2>1
  <2> HIDE DEF p, s
  <2>3. /\ sessions' \in Seq(Seq(Packet))
        /\ \A u \in DOMAIN sessions' : Len(sessions'[u]) <= ChanSize
    <3>1. CASE UNCHANGED sessions
      BY <1>1, <3>1 DEF ChannelsBounded
    <3>2. CASE /\ s \in DOMAIN sessions /\ HasRoom(sessions[s])
               /\ sessions' = [sessions EXCEPT ![s] = Append(@, p)]
      <4> DEFINE q == Append(sessions[s], p)
      <4>1. s \in 1 .. Len(sessions) /\ sessions[s] \in Seq(Packet) /\ Len(sessions[s]) \in Nat
        BY <1>1, <3>2
      <4>2. q \in Seq(Packet) /\ Len(q) = Len(sessions[s]) + 1
        BY <2>2, <4>1, PutFacts
      <4>3. sessions' = [sessions EXCEPT ![s] = q]
        BY <3>2
      <4> HIDE DEF q
      <4>4. /\ sessions' \in Seq(Seq(Packet)) /\ DOMAIN sessions' = DOMAIN sessions
            /\ sessions'[s] = q
            /\ \A u \in DOMAIN sessions : u # s => sessions'[u] = sessions[u]
        BY <3>2, <4>2, <4>3, SessionShape
      <4>5. Len(q) <= ChanSize
        BY <1>1, <3>2, <4>1, <4>2 DEF HasRoom
      <4> QED
        BY <4>4, <4>5 DEF ChannelsBounded
    <3> QED
      BY <2>1, <3>1, <3>2
  <2>4. refused' \subseteq Packet
    BY <2>1, <2>2 DEF PipeShape
  <2> QED
    BY <1>1, <1>10, <2>1, <2>3, <2>4 DEF PipeShape, ChannelsBounded
<1>15. ASSUME NEW s \in SessionId, SessionDispatch(s)
       PROVE  PipeShape' /\ ChannelsBounded'
  <2> DEFINE q == sessions[s]
             p == Head(sessions[s])
  <2>1. /\ s \in DOMAIN sessions /\ q # <<>> /\ HasRoom(source["out"])
        /\ sessions' = [sessions EXCEPT ![s] = Tail(q)]
        /\ handled' = [handled EXCEPT ![s] = Append(@, p)]
        /\ source' = [source EXCEPT !["out"] = Append(@, p)]
        /\ UNCHANGED <<kinds, read, taps, field, reader, direct, answering, written, refused>>
    BY <1>15 DEF SessionDispatch, MayAnswer
  <2>2. s \in 1 .. Len(sessions) /\ q \in Seq(Packet) /\ Len(q) \in Nat
    BY <1>1, <2>1, SMTT(30)
  <2>3. p \in Packet /\ Tail(q) \in Seq(Packet) /\ Len(Tail(q)) = Len(q) - 1
    BY <2>1, <2>2, TakeFacts
  <2>4. source' \in [Path -> Seq(Packet)] /\ \A e \in Path : Len(source'[e]) <= ChanSize
    BY <1>1, <1>2, <2>1, <2>3
  <2>5. handled' \in [SessionId -> Seq(Packet)]
    <3>1. Append(handled[s], p) \in Seq(Packet)
      BY <1>1, <2>3, PutFacts
    <3> QED
      BY <1>1, <2>1, <3>1
  <2>6. /\ sessions' \in Seq(Seq(Packet))
        /\ \A u \in DOMAIN sessions' : Len(sessions'[u]) <= ChanSize
    <3> DEFINE r == Tail(q)
    <3>1. r \in Seq(Packet) /\ Len(r) = Len(q) - 1 /\ sessions' = [sessions EXCEPT ![s] = r]
      BY <2>1, <2>3
    <3>2. Len(q) <= ChanSize
      BY <2>1 DEF ChannelsBounded
    <3> HIDE DEF r, q
    <3>3. /\ sessions' \in Seq(Seq(Packet)) /\ DOMAIN sessions' = DOMAIN sessions
          /\ sessions'[s] = r
          /\ \A u \in DOMAIN sessions : u # s => sessions'[u] = sessions[u]
      BY <2>1, <3>1, SessionShape
    <3>4. Len(r) <= ChanSize
      BY <1>1, <2>2, <3>1, <3>2
    <3> QED
      BY <3>3, <3>4 DEF ChannelsBounded
  <2> QED
    BY <2>1, <2>4, <2>5, <2>6 DEF PipeShape, ChannelsBounded
<1>16. CASE SocketSend
  <2>1. /\ Done("out") /\ reader["out"].at = "packet"
        /\ written' = written \cup {reader["out"].packet}
        /\ UNCHANGED <<kinds, read, source, taps, field, direct, sessions, answering, handled,
                       refused>>
    BY <1>16 DEF SocketSend
  <2> QED
    BY <1>1, <1>10, <2>1 DEF PipeShape, ChannelsBounded
<1> QED
  BY <1>1, <1>4, <1>5, <1>6, <1>7, <1>8, <1>9, <1>11, <1>12, <1>13, <1>14, <1>15, <1>16
  DEF PipeNext, HandshakeDispatch, SocketDispatch

-----------------------------------------------------------------------------
(***************************************************************************)
(* What a step does to the packets on their way to the sessions.  recv()   *)
(* of the socket puts one in the channel; a tap is put in; a tap takes     *)
(* one; the dispatcher takes one, from the channel or from a tap; it       *)
(* handles the one it has; a session handles one; or nothing happens.      *)
(***************************************************************************)
QuietSessions == UNCHANGED <<sessions, handled>>

Arrives ==
  /\ read < MaxDatagrams /\ read' = read + 1
  /\ source'["in"] = Append(source["in"], read + 1)
  /\ UNCHANGED <<taps["in"], reader["in"], direct["in"]>> /\ QuietSessions

TapPutIn ==
  /\ Len(taps["in"]) < MaxTaps /\ taps'["in"] = Append(taps["in"], <<>>)
  /\ UNCHANGED <<read, source["in"], reader["in"], direct["in"]>> /\ QuietSessions

TakenByTap(t) ==
  /\ t \in DOMAIN taps["in"] /\ source["in"] # <<>>
  /\ taps' = [taps EXCEPT !["in"][t] = Append(@, Head(source["in"]))]
  /\ source'["in"] = Tail(source["in"])
  /\ UNCHANGED <<read, reader["in"], direct["in"]>> /\ QuietSessions

TakenDirectly ==
  /\ source["in"] # <<>> /\ source'["in"] = Tail(source["in"])
  /\ InReader("in") = {} /\ InReader("in")' = {Head(source["in"])}
  /\ taps["in"] # <<>> => direct'["in"] = direct["in"] \cup {Head(source["in"])}
  /\ taps["in"] = <<>> => direct'["in"] = direct["in"]
  /\ UNCHANGED <<read, taps["in"]>> /\ QuietSessions

TakenFromTap(t) ==
  /\ t \in DOMAIN taps["in"] /\ taps["in"][t] # <<>>
  /\ taps' = [taps EXCEPT !["in"][t] = Tail(@)]
  /\ InReader("in") = {} /\ InReader("in")' = {Head(taps["in"][t])}
  /\ UNCHANGED <<read, source["in"], direct["in"]>> /\ QuietSessions

Still == UNCHANGED <<read, source["in"], taps["in"], direct["in"]>>

Keyed ==
  /\ Still /\ InReader("in") # {} /\ InReader("in")' = {}
  /\ sessions' = Append(sessions, <<>>) /\ UNCHANGED handled

PassedOn(s) ==
  /\ Still /\ InReader("in") = {reader["in"].packet} /\ InReader("in")' = {}
  /\ s \in DOMAIN sessions /\ reader["in"].packet \in Packet
  /\ sessions' = [sessions EXCEPT ![s] = Append(@, reader["in"].packet)]
  /\ UNCHANGED handled

HandledBy(s) ==
  /\ Still /\ UNCHANGED reader["in"]
  /\ s \in SessionId \cap DOMAIN sessions /\ sessions[s] # <<>>
  /\ sessions' = [sessions EXCEPT ![s] = Tail(sessions[s])]
  /\ handled' = [handled EXCEPT ![s] = Append(@, Head(sessions[s]))]

DroppedOrNone == Still /\ InReader("in")' \subseteq InReader("in") /\ QuietSessions

InMove ==
  \/ Arrives \/ TapPutIn \/ TakenDirectly \/ Keyed \/ DroppedOrNone
  \/ \E t \in DOMAIN taps["in"] : TakenByTap(t) \/ TakenFromTap(t)
  \/ \E s \in DOMAIN sessions : PassedOn(s) \/ HandledBy(s)

(***************************************************************************)
(* Every step of the pipeline is one of these.                             *)
(***************************************************************************)
LEMMA InMoves ==
  ASSUME PipeShape, PipeNext \/ UNCHANGED pipeVars
  PROVE  InMove
<1>1. /\ DOMAIN source = Path /\ DOMAIN taps = Path /\ DOMAIN reader = Path
      /\ DOMAIN direct = Path /\ "in" \in Path /\ "out" \in Path /\ "in" # "out"
      /\ Path = {"in", "out"}
  BY DEF PipeShape, Path
<1>2. CASE UNCHANGED pipeVars
  BY <1>2 DEF pipeVars, pathVars, InMove, DroppedOrNone, Still, QuietSessions, InReader
<1>3. CASE SocketRecv
  BY <1>1, <1>3 DEF SocketRecv, InMove, Arrives, QuietSessions
<1>4. ASSUME NEW d \in Path, SetChannelParam(d)
      PROVE  InMove
  <2>1. CASE d = "in"
    BY <1>1, <1>4, <2>1 DEF SetChannelParam, InMove, TapPutIn, QuietSessions
  <2>2. CASE d # "in"
    BY <1>1, <1>4, <2>2 DEF SetChannelParam, InMove, DroppedOrNone, Still, QuietSessions, InReader
  <2> QED
    BY <2>1, <2>2
<1>5. ASSUME NEW d \in Path, TapTakes(d)
      PROVE  InMove
  <2>1. CASE d = "in"
    BY <1>1, <1>5, <2>1 DEF TapTakes, InMove, TakenByTap, QuietSessions
  <2>2. CASE d # "in"
    BY <1>1, <1>5, <2>2 DEF TapTakes, InMove, DroppedOrNone, Still, QuietSessions, InReader
  <2> QED
    BY <2>1, <2>2
<1>6. ASSUME NEW d \in Path, Look(d)
      PROVE  InMove
  <2>1. InReader("in")' \subseteq InReader("in")
    BY <1>1, <1>6 DEF Look, InReader
  <2> QED
    BY <1>6, <2>1 DEF Look, InMove, DroppedOrNone, Still, QuietSessions
<1>7. ASSUME NEW d \in Path, Take(d)
      PROVE  InMove
  <2>1. PICK p \in Packet :
          /\ reader' = [reader EXCEPT ![d] = [@ EXCEPT !.at = "packet", !.packet = p]]
          /\ \/ /\ reader[d].from = 0 /\ source[d] # <<>> /\ p = Head(source[d])
                /\ source' = [source EXCEPT ![d] = Tail(@)] /\ UNCHANGED taps
                /\ direct' = [direct EXCEPT ![d] = IF taps[d] # <<>> THEN @ \cup {p} ELSE @]
             \/ /\ reader[d].from \in DOMAIN taps[d] /\ UNCHANGED source
                /\ taps[d][reader[d].from] # <<>> /\ p = Head(taps[d][reader[d].from])
                /\ taps' = [taps EXCEPT ![d][reader[d].from] = Tail(@)]
                /\ UNCHANGED direct
          /\ reader[d].at = "wait"
          /\ UNCHANGED <<kinds, read, field, sessions, answering, handled, written, refused>>
    BY <1>7, TakeShape
  <2>2. CASE d = "in"
    <3>1. reader'["in"].at = "packet" /\ reader'["in"].packet = p
      BY <1>1, <2>1, <2>2, HoldShape
    <3>2. InReader("in") = {} /\ InReader("in")' = {p}
      BY <2>1, <2>2, <3>1 DEF InReader
    <3>3. CASE /\ source["in"] # <<>> /\ p = Head(source["in"])
               /\ source' = [source EXCEPT !["in"] = Tail(@)] /\ UNCHANGED taps
               /\ direct' = [direct EXCEPT !["in"] = IF taps["in"] # <<>> THEN @ \cup {p} ELSE @]
      BY <1>1, <2>1, <3>2, <3>3 DEF InMove, TakenDirectly, QuietSessions
    <3>4. CASE /\ reader["in"].from \in DOMAIN taps["in"] /\ UNCHANGED source
               /\ taps["in"][reader["in"].from] # <<>>
               /\ p = Head(taps["in"][reader["in"].from])
               /\ taps' = [taps EXCEPT !["in"][reader["in"].from] = Tail(@)]
               /\ UNCHANGED direct
      BY <1>1, <2>1, <3>2, <3>4 DEF InMove, TakenFromTap, QuietSessions
    <3> QED
      BY <2>1, <2>2, <3>3, <3>4
  <2>3. CASE d # "in"
    <3>1. reader'["in"] = reader["in"] /\ source'["in"] = source["in"]
          /\ taps'["in"] = taps["in"] /\ direct'["in"] = direct["in"]
      BY <1>1, <2>1, <2>3
    <3> QED
      BY <2>1, <3>1 DEF InMove, DroppedOrNone, Still, QuietSessions, InReader
  <2> QED
    BY <2>2, <2>3
<1>8. CASE HandleHello
  <2>1. InReader("in")' = {}
    BY <1>1, <1>8, DoneShape DEF HandleHello, InReader
  <2> QED
    BY <1>8, <2>1 DEF HandleHello, InMove, DroppedOrNone, Still, QuietSessions
<1>9. CASE SendAnswer
  BY <1>1, <1>9 DEF SendAnswer, InMove, DroppedOrNone, Still, QuietSessions, InReader
<1>10. CASE HandleKeying
  <2>1. InReader("in")' = {} /\ InReader("in") # {}
    BY <1>1, <1>10, DoneShape DEF HandleKeying, InReader
  <2>2. source'["in"] = source["in"]
    BY <1>1, <1>10 DEF HandleKeying
  <2> QED
    BY <1>10, <2>1, <2>2 DEF HandleKeying, InMove, Keyed, Still
<1>11. CASE DispatchToSession
  <2>1. /\ Done("in") /\ reader["in"].at = "packet"
        /\ UNCHANGED <<read, source, taps, direct, handled>>
    BY <1>11 DEF DispatchToSession
  <2>2. InReader("in")' = {} /\ InReader("in") = {reader["in"].packet}
        /\ reader["in"].packet \in Packet
    BY <1>1, <2>1, DoneShape DEF InReader, PipeShape
  <2>3. CASE UNCHANGED sessions
    BY <2>1, <2>2, <2>3 DEF InMove, DroppedOrNone, Still, QuietSessions
  <2>4. CASE ~ UNCHANGED sessions
    <3> DEFINE s == kinds[reader["in"].packet].session
    <3>1. s \in DOMAIN sessions
          /\ sessions' = [sessions EXCEPT ![s] = Append(@, reader["in"].packet)]
      BY <1>11, <2>4 DEF DispatchToSession
    <3> HIDE DEF s
    <3> QED
      BY <2>1, <2>2, <3>1 DEF InMove, PassedOn, Still
  <2> QED
    BY <2>3, <2>4
<1>12. ASSUME NEW s \in SessionId, SessionDispatch(s)
       PROVE  InMove
  <2>1. source'["in"] = source["in"]
    BY <1>1, <1>12 DEF SessionDispatch
  <2> QED
    BY <1>12, <2>1 DEF SessionDispatch, InMove, HandledBy, Still
<1>13. CASE SocketSend
  <2>1. reader'["in"] = reader["in"]
    BY <1>1, <1>13 DEF SocketSend, Done
  <2> QED
    BY <1>13, <2>1 DEF SocketSend, InMove, DroppedOrNone, Still, QuietSessions, InReader
<1> QED
  BY <1>1, <1>2, <1>3, <1>4, <1>5, <1>6, <1>7, <1>8, <1>9, <1>10, <1>11, <1>12, <1>13
  DEF PipeNext, HandshakeDispatch, SocketDispatch

-----------------------------------------------------------------------------
(***************************************************************************)
(* What the taps hold when one more is put in,                             *)
(***************************************************************************)
LEMMA PutInFacts ==
  ASSUME PipeShape, TapPutIn
  PROVE  /\ DOMAIN taps'["in"] = DOMAIN taps["in"] \cup {Len(taps["in"]) + 1}
         /\ \A u \in DOMAIN taps["in"] : taps'["in"][u] = taps["in"][u]
         /\ Range(taps'["in"][Len(taps["in"]) + 1]) = {}
         /\ Ascending(taps'["in"][Len(taps["in"]) + 1])
         /\ InTaps("in")' = InTaps("in")
<1> DEFINE q == taps["in"]
           r == taps'["in"]
           n == Len(taps["in"]) + 1
<1>1. q \in Seq(Seq(Packet)) /\ <<>> \in Seq(Packet) /\ r = Append(q, <<>>)
  BY DEF PipeShape, Path, TapPutIn
<1>2. /\ DOMAIN r = DOMAIN q \cup {n} /\ \A u \in DOMAIN q : r[u] = q[u]
      /\ r[n] = <<>>
  BY <1>1, PutFacts
<1>3. Range(r[n]) = {} /\ Ascending(r[n])
  BY <1>2 DEF Range, Ascending
<1>4. InTaps("in") = UNION {Range(q[u]) : u \in DOMAIN q}
      /\ InTaps("in")' = UNION {Range(r[u]) : u \in DOMAIN r}
  BY DEF InTaps
<1> HIDE DEF q, r, n
<1>5. InTaps("in")' = InTaps("in")
  BY <1>2, <1>3, <1>4
<1> QED
  BY <1>2, <1>3, <1>5 DEF q, r, n

(***************************************************************************)
(* when a tap takes a packet,                                              *)
(***************************************************************************)
LEMMA TakenByTapFacts ==
  ASSUME PipeShape, OnePlace, NEW t \in DOMAIN taps["in"], TakenByTap(t)
  PROVE  LET x == Head(source["in"])
         IN  /\ x \in Packet /\ DOMAIN taps'["in"] = DOMAIN taps["in"]
             /\ \A u \in DOMAIN taps["in"] : u # t => taps'["in"][u] = taps["in"][u]
             /\ Range(taps'["in"][t]) = Range(taps["in"][t]) \cup {x}
             /\ Ascending(taps'["in"][t])
             /\ InTaps("in")' = InTaps("in") \cup {x}
             /\ Range(source["in"]) = {x} \cup Range(source'["in"])
             /\ Ascending(source'["in"])
             /\ \A y \in Range(source'["in"]) : x < y
<1> DEFINE S == source["in"]
           x == Head(S)
           q == Append(taps["in"][t], x)
<1>1. S \in Seq(Packet) /\ taps["in"][t] \in Seq(Packet) /\ "in" \in Path
      /\ S # <<>> /\ source'["in"] = Tail(S)
  BY DEF PipeShape, Path, TakenByTap
<1>2. x \in Packet /\ Range(S) = {x} \cup Range(Tail(S))
  BY <1>1, TakeFacts
<1>3. Ascending(Tail(S)) /\ \A y \in Range(Tail(S)) : x < y
  BY <1>1, AscendingTake DEF OnePlace
<1>4. q \in Seq(Packet) /\ Range(q) = Range(taps["in"][t]) \cup {x}
  BY <1>1, <1>2, PutFacts
<1>5. Ascending(q)
  BY <1>1, <1>2, AscendingPut DEF OnePlace
<1>6. taps' = [taps EXCEPT !["in"][t] = q]
  BY DEF TakenByTap
<1> HIDE DEF q, x, S
<1>7. /\ DOMAIN taps'["in"] = DOMAIN taps["in"] /\ taps'["in"][t] = q
      /\ \A u \in DOMAIN taps["in"] : u # t => taps'["in"][u] = taps["in"][u]
  BY <1>1, <1>4, <1>6, TapShape
<1>8. InTaps("in")' = InTaps("in") \cup {x}
  <2>1. InTaps("in") = UNION {Range(taps["in"][u]) : u \in DOMAIN taps["in"]}
        /\ InTaps("in")' = UNION {Range(taps'["in"][u]) : u \in DOMAIN taps'["in"]}
    BY DEF InTaps
  <2> QED
    BY <1>4, <1>7, <2>1
<1> QED
  BY <1>1, <1>2, <1>3, <1>4, <1>5, <1>7, <1>8 DEF x, S

(***************************************************************************)
(* and when the dispatcher takes a packet from a tap.                      *)
(***************************************************************************)
LEMMA TakenFromTapFacts ==
  ASSUME PipeShape, OnePlace, NEW t \in DOMAIN taps["in"], TakenFromTap(t)
  PROVE  LET x == Head(taps["in"][t])
         IN  /\ x \in Packet /\ DOMAIN taps'["in"] = DOMAIN taps["in"]
             /\ \A u \in DOMAIN taps["in"] : u # t => taps'["in"][u] = taps["in"][u]
             /\ Range(taps["in"][t]) = Range(taps'["in"][t]) \cup {x}
             /\ Ascending(taps'["in"][t])
             /\ \A y \in Range(taps'["in"][t]) : x < y
             /\ InTaps("in") = InTaps("in")' \cup {x} /\ x \notin InTaps("in")'
<1> DEFINE q == taps["in"][t]
           x == Head(q)
           r == Tail(q)
<1>1. q \in Seq(Packet) /\ "in" \in Path /\ q # <<>> /\ Ascending(q)
  BY DEF PipeShape, Path, TakenFromTap, OnePlace
<1>2. x \in Packet /\ r \in Seq(Packet) /\ Range(q) = {x} \cup Range(r)
  BY <1>1, TakeFacts
<1>3. Ascending(r) /\ \A y \in Range(r) : x < y
  BY <1>1, AscendingTake
<1>4. taps' = [taps EXCEPT !["in"][t] = r]
  BY DEF TakenFromTap
<1> HIDE DEF r, x
<1>5. /\ DOMAIN taps'["in"] = DOMAIN taps["in"] /\ taps'["in"][t] = r
      /\ \A u \in DOMAIN taps["in"] : u # t => taps'["in"][u] = taps["in"][u]
  BY <1>1, <1>2, <1>4, TapShape
<1>6. InTaps("in") = UNION {Range(taps["in"][u]) : u \in DOMAIN taps["in"]}
      /\ InTaps("in")' = UNION {Range(taps'["in"][u]) : u \in DOMAIN taps'["in"]}
  BY DEF InTaps
<1>7. x \notin Range(r)
  BY <1>2, <1>3 DEF Packet
<1>8. \A u \in DOMAIN taps["in"] : u # t => x \notin Range(taps["in"][u])
  BY <1>2 DEF OnePlace
<1>9. InTaps("in") = InTaps("in")' \cup {x} /\ x \notin InTaps("in")'
  BY <1>2, <1>5, <1>6, <1>7, <1>8
<1> QED
  BY <1>2, <1>3, <1>5, <1>9 DEF x

(***************************************************************************)
(* The packets on their way to the sessions stay those that were read, and *)
(* each in one place.                                                      *)
(***************************************************************************)
LEMMA OnePlaceStep ==
  ASSUME PipeShape, OnePlace, InMove
  PROVE  OnePlace'
<1> DEFINE S == source["in"]
           T == taps["in"]
<1>1. /\ S \in Seq(Packet) /\ read \in Nat /\ "in" \in Path /\ read + 1 > read
      /\ \A t \in DOMAIN T : T[t] \in Seq(Packet) /\ t # Len(T) + 1
  BY PipelineAssumption, SMTT(30) DEF PipeShape, Path
<1>2. /\ Range(S) \subseteq 1 .. read /\ InTaps("in") \subseteq 1 .. read
      /\ InReader("in") \subseteq 1 .. read
      /\ Ascending(S)
      /\ \A t \in DOMAIN T :
           /\ Ascending(T[t])
           /\ \A p \in Range(T[t]), q \in Range(S) : p < q
           /\ \A u \in DOMAIN T : t # u => Range(T[t]) \cap Range(T[u]) = {}
      /\ InReader("in") \cap (Range(S) \cup InTaps("in")) = {}
  BY DEF OnePlace, Pending
<1>3. /\ Pending' = Range(S)' \cup InTaps("in")' \cup InReader("in")'
      /\ InTaps("in") = UNION {Range(T[t]) : t \in DOMAIN T}
      /\ \A t \in DOMAIN T : Range(T[t]) \subseteq InTaps("in")
  BY DEF Pending, InTaps
<1>4. CASE Arrives
  <2>1. read + 1 \in Packet
    BY <1>1, <1>4, PipelineAssumption DEF Arrives, PipeShape, Packet
  <2>2. \A x \in 1 .. read : x < read + 1 /\ x \in 1 .. read + 1
    BY <1>1
  <2>3. /\ Range(S)' = Range(S) \cup {read + 1} /\ Ascending(S)'
    <3>1. S' = Append(S, read + 1)
      BY <1>4 DEF Arrives
    <3>2. Range(Append(S, read + 1)) = Range(S) \cup {read + 1}
      BY <1>1, <2>1, PutFacts
    <3>3. Ascending(Append(S, read + 1))
      BY <1>1, <1>2, <2>1, <2>2, AscendingPut
    <3> QED
      BY <3>1, <3>2, <3>3 DEF Ascending
  <2>4. /\ T' = T /\ InReader("in")' = InReader("in") /\ read' = read + 1
        /\ InTaps("in")' = InTaps("in")
    BY <1>4 DEF Arrives, InReader, InTaps
  <2>5. read + 1 \in 1 .. read + 1 /\ read + 1 \notin 1 .. read
    BY <1>1
  <2>6. Pending' \subseteq 1 .. read'
    BY <1>2, <1>3, <2>2, <2>3, <2>4, <2>5
  <2>7. \A t \in DOMAIN T : \A p \in Range(T[t]) : p < read + 1
    BY <1>2, <1>3, <2>2
  <2>8. \A t \in DOMAIN T : \A p \in Range(T[t]), q \in Range(S)' : p < q
    BY <1>2, <2>3, <2>7
  <2>9. InReader("in") \cap (Range(S)' \cup InTaps("in")) = {}
    BY <1>2, <2>3, <2>5
  <2> QED
    BY <1>2, <2>3, <2>4, <2>6, <2>8, <2>9 DEF OnePlace
<1>5. CASE TapPutIn
  <2>1. /\ DOMAIN T' = DOMAIN T \cup {Len(T) + 1}
        /\ \A u \in DOMAIN T : T'[u] = T[u]
        /\ Range(T'[Len(T) + 1]) = {} /\ Ascending(T'[Len(T) + 1])
        /\ InTaps("in")' = InTaps("in")
    BY <1>5, PutInFacts
  <2>2. S' = S /\ InReader("in")' = InReader("in") /\ read' = read
    BY <1>5 DEF TapPutIn, InReader
  <2>3. Pending' \subseteq 1 .. read'
    BY <1>2, <1>3, <2>1, <2>2
  <2>4. \A t \in DOMAIN T' :
           /\ Ascending(T'[t])
           /\ \A p \in Range(T'[t]), q \in Range(S) : p < q
           /\ \A u \in DOMAIN T' : t # u => Range(T'[t]) \cap Range(T'[u]) = {}
    <3> HIDE DEF S, T
    <3>1. \A t \in DOMAIN T' : t \in DOMAIN T \/ t = Len(T) + 1
      BY <2>1
    <3> QED
      BY <1>2, <2>1, <3>1
  <2> QED
    BY <1>2, <2>1, <2>2, <2>3, <2>4 DEF OnePlace
<1>6. ASSUME NEW t \in DOMAIN T, TakenByTap(t)
      PROVE  OnePlace'
  <2> DEFINE x == Head(S)
  <2>1. /\ x \in Packet /\ DOMAIN T' = DOMAIN T
        /\ \A u \in DOMAIN T : u # t => T'[u] = T[u]
        /\ Range(T'[t]) = Range(T[t]) \cup {x} /\ Ascending(T'[t])
        /\ InTaps("in")' = InTaps("in") \cup {x}
        /\ Range(S) = {x} \cup Range(S)' /\ Ascending(S)'
        /\ \A y \in Range(S)' : x < y
    BY <1>6, TakenByTapFacts DEF Ascending
  <2>2. InReader("in")' = InReader("in") /\ read' = read
    BY <1>6 DEF TakenByTap, InReader
  <2>3. x \in Range(S) /\ Range(S)' \subseteq Range(S)
    BY <2>1
  <2>4. \A u \in DOMAIN T : x \notin Range(T[u])
    BY <1>2, <2>1, <2>3 DEF Packet
  <2>5. Pending' \subseteq 1 .. read' /\ InReader("in") \cap (Range(S)' \cup InTaps("in")') = {}
    BY <1>2, <1>3, <2>1, <2>2, <2>3
  <2> HIDE DEF S, T, x
  <2>6. \A v \in DOMAIN T : \A p \in Range(T'[v]), q \in Range(S)' : p < q
    BY <1>2, <2>1, <2>3
  <2>7. \A v, u \in DOMAIN T : v # u => Range(T'[v]) \cap Range(T'[u]) = {}
    BY <1>2, <2>1, <2>4
  <2>8. \A v \in DOMAIN T : Ascending(T'[v])
    BY <1>2, <2>1
  <2> QED
    BY <2>1, <2>2, <2>5, <2>6, <2>7, <2>8 DEF OnePlace, S, T
<1>7. CASE TakenDirectly
  <2> DEFINE x == Head(S)
  <2>1. S # <<>> /\ S' = Tail(S) /\ InReader("in")' = {x} /\ T' = T /\ read' = read
        /\ InTaps("in")' = InTaps("in")
    BY <1>7 DEF TakenDirectly, InTaps
  <2>2. x \in Packet /\ Range(S) = {x} \cup Range(Tail(S))
    BY <1>1, <2>1, TakeFacts
  <2>3. Ascending(Tail(S)) /\ \A y \in Range(Tail(S)) : x < y
    BY <1>1, <1>2, <2>1, AscendingTake
  <2>4. x \notin Range(Tail(S))
    BY <2>2, <2>3 DEF Packet
  <2>5. x \notin InTaps("in")
    <3>1. x \in Range(S) /\ ~ (x < x)
      BY <2>2 DEF Packet
    <3> HIDE DEF x, S, T
    <3>2. \A t \in DOMAIN T : x \notin Range(T[t])
      BY <1>2, <3>1
    <3> QED
      BY <1>3, <3>2
  <2> DEFINE r == Tail(S)
  <2>6. Range(S)' = Range(r) /\ (Ascending(S)' <=> Ascending(r))
    BY <2>1 DEF Ascending
  <2> HIDE DEF r, x
  <2>7. Pending' \subseteq 1 .. read' /\ InReader("in")' \cap (Range(S)' \cup InTaps("in")') = {}
    BY <1>2, <1>3, <2>1, <2>2, <2>4, <2>5, <2>6 DEF r
  <2> QED
    BY <1>2, <2>1, <2>2, <2>3, <2>6, <2>7 DEF OnePlace, r
<1>8. ASSUME NEW t \in DOMAIN T, TakenFromTap(t)
      PROVE  OnePlace'
  <2> DEFINE x == Head(T[t])
  <2>1. /\ x \in Packet /\ DOMAIN T' = DOMAIN T
        /\ \A u \in DOMAIN T : u # t => T'[u] = T[u]
        /\ Range(T[t]) = Range(T'[t]) \cup {x} /\ Ascending(T'[t])
        /\ InTaps("in") = InTaps("in")' \cup {x} /\ x \notin InTaps("in")'
    BY <1>8, TakenFromTapFacts
  <2>2. InReader("in")' = {x} /\ read' = read /\ S' = S
    BY <1>8 DEF TakenFromTap
  <2>3. x \notin Range(S)
    BY <1>2, <2>1 DEF Packet
  <2> HIDE DEF S, T, x
  <2>4. Pending' \subseteq 1 .. read' /\ InReader("in")' \cap (Range(S)' \cup InTaps("in")') = {}
    BY <1>2, <1>3, <2>1, <2>2, <2>3
  <2>5. \A v \in DOMAIN T : \A p \in Range(T'[v]), q \in Range(S)' : p < q
    BY <1>2, <2>1, <2>2
  <2>6. \A v, u \in DOMAIN T : v # u => Range(T'[v]) \cap Range(T'[u]) = {}
    BY <1>2, <2>1
  <2>7. \A v \in DOMAIN T : Ascending(T'[v])
    BY <1>2, <2>1
  <2>8. Ascending(S)'
    BY <1>2, <2>2 DEF Ascending
  <2> QED
    BY <2>1, <2>4, <2>5, <2>6, <2>7, <2>8 DEF OnePlace, S, T
<1>9. CASE Still /\ InReader("in")' \subseteq InReader("in")
  <2>1. S' = S /\ T' = T /\ read' = read /\ InTaps("in")' = InTaps("in")
    BY <1>9 DEF Still, InTaps
  <2>2. Pending' \subseteq 1 .. read' /\ InReader("in")' \cap (Range(S)' \cup InTaps("in")') = {}
    BY <1>2, <1>3, <1>9, <2>1
  <2> QED
    BY <1>2, <2>1, <2>2 DEF OnePlace
<1>10. Keyed \/ DroppedOrNone \/ (\E s \in DOMAIN sessions : PassedOn(s) \/ HandledBy(s))
         => Still /\ InReader("in")' \subseteq InReader("in")
  BY DEF Keyed, DroppedOrNone, PassedOn, HandledBy, InReader
<1> QED
  BY <1>4, <1>5, <1>6, <1>7, <1>8, <1>9, <1>10 DEF InMove

(***************************************************************************)
(* Only recv() of the socket adds to what is on its way to the sessions.   *)
(***************************************************************************)
NoMore == read' = read /\ Pending' \subseteq Pending

OneMore == read' = read + 1 /\ Pending' = Pending \cup {read + 1}

LEMMA PendingStep ==
  ASSUME PipeShape, OnePlace, InMove
  PROVE  NoMore \/ (OneMore /\ QuietSessions /\ UNCHANGED direct["in"])
<1>4. CASE Arrives
  <2>1. read + 1 \in Packet /\ source["in"] \in Seq(Packet)
    BY <1>4, PipelineAssumption DEF Arrives, PipeShape, Packet, Path
  <2>2. Range(source["in"])' = Range(source["in"]) \cup {read + 1}
    BY <1>4, <2>1, PutFacts DEF Arrives
  <2>3. InTaps("in")' = InTaps("in") /\ InReader("in")' = InReader("in")
    BY <1>4 DEF Arrives, InTaps, InReader
  <2>4. Pending' = Pending \cup {read + 1}
    BY <2>2, <2>3 DEF Pending
  <2> QED
    BY <1>4, <2>4 DEF Arrives, OneMore
<1>6. CASE TapPutIn
  <2>1. InTaps("in")' = InTaps("in")
    BY <1>6, PutInFacts
  <2> QED
    BY <1>6, <2>1 DEF TapPutIn, Pending, NoMore, InReader
<1>7. ASSUME NEW t \in DOMAIN taps["in"], TakenByTap(t)
      PROVE  NoMore
  <2> DEFINE x == Head(source["in"])
  <2>1. /\ InTaps("in")' = InTaps("in") \cup {x}
        /\ Range(source["in"]) = {x} \cup Range(source'["in"])
    BY <1>7, TakenByTapFacts
  <2> HIDE DEF x
  <2> QED
    BY <1>7, <2>1 DEF TakenByTap, Pending, NoMore, InReader
<1>8. CASE TakenDirectly
  <2> DEFINE x == Head(source["in"])
  <2>1. source["in"] \in Seq(Packet) /\ source["in"] # <<>> /\ source'["in"] = Tail(source["in"])
    BY <1>8 DEF TakenDirectly, PipeShape, Path
  <2>2. Range(source["in"]) = {x} \cup Range(source'["in"])
    BY <2>1, TakeFacts
  <2>3. InReader("in")' = {x} /\ InTaps("in")' = InTaps("in")
    BY <1>8 DEF TakenDirectly, InTaps
  <2> HIDE DEF x
  <2> QED
    BY <1>8, <2>2, <2>3 DEF TakenDirectly, Pending, NoMore
<1>9. ASSUME NEW t \in DOMAIN taps["in"], TakenFromTap(t)
      PROVE  NoMore
  <2> DEFINE x == Head(taps["in"][t])
  <2>1. InTaps("in") = InTaps("in")' \cup {x}
    BY <1>9, TakenFromTapFacts
  <2>2. InReader("in")' = {x} /\ UNCHANGED <<read, source["in"]>>
    BY <1>9 DEF TakenFromTap
  <2> HIDE DEF x
  <2> QED
    BY <2>1, <2>2 DEF Pending, NoMore
<1>10. CASE Still /\ InReader("in")' \subseteq InReader("in")
  <2>1. InTaps("in")' = InTaps("in")
    BY <1>10 DEF Still, InTaps
  <2> QED
    BY <1>10, <2>1 DEF Still, Pending, NoMore
<1>11. Keyed \/ DroppedOrNone \/ (\E s \in DOMAIN sessions : PassedOn(s) \/ HandledBy(s))
         => Still /\ InReader("in")' \subseteq InReader("in")
  BY DEF Keyed, DroppedOrNone, PassedOn, HandledBy, InReader
<1> QED
  BY <1>4, <1>6, <1>7, <1>8, <1>9, <1>10, <1>11 DEF InMove

(***************************************************************************)
(* Every session was made for an iikeying that is no longer on its way.    *)
(***************************************************************************)
LEMMA SessionsKeyedStep ==
  ASSUME PipeShape, OnePlace, SessionsKeyed, InMove
  PROVE  SessionsKeyed'
<1>1. PICK keyings \in SUBSET (1 .. read) :
        Cardinality(keyings) = Len(sessions) /\ keyings \cap Pending = {}
  BY DEF SessionsKeyed
<1>2. read \in Nat /\ Pending \subseteq 1 .. read /\ sessions \in Seq(Seq(Packet))
  BY DEF PipeShape, OnePlace
<1>3. CASE Len(sessions)' = Len(sessions) /\ NoMore
  BY <1>1, <1>3 DEF SessionsKeyed, NoMore
<1>4. CASE OneMore /\ QuietSessions
  <2>1. keyings \subseteq 1 .. read' /\ read + 1 \notin keyings
    BY <1>1, <1>2, <1>4 DEF OneMore
  <2> QED
    BY <1>1, <1>4, <2>1 DEF SessionsKeyed, OneMore, QuietSessions
<1>5. CASE Keyed
  <2>1. PICK p : p \in InReader("in") /\ InReader("in") = {p}
    BY <1>5 DEF Keyed, InReader
  <2>2. /\ Pending = Range(source["in"]) \cup InTaps("in") \cup {p}
        /\ Pending' = Range(source["in"]) \cup InTaps("in")
        /\ p \notin Range(source["in"]) \cup InTaps("in")
    BY <1>5, <2>1 DEF Keyed, Still, Pending, InTaps, OnePlace
  <2> DEFINE k == keyings \cup {p}
  <2>3. IsFiniteSet(keyings) /\ p \notin keyings /\ p \in 1 .. read
    <3>1. IsFiniteSet(1 .. read)
      BY <1>2, FS_Interval
    <3> QED
      BY <1>1, <1>2, <2>2, <3>1, FS_Subset
  <2>4. Cardinality(k) = Cardinality(keyings) + 1
    BY <2>3, FS_AddElement
  <2>5. Len(sessions)' = Len(sessions) + 1 /\ read' = read
    BY <1>5, SessionMade DEF Keyed, Still
  <2>6. k \in SUBSET (1 .. read) /\ k \cap Pending' = {}
    BY <1>1, <2>2, <2>3
  <2> HIDE DEF k
  <2> QED
    BY <1>1, <2>4, <2>5, <2>6 DEF SessionsKeyed
<1>6. ASSUME NEW s \in DOMAIN sessions, PassedOn(s) \/ HandledBy(s)
      PROVE  Len(sessions)' = Len(sessions)
  <2>1. \A q : Len([sessions EXCEPT ![s] = q]) = Len(sessions)
    BY <1>2
  <2> QED
    BY <1>6, <2>1 DEF PassedOn, HandledBy
<1>7. Keyed \/ Len(sessions)' = Len(sessions)
  BY <1>6 DEF InMove, Arrives, TapPutIn, TakenByTap, TakenDirectly, TakenFromTap, DroppedOrNone,
              QuietSessions
<1> QED
  BY <1>3, <1>4, <1>5, <1>7, PendingStep

(***************************************************************************)
(* A sequence that is not empty has a first place.                         *)
(***************************************************************************)
LEMMA PlacesOf ==
  /\ DOMAIN <<>> = {}
  /\ \A S : \A q \in Seq(S) : q # <<>> => DOMAIN q # {}
<1>1. DOMAIN <<>> = {}
  OBVIOUS
<1>2. ASSUME NEW S, NEW q \in Seq(S), q # <<>>
      PROVE  1 \in DOMAIN q
  BY <1>2, EmptySeq
<1> QED
  BY <1>1, <1>2

(***************************************************************************)
(* A tap that changes stays in its place.                                  *)
(***************************************************************************)
LEMMA SameTaps ==
  ASSUME taps \in [Path -> Seq(Seq(Packet))], NEW d \in Path, NEW e \in Path, NEW t, NEW x,
         taps' = [taps EXCEPT ![e][t] = x]
  PROVE  DOMAIN taps'[d] = DOMAIN taps[d]
<1>1. taps'[d] = taps[d] \/ taps'[d] = [taps[d] EXCEPT ![t] = x]
  OBVIOUS
<1>2. DOMAIN [taps[d] EXCEPT ![t] = x] = DOMAIN taps[d]
  OBVIOUS
<1> QED
  BY <1>1, <1>2

(***************************************************************************)
(* A reader takes one packet past a tap, and never another.                *)
(***************************************************************************)
LEMMA DirectOnceStep ==
  ASSUME PipeShape, DirectOnce, PipeNext \/ UNCHANGED pipeVars
  PROVE  DirectOnce'
<1>1. /\ taps \in [Path -> Seq(Seq(Packet))] /\ direct \in [Path -> SUBSET Packet]
      /\ DOMAIN reader = Path
      /\ \A d \in Path : field[d] = Len(taps[d]) /\ (taps[d] # <<>> => Len(taps[d]) # 0)
  BY DEF PipeShape
<1> SUFFICES ASSUME NEW d \in Path
             PROVE  /\ taps'[d] = <<>> => direct'[d] = {}
                    /\ reader'[d].at = "wait" /\ direct'[d] # {} => reader'[d].from # 0
                    /\ Cardinality(direct'[d]) <= 1
  BY DEF DirectOnce
<1>2. /\ taps[d] = <<>> => direct[d] = {}
      /\ reader[d].at = "wait" /\ direct[d] # {} => reader[d].from # 0
      /\ Cardinality(direct[d]) <= 1
  BY DEF DirectOnce
<1>3. CASE /\ taps[d] # <<>> => taps'[d] # <<>>
           /\ direct'[d] = direct[d]
           /\ reader'[d] = reader[d] \/ reader'[d].at # "wait"
  BY <1>2, <1>3
<1>4. ASSUME NEW e \in Path, SetChannelParam(e)
      PROVE  /\ taps[d] # <<>> => taps'[d] # <<>>
             /\ direct'[d] = direct[d] /\ reader'[d] = reader[d]
  <2>1. taps[e] \in Seq(Seq(Packet)) /\ <<>> \in Seq(Packet)
    BY <1>1
  <2>2. Append(taps[e], <<>>) # <<>>
    <3>1. ASSUME NEW T, NEW q \in Seq(T), NEW x \in T PROVE Append(q, x) # <<>>
      BY AppendProperties, Zenon
    <3> QED
      BY <2>1, <3>1, Zenon
  <2>3. taps'[d] = Append(taps[e], <<>>) \/ taps'[d] = taps[d]
    BY <1>1, <1>4 DEF SetChannelParam
  <2> QED
    BY <1>4, <2>2, <2>3 DEF SetChannelParam
<1>5. ASSUME NEW e \in Path, TapTakes(e)
      PROVE  /\ taps[d] # <<>> => taps'[d] # <<>>
             /\ direct'[d] = direct[d] /\ reader'[d] = reader[d]
  <2>1. PICK t \in DOMAIN taps[e] :
          taps' = [taps EXCEPT ![e][t] = Append(@, Head(source[e]))]
    BY <1>5 DEF TapTakes
  <2>2. DOMAIN taps'[d] = DOMAIN taps[d]
    <3> DEFINE x == Append(taps[e][t], Head(source[e]))
    <3>1. taps' = [taps EXCEPT ![e][t] = x]
      BY <2>1
    <3> HIDE DEF x
    <3> QED
      BY <1>1, <3>1, SameTaps
  <2>3. DOMAIN <<>> = {} /\ (taps[d] # <<>> => DOMAIN taps[d] # {})
    BY <1>1, PlacesOf
  <2>4. taps[d] # <<>> => taps'[d] # <<>>
    BY <2>2, <2>3
  <2> QED
    BY <1>5, <2>4 DEF TapTakes
<1>6. ASSUME NEW e \in Path, Look(e)
      PROVE  /\ taps'[d] = <<>> => direct'[d] = {}
             /\ reader'[d].at = "wait" /\ direct'[d] # {} => reader'[d].from # 0
             /\ Cardinality(direct'[d]) <= 1
  <2>1. /\ UNCHANGED <<taps, direct>>
        /\ reader' = [reader EXCEPT ![e] = [at |-> "wait", from |-> field[e], packet |-> 0]]
    BY <1>6 DEF Look, FieldNow
  <2>2. CASE e = d
    <3>1. reader'[d].from = field[d]
      BY <1>1, <2>1, <2>2
    <3> QED
      BY <1>1, <1>2, <2>1, <3>1
  <2>3. CASE e # d
    BY <1>1, <1>2, <2>1, <2>3
  <2> QED
    BY <2>2, <2>3
<1>7. ASSUME NEW e \in Path, Take(e)
      PROVE  /\ taps'[d] = <<>> => direct'[d] = {}
             /\ reader'[d].at = "wait" /\ direct'[d] # {} => reader'[d].from # 0
             /\ Cardinality(direct'[d]) <= 1
  <2>1. PICK p \in Packet :
          /\ reader' = [reader EXCEPT ![e] = [@ EXCEPT !.at = "packet", !.packet = p]]
          /\ \/ /\ reader[e].from = 0 /\ source[e] # <<>> /\ p = Head(source[e])
                /\ source' = [source EXCEPT ![e] = Tail(@)] /\ UNCHANGED taps
                /\ direct' = [direct EXCEPT ![e] = IF taps[e] # <<>> THEN @ \cup {p} ELSE @]
             \/ /\ reader[e].from \in DOMAIN taps[e] /\ UNCHANGED source
                /\ taps[e][reader[e].from] # <<>> /\ p = Head(taps[e][reader[e].from])
                /\ taps' = [taps EXCEPT ![e][reader[e].from] = Tail(@)]
                /\ UNCHANGED direct
          /\ reader[e].at = "wait"
          /\ UNCHANGED <<kinds, read, field, sessions, answering, handled, written, refused>>
    BY <1>7, TakeShape
  <2>2. reader'[d] = reader[d] \/ reader'[d].at # "wait"
    BY <1>1, <2>1, HoldShape
  <2>3. CASE UNCHANGED direct
    <3>1. DOMAIN taps'[d] = DOMAIN taps[d]
      <4> DEFINE x == Tail(taps[e][reader[e].from])
                 t == reader[e].from
      <4>1. UNCHANGED taps \/ taps' = [taps EXCEPT ![e][t] = x]
        BY <2>1
      <4> HIDE DEF x, t
      <4> QED
        BY <1>1, <4>1, SameTaps
    <3>2. DOMAIN <<>> = {} /\ (taps[d] # <<>> => DOMAIN taps[d] # {})
      BY <1>1, PlacesOf
    <3> QED
      BY <1>3, <2>2, <2>3, <3>1, <3>2
  <2>4. CASE e # d
    <3>1. taps'[d] = taps[d] /\ direct'[d] = direct[d] /\ reader'[d] = reader[d]
      BY <1>1, <2>1, <2>4
    <3> QED
      BY <1>3, <3>1
  <2>5. CASE /\ e = d /\ reader[d].from = 0 /\ UNCHANGED taps /\ taps[d] # <<>>
             /\ direct' = [direct EXCEPT ![d] = @ \cup {p}]
    <3>1. direct[d] = {}
      BY <1>2, <2>1, <2>5
    <3>2. direct'[d] = {p}
      BY <1>1, <2>5, <3>1
    <3>3. Cardinality({p}) = 1
      BY FS_Singleton
    <3>4. reader'[d].at # "wait"
      BY <1>1, <2>1, <2>5, HoldShape
    <3>5. Cardinality(direct'[d]) <= 1
      BY <3>2, <3>3
    <3>6. taps'[d] # <<>>
      BY <2>5
    <3> QED
      BY <3>4, <3>5, <3>6
  <2>6. UNCHANGED direct \/ e # d
        \/ /\ e = d /\ reader[d].from = 0 /\ UNCHANGED taps /\ taps[d] # <<>>
           /\ direct' = [direct EXCEPT ![d] = @ \cup {p}]
    <3>1. direct = [direct EXCEPT ![e] = @]
      BY <1>1
    <3> QED
      BY <2>1, <3>1
  <2> QED
    BY <2>3, <2>4, <2>5, <2>6
<1>8. ASSUME NEW e \in Path, Done(e), UNCHANGED <<taps, direct>>
      PROVE  /\ taps'[d] = <<>> => direct'[d] = {}
             /\ reader'[d].at = "wait" /\ direct'[d] # {} => reader'[d].from # 0
             /\ Cardinality(direct'[d]) <= 1
  <2>1. reader'[d] = reader[d] \/ reader'[d].at # "wait"
    BY <1>8, DoneShape
  <2> QED
    BY <1>3, <1>8, <2>1
<1>9. CASE UNCHANGED <<taps, direct, reader>>
  BY <1>2, <1>9
<1>10. \/ UNCHANGED <<taps, direct, reader>>
       \/ \E e \in Path : Done(e) /\ UNCHANGED <<taps, direct>>
       \/ \E e \in Path : SetChannelParam(e) \/ TapTakes(e) \/ Look(e) \/ Take(e)
  <2>1. "in" \in Path /\ "out" \in Path
    BY DEF Path
  <2>2. CASE UNCHANGED pipeVars \/ SocketRecv \/ SendAnswer \/ \E s \in SessionId : SessionDispatch(s)
    BY <2>2 DEF pipeVars, pathVars, SocketRecv, SendAnswer, SessionDispatch
  <2>3. CASE HandleHello \/ HandleKeying \/ DispatchToSession
    BY <2>1, <2>3 DEF HandleHello, HandleKeying, DispatchToSession
  <2>4. CASE SocketSend
    BY <2>1, <2>4 DEF SocketSend
  <2> QED
    BY <2>1, <2>2, <2>3, <2>4 DEF PipeNext, HandshakeDispatch, SocketDispatch
<1> QED
  BY <1>3, <1>4, <1>5, <1>6, <1>7, <1>8, <1>9, <1>10

(***************************************************************************)
(* The inductive invariant of the pipeline.                                *)
(***************************************************************************)
LEMMA PipeInitInv == PipeInit => PipeIInv
<1> SUFFICES ASSUME PipeInit
             PROVE  PipeIInv
  OBVIOUS
<1>1. "in" \in Path /\ <<>> \in Seq(Packet) /\ <<>> \in Seq(Seq(Packet)) /\ 0 \in 0 .. MaxDatagrams
  BY PipelineAssumption DEF Path
<1>2. Len(<<>>) = 0 /\ DOMAIN <<>> = {} /\ 0 <= ChanSize
  BY PipelineAssumption
<1>3. PipeShape
  <2>1. kinds \in [Packet -> Kind]
    BY DEF PipeInit, Packet
  <2>2. \A d \in Path : reader[d] = AtField /\ field[d] = 0 /\ taps[d] = <<>>
    BY DEF PipeInit
  <2>3. reader \in [Path -> [at : {"field", "wait", "packet"}, from : Nat,
                            packet : 0 .. MaxDatagrams]]
    BY <1>1 DEF PipeInit, AtField
  <2> QED
    BY <1>1, <1>2, <2>1, <2>2, <2>3 DEF PipeInit, PipeShape, AtField
<1>4. ChannelsBounded
  BY <1>1, <1>2 DEF PipeInit, ChannelsBounded
<1>5. Pending = {}
  BY <1>1, <1>2 DEF PipeInit, Pending, InTaps, InReader, AtField, Range
<1>6. OnePlace
  BY <1>1, <1>2, <1>5 DEF PipeInit, OnePlace, Ascending, InReader, AtField
<1>7. SessionsKeyed
  <2>1. Cardinality({}) = Len(sessions)
    BY <1>2, FS_EmptySet DEF PipeInit
  <2> QED
    BY <1>5, <2>1 DEF SessionsKeyed
<1>8. DirectOnce
  <2>1. Cardinality({}) <= 1
    BY FS_EmptySet
  <2> QED
    BY <2>1 DEF PipeInit, DirectOnce
<1> QED
  BY <1>3, <1>4, <1>6, <1>7, <1>8 DEF PipeIInv

LEMMA PipeStepInv ==
  ASSUME PipeIInv, PipeNext \/ UNCHANGED pipeVars
  PROVE  PipeIInv' /\ InMove
<1>1. InMove
  BY InMoves DEF PipeIInv
<1>2. PipeShape' /\ ChannelsBounded'
  BY PipeShapeStep DEF PipeIInv
<1>3. OnePlace' /\ SessionsKeyed'
  BY <1>1, OnePlaceStep, SessionsKeyedStep DEF PipeIInv
<1>4. DirectOnce'
  BY DirectOnceStep DEF PipeIInv
<1> QED
  BY <1>1, <1>2, <1>3, <1>4 DEF PipeIInv

LEMMA PipeInvariant == Spec => []PipeIInv
<1>1. Init => PipeIInv
  BY PipeInitInv DEF Init
<1>2. PipeIInv /\ [Next]_vars => PipeIInv'
  <2>1. [Next]_vars => PipeNext \/ UNCHANGED pipeVars
    BY DEF Next, vars
  <2> QED
    BY <2>1, PipeStepInv
<1> QED
  BY <1>1, <1>2, PTL DEF Spec

(***************************************************************************)
(* No more sessions than datagrams.                                        *)
(***************************************************************************)
LEMMA PipeTyped == PipeIInv => PipeTypeOK
<1> SUFFICES ASSUME PipeIInv
             PROVE  PipeTypeOK
  OBVIOUS
<1>1. PipeShape /\ ChannelsBounded /\ SessionsKeyed
  BY DEF PipeIInv
<1>2. PICK keyings \in SUBSET (1 .. read) : Cardinality(keyings) = Len(sessions)
  BY <1>1 DEF SessionsKeyed
<1>3. Len(sessions) <= MaxDatagrams
  <2>1. read \in Nat /\ read <= MaxDatagrams
    BY <1>1, PipelineAssumption DEF PipeShape
  <2>2. IsFiniteSet(1 .. read) /\ Cardinality(1 .. read) = read
    BY <2>1, FS_Interval
  <2>3. Cardinality(keyings) <= Cardinality(1 .. read)
    BY <2>2, FS_Subset
  <2> QED
    BY <1>1, <1>2, <2>1, <2>2, <2>3, PipelineAssumption DEF PipeShape
<1>4. \A d \in Path : field[d] \in 0 .. Len(taps[d]) /\ reader[d].from \in 0 .. Len(taps[d])
  BY <1>1 DEF PipeShape
<1> QED
  BY <1>1, <1>3, <1>4 DEF PipeTypeOK, PipeShape, ChannelsBounded

(***************************************************************************)
(* The types of the transport: no channel of the pipeline holds more than  *)
(* its size, there are no more sessions than datagrams, and the tap that a *)
(* field names, or that a reader waits on, is there.                       *)
(***************************************************************************)
THEOREM TransportTypes == Spec => []TypeOK
<1>1. PipeIInv /\ ChanIInv => TypeOK
  BY PipeTyped DEF TypeOK, ChanIInv
<1> QED
  BY <1>1, PipeInvariant, ChanInvariant, PTL

-----------------------------------------------------------------------------
(***************************************************************************)
(* A packet that nothing in front of it may overtake joins the line; the   *)
(* one at the head leaves it.                                              *)
(***************************************************************************)
LEMMA JoinLine ==
  ASSUME NEW over, NEW q \in Seq(Packet), NEW p \in Packet,
         InLine(q, over), Before(Range(q), {p}, over)
  PROVE  InLine(Append(q, p), over) /\ Range(Append(q, p)) = Range(q) \cup {p}
<1> DEFINE r == Append(q, p)
           n == Len(q) + 1
<1>1. /\ DOMAIN r = DOMAIN q \cup {n} /\ \A i \in DOMAIN q : r[i] = q[i]
      /\ r[n] = p /\ Range(r) = Range(q) \cup {p}
  BY PutFacts
<1>2. /\ n \in Nat /\ \A i \in DOMAIN q : i \in Nat /\ i < n
  OBVIOUS
<1>3. \A i \in DOMAIN q : q[i] > p => q[i] \in over
  BY DEF Before, Range
<1> HIDE DEF r, n
<1>4. ASSUME NEW i \in DOMAIN r, NEW j \in DOMAIN r, i < j, r[i] > r[j]
      PROVE  r[i] \in over
  <2>1. i \in DOMAIN q
    BY <1>1, <1>2, <1>4
  <2>2. CASE j \in DOMAIN q
    BY <1>1, <1>4, <2>1, <2>2 DEF InLine
  <2>3. CASE j = n
    BY <1>1, <1>3, <1>4, <2>1, <2>3
  <2> QED
    BY <1>1, <2>2, <2>3
<1>5. InLine(r, over)
  BY <1>4 DEF InLine
<1> QED
  BY <1>1, <1>5 DEF r

LEMMA LeaveLine ==
  ASSUME NEW over, NEW q \in Seq(Packet), q # <<>>, InLine(q, over)
  PROVE  /\ InLine(Tail(q), over) /\ Before({Head(q)}, Range(Tail(q)), over)
         /\ Range(q) = {Head(q)} \cup Range(Tail(q)) /\ Head(q) \in Packet
         /\ Tail(q) \in Seq(Packet)
<1> DEFINE r == Tail(q)
<1>1. /\ r \in Seq(Packet) /\ Len(r) = Len(q) - 1 /\ Head(q) = q[1] /\ Head(q) \in Packet
      /\ Range(q) = {Head(q)} \cup Range(r) /\ Len(q) \in Nat /\ Len(q) # 0
  BY TakeFacts
<1>2. \A i \in 1 .. Len(q) - 1 : r[i] = q[i + 1]
  BY <1>1
<1>3. DOMAIN r = 1 .. Len(q) - 1 /\ DOMAIN q = 1 .. Len(q)
  BY <1>1
<1> HIDE DEF r
<1>4. InLine(r, over)
  <2> SUFFICES ASSUME NEW i \in DOMAIN r, NEW j \in DOMAIN r, i < j, r[i] > r[j]
               PROVE  r[i] \in over
    BY DEF InLine
  <2>1. r[i] = q[i + 1] /\ r[j] = q[j + 1]
    BY <1>2, <1>3
  <2>2. i + 1 \in DOMAIN q /\ j + 1 \in DOMAIN q /\ i + 1 < j + 1
    BY <1>1, <1>3
  <2> QED
    BY <2>1, <2>2 DEF InLine
<1>5. Before({Head(q)}, Range(r), over)
  <2> SUFFICES ASSUME NEW j \in DOMAIN r, q[1] > r[j]
               PROVE  q[1] \in over
    BY <1>1 DEF Before, Range
  <2>1. r[j] = q[j + 1] /\ j + 1 \in DOMAIN q /\ 1 \in DOMAIN q /\ 1 < j + 1
    BY <1>1, <1>2, <1>3
  <2> QED
    BY <2>1 DEF InLine
<1> QED
  BY <1>1, <1>4, <1>5 DEF r

(***************************************************************************)
(* The packet that the dispatcher takes is the first there, but where a    *)
(* tap is passed; with one tap, there is no other to take it from.         *)
(***************************************************************************)
LEMMA ReaderFirstStep ==
  ASSUME MaxTaps <= 1, PipeShape, OnePlace, InOrder, InMove
  PROVE  ReaderFirst'
<1>1. /\ "in" \in Path /\ source["in"] \in Seq(Packet) /\ taps["in"] \in Seq(Seq(Packet))
      /\ reader["in"].at = "packet" => reader["in"].packet \in Packet
  BY DEF PipeShape, Path
<1>2. Before(InReader("in"), Range(source["in"]) \cup InTaps("in"), direct["in"])
  BY DEF InOrder, ReaderFirst
<1>3. /\ InReader("in") \subseteq 1 .. read /\ InTaps("in") \subseteq 1 .. read
      /\ read \in Nat /\ 1 .. read \subseteq Packet
  <2>1. Pending \subseteq 1 .. read /\ InReader("in") \subseteq Pending /\ InTaps("in") \subseteq Pending
    BY DEF OnePlace, Pending
  <2>2. read \in Nat /\ read <= MaxDatagrams /\ MaxDatagrams \in Nat
    BY PipelineAssumption DEF PipeShape
  <2>3. 1 .. read \subseteq Packet
    BY <2>2 DEF Packet
  <2> QED
    BY <2>1, <2>2, <2>3
<1>4. CASE Arrives
  <2>1. read + 1 \in Packet
    BY <1>4, PipelineAssumption DEF Arrives, PipeShape, Packet
  <2>2. Range(source["in"])' = Range(source["in"]) \cup {read + 1}
    BY <1>1, <1>4, <2>1, PutFacts DEF Arrives
  <2>3. /\ InTaps("in")' = InTaps("in") /\ InReader("in")' = InReader("in")
        /\ direct'["in"] = direct["in"]
    BY <1>4 DEF Arrives, InTaps, InReader
  <2>4. \A p \in InReader("in") : ~ (p > read + 1)
    <3> SUFFICES ASSUME NEW p \in InReader("in") PROVE ~ (p > read + 1)
      OBVIOUS
    <3>1. p \in 1 .. read
      BY <1>3
    <3> QED
      BY <1>3, <3>1
  <2> QED
    BY <1>2, <2>2, <2>3, <2>4 DEF ReaderFirst, Before
<1>5. CASE TapPutIn
  <2>1. InTaps("in")' = InTaps("in")
    BY <1>5, PutInFacts
  <2> QED
    BY <1>2, <1>5, <2>1 DEF TapPutIn, ReaderFirst, InReader
<1>6. ASSUME NEW t \in DOMAIN taps["in"], TakenByTap(t)
      PROVE  ReaderFirst'
  <2> DEFINE x == Head(source["in"])
  <2>1. /\ InTaps("in")' = InTaps("in") \cup {x}
        /\ Range(source["in"]) = {x} \cup Range(source'["in"])
    BY <1>6, TakenByTapFacts
  <2>2. InReader("in")' = InReader("in") /\ direct'["in"] = direct["in"]
    BY <1>6 DEF TakenByTap, InReader
  <2> HIDE DEF x
  <2>3. Range(source["in"]) \cup InTaps("in") = Range(source'["in"]) \cup InTaps("in")'
    BY <2>1
  <2> QED
    BY <1>2, <2>2, <2>3 DEF ReaderFirst
<1>7. CASE TakenDirectly
  <2> DEFINE x == Head(source["in"])
  <2>1. /\ source["in"] # <<>> /\ source'["in"] = Tail(source["in"])
        /\ InReader("in")' = {x} /\ InTaps("in")' = InTaps("in")
        /\ taps["in"] # <<>> => x \in direct'["in"]
    BY <1>7 DEF TakenDirectly, InTaps
  <2>2. Ascending(Tail(source["in"])) /\ \A y \in Range(Tail(source["in"])) : x < y
    BY <1>1, <2>1, AscendingTake DEF OnePlace
  <2>3. x \in Packet /\ Tail(source["in"]) \in Seq(Packet)
    BY <1>1, <2>1, TakeFacts
  <2>4. Range(Tail(source["in"])) \subseteq Packet
    BY <2>3 DEF Range
  <2>5. taps["in"] = <<>> => InTaps("in") = {}
    BY PlacesOf DEF InTaps
  <2> HIDE DEF x
  <2>6. \A y \in Range(source'["in"]) : ~ (x > y)
    BY <2>1, <2>2, <2>3, <2>4 DEF Packet
  <2> QED
    BY <2>1, <2>5, <2>6 DEF ReaderFirst, Before
<1>8. ASSUME NEW t \in DOMAIN taps["in"], TakenFromTap(t)
      PROVE  ReaderFirst'
  <2> DEFINE x == Head(taps["in"][t])
  <2>1. /\ x \in Packet /\ DOMAIN taps'["in"] = DOMAIN taps["in"]
        /\ Range(taps["in"][t]) = Range(taps'["in"][t]) \cup {x}
        /\ \A y \in Range(taps'["in"][t]) : x < y
        /\ InTaps("in") = InTaps("in")' \cup {x}
    BY <1>8, TakenFromTapFacts
  <2>2. InReader("in")' = {x} /\ source'["in"] = source["in"]
    BY <1>8 DEF TakenFromTap
  <2>3. \A u \in DOMAIN taps["in"] : u = t
    BY <1>1, PipelineAssumption DEF InOrder
  <2>4. InTaps("in")' = UNION {Range(taps'["in"][u]) : u \in DOMAIN taps'["in"]}
    BY DEF InTaps
  <2>5. \A y \in Range(source["in"]) : x < y
    <3>1. x \in Range(taps["in"][t])
      BY <2>1
    <3> HIDE DEF x
    <3> QED
      BY <3>1 DEF OnePlace
  <2>6. Range(source["in"]) \subseteq Packet
    BY <1>1 DEF Range
  <2>7. InTaps("in")' \subseteq Packet
    <3> HIDE DEF x
    <3>1. InTaps("in")' \subseteq InTaps("in")
      BY <2>1
    <3> QED
      BY <1>3, <3>1
  <2> HIDE DEF x
  <2>8. \A y \in InTaps("in")' : x < y
    BY <2>1, <2>3, <2>4
  <2>9. \A y \in Range(source["in"]) \cup InTaps("in")' : ~ (x > y)
    BY <2>1, <2>5, <2>6, <2>7, <2>8 DEF Packet
  <2> QED
    BY <2>2, <2>9 DEF ReaderFirst, Before
<1>9. CASE Still /\ InReader("in")' \subseteq InReader("in")
  <2>1. InTaps("in")' = InTaps("in")
    BY <1>9 DEF Still, InTaps
  <2> QED
    BY <1>2, <1>9, <2>1 DEF Still, ReaderFirst, Before
<1>10. Keyed \/ DroppedOrNone \/ (\E s \in DOMAIN sessions : PassedOn(s) \/ HandledBy(s))
         => Still /\ InReader("in")' \subseteq InReader("in")
  BY DEF Keyed, DroppedOrNone, PassedOn, HandledBy, InReader
<1> QED
  BY <1>4, <1>5, <1>6, <1>7, <1>8, <1>9, <1>10 DEF InMove

(***************************************************************************)
(* A session with nothing new in its line, when nothing new is on its way. *)
(***************************************************************************)
LEMMA SameSession ==
  ASSUME NEW s, SessionFirst(s), Line(s)' = Line(s), handled'[s] = handled[s],
         direct["in"] \subseteq direct'["in"], Pending' \subseteq Pending, read' = read
  PROVE  SessionFirst(s)'
<1>1. InLine(handled[s], direct["in"])' /\ InLine(Line(s), direct["in"])'
  BY DEF SessionFirst, InLine
<1>2. Before(Range(handled[s]), Range(Line(s)), direct["in"])'
  BY DEF SessionFirst, Before
<1>3. Before(Range(handled[s]) \cup Range(Line(s)), Pending, direct["in"])'
  BY DEF SessionFirst, Before
<1> QED
  BY <1>1, <1>2, <1>3 DEF SessionFirst

(***************************************************************************)
(* The sessions other than the one a packet goes to, or comes from, are as *)
(* before.                                                                 *)
(***************************************************************************)
LEMMA OtherLines ==
  ASSUME PipeShape, NEW s \in DOMAIN sessions, NEW q \in Seq(Packet),
         sessions' = [sessions EXCEPT ![s] = q]
  PROVE  Line(s)' = q /\ \A u \in SessionId : u # s => Line(u)' = Line(u)
<1>1. /\ DOMAIN sessions' = DOMAIN sessions /\ sessions'[s] = q
      /\ \A u \in DOMAIN sessions : u # s => sessions'[u] = sessions[u]
  BY SessionShape DEF PipeShape
<1> QED
  BY <1>1 DEF Line

(***************************************************************************)
(* What is in the line of a session overtook only what it took past a tap, *)
(* and so did what the session handled.                                    *)
(***************************************************************************)
LEMMA SessionFirstStep ==
  ASSUME PipeShape, OnePlace, InOrder, InMove, NEW s \in SessionId
  PROVE  SessionFirst(s)'
<1> DEFINE D == direct["in"]
           H == handled[s]
           W == Line(s)
<1>1. /\ read \in Nat /\ H \in Seq(Packet) /\ W \in Seq(Packet)
      /\ Pending \subseteq 1 .. read /\ 1 .. read \subseteq Packet
  <2>1. read \in Nat /\ read <= MaxDatagrams /\ MaxDatagrams \in Nat
    BY PipelineAssumption DEF PipeShape
  <2>2. 1 .. read \subseteq Packet
    BY <2>1 DEF Packet
  <2>3. W \in Seq(Packet)
    BY DEF PipeShape, Line
  <2> QED
    BY <2>1, <2>2, <2>3 DEF PipeShape, OnePlace
<1>2. /\ InLine(H, D) /\ InLine(W, D) /\ Before(Range(H), Range(W), D)
      /\ Before(Range(H) \cup Range(W), Pending, D)
      /\ Range(H) \cup Range(W) \subseteq 1 .. read
  BY DEF InOrder, SessionFirst
<1>3. SessionFirst(s)
  BY DEF InOrder
<1>4. QuietSessions => Line(s)' = W /\ handled'[s] = H
  BY DEF QuietSessions, Line
<1>5. CASE OneMore /\ QuietSessions /\ UNCHANGED direct["in"]
  <2>1. W' = W /\ H' = H /\ D' = D
    BY <1>4, <1>5
  <2>2. \A p \in Range(H) \cup Range(W) : ~ (p > read + 1)
    <3> SUFFICES ASSUME NEW p \in Range(H) \cup Range(W) PROVE ~ (p > read + 1)
      OBVIOUS
    <3>1. p \in 1 .. read
      BY <1>2
    <3> QED
      BY <1>1, <3>1
  <2> HIDE DEF D, H, W
  <2>3. Before(Range(H) \cup Range(W), Pending', D)
    BY <1>2, <1>5, <2>2 DEF Before, OneMore
  <2>4. Range(H) \cup Range(W) \subseteq 1 .. read'
    BY <1>1, <1>2, <1>5 DEF OneMore
  <2> QED
    BY <1>2, <2>1, <2>3, <2>4 DEF SessionFirst, D, H, W
<1>6. CASE NoMore /\ D \subseteq D' /\ W' = W /\ H' = H
  BY <1>3, <1>6, SameSession DEF NoMore
<1>7. CASE QuietSessions /\ NoMore
  <2>1. D \subseteq D'
    BY <1>7 DEF InMove, Arrives, TapPutIn, TakenByTap, TakenDirectly, TakenFromTap, Keyed,
                DroppedOrNone, PassedOn, HandledBy, Still
  <2> QED
    BY <1>4, <1>6, <1>7, <2>1
<1>8. CASE Keyed /\ NoMore
  <2>1. D' = D /\ H' = H
    BY <1>8 DEF Keyed, Still
  <2>2. W' = W
    <3>1. /\ sessions \in Seq(Seq(Packet)) /\ <<>> \in Seq(Packet)
          /\ sessions' = Append(sessions, <<>>)
      BY <1>8 DEF Keyed, PipeShape
    <3>2. /\ DOMAIN sessions' = DOMAIN sessions \cup {Len(sessions) + 1}
          /\ \A u \in DOMAIN sessions : sessions'[u] = sessions[u]
          /\ sessions'[Len(sessions) + 1] = <<>>
      BY <3>1, PutFacts
    <3> QED
      BY <3>2 DEF Line
  <2> QED
    BY <1>6, <1>8, <2>1, <2>2
<1>9. ASSUME NEW u \in DOMAIN sessions, PassedOn(u), NoMore
      PROVE  SessionFirst(s)'
  <2> DEFINE p == reader["in"].packet
             r == Append(sessions[u], p)
  <2>1. /\ p \in Packet /\ sessions[u] \in Seq(Packet) /\ r \in Seq(Packet)
        /\ sessions' = [sessions EXCEPT ![u] = r]
        /\ InReader("in") = {p} /\ InReader("in")' = {} /\ H' = H /\ D' = D
    BY <1>9 DEF PassedOn, Still, PipeShape
  <2> HIDE DEF r
  <2>2. Line(u)' = r /\ \A v \in SessionId : v # u => Line(v)' = Line(v)
    BY <2>1, OtherLines
  <2>3. CASE u # s
    BY <1>6, <1>9, <2>1, <2>2, <2>3
  <2>4. CASE u = s
    <3>1. p \in Pending /\ W = sessions[u]
      BY <1>9, <2>1, <2>4 DEF Pending, Line
    <3> HIDE DEF p, D, H, W
    <3>2. Before(Range(H) \cup Range(W), {p}, D)
      BY <1>2, <3>1 DEF Before
    <3>3. InLine(r, D) /\ Range(r) = Range(W) \cup {p}
      <4>1. Before(Range(W), {p}, D)
        BY <3>2 DEF Before
      <4> QED
        BY <1>1, <1>2, <2>1, <3>1, <4>1, JoinLine DEF r
    <3>4. Before(Range(H), Range(r), D)
      BY <1>2, <3>2, <3>3 DEF Before
    <3>5. Before({p}, Pending', D)
      <4>1. Still
        BY <1>9 DEF PassedOn
      <4>2. Pending' = Range(source["in"]) \cup InTaps("in")
        BY <2>1, <4>1 DEF Still, Pending, InTaps
      <4> QED
        BY <2>1, <4>2 DEF InOrder, ReaderFirst, D
    <3>6. Before(Range(H) \cup Range(r), Pending', D)
      BY <1>2, <1>9, <3>3, <3>5 DEF Before, NoMore
    <3>7. Range(H) \cup Range(r) \subseteq 1 .. read'
      BY <1>1, <1>2, <1>9, <3>1, <3>3 DEF NoMore
    <3>8. W' = r /\ H' = H /\ D' = D
      BY <2>1, <2>2, <2>4 DEF W
    <3> QED
      BY <1>2, <3>3, <3>4, <3>6, <3>7, <3>8 DEF SessionFirst, D, H, W
  <2> QED
    BY <2>3, <2>4
<1>10. ASSUME NEW u \in DOMAIN sessions, HandledBy(u), NoMore
       PROVE  SessionFirst(s)'
  <2> DEFINE p == Head(sessions[u])
             r == Tail(sessions[u])
  <2>1. /\ u \in SessionId /\ sessions[u] # <<>> /\ sessions[u] \in Seq(Packet)
        /\ sessions' = [sessions EXCEPT ![u] = r] /\ D' = D
        /\ handled' = [handled EXCEPT ![u] = Append(@, p)]
    BY <1>10 DEF HandledBy, Still, PipeShape
  <2>2. r \in Seq(Packet) /\ p \in Packet
    BY <2>1, TakeFacts
  <2> HIDE DEF r, p
  <2>3. Line(u)' = r /\ \A v \in SessionId : v # u => Line(v)' = Line(v)
    BY <2>1, <2>2, OtherLines
  <2>4. CASE u # s
    <3>1. H' = H
      BY <2>1, <2>4 DEF PipeShape
    <3> QED
      BY <1>6, <1>10, <2>1, <2>3, <2>4, <3>1
  <2>5. CASE u = s
    <3>1. W = sessions[u] /\ W' = r /\ H' = Append(H, p) /\ D' = D
      BY <2>1, <2>3, <2>5 DEF Line, PipeShape
    <3> HIDE DEF D, H, W
    <3>2. InLine(r, D) /\ Before({p}, Range(r), D) /\ Range(W) = {p} \cup Range(r)
      BY <1>1, <1>2, <2>1, <3>1, LeaveLine DEF p, r
    <3>3. Before(Range(H), {p}, D)
      BY <1>2, <3>2 DEF Before
    <3>4. InLine(H', D) /\ Range(H') = Range(H) \cup {p}
      BY <1>1, <1>2, <2>2, <3>1, <3>3, JoinLine
    <3>5. Before(Range(H'), Range(r), D)
      BY <1>2, <3>2, <3>4 DEF Before
    <3>6. Range(H') \cup Range(r) = Range(H) \cup Range(W)
      BY <3>2, <3>4
    <3>7. Before(Range(H') \cup Range(r), Pending', D)
      BY <1>2, <1>10, <3>6 DEF Before, NoMore
    <3>8. Range(H') \cup Range(r) \subseteq 1 .. read'
      BY <1>2, <1>10, <3>6 DEF NoMore
    <3> QED
      BY <3>1, <3>2, <3>4, <3>5, <3>7, <3>8 DEF SessionFirst, D, H, W
  <2> QED
    BY <2>4, <2>5
<1>11. QuietSessions \/ Keyed \/ \E u \in DOMAIN sessions : PassedOn(u) \/ HandledBy(u)
  BY DEF InMove, Arrives, TapPutIn, TakenByTap, TakenDirectly, TakenFromTap, DroppedOrNone
<1>12. NoMore \/ (OneMore /\ QuietSessions /\ UNCHANGED direct["in"])
  BY PendingStep
<1> QED
  BY <1>1, <1>5, <1>7, <1>8, <1>9, <1>10, <1>11, <1>12

LEMMA OrderStep ==
  ASSUME MaxTaps <= 1, PipeIInv, InOrder, PipeNext \/ UNCHANGED pipeVars
  PROVE  InOrder'
<1>1. InMove /\ PipeShape /\ OnePlace /\ PipeShape'
  BY PipeStepInv DEF PipeIInv
<1>2. ReaderFirst'
  BY <1>1, ReaderFirstStep
<1>3. \A s \in SessionId : SessionFirst(s)'
  BY <1>1, SessionFirstStep
<1>4. Len(taps["in"])' <= MaxTaps
  <2>1. /\ taps["in"] \in Seq(Seq(Packet)) /\ <<>> \in Seq(Packet) /\ Len(taps["in"]) <= MaxTaps
        /\ taps'["in"] \in Seq(Seq(Packet))
    BY <1>1 DEF PipeShape, Path, InOrder
  <2>2. CASE TapPutIn
    <3>1. Len(Append(taps["in"], <<>>)) = Len(taps["in"]) + 1 /\ Len(taps["in"]) \in Nat
      BY <2>1, PutFacts
    <3> QED
      BY <2>2, <3>1, PipelineAssumption DEF TapPutIn
  <2>3. CASE DOMAIN taps'["in"] = DOMAIN taps["in"]
    <3>1. Len(taps["in"])' = Len(taps["in"])
      BY <2>1, <2>3
    <3> QED
      BY <2>1, <3>1
  <2>4. TapPutIn \/ DOMAIN taps'["in"] = DOMAIN taps["in"]
    <3>1. ASSUME NEW t \in DOMAIN taps["in"], TakenByTap(t) \/ TakenFromTap(t)
          PROVE  DOMAIN taps'["in"] = DOMAIN taps["in"]
      BY <1>1, <3>1, TakenByTapFacts, TakenFromTapFacts
    <3>2. Arrives \/ TakenDirectly \/ Keyed \/ DroppedOrNone
            \/ (\E s \in DOMAIN sessions : PassedOn(s) \/ HandledBy(s))
              => taps'["in"] = taps["in"]
      BY DEF Arrives, TakenDirectly, Keyed, DroppedOrNone, PassedOn, HandledBy, Still
    <3> QED
      BY <1>1, <3>1, <3>2 DEF InMove
  <2> QED
    BY <2>2, <2>3, <2>4
<1> QED
  BY <1>2, <1>3, <1>4 DEF InOrder

LEMMA OrderInit == PipeInit => InOrder
<1> SUFFICES ASSUME PipeInit
             PROVE  InOrder
  OBVIOUS
<1>1. "in" \in Path /\ Len(<<>>) = 0 /\ DOMAIN <<>> = {} /\ 0 <= MaxTaps
  BY PipelineAssumption DEF Path
<1>2. /\ taps["in"] = <<>> /\ reader["in"] = AtField /\ Pending = {}
      /\ \A s \in SessionId : handled[s] = <<>> /\ Line(s) = <<>>
  BY <1>1 DEF PipeInit, Pending, InTaps, InReader, AtField, Range, Line
<1>3. ReaderFirst
  BY <1>2 DEF ReaderFirst, Before, InReader, AtField
<1>4. \A s \in SessionId : SessionFirst(s)
  BY <1>1, <1>2 DEF SessionFirst, InLine, Before, Range
<1> QED
  BY <1>1, <1>2, <1>3, <1>4 DEF InOrder

(***************************************************************************)
(* A session handles its packets in the order they arrived, but for one    *)
(* packet at most that the dispatcher, waiting on the old channel, took    *)
(* past the tap, where SetInChannelParam is called once at most (dispatch  *)
(* of the handshake against SetInChannelParam).  After a second call the   *)
(* dispatcher may wait on the first tap, whose packets may be newer than   *)
(* those in the second.                                                    *)
(***************************************************************************)
THEOREM OneOvertakesATap ==
  ASSUME MaxTaps <= 1
  PROVE  Spec => []OvertakenOnlyByDirect
<1>1. Init => InOrder
  BY OrderInit DEF Init
<1>2. PipeIInv /\ InOrder /\ [Next]_vars => InOrder'
  <2>1. [Next]_vars => PipeNext \/ UNCHANGED pipeVars
    BY DEF Next, vars
  <2> QED
    BY <2>1, OrderStep
<1>3. PipeIInv /\ InOrder => OvertakenOnlyByDirect
  <2> SUFFICES ASSUME PipeIInv, InOrder
               PROVE  OvertakenOnlyByDirect
    OBVIOUS
  <2>1. \A d \in Path : Cardinality(direct[d]) <= 1
    BY DEF PipeIInv, DirectOnce
  <2>2. \A s \in SessionId : InLine(handled[s], direct["in"])
    BY DEF InOrder, SessionFirst
  <2> QED
    BY <2>1, <2>2 DEF OvertakenOnlyByDirect, InLine
<1> QED
  BY <1>1, <1>2, <1>3, PipeInvariant, PTL DEF Spec
=============================================================================
