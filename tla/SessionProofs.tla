--------------------------- MODULE SessionProofs ----------------------------
(***************************************************************************)
(* What a session measures is right, for every value of the constants: a   *)
(* sample is the round trip but for the rounding to ticks, however often   *)
(* the timestamps wrapped meanwhile, and the retransmission timeout covers *)
(* it.                                                                     *)
(***************************************************************************)
EXTENDS Session, TLAPS

-----------------------------------------------------------------------------
(***************************************************************************)
(* Clocks wrap after Period.  Two times are the Same when the clock cannot *)
(* tell them apart.                                                        *)
(***************************************************************************)
Period == Wrap * TickLen

Same(x, y) == \E n \in Int : x = y + n * Period

Fraction == 0 .. TickLen - 1

\* The timestamp ts is of the time that end e had so long ago,
TakenAgo(e, ts, age) == \E r \in Fraction : Same(clock[e], ts * TickLen + r + age)

\* or was then moved on by what it was held, whose fraction of a tick is lost.
EchoedAgo(e, echo, age) ==
  \E r, held \in Fraction :
    held <= EchoLimit /\ Same(clock[e], echo * TickLen + r + held + age)

(***************************************************************************)
(* The inductive invariant.  mrto says of the sample what erto is to say,  *)
(* and erto lies between mrto and the end of the backoff.  A timestamp in  *)
(* transit was taken when it left; one that was received is that old, as   *)
(* long as its age is known; so is the time an echo stands for.            *)
(***************************************************************************)
EstimateType == [srtt : Nat, rttvar : Nat, mrto : Nat, erto : Nat]

Covers(est, ticks) ==
  /\ est.erto >= est.mrto
  /\ est.erto <= LongerOf(MaxErto, est.mrto)
  /\ ticks # -1 => est.mrto >= Duration(ticks) + Margin - 4

EstimatesCover ==
  /\ \A e \in End : Covers(estimate[e], sample[e].ticks)
  /\ \A e \in End : sample[e].ticks = -1 => sample[e].real = -1

StampsAge ==
  /\ \A p \in net : p.ts # 0 => TakenAgo(Other(p.to), p.ts, p.age)
  /\ \A e \in End : Young(e) => TakenAgo(Other(e), stamps[e].ts_rx, leg[e] + ts_rx_age[e])

EchoesAge == \A p \in net : p.echo # 0 => EchoedAgo(p.to, p.echo, p.leg + p.age)

EInv == RttTypeOK /\ EstimatesCover /\ StampsAge /\ EchoesAge /\ SampleIsRoundTrip

-----------------------------------------------------------------------------
(***************************************************************************)
(* Division and products of natural numbers.                               *)
(***************************************************************************)
LEMMA Division ==
  ASSUME NEW x \in Int, NEW n \in Nat \ {0}
  PROVE  /\ x % n \in 0 .. n - 1 /\ x \div n \in Int
         /\ x = n * (x \div n) + (x % n)
<1>1. x % n \in 0 .. n - 1
  OBVIOUS
<1>2. x \div n \in Int
  OBVIOUS
<1>3. x = n * (x \div n) + (x % n)
  OBVIOUS
<1> QED
  BY <1>1, <1>2, <1>3

LEMMA Multiples ==
  ASSUME NEW n \in Nat \ {0}, NEW a \in Int, NEW b \in Int
  PROVE  /\ n * a \in Int /\ (a <= b => n * a <= n * b)
         /\ n * (a + b) = n * a + n * b /\ n * (a - b) = n * a - n * b
<1>1. n * a \in Int /\ n * b \in Int
  OBVIOUS
<1>2. n * (a + b) = n * a + n * b /\ n * (a - b) = n * a - n * b
  OBVIOUS
<1>3. ASSUME a <= b PROVE n * a <= n * b
  <2>1. b - a \in Nat
    BY <1>3
  <2>2. n * (b - a) \in Nat
    BY <2>1
  <2> QED
    BY <1>1, <1>2, <2>2
<1> QED
  BY <1>1, <1>2, <1>3

LEMMA Limits ==
  /\ Wrap \in Nat \ {0} /\ TickLen \in Nat \ {0} /\ Period \in Nat \ {0}
  /\ Period = Wrap * TickLen /\ Period = TickLen * Wrap
  /\ EchoLimit \in Nat /\ MaxDelay \in Nat /\ LongAgo \in Nat /\ LongAgo = EchoLimit + 1
  /\ EchoLimit + 2 * MaxDelay + TickLen < Period
<1>1. Wrap \in Nat \ {0} /\ TickLen \in Nat \ {0} /\ Wrap * TickLen \in Nat \ {0}
  BY RoundTripAssumption
<1>2. Wrap * TickLen = TickLen * Wrap
  BY <1>1
<1> QED
  BY <1>1, <1>2, RoundTripAssumption DEF Period, LongAgo

(***************************************************************************)
(* Timestamps are of 16 bits.                                              *)
(***************************************************************************)
LEMMA StampOfClock ==
  ASSUME NEW c \in 0 .. Period - 1
  PROVE  c \div TickLen \in Stamp
<1>1. Wrap \in Nat \ {0} /\ TickLen \in Nat \ {0} /\ Period \in Nat \ {0} /\ Period = TickLen * Wrap
  BY Limits
<1> DEFINE k == c \div TickLen
           r == c % TickLen
<1>2. k \in Int /\ r \in 0 .. TickLen - 1 /\ c = TickLen * k + r
  BY <1>1, Division
<1> HIDE DEF k, r
<1>3. TickLen * k \in Int /\ TickLen * (-1) = - TickLen
  BY <1>1, <1>2
<1>4. k < 0 => TickLen * k <= TickLen * (-1)
  BY <1>1, <1>2, Multiples
<1>5. k >= Wrap => TickLen * k >= Period
  BY <1>1, <1>2, Multiples
<1>6. k >= 0 /\ k < Wrap
  BY <1>1, <1>2, <1>3, <1>4, <1>5
<1> QED
  BY <1>1, <1>2, <1>6 DEF Stamp, k

(***************************************************************************)
(* Sameness goes with sums, and one can pass from time to time by it.      *)
(***************************************************************************)
LEMMA SameSum ==
  ASSUME NEW x \in Int, NEW y \in Int, NEW z \in Int, Same(x, y)
  PROVE  Same(x + z, y + z)
<1>1. PICK n \in Int : x = y + n * Period
  BY DEF Same
<1>2. n * Period \in Int
  BY <1>1, Limits
<1>3. x + z = y + z + n * Period
  BY <1>1, <1>2
<1> QED
  BY <1>3 DEF Same

LEMMA SameTwice ==
  ASSUME NEW x \in Int, NEW y \in Int, NEW z \in Int, Same(x, y), Same(y, z)
  PROVE  Same(x, z)
<1>1. PICK n \in Int : x = y + n * Period
  BY DEF Same
<1>2. PICK m \in Int : y = z + m * Period
  BY DEF Same
<1>3. Period \in Nat
  BY Limits
<1>4. (m + n) * Period = m * Period + n * Period /\ m * Period \in Int /\ n * Period \in Int
  BY <1>3
<1>5. x = z + (m + n) * Period /\ m + n \in Int
  BY <1>1, <1>2, <1>4
<1> QED
  BY <1>5 DEF Same

LEMMA SameBack ==
  ASSUME NEW x \in Int, NEW y \in Int, Same(x, y)
  PROVE  Same(y, x)
<1>1. PICK n \in Int : x = y + n * Period
  BY DEF Same
<1>2. Period \in Nat
  BY Limits
<1>3. (-n) * Period = -(n * Period) /\ n * Period \in Int
  BY <1>2
<1>4. y = x + (-n) * Period /\ -n \in Int
  BY <1>1, <1>3
<1> QED
  BY <1>4 DEF Same

LEMMA SameNow ==
  ASSUME NEW x \in Int
  PROVE  Same(x, x)
<1>1. x = x + 0 * Period
  BY Limits
<1> QED
  BY <1>1 DEF Same

\* A clock wraps, and so does a timestamp.
LEMMA SameWrapped ==
  ASSUME NEW x \in Int
  PROVE  /\ x % Period \in 0 .. Period - 1 /\ Same(x % Period, x)
         /\ x % Wrap \in Stamp /\ Same((x % Wrap) * TickLen, x * TickLen)
<1>1. Wrap \in Nat \ {0} /\ TickLen \in Nat \ {0} /\ Period \in Nat \ {0} /\ Period = Wrap * TickLen
  BY Limits
<1>2. Same(x % Period, x)
  <2> DEFINE k == x \div Period
             r == x % Period
  <2>period. Period \in Nat \ {0}
    BY <1>1
  <2>divided. k \in Int /\ r \in 0 .. Period - 1 /\ x = Period * k + r
    BY <2>period, Division
  <2> HIDE DEF k, r
  <2>1. k \in Int /\ r \in Int /\ x = Period * k + r
    BY <2>divided
  <2>2. (-k) * Period = -(Period * k) /\ Period * k \in Int
    BY <1>1, <2>1
  <2>3. r = x + (-k) * Period /\ -k \in Int
    BY <2>1, <2>2
  <2> QED
    BY <2>3 DEF Same, r
<1>3. Same((x % Wrap) * TickLen, x * TickLen)
  <2> DEFINE k == x \div Wrap
             r == x % Wrap
  <2>1. k \in Int /\ r \in Int /\ x = Wrap * k + r
    BY <1>1, Division
  <2> HIDE DEF k, r
  <2>2. x * TickLen = (Wrap * k) * TickLen + r * TickLen
    BY <1>1, <2>1
  <2>3. (Wrap * k) * TickLen = k * (Wrap * TickLen) /\ (-k) * (Wrap * TickLen) = -(k * (Wrap * TickLen))
    BY <1>1, <2>1
  <2>4. k * Period \in Int /\ r * TickLen \in Int
    BY <1>1, <2>1
  <2>5. r * TickLen = x * TickLen + (-k) * Period /\ -k \in Int
    BY <1>1, <2>1, <2>2, <2>3, <2>4
  <2> QED
    BY <2>5 DEF Same, r
<1>4. x % Period \in 0 .. Period - 1
  BY <1>1, Division
<1>5. x % Wrap \in Stamp
  BY <1>1, Division DEF Stamp
<1> QED
  BY <1>2, <1>3, <1>4, <1>5

-----------------------------------------------------------------------------
(***************************************************************************)
(* A duration is a natural number.                                         *)
(***************************************************************************)
LEMMA DurationNat ==
  ASSUME NEW ticks \in Nat
  PROVE  Duration(ticks) \in Nat
<1>1. TickLen \in Nat /\ Fine \in Nat
  BY RoundTripAssumption
<1>2. ticks * TickLen \in Nat
  BY <1>1
<1> QED BY <1>1, <1>2 DEF Duration

(***************************************************************************)
(* The estimate after a sample is one, its mrto is above the sample, and   *)
(* its erto is where it has to be.                                         *)
(***************************************************************************)
LEMMA EstimateCovers ==
  ASSUME NEW old \in EstimateType, NEW rtt \in Nat
  PROVE  /\ Estimate(old, rtt) \in EstimateType
         /\ Estimate(old, rtt).mrto >= rtt + Margin - 4
         /\ Estimate(old, rtt).erto >= Estimate(old, rtt).mrto
         /\ Estimate(old, rtt).erto <= LongerOf(MaxErto, Estimate(old, rtt).mrto)
<1> DEFINE s == IF old.srtt = 0 THEN rtt ELSE (7 * old.srtt + rtt) \div 8
           v == IF old.srtt = 0 THEN rtt \div 2
                ELSE (3 * old.rttvar + Distance(old.srtt, rtt)) \div 4
           m == s + 4 * v + Margin
<1>1. old.srtt \in Nat /\ old.rttvar \in Nat
  BY DEF EstimateType
<1>2. Margin \in Nat /\ MinErto \in Nat /\ MaxErto \in Nat /\ MinErto <= MaxErto
  BY RoundTripAssumption
<1>3. s \in Nat /\ v \in Nat /\ s + 4 * v >= rtt - 4
  <2>1. CASE old.srtt = 0
    BY <1>1, <2>1
  <2>2. CASE old.srtt # 0
    <3>1. Distance(old.srtt, rtt) \in Nat
          /\ Distance(old.srtt, rtt) >= rtt - old.srtt
          /\ Distance(old.srtt, rtt) >= old.srtt - rtt
      BY <1>1 DEF Distance
    <3>2. s = (7 * old.srtt + rtt) \div 8
          /\ v = (3 * old.rttvar + Distance(old.srtt, rtt)) \div 4
      BY <2>2
    <3>. HIDE DEF s, v
    <3>3. s \in Nat /\ 8 * s >= 7 * old.srtt + rtt - 7
      BY <1>1, <3>2
    <3>4. v \in Nat /\ 4 * v >= 3 * old.rttvar + Distance(old.srtt, rtt) - 3
      BY <1>1, <3>1, <3>2
    <3>5. 8 * s + 32 * v >= 8 * rtt - 31
      BY <1>1, <3>1, <3>3, <3>4
    <3> QED BY <3>3, <3>4, <3>5
  <2> QED BY <2>1, <2>2
<1>4. Estimate(old, rtt) =
        [srtt |-> s, rttvar |-> v, mrto |-> m, erto |-> LongerOf(m, MinErto)]
  BY DEF Estimate
<1>. HIDE DEF s, v
<1>5. m \in Nat /\ m >= rtt + Margin - 4
  BY <1>2, <1>3
<1>. HIDE DEF m
<1>6. LongerOf(m, MinErto) \in Nat
      /\ LongerOf(m, MinErto) >= m
      /\ LongerOf(m, MinErto) <= LongerOf(MaxErto, m)
  BY <1>2, <1>5 DEF LongerOf
<1> QED BY <1>3, <1>4, <1>5, <1>6 DEF EstimateType

(***************************************************************************)
(* A backoff never makes erto less, and keeps it where it has to be.       *)
(***************************************************************************)
LEMMA BackedOffGrows ==
  ASSUME NEW old \in EstimateType,
         old.erto >= old.mrto, old.erto <= LongerOf(MaxErto, old.mrto)
  PROVE  /\ BackedOff(old) \in Nat
         /\ BackedOff(old) >= old.erto
         /\ BackedOff(old) >= old.mrto
         /\ BackedOff(old) <= LongerOf(MaxErto, old.mrto)
<1>1. old.erto \in Nat /\ old.mrto \in Nat /\ MaxErto \in Nat
  BY RoundTripAssumption DEF EstimateType
<1> DEFINE more == (old.erto * 14142) \div 10000
<1>2. more \in Nat /\ more >= old.erto
  BY <1>1
<1>3. BackedOff(old) = LongerOf(ShorterOf(more, MaxErto), old.mrto)
  BY DEF BackedOff
<1>. HIDE DEF more
<1> QED BY <1>1, <1>2, <1>3 DEF LongerOf, ShorterOf

(***************************************************************************)
(* A backoff keeps the estimate above the last sample.                     *)
(***************************************************************************)
LEMMA BackoffCovers ==
  ASSUME NEW old \in EstimateType, NEW ticks \in Nat \cup {-1}, Covers(old, ticks)
  PROVE  /\ [old EXCEPT !.erto = BackedOff(old)] \in EstimateType
         /\ Covers([old EXCEPT !.erto = BackedOff(old)], ticks)
<1> DEFINE new == [old EXCEPT !.erto = BackedOff(old)]
<1>1. BackedOff(old) \in Nat /\ BackedOff(old) >= old.mrto
      /\ BackedOff(old) <= LongerOf(MaxErto, old.mrto)
  BY BackedOffGrows DEF Covers
<1>2. new \in EstimateType /\ new.mrto = old.mrto /\ new.erto = BackedOff(old)
  BY <1>1 DEF EstimateType
<1> QED BY <1>1, <1>2 DEF Covers, new

-----------------------------------------------------------------------------
(***************************************************************************)
(* Types.                                                                  *)
(***************************************************************************)
StampsType == [ts_rx : Stamp, ts_echo_tx : Stamp, ts_tx : Stamp, ts_echo_rx : Stamp]

PacketType == [to : End, ts : Stamp, echo : Stamp, leg : 0 .. MaxDelay, age : 0 .. MaxDelay]

LEMMA TimestampType ==
  ASSUME RttTypeOK, NEW e \in End
  PROVE  Timestamp(e) \in Stamp /\ Stamp \subseteq Nat /\ 0 \in Stamp /\ Other(e) \in End
<1>1. clock[e] \in 0 .. Period - 1
  BY DEF RttTypeOK, Period
<1>2. clock[e] \div TickLen \in Stamp
  BY <1>1, StampOfClock
<1>3. Stamp \subseteq Nat /\ 0 \in Stamp
  BY Limits DEF Stamp
<1> QED
  BY <1>2, <1>3 DEF Timestamp, End, Other

LEMMA EchoType ==
  ASSUME RttTypeOK, NEW e \in End
  PROVE  /\ Echo(e) \in Stamp
         /\ stamps[e] \in StampsType
         /\ \A p \in net : RttTicks(e, p) \in Nat
<1>1. Wrap \in Nat \ {0} /\ TickLen \in Nat \ {0} /\ Stamp \subseteq Nat
  BY Limits DEF Stamp
<1>2. stamps[e] \in StampsType /\ ts_rx_age[e] \in Nat
  BY Limits DEF RttTypeOK, StampsType
<1>3. Echo(e) \in Stamp
  <2> DEFINE k == stamps[e].ts_rx + ts_rx_age[e] \div TickLen
  <2>1. k \in Int
    <3> DEFINE age == ts_rx_age[e]
               rx  == stamps[e].ts_rx
    <3>1. age \in Int /\ rx \in Stamp
      BY <1>2 DEF StampsType
    <3> HIDE DEF age, rx
    <3>2. age \div TickLen \in Int
      BY <1>1, <3>1
    <3>3. rx \in Int
      BY <1>1, <3>1
    <3>4. rx + age \div TickLen \in Int
      BY <3>2, <3>3
    <3> QED
      BY <3>4 DEF age, rx
  <2> HIDE DEF k
  <2>2. k % Wrap \in Stamp
    BY <2>1, SameWrapped
  <2> QED
    BY <2>2 DEF Echo, k
<1>4. ASSUME NEW p \in net PROVE RttTicks(e, p) \in Nat
  <2> DEFINE k == Timestamp(e) - p.echo
  <2>1. k \in Int
    <3>1. p \in PacketType
      BY DEF RttTypeOK, PacketType
    <3>2. p.echo \in Stamp
      BY <3>1 DEF PacketType
    <3>3. Timestamp(e) \in Stamp
      BY TimestampType
    <3>4. p.echo \in Nat /\ Timestamp(e) \in Nat
      BY <1>1, <3>2, <3>3, Zenon
    <3> HIDE DEF Timestamp
    <3> QED
      BY <3>4
  <2> HIDE DEF k
  <2>2. k % Wrap \in Stamp
    BY <2>1, SameWrapped
  <2> QED
    BY <1>1, <2>2 DEF RttTicks, k
<1> QED
  BY <1>2, <1>3, <1>4

LEMMA SendTypes ==
  ASSUME RttTypeOK, NEW e \in End, SendChunk(e)
  PROVE  RttTypeOK'
<1> DEFINE rx   == IF Young(e) THEN stamps[e].ts_rx ELSE 0
           etx  == IF Young(e) THEN Echo(e) ELSE stamps[e].ts_echo_tx
           new  == [stamps[e] EXCEPT !.ts_tx = Timestamp(e), !.ts_rx = rx, !.ts_echo_tx = etx]
           ts   == IF stamps[e].ts_tx = Timestamp(e) THEN 0 ELSE Timestamp(e)
           echo == IF Young(e) /\ stamps[e].ts_echo_tx # Echo(e) THEN Echo(e) ELSE 0
           q    == [to |-> Other(e), ts |-> ts, echo |-> echo, leg |-> leg[e], age |-> 0]
<1>1. /\ count < MaxSent /\ count' = count + 1
      /\ stamps' = [stamps EXCEPT ![e] = new]
      /\ ts_rx_age' = [ts_rx_age EXCEPT ![e] = IF Young(e) THEN @ ELSE LongAgo]
      /\ net' = net \cup {q}
      /\ UNCHANGED <<clock, estimate, leg, sample>>
  BY DEF SendChunk
<1>2. /\ Timestamp(e) \in Stamp /\ Echo(e) \in Stamp /\ 0 \in Stamp /\ Other(e) \in End
      /\ stamps[e] \in StampsType
  BY TimestampType, EchoType
<1>3. rx \in Stamp /\ etx \in Stamp /\ ts \in Stamp /\ echo \in Stamp
  BY <1>2 DEF StampsType
<1>4. new \in StampsType
  <2> HIDE DEF rx, etx
  <2> QED
    BY <1>2, <1>3 DEF StampsType
<1>5. q \in PacketType
  <2> HIDE DEF ts, echo
  <2> QED
    BY <1>2, <1>3, Limits DEF PacketType, RttTypeOK
<1> HIDE DEF new, q
<1>6. stamps' \in [End -> StampsType]
  BY <1>1, <1>4 DEF RttTypeOK, StampsType
<1>7. net' \subseteq PacketType
  BY <1>1, <1>5 DEF RttTypeOK, PacketType
<1>8. ts_rx_age' \in [End -> 0 .. LongAgo]
  BY <1>1, Limits DEF RttTypeOK
<1>9. count' \in 0 .. MaxSent
  BY <1>1, RoundTripAssumption DEF RttTypeOK
<1> QED
  BY <1>1, <1>6, <1>7, <1>8, <1>9 DEF RttTypeOK, StampsType, PacketType

LEMMA RecvTypes ==
  ASSUME RttTypeOK, NEW e \in End, NEW p \in net, RecvPacketInfo(e, p)
  PROVE  RttTypeOK'
<1> DEFINE ticks == RttTicks(e, p)
           taken == NewEcho(e, p) /\ ticks <= MaxSample
           rx    == IF NewTimestamp(e, p) THEN p.ts ELSE stamps[e].ts_rx
           erx   == IF NewEcho(e, p) THEN p.echo ELSE stamps[e].ts_echo_rx
           new   == [stamps[e] EXCEPT !.ts_rx = rx, !.ts_echo_rx = erx]
<1>1. /\ net' \subseteq net
      /\ stamps' = [stamps EXCEPT ![e] = new]
      /\ ts_rx_age' = [ts_rx_age EXCEPT ![e] = IF NewTimestamp(e, p) THEN 0 ELSE @]
      /\ leg' = [leg EXCEPT ![e] = IF NewTimestamp(e, p) THEN p.age ELSE @]
      /\ estimate' = [estimate EXCEPT
              ![e] = IF taken THEN Estimate(@, Duration(ticks)) ELSE @]
      /\ sample' = [sample EXCEPT
              ![e] = IF taken THEN [ticks |-> ticks, real |-> p.leg + p.age] ELSE @]
      /\ UNCHANGED <<clock, count>>
  BY DEF RecvPacketInfo
<1>2. /\ p \in PacketType /\ stamps[e] \in StampsType /\ ticks \in Nat
      /\ estimate[e] \in EstimateType
  BY EchoType DEF RttTypeOK, PacketType, EstimateType
<1>3. rx \in Stamp /\ erx \in Stamp
  BY <1>2 DEF StampsType, PacketType
<1>4. new \in StampsType
  <2> HIDE DEF rx, erx
  <2> QED
    BY <1>2, <1>3 DEF StampsType
<1>5. Estimate(estimate[e], Duration(ticks)) \in EstimateType
  BY <1>2, DurationNat, EstimateCovers
<1> HIDE DEF new, ticks, taken
<1>6. stamps' \in [End -> StampsType]
  BY <1>1, <1>4 DEF RttTypeOK, StampsType
<1>7. estimate' \in [End -> EstimateType]
  BY <1>1, <1>5 DEF RttTypeOK, EstimateType
<1>8. ts_rx_age' \in [End -> 0 .. LongAgo] /\ leg' \in [End -> 0 .. MaxDelay]
  BY <1>1, <1>2, Limits DEF RttTypeOK, PacketType
<1>9. sample' \in [End -> [ticks : Nat \cup {-1}, real : Nat \cup {-1}]]
  <2>1. p.leg + p.age \in Nat
    BY <1>2, Limits DEF PacketType
  <2>2. [ticks |-> ticks, real |-> p.leg + p.age] \in [ticks : Nat \cup {-1}, real : Nat \cup {-1}]
    BY <1>2, <2>1
  <2> QED
    BY <1>1, <2>2 DEF RttTypeOK
<1> QED
  BY <1>1, <1>6, <1>7, <1>8, <1>9 DEF RttTypeOK, StampsType, EstimateType

LEMMA TimeTypes ==
  ASSUME RttTypeOK, TimePasses
  PROVE  RttTypeOK'
<1>1. /\ \A p \in net : p.age < MaxDelay
      /\ clock' = [e \in End |-> (clock[e] + 1) % Period]
      /\ ts_rx_age' = [e \in End |-> ShorterOf(ts_rx_age[e] + 1, LongAgo)]
      /\ net' = {[p EXCEPT !.age = @ + 1] : p \in net}
      /\ UNCHANGED <<stamps, estimate, sample, count, leg>>
  BY DEF TimePasses, Period
<1>2. clock' \in [End -> 0 .. Period - 1]
  <2>1. ASSUME NEW e \in End PROVE (clock[e] + 1) % Period \in 0 .. Period - 1
    <3>1. clock[e] + 1 \in Int
      BY Limits DEF RttTypeOK, Period
    <3> QED
      BY <3>1, SameWrapped
  <2> QED
    BY <1>1, <2>1
<1>3. ts_rx_age' \in [End -> 0 .. LongAgo]
  <2>1. ASSUME NEW e \in End PROVE ShorterOf(ts_rx_age[e] + 1, LongAgo) \in 0 .. LongAgo
    BY Limits DEF RttTypeOK, ShorterOf
  <2> QED
    BY <1>1, <2>1
<1>4. net' \subseteq PacketType
  <2> SUFFICES ASSUME NEW p \in net PROVE [p EXCEPT !.age = @ + 1] \in PacketType
    BY <1>1
  <2>1. p \in PacketType /\ p.age < MaxDelay
    BY <1>1 DEF RttTypeOK, PacketType
  <2>2. p.age + 1 \in 0 .. MaxDelay
    BY <2>1, Limits DEF PacketType
  <2> QED
    BY <2>1, <2>2 DEF PacketType
<1> QED
  BY <1>1, <1>2, <1>3, <1>4 DEF RttTypeOK, PacketType, Period

LEMMA BackoffTypes ==
  ASSUME RttTypeOK, EstimatesCover, NEW e \in End, Backoff(e)
  PROVE  RttTypeOK'
<1> DEFINE new == [estimate[e] EXCEPT !.erto = BackedOff(estimate[e])]
<1>1. estimate[e] \in EstimateType /\ sample[e].ticks \in Nat \cup {-1}
  BY DEF RttTypeOK, EstimateType
<1>2. new \in EstimateType
  BY <1>1, BackoffCovers DEF EstimatesCover
<1>3. estimate' = [estimate EXCEPT ![e] = new]
      /\ UNCHANGED <<clock, stamps, ts_rx_age, net, count, leg, sample>>
  BY DEF Backoff
<1> HIDE DEF new
<1>4. estimate' \in [End -> EstimateType]
  BY <1>2, <1>3 DEF RttTypeOK, EstimateType
<1> QED
  BY <1>3, <1>4 DEF RttTypeOK, EstimateType

LEMMA RttTypesStep ==
  ASSUME RttTypeOK, EstimatesCover, RttNext \/ UNCHANGED rttVars
  PROVE  RttTypeOK'
<1>1. CASE UNCHANGED rttVars
  BY <1>1 DEF rttVars, RttTypeOK
<1>2. ASSUME NEW p \in net, LosePacket(p)
      PROVE  RttTypeOK'
  BY <1>2 DEF LosePacket, RttTypeOK
<1> QED
  BY <1>1, <1>2, SendTypes, RecvTypes, TimeTypes, BackoffTypes DEF RttNext

-----------------------------------------------------------------------------
(***************************************************************************)
(* The estimates keep their relation to the samples they were made of.     *)
(***************************************************************************)
LEMMA EstimatesStep ==
  ASSUME RttTypeOK, EstimatesCover, RttNext \/ UNCHANGED rttVars
  PROVE  EstimatesCover'
<1>1. CASE UNCHANGED <<estimate, sample>>
  BY <1>1 DEF EstimatesCover
<1>2. ASSUME NEW e \in End, Backoff(e)
      PROVE  EstimatesCover'
  <2> DEFINE new == [estimate[e] EXCEPT !.erto = BackedOff(estimate[e])]
  <2>1. estimate[e] \in EstimateType /\ sample[e].ticks \in Nat \cup {-1}
        /\ DOMAIN estimate = End
    BY DEF RttTypeOK, EstimateType
  <2>2. Covers(new, sample[e].ticks)
    BY <2>1, BackoffCovers DEF EstimatesCover
  <2>3. estimate' = [estimate EXCEPT ![e] = new] /\ UNCHANGED sample
    BY <1>2 DEF Backoff
  <2> HIDE DEF new
  <2>4. \A f \in End : Covers(estimate'[f], sample'[f].ticks)
    BY <2>1, <2>2, <2>3 DEF EstimatesCover
  <2> QED
    BY <2>3, <2>4 DEF EstimatesCover
<1>3. ASSUME NEW e \in End, NEW p \in net, RecvPacketInfo(e, p)
      PROVE  EstimatesCover'
  <2> DEFINE ticks == RttTicks(e, p)
             taken == NewEcho(e, p) /\ ticks <= MaxSample
             est   == Estimate(estimate[e], Duration(ticks))
  <2>1. ticks \in Nat /\ Duration(ticks) \in Nat /\ estimate[e] \in EstimateType
    BY EchoType, DurationNat DEF RttTypeOK, EstimateType
  <2>2. Covers(est, ticks)
    BY <2>1, EstimateCovers DEF Covers
  <2>3. /\ estimate' = [estimate EXCEPT ![e] = IF taken THEN est ELSE @]
        /\ sample' = [sample EXCEPT
              ![e] = IF taken THEN [ticks |-> ticks, real |-> p.leg + p.age] ELSE @]
        /\ DOMAIN estimate = End /\ DOMAIN sample = End
    BY <1>3 DEF RecvPacketInfo, RttTypeOK
  <2> HIDE DEF ticks, taken, est
  <2>4. CASE taken
    <3>1. sample'[e] = [ticks |-> ticks, real |-> p.leg + p.age] /\ estimate'[e] = est
          /\ \A f \in End : f # e => sample'[f] = sample[f] /\ estimate'[f] = estimate[f]
      BY <2>3, <2>4
    <3>2. sample'[e].ticks = ticks /\ ticks # -1
      BY <2>1, <3>1
    <3> QED
      BY <2>2, <3>1, <3>2 DEF EstimatesCover
  <2>5. CASE ~ taken
    <3>1. estimate' = [estimate EXCEPT ![e] = @] /\ sample' = [sample EXCEPT ![e] = @]
      BY <2>3, <2>5
    <3>2. UNCHANGED <<estimate, sample>>
      BY <2>3, <3>1 DEF RttTypeOK
    <3> QED
      BY <1>1, <3>2
  <2> QED
    BY <2>4, <2>5
<1>4. \/ UNCHANGED <<estimate, sample>>
      \/ \E e \in End : Backoff(e) \/ \E p \in net : RecvPacketInfo(e, p)
  BY DEF RttNext, rttVars, SendChunk, LosePacket, TimePasses
<1> QED
  BY <1>1, <1>2, <1>3, <1>4

-----------------------------------------------------------------------------
(***************************************************************************)
(* A sample is the time in transit, but for the fractions of a tick: the   *)
(* ticks between now and the echo, times their length, differ from it by   *)
(* the fraction that now has, those that were lost, and times the clock    *)
(* went round, of which there are none, since a packet that is delayed     *)
(* and held as long as may be is younger than that.                        *)
(***************************************************************************)
Right(ticks, real) ==
  ticks * TickLen > real - TickLen /\ ticks * TickLen < real + 2 * TickLen

LEMMA SampleRight ==
  ASSUME RttTypeOK, EchoesAge, NEW e \in End, NEW p \in net, p.to = e, p.echo # 0
  PROVE  Right(RttTicks(e, p), p.leg + p.age)
<1> DEFINE T == TickLen
           d == p.leg + p.age
           c == clock[e]
           k == c \div TickLen
           f == c % TickLen
           echo == p.echo
<1>1. /\ Wrap \in Nat \ {0} /\ T \in Nat \ {0} /\ Period \in Nat \ {0} /\ Period = T * Wrap
      /\ EchoLimit + 2 * MaxDelay + T < Period /\ EchoLimit \in Nat /\ MaxDelay \in Nat
  BY Limits
<1>2. d \in 0 .. 2 * MaxDelay /\ echo \in Nat /\ c \in Nat
  BY <1>1 DEF RttTypeOK, Stamp
<1>3. k \in Int /\ f \in 0 .. T - 1 /\ c = T * k + f
  <2> HIDE DEF T, c
  <2>1. c \in Int /\ T \in Nat \ {0}
    BY <1>1, <1>2
  <2>2. /\ c % T \in 0 .. T - 1 /\ c \div T \in Int
        /\ c = T * (c \div T) + (c % T)
    BY <2>1, Division
  <2> QED
    BY <2>2 DEF T
<1>4. PICK r \in Fraction, held \in Fraction :
        held <= EchoLimit /\ Same(c, echo * T + r + held + d)
  BY DEF EchoesAge, EchoedAgo
<1>5. PICK n \in Int : c = echo * T + r + held + d + n * Period
  BY <1>4 DEF Same
<1>6. RttTicks(e, p) = (k - echo) % Wrap
  BY DEF RttTicks, Timestamp
<1> HIDE DEF T, d, c, k, f, echo
<1> DEFINE z == k - echo - Wrap * n
<1>7. z \in Int /\ T * z = d + r + held - f
  <2>1. Wrap * n \in Int /\ T * k \in Int /\ T * echo \in Int /\ echo * T = T * echo
        /\ n * Period \in Int
    BY <1>1, <1>2, <1>3
  <2>2. n * Period = T * (Wrap * n)
    BY <1>1
  <2>3. T * z = T * k - T * echo - T * (Wrap * n)
    BY <1>1, <1>2, <1>3, <2>1
  <2>4. r \in Int /\ held \in Int /\ f \in Int /\ d \in Int
    BY <1>1, <1>2, <1>3, <1>4 DEF Fraction, T
  <2>5. T * (Wrap * n) \in Int
    BY <1>1, <2>1
  <2> QED
    BY <1>2, <1>3, <1>5, <2>1, <2>2, <2>3, <2>4, <2>5
<1> HIDE DEF z
<1>8. T * z > d - T /\ T * z < d + 2 * T /\ T * z < Period
  <2>1. r \in 0 .. T - 1 /\ held \in 0 .. T - 1 /\ held <= EchoLimit
    BY <1>4 DEF Fraction, T
  <2> QED
    BY <1>1, <1>2, <1>3, <1>7, <2>1
<1>9. z \in 0 .. Wrap - 1
  <2>1. T * z \in Int /\ T * (-1) = -T
    BY <1>1, <1>7
  <2>2. z < 0 => T * z <= T * (-1)
    BY <1>1, <1>7, Multiples
  <2>3. z >= Wrap => T * z >= T * Wrap
    BY <1>1, <1>7, Multiples
  <2> QED
    BY <1>1, <1>2, <1>7, <1>8, <2>1, <2>2, <2>3
<1>10. (k - echo) % Wrap = z
  <2> DEFINE x == k - echo
             q == x \div Wrap
             m == x % Wrap
  <2>1. x \in Int /\ x = z + Wrap * n /\ Wrap * n \in Int
    BY <1>1, <1>2, <1>3, <1>7 DEF z
  <2> HIDE DEF x
  <2>2. q \in Int /\ m \in 0 .. Wrap - 1 /\ x = Wrap * q + m
    BY <1>1, <2>1, Division
  <2> HIDE DEF q, m
  <2>3. Wrap * q \in Int /\ Wrap * (q - n) = Wrap * q - Wrap * n
    BY <1>1, <2>2, Multiples
  <2>4. Wrap * (q - n) = z - m
    BY <1>1, <1>9, <2>1, <2>2, <2>3
  <2>5. q - n <= -1 => Wrap * (q - n) <= Wrap * (-1)
    BY <1>1, <2>2, Multiples
  <2>6. q - n >= 1 => Wrap * (q - n) >= Wrap * 1
    BY <1>1, <2>2, Multiples
  <2>7. Wrap * (-1) = -Wrap /\ Wrap * 1 = Wrap /\ Wrap * 0 = 0
    BY <1>1
  <2>8. q - n = 0
    BY <1>1, <1>9, <2>2, <2>4, <2>5, <2>6, <2>7
  <2>9. z = m
    BY <1>9, <2>2, <2>4, <2>7, <2>8
  <2> QED
    BY <2>9 DEF x, m
<1>11. z * T = T * z
  BY <1>1, <1>7
<1>12. Right(z, d)
  BY <1>8, <1>11 DEF Right, T
<1>13. RttTicks(e, p) = z
  BY <1>6, <1>10
<1> QED
  BY <1>12, <1>13 DEF d

LEMMA SampleStep ==
  ASSUME RttTypeOK, EchoesAge, SampleIsRoundTrip, RttNext \/ UNCHANGED rttVars
  PROVE  SampleIsRoundTrip'
<1>1. CASE UNCHANGED sample
  BY <1>1 DEF SampleIsRoundTrip, Sampled
<1>2. ASSUME NEW e \in End, NEW p \in net, RecvPacketInfo(e, p)
      PROVE  SampleIsRoundTrip'
  <2> DEFINE ticks == RttTicks(e, p)
             taken == NewEcho(e, p) /\ ticks <= MaxSample
             new   == [ticks |-> ticks, real |-> p.leg + p.age]
  <2>1. /\ sample' = [sample EXCEPT ![e] = IF taken THEN new ELSE @]
        /\ DOMAIN sample = End /\ p.to = e
    BY <1>2 DEF RecvPacketInfo, RttTypeOK
  <2>2. taken => Right(ticks, p.leg + p.age)
    BY <2>1, SampleRight DEF NewEcho
  <2> HIDE DEF ticks, taken
  <2>3. CASE taken
    <3>1. sample'[e] = new /\ \A f \in End : f # e => sample'[f] = sample[f]
      BY <2>1, <2>3
    <3>2. new.ticks = ticks /\ new.real = p.leg + p.age
      OBVIOUS
    <3> HIDE DEF new
    <3>3. Right(sample'[e].ticks, sample'[e].real)
      BY <2>2, <2>3, <3>1, <3>2
    <3>4. \A f \in End : sample'[f].real # -1 => Right(sample'[f].ticks, sample'[f].real)
      BY <3>1, <3>3 DEF SampleIsRoundTrip, Sampled, Right
    <3> QED
      BY <3>4 DEF SampleIsRoundTrip, Sampled, Right
  <2>4. CASE ~ taken
    <3>1. sample' = [sample EXCEPT ![e] = @]
      BY <2>1, <2>4
    <3>2. UNCHANGED sample
      BY <2>1, <3>1 DEF RttTypeOK
    <3> QED
      BY <1>1, <3>2
  <2> QED
    BY <2>3, <2>4
<1>3. UNCHANGED sample \/ \E e \in End : \E p \in net : RecvPacketInfo(e, p)
  BY DEF RttNext, rttVars, SendChunk, Backoff, LosePacket, TimePasses
<1> QED
  BY <1>1, <1>2, <1>3

-----------------------------------------------------------------------------
(***************************************************************************)
(* Everything is one older when time has passed, also when a clock wraps.  *)
(***************************************************************************)
LEMMA ClockStep ==
  ASSUME RttTypeOK, TimePasses, NEW e \in End, NEW y \in Int, Same(clock[e], y)
  PROVE  Same(clock'[e], y + 1)
<1>1. clock[e] \in Int
  BY Limits DEF RttTypeOK
<1>2. clock'[e] = (clock[e] + 1) % Period
  BY DEF TimePasses, Period
<1> DEFINE x == clock[e] + 1
<1>3. x \in Int /\ Same(x, y + 1)
  BY <1>1, SameSum
<1> HIDE DEF x
<1>4. x % Period \in Int /\ Same(x % Period, x)
  BY <1>3, SameWrapped, Limits
<1>5. Same(x % Period, y + 1)
  BY <1>3, <1>4, SameTwice
<1> QED
  BY <1>2, <1>5 DEF x

LEMMA OlderStamps ==
  ASSUME RttTypeOK, TimePasses, NEW e \in End, NEW ts \in Stamp, NEW age \in Nat
  PROVE  /\ TakenAgo(e, ts, age) => TakenAgo(e, ts, age + 1)'
         /\ EchoedAgo(e, ts, age) => EchoedAgo(e, ts, age + 1)'
<1>1. TickLen \in Nat /\ ts \in Nat /\ ts * TickLen \in Nat /\ Fraction \subseteq Nat
  BY Limits DEF Stamp, Fraction
<1> DEFINE b == ts * TickLen
<1>2. ASSUME NEW r \in Fraction, Same(clock[e], b + r + age)
      PROVE  Same(clock'[e], b + r + (age + 1))
  <2>1. b + r + age \in Int /\ b + r + age + 1 = b + r + (age + 1)
    BY <1>1
  <2> HIDE DEF b
  <2> QED
    BY <1>2, <2>1, ClockStep
<1>3. ASSUME NEW r \in Fraction, NEW held \in Fraction, Same(clock[e], b + r + held + age)
      PROVE  Same(clock'[e], b + r + held + (age + 1))
  <2>1. b + r + held + age \in Int /\ b + r + held + age + 1 = b + r + held + (age + 1)
    BY <1>1
  <2> HIDE DEF b
  <2> QED
    BY <1>3, <2>1, ClockStep
<1> HIDE DEF b
<1>4. TakenAgo(e, ts, age) => TakenAgo(e, ts, age + 1)'
  BY <1>2 DEF TakenAgo, b
<1>5. EchoedAgo(e, ts, age) => EchoedAgo(e, ts, age + 1)'
  BY <1>3 DEF EchoedAgo, b
<1> QED
  BY <1>4, <1>5

(***************************************************************************)
(* A timestamp is that of now; an echo stands for the time that the        *)
(* timestamp was under way, for its age was put on it.                     *)
(***************************************************************************)
LEMMA StampTaken ==
  ASSUME RttTypeOK, NEW e \in End
  PROVE  TakenAgo(e, Timestamp(e), 0)
<1> DEFINE c == clock[e]
           k == c \div TickLen
           r == c % TickLen
<1>1. c \in Int /\ TickLen \in Nat \ {0}
  BY Limits DEF RttTypeOK
<1>2. /\ c % TickLen \in 0 .. TickLen - 1 /\ c \div TickLen \in Int
      /\ c = TickLen * (c \div TickLen) + (c % TickLen)
  <2> HIDE DEF c
  <2> QED
    BY <1>1, Division
<1>3. r \in Fraction /\ k \in Int /\ c = TickLen * k + r
  BY <1>2 DEF Fraction
<1> HIDE DEF c, k, r
<1>4. TickLen * k = k * TickLen /\ k * TickLen \in Int /\ r \in Int
  BY <1>1, <1>3 DEF Fraction
<1>5. c = k * TickLen + r + 0
  BY <1>1, <1>3, <1>4
<1>6. Same(c, c)
  BY <1>1, SameNow
<1>7. Same(c, k * TickLen + r + 0)
  BY <1>5, <1>6
<1> QED
  BY <1>3, <1>7 DEF TakenAgo, Timestamp, c, k

LEMMA EchoTaken ==
  ASSUME RttTypeOK, StampsAge, NEW e \in End, Young(e)
  PROVE  EchoedAgo(Other(e), Echo(e), leg[e])
<1> DEFINE T == TickLen
           o == clock[Other(e)]
           rx == stamps[e].ts_rx
           a == ts_rx_age[e]
           h == a \div T
           held == a % T
           l == leg[e]
           x == rx + h
           w == x % Wrap
<1>1. PICK r \in Fraction : Same(o, rx * T + r + (l + a))
  BY DEF StampsAge, TakenAgo
<1>2. Other(e) \in End
  BY TimestampType
<1>3. /\ T \in Nat \ {0} /\ Wrap \in Nat \ {0} /\ EchoLimit \in Nat /\ a \in Nat /\ a <= EchoLimit
      /\ l \in Nat /\ o \in Int /\ r \in Nat
  BY <1>2, Limits DEF RttTypeOK, Young, Fraction
<1>4. rx \in Nat
  <2>1. stamps[e] \in StampsType
    BY EchoType
  <2>2. rx \in Stamp
    BY <2>1 DEF StampsType
  <2> QED
    BY <2>2, Limits DEF Stamp
<1>5. held \in 0 .. T - 1 /\ h \in Int /\ a = T * h + held
  <2> HIDE DEF T, a
  <2>1. a \in Int /\ T \in Nat \ {0}
    BY <1>3
  <2>2. /\ a % T \in 0 .. T - 1 /\ a \div T \in Int
        /\ a = T * (a \div T) + (a % T)
    BY <2>1, Division
  <2> QED
    BY <2>2
<1>6. Echo(e) = w
  BY DEF Echo
<1> HIDE DEF T, o, rx, a, h, held, l, x, w
<1>7. h >= 0
  <2>1. h <= -1 => T * h <= T * (-1)
    BY <1>3, <1>5, Multiples
  <2>2. T * (-1) = -T /\ T * h \in Int
    BY <1>3, <1>5
  <2> QED
    BY <1>3, <1>5, <2>1, <2>2
<1>8. held \in Fraction /\ held <= EchoLimit
  <2>1. T * h >= 0
    BY <1>3, <1>5, <1>7
  <2>2. T * h \in Int
    BY <1>3, <1>5
  <2> QED
    BY <1>3, <1>5, <2>1, <2>2 DEF Fraction, T
<1>9. x \in Int /\ w \in Int /\ w * T \in Int /\ x * T \in Int /\ Same(w * T, x * T)
  <2>1. x \in Int
    BY <1>4, <1>5 DEF x
  <2>2. w \in Stamp /\ Same(w * T, x * T)
    BY <2>1, SameWrapped DEF w, T
  <2>3. w \in Int
    BY <2>2, Limits DEF Stamp
  <2> QED
    BY <1>3, <2>1, <2>2, <2>3
<1>10. x * T = rx * T + T * h /\ rx * T \in Int /\ T * h \in Int
  BY <1>3, <1>4, <1>5 DEF x
<1> DEFINE z == r + held + l
<1>11. z \in Int /\ held \in Int
  BY <1>3, <1>5
<1>12. rx * T + r + (l + a) = x * T + z
  BY <1>3, <1>5, <1>10, <1>11
<1>13. w * T + r + held + l = w * T + z
  BY <1>3, <1>9, <1>11
<1> HIDE DEF z
<1>14. Same(x * T, w * T)
  BY <1>9, SameBack
<1>15. Same(x * T + z, w * T + z)
  BY <1>9, <1>11, <1>14, SameSum
<1>16. Same(o, x * T + z)
  BY <1>1, <1>12
<1>17. x * T + z \in Int /\ w * T + z \in Int
  BY <1>9, <1>11
<1>18. Same(o, w * T + z)
  BY <1>3, <1>15, <1>16, <1>17, SameTwice
<1>19. Same(o, w * T + r + held + l)
  BY <1>13, <1>18
<1> QED
  BY <1>6, <1>8, <1>19 DEF EchoedAgo, T, o, l

(***************************************************************************)
(* Timestamps and echoes in transit, and timestamps received, keep their   *)
(* ages.                                                                   *)
(***************************************************************************)
StampRight(p) == p.ts # 0 => TakenAgo(Other(p.to), p.ts, p.age)

EchoRight(p) == p.echo # 0 => EchoedAgo(p.to, p.echo, p.leg + p.age)

HeldRight(e) == Young(e) => TakenAgo(Other(e), stamps[e].ts_rx, leg[e] + ts_rx_age[e])

AgesRight ==
  /\ \A p \in net : StampRight(p) /\ EchoRight(p)
  /\ \A e \in End : HeldRight(e)

LEMMA AllAges == StampsAge /\ EchoesAge <=> AgesRight
BY DEF StampsAge, EchoesAge, AgesRight, StampRight, EchoRight, HeldRight

LEMMA SendAges ==
  ASSUME RttTypeOK, StampsAge, EchoesAge, NEW e \in End, SendChunk(e)
  PROVE  AgesRight'
<1> DEFINE rx  == IF Young(e) THEN stamps[e].ts_rx ELSE 0
           etx == IF Young(e) THEN Echo(e) ELSE stamps[e].ts_echo_tx
           new == [stamps[e] EXCEPT !.ts_tx = Timestamp(e), !.ts_rx = rx, !.ts_echo_tx = etx]
<1>1. /\ stamps' = [stamps EXCEPT ![e] = new]
      /\ ts_rx_age' = [ts_rx_age EXCEPT ![e] = IF Young(e) THEN @ ELSE LongAgo]
      /\ UNCHANGED <<clock, leg>>
  BY DEF SendChunk
<1>2. AgesRight
  BY AllAges
<1>3. PICK q :
        /\ net' = net \cup {q}
        /\ q.to = Other(e) /\ q.age = 0 /\ q.leg = leg[e]
        /\ q.ts # 0 => q.ts = Timestamp(e)
        /\ q.echo # 0 => Young(e) /\ q.echo = Echo(e)
  <2> DEFINE ts   == IF stamps[e].ts_tx = Timestamp(e) THEN 0 ELSE Timestamp(e)
             echo == IF Young(e) /\ stamps[e].ts_echo_tx # Echo(e) THEN Echo(e) ELSE 0
             x    == [to |-> Other(e), ts |-> ts, echo |-> echo, leg |-> leg[e], age |-> 0]
  <2>1. net' = net \cup {x}
    BY DEF SendChunk
  <2>2. (ts # 0 => ts = Timestamp(e)) /\ (echo # 0 => Young(e) /\ echo = Echo(e))
    OBVIOUS
  <2> HIDE DEF ts, echo
  <2>3. x.to = Other(e) /\ x.age = 0 /\ x.leg = leg[e] /\ x.ts = ts /\ x.echo = echo
    OBVIOUS
  <2> HIDE DEF x
  <2> QED
    BY <2>1, <2>2, <2>3
<1>4. StampRight(q)'
  <2>1. q.ts # 0 => TakenAgo(e, q.ts, q.age)
    BY <1>3, StampTaken
  <2>2. Other(q.to) = e
    BY <1>3 DEF Other, End
  <2> QED
    BY <1>1, <2>1, <2>2 DEF StampRight, TakenAgo
<1>5. EchoRight(q)'
  <2>1. q.leg + q.age = leg[e]
    BY <1>3, Limits DEF RttTypeOK
  <2>2. q.echo # 0 => EchoedAgo(q.to, q.echo, q.leg + q.age)
    BY <1>3, <2>1, EchoTaken
  <2> QED
    BY <1>1, <2>2 DEF EchoRight, EchoedAgo
<1>6. ASSUME NEW p \in net
      PROVE  StampRight(p)' /\ EchoRight(p)'
  <2>1. StampRight(p) /\ EchoRight(p)
    BY <1>2 DEF AgesRight
  <2> QED
    BY <1>1, <2>1 DEF StampRight, EchoRight, TakenAgo, EchoedAgo
<1>7. ASSUME NEW f \in End
      PROVE  HeldRight(f)'
  <2>1. HeldRight(f)
    BY <1>2 DEF AgesRight
  <2>2. DOMAIN stamps = End /\ DOMAIN ts_rx_age = End /\ stamps[e] \in StampsType
    BY EchoType DEF RttTypeOK
  <2>3. CASE f # e \/ Young(e)
    <3>1. stamps'[f].ts_rx = stamps[f].ts_rx
      <4>1. CASE f # e
        BY <1>1, <2>2, <4>1
      <4>2. CASE f = e
        <5>1. rx = stamps[e].ts_rx
          BY <2>3, <4>2
        <5> HIDE DEF rx, etx
        <5>2. new.ts_rx = rx
          BY <2>2 DEF StampsType
        <5> HIDE DEF new
        <5> QED
          BY <1>1, <2>2, <4>2, <5>1, <5>2
      <4> QED
        BY <4>1, <4>2
    <3>2. ts_rx_age'[f] = ts_rx_age[f]
      BY <1>1, <2>2, <2>3
    <3> QED
      BY <1>1, <2>1, <3>1, <3>2 DEF HeldRight, Young, TakenAgo
  <2>4. CASE f = e /\ ~ Young(e)
    <3>1. ts_rx_age'[f] = LongAgo
      BY <1>1, <2>2, <2>4
    <3> QED
      BY <3>1, Limits DEF HeldRight, Young
  <2> QED
    BY <2>3, <2>4
<1> QED
  BY <1>3, <1>4, <1>5, <1>6, <1>7 DEF AgesRight

LEMMA RecvAges ==
  ASSUME RttTypeOK, StampsAge, EchoesAge, NEW e \in End, NEW p \in net, RecvPacketInfo(e, p)
  PROVE  AgesRight'
<1> DEFINE rx  == IF NewTimestamp(e, p) THEN p.ts ELSE stamps[e].ts_rx
           erx == IF NewEcho(e, p) THEN p.echo ELSE stamps[e].ts_echo_rx
           new == [stamps[e] EXCEPT !.ts_rx = rx, !.ts_echo_rx = erx]
<1>1. /\ net' \subseteq net /\ p.to = e
      /\ stamps' = [stamps EXCEPT ![e] = new]
      /\ ts_rx_age' = [ts_rx_age EXCEPT ![e] = IF NewTimestamp(e, p) THEN 0 ELSE @]
      /\ leg' = [leg EXCEPT ![e] = IF NewTimestamp(e, p) THEN p.age ELSE @]
      /\ UNCHANGED clock
  BY DEF RecvPacketInfo
<1>2. AgesRight
  BY AllAges
<1>3. /\ DOMAIN stamps = End /\ DOMAIN ts_rx_age = End /\ DOMAIN leg = End
      /\ stamps[e] \in StampsType /\ p.age \in Nat
  BY EchoType, Limits DEF RttTypeOK
<1>4. ASSUME NEW q \in net'
      PROVE  StampRight(q)' /\ EchoRight(q)'
  <2>1. StampRight(q) /\ EchoRight(q)
    BY <1>1, <1>2 DEF AgesRight
  <2> QED
    BY <1>1, <2>1 DEF StampRight, EchoRight, TakenAgo, EchoedAgo
<1>5. new.ts_rx = rx
  <2> HIDE DEF rx, erx
  <2> QED
    BY <1>3 DEF StampsType
<1> HIDE DEF new
<1>6. ASSUME NEW f \in End
      PROVE  HeldRight(f)'
  <2>1. HeldRight(f)
    BY <1>2 DEF AgesRight
  <2>2. CASE f # e \/ ~ NewTimestamp(e, p)
    <3>1. stamps'[f].ts_rx = stamps[f].ts_rx
      BY <1>1, <1>3, <1>5, <2>2
    <3>2. ts_rx_age'[f] = ts_rx_age[f] /\ leg'[f] = leg[f]
      BY <1>1, <1>3, <2>2
    <3> QED
      BY <1>1, <2>1, <3>1, <3>2 DEF HeldRight, Young, TakenAgo
  <2>3. CASE f = e /\ NewTimestamp(e, p)
    <3>1. stamps'[e].ts_rx = p.ts /\ ts_rx_age'[e] = 0 /\ leg'[e] = p.age
      BY <1>1, <1>3, <1>5, <2>3
    <3>2. TakenAgo(Other(e), p.ts, p.age)
      BY <1>1, <1>2, <2>3 DEF AgesRight, StampRight, NewTimestamp
    <3>3. p.age + 0 = p.age
      BY <1>3
    <3> QED
      BY <1>1, <2>3, <3>1, <3>2, <3>3 DEF HeldRight, TakenAgo
  <2> QED
    BY <2>2, <2>3
<1> QED
  BY <1>4, <1>6 DEF AgesRight

LEMMA TimeAges ==
  ASSUME RttTypeOK, StampsAge, EchoesAge, TimePasses
  PROVE  AgesRight'
<1>1. /\ ts_rx_age' = [e \in End |-> ShorterOf(ts_rx_age[e] + 1, LongAgo)]
      /\ net' = {[p EXCEPT !.age = @ + 1] : p \in net}
      /\ UNCHANGED <<stamps, leg>>
  BY DEF TimePasses
<1>2. AgesRight
  BY AllAges
<1>3. ASSUME NEW q \in net'
      PROVE  StampRight(q)' /\ EchoRight(q)'
  <2>1. PICK p \in net : q = [p EXCEPT !.age = @ + 1]
    BY <1>1
  <2>2. p \in PacketType
    BY DEF RttTypeOK, PacketType
  <2>3. /\ q.to = p.to /\ q.ts = p.ts /\ q.echo = p.echo /\ q.leg = p.leg /\ q.age = p.age + 1
        /\ p.age \in Nat /\ p.leg + p.age \in Nat /\ p.leg + (p.age + 1) = (p.leg + p.age) + 1
        /\ p.to \in End /\ Other(p.to) \in End /\ p.ts \in Stamp /\ p.echo \in Stamp
    <3>1. p.to \in End /\ p.ts \in Stamp /\ p.echo \in Stamp /\ p.leg \in Nat /\ p.age \in Nat
      BY <2>2, Limits DEF PacketType
    <3>2. Other(p.to) \in End
      BY <3>1, TimestampType
    <3>3. q.to = p.to /\ q.ts = p.ts /\ q.echo = p.echo /\ q.leg = p.leg /\ q.age = p.age + 1
      BY <2>1, <2>2 DEF PacketType
    <3> QED
      BY <3>1, <3>2, <3>3
  <2>4. StampRight(p) /\ EchoRight(p)
    BY <1>2 DEF AgesRight
  <2>5. TakenAgo(Other(p.to), p.ts, p.age) => TakenAgo(Other(p.to), p.ts, p.age + 1)'
    BY <2>3, OlderStamps
  <2>6. EchoedAgo(p.to, p.echo, p.leg + p.age) => EchoedAgo(p.to, p.echo, (p.leg + p.age) + 1)'
    BY <2>3, OlderStamps
  <2>7. StampRight(q)'
    BY <2>3, <2>4, <2>5 DEF StampRight, TakenAgo
  <2>8. EchoRight(q)'
    BY <2>3, <2>4, <2>6 DEF EchoRight, EchoedAgo
  <2> QED
    BY <2>7, <2>8
<1>4. ASSUME NEW e \in End
      PROVE  HeldRight(e)'
  <2>1. HeldRight(e)
    BY <1>2 DEF AgesRight
  <2>2. /\ ts_rx_age[e] \in Nat /\ leg[e] \in Nat /\ stamps[e].ts_rx \in Stamp
        /\ Other(e) \in End
    BY TimestampType, Limits DEF RttTypeOK
  <2> SUFFICES ASSUME Young(e)'
               PROVE  TakenAgo(Other(e), stamps[e].ts_rx, leg[e] + ts_rx_age[e])'
    BY DEF HeldRight
  <2>3. Young(e) /\ ts_rx_age'[e] = ts_rx_age[e] + 1
    BY <1>1, <2>2, Limits DEF Young, ShorterOf
  <2>4. TakenAgo(Other(e), stamps[e].ts_rx, leg[e] + ts_rx_age[e])
    BY <2>1, <2>3 DEF HeldRight
  <2>5. leg[e] + ts_rx_age[e] \in Nat /\ leg[e] + (ts_rx_age[e] + 1) = (leg[e] + ts_rx_age[e]) + 1
    BY <2>2
  <2> DEFINE k == stamps[e].ts_rx
             a == leg[e] + ts_rx_age[e]
  <2> HIDE DEF k, a
  <2>6. \E r \in Fraction : Same(clock'[Other(e)], k * TickLen + r + (a + 1))
    <3>1. TakenAgo(Other(e), k, a) => \E r \in Fraction : Same(clock'[Other(e)], k * TickLen + r + (a + 1))
      <4>1. ASSUME NEW ts \in Stamp, NEW age \in Nat, TakenAgo(Other(e), ts, age)
            PROVE  \E r \in Fraction : Same(clock'[Other(e)], ts * TickLen + r + (age + 1))
        BY <2>2, <4>1, OlderStamps DEF TakenAgo
      <4> QED
        BY <2>2, <2>5, <4>1 DEF k, a
    <3> QED
      BY <2>4, <3>1 DEF k, a
  <2>7. k = stamps'[e].ts_rx /\ a + 1 = leg'[e] + ts_rx_age'[e]
    BY <1>1, <2>3, <2>5 DEF k, a
  <2> QED
    BY <2>6, <2>7 DEF TakenAgo
<1> QED
  BY <1>3, <1>4 DEF AgesRight

LEMMA AgesStep ==
  ASSUME RttTypeOK, StampsAge, EchoesAge, RttNext \/ UNCHANGED rttVars
  PROVE  StampsAge' /\ EchoesAge'
<1> SUFFICES AgesRight'
  BY DEF StampsAge, EchoesAge, AgesRight, StampRight, EchoRight, HeldRight
<1>1. AgesRight
  BY AllAges
<1>2. CASE net' \subseteq net /\ UNCHANGED <<clock, stamps, ts_rx_age, leg>>
  <2>1. ASSUME NEW p \in net' PROVE StampRight(p)' /\ EchoRight(p)'
    <3>1. StampRight(p) /\ EchoRight(p)
      BY <1>1, <1>2 DEF AgesRight
    <3> QED
      BY <1>2, <3>1 DEF StampRight, EchoRight, TakenAgo, EchoedAgo
  <2>2. ASSUME NEW e \in End PROVE HeldRight(e)'
    <3>1. HeldRight(e)
      BY <1>1 DEF AgesRight
    <3> QED
      BY <1>2, <3>1 DEF HeldRight, Young, TakenAgo
  <2>3. \A p \in net' : StampRight(p)' /\ EchoRight(p)'
    BY <2>1
  <2>4. \A e \in End : HeldRight(e)'
    BY <2>2
  <2> QED
    BY <2>3, <2>4 DEF AgesRight
<1>3. \/ net' \subseteq net /\ UNCHANGED <<clock, stamps, ts_rx_age, leg>>
      \/ TimePasses \/ \E e \in End : SendChunk(e) \/ \E p \in net : RecvPacketInfo(e, p)
  <2>1. ASSUME NEW p \in net, LosePacket(p)
        PROVE  net' \subseteq net /\ UNCHANGED <<clock, stamps, ts_rx_age, leg>>
    BY <2>1 DEF LosePacket
  <2>2. ASSUME NEW e \in End, Backoff(e)
        PROVE  net' \subseteq net /\ UNCHANGED <<clock, stamps, ts_rx_age, leg>>
    BY <2>2 DEF Backoff
  <2>3. CASE UNCHANGED rttVars
    BY <2>3 DEF rttVars
  <2> QED
    BY <2>1, <2>2, <2>3 DEF RttNext
<1>4. ASSUME NEW e \in End, SendChunk(e)
      PROVE  AgesRight'
  BY <1>4, SendAges
<1>5. ASSUME NEW e \in End, NEW p \in net, RecvPacketInfo(e, p)
      PROVE  AgesRight'
  BY <1>5, RecvAges
<1>6. TimePasses => AgesRight'
  BY TimeAges
<1> QED
  BY <1>2, <1>3, <1>4, <1>5, <1>6

-----------------------------------------------------------------------------
LEMMA EInit == RttInit => EInv
<1> SUFFICES ASSUME RttInit PROVE EInv
  OBVIOUS
<1>1. /\ InitMrto \in Nat /\ InitErto \in Nat /\ InitMrto <= InitErto /\ InitErto <= MaxErto
      /\ MaxErto \in Nat /\ Skews \subseteq Nat /\ MaxSent \in Nat
  BY RoundTripAssumption
<1>2. clock \in [End -> 0 .. Period - 1]
  <2>1. PICK skew \in Skews : clock = [e \in End |-> IF e = 1 THEN 0 ELSE skew % Period]
    BY DEF RttInit, Period
  <2>2. skew % Period \in 0 .. Period - 1 /\ 0 \in 0 .. Period - 1
    BY <1>1, SameWrapped, Limits
  <2> QED
    BY <2>1, <2>2
<1>3. 0 \in Stamp /\ 0 \in 0 .. MaxDelay /\ LongAgo \in 0 .. LongAgo /\ 0 \in 0 .. MaxSent
  BY <1>1, Limits DEF Stamp
<1>4. RttTypeOK
  BY <1>1, <1>2, <1>3 DEF RttInit, RttTypeOK, Period
<1>5. EstimatesCover
  BY <1>1 DEF RttInit, EstimatesCover, Covers, LongerOf
<1>6. \A e \in End : ~ Young(e) /\ ~ Sampled(e)
  BY Limits DEF RttInit, Young, Sampled
<1>7. StampsAge /\ EchoesAge /\ SampleIsRoundTrip
  BY <1>6 DEF RttInit, StampsAge, EchoesAge, SampleIsRoundTrip
<1> QED
  BY <1>4, <1>5, <1>7 DEF EInv

LEMMA EStep == EInv /\ [RttNext]_rttVars => EInv'
<1> SUFFICES ASSUME EInv, RttNext \/ UNCHANGED rttVars
             PROVE  EInv'
  OBVIOUS
<1>1. RttTypeOK' /\ EstimatesCover'
  BY RttTypesStep, EstimatesStep DEF EInv
<1>2. StampsAge' /\ EchoesAge'
  BY AgesStep DEF EInv
<1>3. SampleIsRoundTrip'
  BY SampleStep DEF EInv
<1> QED
  BY <1>1, <1>2, <1>3 DEF EInv

(***************************************************************************)
(* The ends of a session keep the ages of the timestamps, and the          *)
(* estimates their relation to the samples.                                *)
(***************************************************************************)
THEOREM EstimatesInvariant == RttSpec => []EInv
<1> QED BY EInit, EStep, PTL DEF RttSpec

(***************************************************************************)
(* A sample is the round trip, but for the rounding to ticks: whatever the *)
(* network does, however long an echo is held, and however the clocks of   *)
(* the ends differ and wrap, as long as a packet lives less than the       *)
(* constants say (send_chunk against recv_packet_info).                    *)
(***************************************************************************)
THEOREM SamplesAreRoundTrips == RttSpec => []SampleIsRoundTrip
<1>1. EInv => SampleIsRoundTrip
  BY DEF EInv
<1> QED
  BY <1>1, EstimatesInvariant, PTL

(***************************************************************************)
(* Whatever the clocks, the limits and the delays, a retransmission timer  *)
(* of a session runs longer than the last round trip that was measured.    *)
(***************************************************************************)
THEOREM ErtoCovers == RttSpec => []ErtoCoversRoundTrip
<1>1. EInv => ErtoCoversRoundTrip
  <2> SUFFICES ASSUME EInv, NEW e \in End, Sampled(e)
               PROVE  estimate[e].erto >= Duration(sample[e].ticks) + Margin - 4
    BY DEF ErtoCoversRoundTrip
  <2>1. sample[e].ticks \in Nat \cup {-1} /\ estimate[e] \in EstimateType
    BY DEF EInv, RttTypeOK, EstimateType
  <2>2. sample[e].ticks \in Nat /\ Covers(estimate[e], sample[e].ticks)
    BY <2>1 DEF EInv, EstimatesCover, Sampled
  <2>3. Duration(sample[e].ticks) \in Nat /\ Margin \in Nat
    BY <2>2, DurationNat, RoundTripAssumption
  <2>4. estimate[e].erto \in Nat /\ estimate[e].mrto \in Nat
    BY <2>1 DEF EstimateType
  <2> QED
    BY <2>2, <2>3, <2>4 DEF Covers
<1> QED
  BY <1>1, EstimatesInvariant, PTL

(***************************************************************************)
(* No step but a new sample makes erto less: in particular no timeout.     *)
(***************************************************************************)
THEOREM BackoffGrows == RttSpec => BackoffNeverShrinks
<1> DEFINE Kept(e) == sample'[e] = sample[e] /\ stamps'[e].ts_echo_rx = stamps[e].ts_echo_rx
           Grown == \A e \in End : Kept(e) => estimate'[e].erto >= estimate[e].erto
<1>1. EInv /\ [RttNext]_rttVars => [Grown]_rttVars
  <2> SUFFICES ASSUME EInv, RttNext, NEW e \in End, Kept(e)
               PROVE  estimate'[e].erto >= estimate[e].erto
    OBVIOUS
  <2>1. /\ estimate[e] \in EstimateType /\ estimate[e].erto \in Nat
        /\ DOMAIN estimate = End /\ DOMAIN stamps = End /\ stamps[e] \in StampsType
    BY EchoType DEF EInv, RttTypeOK, EstimateType
  <2>2. CASE estimate'[e] = estimate[e]
    BY <2>1, <2>2
  <2>3. ASSUME NEW f \in End, Backoff(f)
        PROVE  estimate'[e].erto >= estimate[e].erto
    <3> DEFINE more == BackedOff(estimate[f])
    <3>1. estimate[f] \in EstimateType
      BY DEF EInv, RttTypeOK, EstimateType
    <3>2. more \in Nat /\ more >= estimate[f].erto
      BY <3>1, BackedOffGrows DEF EInv, EstimatesCover, Covers
    <3>3. estimate' = [estimate EXCEPT ![f] = [@ EXCEPT !.erto = more]]
      BY <2>3 DEF Backoff
    <3> HIDE DEF more
    <3>4. CASE e = f
      <4>1. estimate'[e] = [estimate[e] EXCEPT !.erto = more]
        BY <2>1, <3>3, <3>4
      <4>2. estimate'[e].erto = more
        BY <2>1, <4>1 DEF EstimateType
      <4> QED
        BY <3>2, <3>4, <4>2
    <3>5. CASE e # f
      BY <2>1, <2>2, <3>3, <3>5
    <3> QED
      BY <3>4, <3>5
  <2>4. ASSUME NEW f \in End, NEW p \in net, RecvPacketInfo(f, p)
        PROVE  estimate'[e].erto >= estimate[e].erto
    <3>1. CASE f = e
      <4>1. NewEcho(e, p) => stamps'[e].ts_echo_rx = p.echo
        BY <2>1, <2>4, <3>1 DEF RecvPacketInfo, StampsType
      <4>2. ~ NewEcho(e, p)
        BY <4>1 DEF NewEcho
      <4>3. estimate'[e] = estimate[e]
        BY <2>1, <2>4, <3>1, <4>2 DEF RecvPacketInfo
      <4> QED
        BY <2>2, <4>3
    <3>2. CASE f # e
      <4>1. estimate'[e] = estimate[e]
        BY <2>1, <2>4, <3>2 DEF RecvPacketInfo
      <4> QED
        BY <2>2, <4>1
    <3> QED
      BY <3>1, <3>2
  <2>5. ASSUME NEW f \in End, SendChunk(f) PROVE estimate' = estimate
    BY <2>5 DEF SendChunk
  <2>6. ASSUME NEW p \in net, LosePacket(p) PROVE estimate' = estimate
    BY <2>6 DEF LosePacket
  <2>7. TimePasses => estimate' = estimate
    BY DEF TimePasses
  <2> QED
    BY <2>2, <2>3, <2>4, <2>5, <2>6, <2>7 DEF RttNext
<1>2. BackoffNeverShrinks <=> [][Grown]_rttVars
  BY DEF BackoffNeverShrinks
<1> QED
  BY <1>1, <1>2, EstimatesInvariant, PTL DEF RttSpec

-----------------------------------------------------------------------------
(***************************************************************************)
(* Where the far end is: pings and answers carry addresses it had, and     *)
(* ages end at their limits.                                               *)
(***************************************************************************)
MobPacket == [type : {"data", "pingreply"}, addr : Address]

LEMMA MobInitTypes == MobInit => MobTypeOK
<1>1. LongSince \in 0 .. LongSince /\ 0 \in 0 .. MaxMoves
  BY MobilityAssumption DEF LongSince
<1> QED
  BY <1>1 DEF MobInit, MobTypeOK

LEMMA MobTypesStep ==
  ASSUME MobTypeOK, MobNext \/ UNCHANGED mobVars
  PROVE  MobTypeOK'
<1>1. /\ LongSince \in Nat /\ MaxMoves \in Nat
      /\ \A a \in Address : Data(a) \in MobPacket /\ PingReply(a) \in MobPacket
      /\ \A p \in toSession : p \in MobPacket /\ p.addr \in Address
  BY MobilityAssumption DEF LongSince, Data, PingReply, MobPacket, MobTypeOK
<1>2. CASE UNCHANGED mobVars
  BY <1>2 DEF mobVars, MobTypeOK
<1>3. CASE Move
  BY <1>1, <1>3 DEF Move, MobTypeOK
<1>4. CASE FarSends
  BY <1>1, <1>4 DEF FarSends, MobTypeOK, MobPacket
<1>5. CASE RecvPing
  BY <1>1, <1>5 DEF RecvPing, MobTypeOK, MobPacket
<1>6. CASE LoseOne
  BY <1>6 DEF LoseOne, MobTypeOK
<1>7. CASE Elapse
  BY <1>1, <1>7 DEF Elapse, MobTypeOK
<1>8. ASSUME NEW p \in toSession, RecvPacket(p)
      PROVE  MobTypeOK'
  <2>1. other_addr' \in Address
    BY <1>1, <1>8 DEF RecvPacket, MobTypeOK
  <2>2. ping_age' \in 0 .. LongSince /\ pings' \subseteq Address
    BY <1>1, <1>8 DEF RecvPacket, MobTypeOK
  <2> QED
    BY <1>8, <2>1, <2>2 DEF RecvPacket, MobTypeOK
<1> QED
  BY <1>2, <1>3, <1>4, <1>5, <1>6, <1>7, <1>8 DEF MobNext

(***************************************************************************)
(* The types of a session: timestamps stay in 16 bits, ages end at their   *)
(* limits, and no delay is longer than the longest.                        *)
(***************************************************************************)
THEOREM SessionTypes == Spec => []TypeOK
<1>1. Init => EInv /\ MobTypeOK
  BY EInit, MobInitTypes DEF Init
<1>2. EInv /\ MobTypeOK /\ [Next]_vars => EInv' /\ MobTypeOK'
  <2>1. [Next]_vars => [RttNext]_rttVars /\ (MobNext \/ UNCHANGED mobVars)
    BY DEF Next, vars
  <2> QED
    BY <2>1, EStep, MobTypesStep
<1>3. EInv /\ MobTypeOK => TypeOK
  BY DEF EInv, TypeOK
<1> QED
  BY <1>1, <1>2, <1>3, PTL DEF Spec
=============================================================================
