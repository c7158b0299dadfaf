----------------------------- MODULE RoundTrip ------------------------------
(***************************************************************************)
(* How the two ends of a session measure the round trip: send_chunk puts a *)
(* timestamp and the echo of the other end's last one in a packet,         *)
(* recv_packet_info makes a sample of the echo and a retransmission        *)
(* timeout, erto, of the samples (session.go); a flow's timeout backs erto *)
(* off (flow.go).                                                          *)
(*                                                                         *)
(* Timestamps are ticks, 4 ms each, in 16 bits, and 0 stands for none.     *)
(* The clocks of the ends run at one rate but do not agree.  Times that    *)
(* the code keeps as instants are ages here, so that time has no end.  Of  *)
(* a packet only its timestamps are modelled, and the variables of a       *)
(* session are those of one goroutine.                                     *)
(***************************************************************************)
EXTENDS Integers, FiniteSets

CONSTANTS
  Wrap,            \* timestamps, 65536
  TickLen,         \* time in a tick, 4 ms
  Fine,            \* the parts of a unit of time that the estimate counts
  EchoLimit,       \* age of a timestamp that is still echoed, 128 s
  MaxSample,       \* greatest sample, 32767 ticks
  Margin,          \* what mrto adds, 200 ms, in fine parts like those below
  MinErto,         \* 250 ms
  MaxErto,         \* end of the backoff, 10 s
  InitMrto,        \* 250 us
  InitErto,        \* 3 s
  Duplicated,      \* BOOLEAN: may a packet be delivered twice?
  MaxDelay,        \* the longest time a packet is in transit
  Skews,           \* bound: how far apart the clocks start
  InTransit,       \* bound: packets in transit at a time
  MaxSent          \* bound: packets sent

ASSUME RoundTripAssumption ==
  /\ Wrap \in Nat \ {0} /\ TickLen \in Nat \ {0} /\ Fine \in Nat \ {0}
  /\ EchoLimit \in Nat /\ MaxSample \in Nat /\ MaxDelay \in Nat /\ MaxSent \in Nat
  /\ Margin \in Nat /\ MinErto \in Nat /\ MaxErto \in Nat
  /\ InitMrto \in Nat /\ InitErto \in 0 .. MaxErto /\ MinErto <= MaxErto
  /\ InitMrto <= InitErto
  /\ Skews \subseteq Nat /\ InTransit \in Nat \ {0}
  /\ Duplicated \in BOOLEAN
  \* A packet lives less than 67 s, so that a round trip and the age of an
  \* echo together are shorter than the 262 s in which timestamps wrap.
  /\ EchoLimit + 2 * MaxDelay + TickLen < Wrap * TickLen

VARIABLES
  clock,           \* the time at each end, as far as timestamps tell it
  stamps,          \* ts_rx, ts_echo_tx, ts_tx and ts_echo_rx of each end
  ts_rx_age,       \* the time since ts_rx_time
  estimate,        \* srtt, rttvar, mrto and erto of each end
  net,             \* packets in transit, with their ages
  count,           \* packets sent
  leg,             \* history: the time ts_rx was in transit
  sample           \* history: the last sample of each end, and the truth

rttVars == <<clock, stamps, ts_rx_age, estimate, net, count, leg, sample>>

End == {1, 2}
Other(e) == 3 - e

\* The age of ts_rx_time when it is the zero time.
LongAgo == EchoLimit + 1

RttInit ==
  /\ \E skew \in Skews : clock = [e \in End |-> IF e = 1 THEN 0 ELSE skew % (Wrap * TickLen)]
  /\ stamps = [e \in End |-> [ts_rx |-> 0, ts_echo_tx |-> 0, ts_tx |-> 0, ts_echo_rx |-> 0]]
  /\ ts_rx_age = [e \in End |-> LongAgo]
  /\ estimate = [e \in End |-> [srtt |-> 0, rttvar |-> 0, mrto |-> InitMrto, erto |-> InitErto]]
  /\ net = {} /\ count = 0
  /\ leg = [e \in End |-> 0]
  /\ sample = [e \in End |-> [ticks |-> -1, real |-> -1]]

Timestamp(e) == clock[e] \div TickLen

(***************************************************************************)
(* send_chunk.  A timestamp goes when it has changed; an echo goes while   *)
(* the timestamp is young, moved on by its age, when that has changed.     *)
(***************************************************************************)
\* Mutants: the timestamp is echoed as it came; it is not cut to 16 bits.
EchoUnaged(e) == stamps[e].ts_rx

EchoWide(e) == stamps[e].ts_rx + ts_rx_age[e] \div TickLen

Echo(e) == (stamps[e].ts_rx + ts_rx_age[e] \div TickLen) % Wrap

\* Mutant: a timestamp of any age is echoed.
AlwaysYoung(e) == stamps[e].ts_rx # 0

Young(e) == ts_rx_age[e] <= EchoLimit

SendChunk(e) ==
  /\ count < MaxSent /\ Cardinality(net) < InTransit
  /\ count' = count + 1
  /\ stamps' = [stamps EXCEPT ![e] =
       [@ EXCEPT !.ts_tx      = Timestamp(e),
                 !.ts_rx      = IF Young(e) THEN stamps[e].ts_rx ELSE 0,
                 !.ts_echo_tx = IF Young(e) THEN Echo(e) ELSE stamps[e].ts_echo_tx]]
  /\ ts_rx_age' = [ts_rx_age EXCEPT ![e] = IF Young(e) THEN @ ELSE LongAgo]
  /\ net' = net \cup
       {[to   |-> Other(e),
         ts   |-> IF stamps[e].ts_tx = Timestamp(e) THEN 0 ELSE Timestamp(e),
         echo |-> IF Young(e) /\ stamps[e].ts_echo_tx # Echo(e) THEN Echo(e) ELSE 0,
         leg  |-> leg[e],
         age  |-> 0]}
  /\ UNCHANGED <<clock, estimate, leg, sample>>

(***************************************************************************)
(* recv_packet_info: the estimate after a sample of rtt.                   *)
(***************************************************************************)
Distance(a, b) == IF a > b THEN a - b ELSE b - a
LongerOf(a, b) == IF a < b THEN b ELSE a
ShorterOf(a, b) == IF a > b THEN b ELSE a

\* Mutant: the variation counts once.
EstimateOnce(old, rtt) ==
  LET srtt   == IF old.srtt = 0 THEN rtt ELSE (7 * old.srtt + rtt) \div 8
      rttvar == IF old.srtt = 0 THEN rtt \div 2
                ELSE (3 * old.rttvar + Distance(old.srtt, rtt)) \div 4
      mrto   == srtt + rttvar + Margin
  IN  [srtt |-> srtt, rttvar |-> rttvar, mrto |-> mrto, erto |-> LongerOf(mrto, MinErto)]

\* srtt = 0 stands for no sample yet.
Estimate(old, rtt) ==
  LET srtt   == IF old.srtt = 0 THEN rtt ELSE (7 * old.srtt + rtt) \div 8
      rttvar == IF old.srtt = 0 THEN rtt \div 2
                ELSE (3 * old.rttvar + Distance(old.srtt, rtt)) \div 4
      mrto   == srtt + 4 * rttvar + Margin
  IN  [srtt |-> srtt, rttvar |-> rttvar, mrto |-> mrto, erto |-> LongerOf(mrto, MinErto)]

Duration(ticks) == ticks * TickLen * Fine

RttTicks(e, p) == (Timestamp(e) - p.echo) % Wrap

NewTimestamp(e, p) == p.ts # 0 /\ p.ts # stamps[e].ts_rx

NewEcho(e, p) == p.echo # 0 /\ p.echo # stamps[e].ts_echo_rx

RecvPacketInfo(e, p) ==
  LET ticks == RttTicks(e, p)
      taken == NewEcho(e, p) /\ ticks <= MaxSample
  IN  /\ p \in net /\ p.to = e
      /\ net' \in {net \ {p}} \cup (IF Duplicated THEN {net} ELSE {})
      /\ stamps' = [stamps EXCEPT ![e] =
           [@ EXCEPT !.ts_rx      = IF NewTimestamp(e, p) THEN p.ts ELSE stamps[e].ts_rx,
                     !.ts_echo_rx = IF NewEcho(e, p) THEN p.echo ELSE stamps[e].ts_echo_rx]]
      /\ ts_rx_age' = [ts_rx_age EXCEPT ![e] = IF NewTimestamp(e, p) THEN 0 ELSE @]
      /\ leg' = [leg EXCEPT ![e] = IF NewTimestamp(e, p) THEN p.age ELSE @]
      /\ estimate' = [estimate EXCEPT ![e] = IF taken THEN Estimate(@, Duration(ticks)) ELSE @]
      /\ sample' = [sample EXCEPT
           ![e] = IF taken THEN [ticks |-> ticks, real |-> p.leg + p.age] ELSE @]
      /\ UNCHANGED <<clock, count>>

(***************************************************************************)
(* on_rtx_alarm of a flow that lost something.                             *)
(***************************************************************************)
\* Mutant: the backoff ends at its greatest value, whatever was measured.
BackedOffCapped(old) == ShorterOf((old.erto * 14142) \div 10000, MaxErto)

BackedOff(old) ==
  LongerOf(ShorterOf((old.erto * 14142) \div 10000, MaxErto), old.mrto)

Backoff(e) ==
  /\ estimate' = [estimate EXCEPT ![e].erto = BackedOff(estimate[e])]
  /\ UNCHANGED <<clock, stamps, ts_rx_age, net, count, leg, sample>>

(***************************************************************************)
(* The network loses a packet; time passes.                                *)
(***************************************************************************)
LosePacket(p) ==
  /\ p \in net /\ net' = net \ {p}
  /\ UNCHANGED <<clock, stamps, ts_rx_age, estimate, count, leg, sample>>

TimePasses ==
  /\ \A p \in net : p.age < MaxDelay
  /\ clock' = [e \in End |-> (clock[e] + 1) % (Wrap * TickLen)]
  /\ ts_rx_age' = [e \in End |-> ShorterOf(ts_rx_age[e] + 1, LongAgo)]
  /\ net' = {[p EXCEPT !.age = @ + 1] : p \in net}
  /\ UNCHANGED <<stamps, estimate, count, leg, sample>>

RttNext ==
  \/ \E e \in End : SendChunk(e) \/ Backoff(e) \/ \E p \in net : RecvPacketInfo(e, p)
  \/ \E p \in net : LosePacket(p)
  \/ TimePasses

RttSpec == RttInit /\ [][RttNext]_rttVars
-----------------------------------------------------------------------------
Stamp == 0 .. Wrap - 1

RttTypeOK ==
  /\ clock \in [End -> 0 .. Wrap * TickLen - 1]
  /\ stamps \in [End -> [ts_rx : Stamp, ts_echo_tx : Stamp, ts_tx : Stamp, ts_echo_rx : Stamp]]
  /\ ts_rx_age \in [End -> 0 .. LongAgo]
  /\ estimate \in [End -> [srtt : Nat, rttvar : Nat, mrto : Nat, erto : Nat]]
  /\ net \subseteq [to : End, ts : Stamp, echo : Stamp, leg : 0 .. MaxDelay, age : 0 .. MaxDelay]
  /\ count \in 0 .. MaxSent
  /\ leg \in [End -> 0 .. MaxDelay]
  /\ sample \in [End -> [ticks : Nat \cup {-1}, real : Nat \cup {-1}]]

Sampled(e) == sample[e].real # -1

(***************************************************************************)
(* A sample is the time the two packets it was made of were in transit,    *)
(* but for the rounding to ticks, less than one below and less than two    *)
(* above: whatever the network loses, delays, repeats and reorders, how    *)
(* long the echo was held, and when the timestamps wrapped meanwhile       *)
(* (send_chunk of one end against recv_packet_info of the other).          *)
(***************************************************************************)
SampleIsRoundTrip ==
  \A e \in End : Sampled(e) =>
    /\ sample[e].ticks * TickLen > sample[e].real - TickLen
    /\ sample[e].ticks * TickLen < sample[e].real + 2 * TickLen

(***************************************************************************)
(* The retransmission timeout is longer than the last round trip, by the   *)
(* margin less what rounding takes: also when the round trip has grown     *)
(* well above the smoothed one, and after any backoffs (recv_packet_info   *)
(* and on_rtx_alarm).                                                      *)
(***************************************************************************)
ErtoCoversRoundTrip ==
  \A e \in End : Sampled(e) => estimate[e].erto >= Duration(sample[e].ticks) + Margin - 4

(***************************************************************************)
(* A timeout never makes the next one come sooner, although the backoff    *)
(* has an end that a measured timeout may lie above (on_rtx_alarm against  *)
(* recv_packet_info).                                                      *)
(***************************************************************************)
BackoffNeverShrinks ==
  [][\A e \in End :
       sample'[e] = sample[e] /\ stamps'[e].ts_echo_rx = stamps[e].ts_echo_rx
         => estimate'[e].erto >= estimate[e].erto]_rttVars
=============================================================================
