------------------------------ MODULE SendFlow ------------------------------
(***************************************************************************)
(* The sending half of a flow, send_flow in flow.go: the queue of chunks   *)
(* not yet acknowledged, the windows that limit what is in flight, loss    *)
(* detection by negative acknowledgement and by timeout, and the probe of  *)
(* a closed receive window.                                                *)
(*                                                                         *)
(* send_queue is a list kept in order of sequence number (chunks are       *)
(* numbered as they are pushed at its back): here it is a function from    *)
(* the sequence numbers queued to the chunks.  ack_ranges is the set of    *)
(* the sequence numbers its ranges contain (module Ranges).                *)
(*                                                                         *)
(* Handlers are atomic.  Time is abstracted: an armed timer may fire at    *)
(* any moment.                                                             *)
(***************************************************************************)
EXTENDS Congestion, Network, Sequences, FiniteSetsExt

CONSTANTS
  InitRecvWnd,        \* init_recv_wnd, 30 segments
  InitSsthresh,       \* the maximal uint
  BurstLimit,         \* packets sent since the last ack, 6
  NakLimit,           \* negative acks that make a chunk lost, 3
  MaxResend,          \* max_data_chunk_resend_count
  MsgSizes,           \* bound: the sizes of the messages sent
  MaxMsgs             \* bound: the number of messages sent

ASSUME SendAssumption ==
  /\ InitRecvWnd \in Nat \ {0} /\ InitSsthresh \in Nat
  /\ BurstLimit \in Nat \ {0} /\ NakLimit \in Nat \ {0} /\ MaxResend \in Nat
  /\ MsgSizes \subseteq Nat /\ MaxMsgs \in Nat

VARIABLES
  last_seqnum, send_queue, ack_ranges,
  inflight_bytes, data_packets_count, current_tsn,
  recv_wnd, cong_wnd, ssthresh, acked_bytes_accumulator,
  bufprob_ticker,     \* TRUE while the ticker that sends buffer probes runs
  rtx_alarm,          \* "nil", "armed", or "idle": fired and not reset
  send_closed,
  sent,               \* history: the sizes of the messages send() accepted
  pushed              \* history: the chunks they were cut into, by sequence number

wndVars == <<recv_wnd, cong_wnd, ssthresh, acked_bytes_accumulator>>
sendVars == <<last_seqnum, send_queue, ack_ranges, inflight_bytes,
              data_packets_count, current_tsn, wndVars, bufprob_ticker,
              rtx_alarm, send_closed, sent, pushed>>

SendInit ==
  /\ last_seqnum = 0 /\ send_queue = <<>> /\ ack_ranges = {}
  /\ inflight_bytes = 0 /\ data_packets_count = 0 /\ current_tsn = 0
  /\ recv_wnd = InitRecvWnd /\ cong_wnd = InitCongWnd
  /\ ssthresh = InitSsthresh /\ acked_bytes_accumulator = 0
  /\ bufprob_ticker = FALSE /\ rtx_alarm = "nil"
  /\ send_closed = FALSE /\ sent = <<>> /\ pushed = <<>>

UserData(s, chunk) ==
  [type |-> "userdata", seq |-> s, frag |-> chunk.frag, data |-> chunk.data]

BufferProbe == [type |-> "bufferprobe"]

(***************************************************************************)
(* try_send.  The loop walks the queue from its front and transmits each   *)
(* chunk that is not in flight, until the window or the burst limit stops  *)
(* it.  So a waiting chunk is transmitted when there is still room once    *)
(* all the waiting chunks before it have been.                             *)
(***************************************************************************)
InFlight(q) == {s \in DOMAIN q : q[s].in_flight}
Waiting(q) == {s \in DOMAIN q : ~ q[s].in_flight}
WaitingBefore(q, s) == {t \in Waiting(q) : t < s}

\* Mutant: send_buget is not asked.
TransmittableNoBudget(q, inflight, count, wnd) ==
  {s \in Waiting(q) : count + Cardinality(WaitingBefore(q, s)) < BurstLimit}

Transmittable(q, inflight, count, wnd) ==
  {s \in Waiting(q) :
     /\ inflight + Bytes(q, WaitingBefore(q, s)) < wnd
     /\ count + Cardinality(WaitingBefore(q, s)) < BurstLimit}

\* send_userdata on one chunk.
Transmit(chunk, tsn) ==
  [chunk EXCEPT !.send_count = @ + 1, !.nak_count = 0, !.in_flight = TRUE,
                !.tsn = tsn]

TrySend(q, inflight, count, wnd, alarm) ==
  LET now == Transmittable(q, inflight, count, wnd)
  IN  /\ send_queue' =
           [s \in DOMAIN q |->
              IF s \in now
                THEN Transmit(q[s], current_tsn + 1 + Cardinality(WaitingBefore(q, s)))
                ELSE q[s]]
      /\ inflight_bytes' = inflight + Bytes(q, now)
      /\ data_packets_count' = count + Cardinality(now)
      /\ current_tsn' = current_tsn + Cardinality(now)
      /\ rtx_alarm' = IF now = {} THEN alarm ELSE "armed"
      /\ toRecv' = toRecv \cup {UserData(s, q[s]) : s \in now}

(***************************************************************************)
(* send(data): the message is cut into chunks at the back of the queue.    *)
(***************************************************************************)
Fragments(m, len) ==
  [i \in 1 .. NumFrags(len) |-> Fragment(m, len, i)]

NewChunk(c) ==
  [frag |-> c.frag, data |-> c.data,
   send_count |-> 0, in_flight |-> FALSE, tsn |-> 0, nak_count |-> 0]

Queued(frags) ==
  [s \in DOMAIN send_queue \cup (last_seqnum + 1 .. last_seqnum + Len(frags)) |->
     IF s \in DOMAIN send_queue THEN send_queue[s]
     ELSE NewChunk(frags[s - last_seqnum])]

Send(len) ==
  /\ ~ send_closed
  /\ Len(sent) < MaxMsgs
  /\ sent' = Append(sent, len)
  /\ LET frags == Fragments(Len(sent) + 1, len)
     IN  /\ pushed' = pushed \o frags
         /\ last_seqnum' = last_seqnum + Len(frags)
         /\ TrySend(Queued(frags), inflight_bytes, data_packets_count,
                    MinOf(recv_wnd, cong_wnd), rtx_alarm)
  /\ UNCHANGED <<ack_ranges, wndVars, bufprob_ticker, send_closed, toSend>>

(***************************************************************************)
(* chunk_loss on the chunks S of q.                                        *)
(***************************************************************************)
\* Mutant: a lost chunk stays in flight.
WithLostKept(q, S) == q

WithLost(q, S) ==
  [s \in DOMAIN q |-> IF s \in S THEN [q[s] EXCEPT !.in_flight = FALSE] ELSE q[s]]

(***************************************************************************)
(* on_rtx_alarm: everything in flight is lost, unless a chunk has been     *)
(* sent too often: then the flow closes, and the loop has only reached the *)
(* chunks before that one.                                                 *)
(***************************************************************************)
Exhausted == {s \in InFlight(send_queue) : send_queue[s].send_count > MaxResend}

RtxGiveUp ==
  LET lost == {s \in InFlight(send_queue) : \A x \in Exhausted : s < x}
  IN  /\ rtx_alarm = "armed"
      /\ Exhausted # {}
      /\ send_queue' = WithLost(send_queue, lost)
      /\ inflight_bytes' = inflight_bytes - Bytes(send_queue, lost)
      /\ send_closed' = TRUE
      /\ rtx_alarm' = "nil"
      /\ bufprob_ticker' = FALSE
      /\ UNCHANGED <<last_seqnum, ack_ranges, data_packets_count, current_tsn,
                     wndVars, sent, pushed, netVars>>

RtxTimeout ==
  LET lost == InFlight(send_queue)
  IN  /\ rtx_alarm = "armed"
      /\ Exhausted = {}
      /\ cong_wnd' = IF lost # {} THEN TimeoutCongWnd ELSE InitCongWnd
      /\ ssthresh' = MaxOf(ssthresh, (cong_wnd' * 3) \div 4)
      /\ acked_bytes_accumulator' = 0
      /\ TrySend(WithLost(send_queue, lost),
                 inflight_bytes - Bytes(send_queue, lost), 0,
                 MinOf(recv_wnd, cong_wnd'), "idle")
      /\ UNCHANGED <<last_seqnum, ack_ranges, recv_wnd, bufprob_ticker,
                     send_closed, sent, pushed, toSend>>

(***************************************************************************)
(* on_range_ack.  An ack that neither acknowledges a queued chunk nor      *)
(* reopens a closed window only resets the burst count.                    *)
(***************************************************************************)
Acked(ack) == ack_ranges \cup (0 .. ack.cumAck) \cup ack.ranges
Removed(ack) == DOMAIN send_queue \cap Acked(ack)
Reopens(ack) == ack.bufAvail > 0 /\ bufprob_ticker

\* Mutant: the ticker is kept, but never started.
ProbesNotStarted(ack) == ack.bufAvail = 0 /\ bufprob_ticker

\* Whether the ticker runs once ack has been handled.
Probes(ack) == ack.bufAvail = 0

\* Mutant: an acknowledgement stops the alarm instead of resetting it.
AlarmStopped == IF rtx_alarm = "nil" THEN "nil" ELSE "idle"

\* rtx_alarm.Reset, which also restarts an alarm that has fired.
AlarmReset == IF rtx_alarm = "nil" THEN "nil" ELSE "armed"

RangeAckLate(ack) ==
  /\ Removed(ack) = {} /\ ~ Reopens(ack)
  /\ ack_ranges' = Acked(ack)
  /\ data_packets_count' = 0
  /\ UNCHANGED <<last_seqnum, send_queue, inflight_bytes, current_tsn, wndVars,
                 bufprob_ticker, rtx_alarm, send_closed, sent, pushed, toRecv>>

\* The queue once the acknowledged chunks are gone and those in flight that
\* were sent before an acknowledged one have one more negative ack.
Kept(ack) == DOMAIN send_queue \ Removed(ack)
MaxTsn(ack) == Max({0} \cup {send_queue[s].tsn : s \in Removed(ack)})
Naked(ack) ==
  {s \in Kept(ack) : send_queue[s].in_flight /\ send_queue[s].tsn < MaxTsn(ack)}
NakLost(ack) == {s \in Naked(ack) : send_queue[s].nak_count + 1 >= NakLimit}

AfterNaks(ack) ==
  WithLost([s \in Kept(ack) |->
              IF s \in Naked(ack) THEN [send_queue[s] EXCEPT !.nak_count = @ + 1]
              ELSE send_queue[s]],
           NakLost(ack))

RangeAckNew(ack) ==
  LET acked == Bytes(send_queue, Removed(ack) \cap InFlight(send_queue))
      lost  == Bytes(send_queue, NakLost(ack))
      cc    == UpdateCongestionWnd(cong_wnd, ssthresh, acked_bytes_accumulator,
                 NakLost(ack) # {}, Naked(ack) # {}, acked, inflight_bytes)
  IN  /\ Removed(ack) # {} \/ Reopens(ack)
      /\ ack_ranges' = Acked(ack)
      /\ bufprob_ticker' = Probes(ack)
      /\ recv_wnd' = ack.bufAvail
      /\ cong_wnd' = cc.cong_wnd
      /\ ssthresh' = cc.ssthresh
      /\ acked_bytes_accumulator' = cc.acc
      /\ TrySend(AfterNaks(ack), inflight_bytes - acked - lost, 0,
                 MinOf(recv_wnd', cong_wnd'), AlarmReset)
      /\ UNCHANGED <<last_seqnum, send_closed, sent, pushed>>

OnRangeAck(ack) == RangeAckLate(ack) \/ RangeAckNew(ack)

(***************************************************************************)
(* A tick of bufprob_ticker, and close() (the session is closing).         *)
(***************************************************************************)
ProbeTick ==
  /\ bufprob_ticker
  /\ toRecv' = toRecv \cup {BufferProbe}
  /\ UNCHANGED <<sendVars, toSend>>

CloseSend ==
  /\ ~ send_closed
  /\ send_closed' = TRUE
  /\ rtx_alarm' = "nil"
  /\ bufprob_ticker' = FALSE
  /\ UNCHANGED <<last_seqnum, send_queue, ack_ranges, inflight_bytes,
                 data_packets_count, current_tsn, wndVars, sent, pushed, netVars>>

(***************************************************************************)
(* The types of the sending half.                                          *)
(***************************************************************************)
ChunkType ==
  [frag : FragCtrl, data : PieceType, send_count : Nat, in_flight : BOOLEAN,
   tsn : Nat, nak_count : Nat]

SendTypeOK ==
  /\ last_seqnum \in Nat
  /\ DOMAIN send_queue \subseteq 1 .. last_seqnum
  /\ send_queue \in [DOMAIN send_queue -> ChunkType]
  /\ ack_ranges \subseteq 0 .. last_seqnum
  /\ inflight_bytes \in Nat
  /\ data_packets_count \in 0 .. BurstLimit
  /\ current_tsn \in Nat
  /\ recv_wnd \in Nat /\ cong_wnd \in Nat \ {0} /\ ssthresh \in Nat
  /\ acked_bytes_accumulator \in Nat
  /\ bufprob_ticker \in BOOLEAN
  /\ rtx_alarm \in {"nil", "armed", "idle"}
  /\ send_closed \in BOOLEAN
  /\ sent \in Seq(MsgSizes)
  /\ pushed \in Seq(FragmentType)
=============================================================================
