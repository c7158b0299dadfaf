----------------------------- MODULE SendSteps -----------------------------
(***************************************************************************)
(* A send_flow as three goroutines run it without a lock: an application   *)
(* in send(), the dispatcher of the session in on_range_ack(), and the     *)
(* alarm in on_rtx_alarm().  Each ends in try_send(), and each reads that  *)
(* a chunk is in flight, or not, some time before it acts on it.  A fourth *)
(* sends buffer probes.  Module SendFlow is the same code, each handler at *)
(* once.                                                                   *)
(*                                                                         *)
(* A message is one chunk of SMSS bytes, the network loses nothing, and    *)
(* the receiver acknowledges each chunk that arrives.                      *)
(***************************************************************************)
EXTENDS Congestion, Sequences, FiniteSetsExt

CONSTANTS
  Wrap,            \* what a uint counts modulo: 2^64 in the code
  InitRecvWnd, InitSsthresh, BurstLimit, NakLimit, MaxResend,   \* see SendFlow
  Avails,          \* the windows a receiver advertises
  MaxMsgs          \* bound: the number of messages sent

Goroutine == {"app", "session", "alarm"}

Nil == 0           \* no list element

VARIABLES
  last_seqnum,
  send_queue,      \* the list: the numbers of its chunks
  chunk,           \* chunk[s], also of one that a goroutine still holds
  inflight_bytes, data_packets_count, current_tsn,
  recv_wnd, cong_wnd, ssthresh, acked_bytes_accumulator,
  rtx_alarm,       \* "nil", "armed" or "idle"
  bufprob_ticker,  \* TRUE while there is one
  probe,           \* the probe goroutine: "none", "waiting" or "probing"
  send_closed,
  pc, at,          \* where each goroutine is, and its list element
  here,            \* the locals of on_range_ack()
  wire, acks,      \* chunks and acks under way
  arrived,         \* the chunks the receiver has
  panicked

wndVars == <<recv_wnd, cong_wnd, ssthresh, acked_bytes_accumulator>>
netVars == <<wire, acks, arrived>>
tickerVars == <<bufprob_ticker, probe>>
stepsVars == <<last_seqnum, send_queue, chunk, inflight_bytes, data_packets_count,
               current_tsn, wndVars, rtx_alarm, tickerVars, send_closed, pc, at,
               here, netVars, panicked>>

NoAck == [ranges |-> {}, bufAvail |-> 0, pre |-> 0, acked |-> 0, max_tsn |-> 0, valid |-> FALSE]

Init ==
  /\ last_seqnum = 0 /\ send_queue = {} /\ chunk = <<>>
  /\ inflight_bytes = 0 /\ data_packets_count = 0 /\ current_tsn = 0
  /\ recv_wnd = InitRecvWnd /\ cong_wnd = InitCongWnd
  /\ ssthresh = InitSsthresh /\ acked_bytes_accumulator = 0
  /\ rtx_alarm = "nil" /\ bufprob_ticker = FALSE /\ probe = "none"
  /\ send_closed = FALSE
  /\ pc = [g \in Goroutine |-> "idle"] /\ at = [g \in Goroutine |-> Nil]
  /\ here = NoAck
  /\ wire = {} /\ acks = {} /\ arrived = {} /\ panicked = FALSE

(***************************************************************************)
(* The list.  An element that was removed has no next.                     *)
(***************************************************************************)
Front == IF send_queue = {} THEN Nil ELSE Min(send_queue)

NextOf(s) ==
  LET after == {t \in send_queue : t > s}
  IN  IF s \in send_queue /\ after # {} THEN Min(after) ELSE Nil

Runs(g, where) == ~ panicked /\ pc[g] = where

Goes(g, where) == pc' = [pc EXCEPT ![g] = where]

Points(g, s) == at' = [at EXCEPT ![g] = s]

Plus(n) == inflight_bytes' = (inflight_bytes + n) % Wrap
Minus(n) == inflight_bytes' = (inflight_bytes + Wrap - n) % Wrap

(***************************************************************************)
(* try_send() and send_userdata(), in any of the goroutines.               *)
(***************************************************************************)
Budget ==
  /\ inflight_bytes < MinOf(recv_wnd, cong_wnd)
  /\ data_packets_count < BurstLimit

TrySend(g) ==
  /\ Runs(g, "try")
  /\ IF at[g] = Nil \/ ~ Budget THEN Goes(g, "idle") /\ UNCHANGED at
     ELSE IF chunk[at[g]].in_flight THEN Points(g, NextOf(at[g])) /\ UNCHANGED pc
     ELSE Goes(g, "count") /\ UNCHANGED at
  /\ UNCHANGED <<last_seqnum, send_queue, chunk, inflight_bytes, data_packets_count,
                 current_tsn, wndVars, rtx_alarm, tickerVars, send_closed, here,
                 netVars, panicked>>

Count(g) ==
  /\ Runs(g, "count")
  /\ data_packets_count' = data_packets_count + 1
  /\ Plus(SMSS)
  /\ current_tsn' = current_tsn + 1
  /\ chunk' = [chunk EXCEPT ![at[g]] = [send_count |-> @.send_count + 1, nak_count |-> 0,
                                        in_flight |-> TRUE, tsn |-> current_tsn']]
  /\ Goes(g, "packet")
  /\ UNCHANGED <<last_seqnum, send_queue, wndVars, rtx_alarm, tickerVars, send_closed,
                 at, here, netVars, panicked>>

\* The offset in the packet is that from the front of the queue.
Packet(g) ==
  /\ Runs(g, "packet")
  /\ IF Front = Nil THEN panicked' = TRUE /\ UNCHANGED <<wire, pc>>
     ELSE wire' = wire \cup {at[g]} /\ Goes(g, "arm") /\ UNCHANGED panicked
  /\ UNCHANGED <<last_seqnum, send_queue, chunk, inflight_bytes, data_packets_count,
                 current_tsn, wndVars, rtx_alarm, tickerVars, send_closed, at, here,
                 acks, arrived>>

Arm(g) ==
  /\ Runs(g, "arm")
  /\ rtx_alarm' = "armed"
  /\ Points(g, NextOf(at[g])) /\ Goes(g, "try")
  /\ UNCHANGED <<last_seqnum, send_queue, chunk, inflight_bytes, data_packets_count,
                 current_tsn, wndVars, tickerVars, send_closed, here, netVars, panicked>>

(***************************************************************************)
(* send().                                                                 *)
(***************************************************************************)
NewChunk == [send_count |-> 0, nak_count |-> 0, in_flight |-> FALSE, tsn |-> 0]

Send ==
  /\ Runs("app", "idle") /\ ~ send_closed /\ last_seqnum < MaxMsgs
  /\ last_seqnum' = last_seqnum + 1
  /\ chunk' = Append(chunk, NewChunk)
  /\ send_queue' = send_queue \cup {last_seqnum'}
  /\ Points("app", Min(send_queue')) /\ Goes("app", "try")
  /\ UNCHANGED <<inflight_bytes, data_packets_count, current_tsn, wndVars, rtx_alarm,
                 tickerVars, send_closed, here, netVars, panicked>>

(***************************************************************************)
(* on_range_ack(): it takes each acknowledged chunk out, and what it held  *)
(* from the bytes in flight; then, at once, the rest of the queue is       *)
(* searched for chunks overtaken, and the windows and timers follow.       *)
(***************************************************************************)
TakeAck ==
  /\ Runs("session", "idle")
  /\ \E ack \in acks :
       /\ acks' = acks \ {ack}
       /\ here' = [NoAck EXCEPT !.ranges = ack.ranges, !.bufAvail = ack.bufAvail,
                                !.pre = inflight_bytes]
  /\ data_packets_count' = 0
  /\ Points("session", Front) /\ Goes("session", "remove")
  /\ UNCHANGED <<last_seqnum, send_queue, chunk, inflight_bytes, current_tsn, wndVars,
                 rtx_alarm, tickerVars, send_closed, wire, arrived, panicked>>

Remove ==
  /\ Runs("session", "remove")
  /\ LET s == at["session"]
     IN  IF s = Nil THEN Goes("session", "windows") /\ UNCHANGED <<send_queue, at, here>>
         ELSE IF s \notin here.ranges
              THEN Points("session", NextOf(s)) /\ UNCHANGED <<send_queue, pc, here>>
         ELSE /\ send_queue' = send_queue \ {s}
              /\ here' = [here EXCEPT !.valid = TRUE, !.max_tsn = MaxOf(@, chunk[s].tsn)]
              /\ Points("session", NextOf(s))
              /\ IF chunk[s].in_flight THEN Goes("session", "subtract") ELSE UNCHANGED pc
  /\ UNCHANGED <<last_seqnum, chunk, inflight_bytes, data_packets_count, current_tsn,
                 wndVars, rtx_alarm, tickerVars, send_closed, netVars, panicked>>

Subtract ==
  /\ Runs("session", "subtract")
  /\ Minus(SMSS)
  /\ here' = [here EXCEPT !.acked = @ + SMSS]
  /\ Goes("session", "remove")
  /\ UNCHANGED <<last_seqnum, send_queue, chunk, data_packets_count, current_tsn, wndVars,
                 rtx_alarm, tickerVars, send_closed, at, netVars, panicked>>

Reopens == here.bufAvail > 0 /\ bufprob_ticker

Late ==
  /\ Runs("session", "windows")
  /\ ~ here.valid /\ ~ Reopens
  /\ Goes("session", "idle") /\ here' = NoAck
  /\ UNCHANGED <<last_seqnum, send_queue, chunk, inflight_bytes, data_packets_count,
                 current_tsn, wndVars, rtx_alarm, tickerVars, send_closed, at, netVars,
                 panicked>>

Naked == {s \in send_queue : chunk[s].in_flight /\ chunk[s].tsn < here.max_tsn}
NakLost == {s \in Naked : chunk[s].nak_count + 1 >= NakLimit}

Windows ==
  /\ Runs("session", "windows")
  /\ here.valid \/ Reopens
  /\ chunk' = [s \in DOMAIN chunk |->
                 IF s \in Naked
                 THEN [chunk[s] EXCEPT !.nak_count = @ + 1, !.in_flight = s \notin NakLost]
                 ELSE chunk[s]]
  /\ inflight_bytes' = (inflight_bytes + Wrap - SMSS * Cardinality(NakLost)) % Wrap
  /\ bufprob_ticker' = (here.bufAvail = 0)
  /\ probe' = IF here.bufAvail = 0 /\ ~ bufprob_ticker THEN "waiting" ELSE probe
  /\ recv_wnd' = here.bufAvail
  /\ LET cc == UpdateCongestionWnd(cong_wnd, ssthresh, acked_bytes_accumulator,
                 NakLost # {}, Naked # {}, here.acked, here.pre)
     IN  /\ cong_wnd' = cc.cong_wnd /\ ssthresh' = cc.ssthresh
         /\ acked_bytes_accumulator' = cc.acc
  /\ rtx_alarm' = IF rtx_alarm = "nil" THEN "nil" ELSE "armed"
  /\ Points("session", Front) /\ Goes("session", "try") /\ here' = NoAck
  /\ UNCHANGED <<last_seqnum, send_queue, data_packets_count, current_tsn, send_closed,
                 netVars, panicked>>

(***************************************************************************)
(* on_rtx_alarm(): it looks at each chunk, and takes one in flight as      *)
(* lost, unless it was sent too often; then it shrinks the window.         *)
(***************************************************************************)
Fire ==
  /\ Runs("alarm", "idle") /\ rtx_alarm = "armed"
  /\ rtx_alarm' = "idle"
  /\ Points("alarm", Front) /\ Goes("alarm", "look")
  /\ UNCHANGED <<last_seqnum, send_queue, chunk, inflight_bytes, data_packets_count,
                 current_tsn, wndVars, tickerVars, send_closed, here, netVars, panicked>>

\* cong_wnd is set when the loop is over: to TimeoutCongWnd after any loss,
\* which the goroutine remembers as where it loops.
Look(where) ==
  /\ where \in {"look", "looklost"} /\ Runs("alarm", where)
  /\ LET s == at["alarm"]
     IN  IF s = Nil
         THEN Goes("alarm", IF where = "look" THEN "restart" ELSE "shrink") /\ UNCHANGED at
         ELSE IF ~ chunk[s].in_flight THEN Points("alarm", NextOf(s)) /\ UNCHANGED pc
         ELSE Goes("alarm", IF chunk[s].send_count > MaxResend THEN "close" ELSE "lose")
              /\ UNCHANGED at
  /\ UNCHANGED <<last_seqnum, send_queue, chunk, inflight_bytes, data_packets_count,
                 current_tsn, wndVars, rtx_alarm, tickerVars, send_closed, here, netVars,
                 panicked>>

Lose ==
  /\ Runs("alarm", "lose")
  /\ chunk' = [chunk EXCEPT ![at["alarm"]].in_flight = FALSE]
  /\ Minus(SMSS)
  /\ Points("alarm", NextOf(at["alarm"])) /\ Goes("alarm", "looklost")
  /\ UNCHANGED <<last_seqnum, send_queue, data_packets_count, current_tsn, wndVars,
                 rtx_alarm, tickerVars, send_closed, here, netVars, panicked>>

Shrink ==
  /\ \/ Runs("alarm", "restart") /\ cong_wnd' = InitCongWnd
     \/ Runs("alarm", "shrink") /\ cong_wnd' = TimeoutCongWnd
  /\ ssthresh' = MaxOf(ssthresh, (cong_wnd' * 3) \div 4)
  /\ acked_bytes_accumulator' = 0 /\ data_packets_count' = 0
  /\ Points("alarm", Front) /\ Goes("alarm", "try")
  /\ UNCHANGED <<last_seqnum, send_queue, chunk, inflight_bytes, current_tsn, recv_wnd,
                 rtx_alarm, tickerVars, send_closed, here, netVars, panicked>>

Close ==
  /\ Runs("alarm", "close")
  /\ send_closed' = TRUE /\ rtx_alarm' = "nil" /\ bufprob_ticker' = FALSE
  /\ Goes("alarm", "idle")
  /\ UNCHANGED <<last_seqnum, send_queue, chunk, inflight_bytes, data_packets_count,
                 current_tsn, wndVars, probe, at, here, netVars, panicked>>

(***************************************************************************)
(* The probe goroutine: it takes a tick, sends a probe, which the receiver *)
(* answers, and reads the field for the ticker again.                      *)
(***************************************************************************)
Advertises(s) == {[ranges |-> s, bufAvail |-> b] : b \in Avails}

Tick ==
  /\ ~ panicked /\ probe = "waiting" /\ bufprob_ticker
  /\ probe' = "probing"
  /\ \E ack \in Advertises(arrived) : acks' = acks \cup {ack}
  /\ UNCHANGED <<last_seqnum, send_queue, chunk, inflight_bytes, data_packets_count,
                 current_tsn, wndVars, rtx_alarm, bufprob_ticker, send_closed, pc, at,
                 here, wire, arrived, panicked>>

Probed ==
  /\ ~ panicked /\ probe = "probing"
  /\ probe' = "waiting" /\ panicked' = ~ bufprob_ticker
  /\ UNCHANGED <<last_seqnum, send_queue, chunk, inflight_bytes, data_packets_count,
                 current_tsn, wndVars, rtx_alarm, bufprob_ticker, send_closed, pc, at,
                 here, netVars>>

(***************************************************************************)
(* A chunk reaches the receiver, which acknowledges all it has.            *)
(***************************************************************************)
Arrive ==
  /\ \E s \in wire : wire' = wire \ {s} /\ arrived' = arrived \cup {s}
  /\ \E ack \in Advertises(arrived') : acks' = acks \cup {ack}
  /\ UNCHANGED <<last_seqnum, send_queue, chunk, inflight_bytes, data_packets_count,
                 current_tsn, wndVars, rtx_alarm, tickerVars, send_closed, pc, at, here,
                 panicked>>

Transmits(g) == TrySend(g) \/ Count(g) \/ Packet(g) \/ Arm(g)

SessionRuns == TakeAck \/ Remove \/ Subtract \/ Late \/ Windows \/ Transmits("session")

AlarmRuns ==
  \/ Fire \/ Lose \/ Shrink \/ Close \/ Transmits("alarm")
  \/ \E where \in {"look", "looklost"} : Look(where)

Next ==
  \/ Send \/ Transmits("app") \/ SessionRuns \/ AlarmRuns \/ Tick \/ Probed \/ Arrive

(***************************************************************************)
(* Goroutines run, armed alarms and tickers fire, and the network delivers.*)
(***************************************************************************)
Spec ==
  /\ Init /\ [][Next]_stepsVars
  /\ WF_stepsVars(Transmits("app")) /\ WF_stepsVars(SessionRuns)
  /\ WF_stepsVars(AlarmRuns) /\ WF_stepsVars(Tick \/ Probed) /\ WF_stepsVars(Arrive)
-----------------------------------------------------------------------------
(***************************************************************************)
(* What send() accepts reaches the receiver in the end, unless the flow    *)
(* gives up or the process panics ("data ... will delieve to the receiver  *)
(* as a whole", flow.go).                                                  *)
(***************************************************************************)
Delivered ==
  \A s \in 1 .. MaxMsgs : last_seqnum >= s ~> s \in arrived \/ send_closed \/ panicked

(***************************************************************************)
(* No goroutine finds nil where it left a chunk or a ticker.               *)
(***************************************************************************)
NoPanic == ~ panicked
=============================================================================
