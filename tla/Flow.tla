-------------------------------- MODULE Flow --------------------------------
(***************************************************************************)
(* One flow from end to end: a send_flow, the recv_flow it feeds, and the  *)
(* network that carries user data and buffer probes one way and            *)
(* acknowledgements the other.                                             *)
(*                                                                         *)
(* A delivery is session.recv_packet: the handler of the flow the chunk is *)
(* for runs to its end.                                                    *)
(***************************************************************************)
EXTENDS SendFlow, RecvFlow

CONSTANT MayClose        \* which halves the application may close

ASSUME MayCloseAssumption == MayClose \subseteq {"send", "recv"}

vars == <<sendVars, recvVars, netVars>>

Init == SendInit /\ RecvInit /\ NetInit

(***************************************************************************)
(* Deliveries: recv_userdata, recv_buffer_probe and recv_range_ack.        *)
(***************************************************************************)
UserDataArrives(p) ==
  /\ p.type = "userdata"
  /\ toRecv' \in Consumed(toRecv, p)
  /\ OnUserData(p)
  /\ UNCHANGED sendVars

RecvUserData == \E p \in toRecv : UserDataArrives(p)

RecvBufferProbe ==
  /\ BufferProbe \in toRecv
  /\ toRecv' \in Consumed(toRecv, BufferProbe)
  /\ OnBufferProbe
  /\ UNCHANGED sendVars

RecvRangeAck ==
  \E p \in toSend :
     /\ toSend' \in Consumed(toSend, p)
     /\ OnRangeAck(p)
     /\ UNCHANGED recvVars

(***************************************************************************)
(* What each half does by itself: calls of the application, and timers.    *)
(***************************************************************************)
AppSend == \E len \in MsgSizes : Send(len) /\ UNCHANGED recvVars

Timeout == (RtxGiveUp \/ RtxTimeout) /\ UNCHANGED recvVars

Probe == ProbeTick /\ UNCHANGED recvVars

SenderCloses == "send" \in MayClose /\ CloseSend /\ UNCHANGED recvVars

AppRecv == Recv /\ UNCHANGED sendVars

DelayedAck == DelackAlarm /\ UNCHANGED sendVars

ReceiverCloses == "recv" \in MayClose /\ CloseRecv /\ UNCHANGED sendVars

Lose == LosePacket /\ UNCHANGED <<sendVars, recvVars>>

Next ==
  \/ AppSend \/ AppRecv
  \/ RecvUserData \/ RecvBufferProbe \/ RecvRangeAck
  \/ Timeout \/ Probe \/ DelayedAck
  \/ SenderCloses \/ ReceiverCloses
  \/ Lose

Spec == Init /\ [][Next]_vars

(***************************************************************************)
(* Fairness.  A packet that is sent again and again is delivered in the    *)
(* end (the link loses less than everything); timers that run fire; the    *)
(* application keeps reading.  It need not send, and nothing has to close. *)
(***************************************************************************)
MaxSeqNum == MaxMsgs * Max({NumFrags(len) : len \in MsgSizes})

Fairness ==
  /\ \A s \in 1 .. MaxSeqNum :
        SF_vars(\E p \in toRecv :
                  p.type = "userdata" /\ p.seq = s /\ UserDataArrives(p))
  /\ SF_vars(RecvBufferProbe) /\ SF_vars(RecvRangeAck)
  /\ WF_vars(Timeout) /\ WF_vars(Probe) /\ WF_vars(DelayedAck)
  /\ WF_vars(AppRecv)

FairSpec == Spec /\ Fairness
-----------------------------------------------------------------------------
SeqNums == 1 .. last_seqnum

UserDataType == [type : {"userdata"}, seq : SeqNums, frag : FragCtrl, data : PieceType]
RangeAckType ==
  [type : {"rangeack"}, bufAvail : Nat, cumAck : 0 .. last_seqnum,
   ranges : SUBSET SeqNums]

(***************************************************************************)
(* Every variable has its type; what the network carries is what the two   *)
(* halves can send.                                                        *)
(***************************************************************************)
TypeOK ==
  /\ SendTypeOK /\ RecvTypeOK
  /\ \A p \in toRecv : p = BufferProbe \/ p \in UserDataType
  /\ toSend \subseteq RangeAckType

(***************************************************************************)
(* The messages recv() returns are those send() accepted, whole, in order, *)
(* each once: whatever the network loses, reorders or duplicates           *)
(* (send_flow.send and recv_flow.read_message, flow.go).                   *)
(***************************************************************************)
ReliableDelivery ==
  /\ Len(delivered) <= Len(sent)
  /\ \A m \in 1 .. Len(delivered) : delivered[m] = Pieces(m, sent[m])

(***************************************************************************)
(* The sender forgets a chunk only when the receiver holds it: no sequence *)
(* number leaves send_queue that is not in recv_ranges (on_range_ack       *)
(* against send_ack).                                                      *)
(***************************************************************************)
AckedIsReceived == SeqNums \ DOMAIN send_queue \subseteq recv_ranges

(***************************************************************************)
(* inflight_bytes is the number of bytes in the chunks marked in flight,   *)
(* through losses, naks, late acks and timeouts: the unsigned counter of   *)
(* flow.go neither drifts nor wraps below zero.                            *)
(***************************************************************************)
InflightAccounted == inflight_bytes = Bytes(send_queue, InFlight(send_queue))

(***************************************************************************)
(* The counters behind the advertised window are the bytes the receiver    *)
(* holds, in order and out of order (on_userdata and read_message).        *)
(***************************************************************************)
BufferAccounted ==
  /\ ordered_recved_bytes = Bytes(ordered_recv_buf, DOMAIN ordered_recv_buf)
  /\ unordered_recv_buf_bytes = Bytes(unordered_recv_buf, DOMAIN unordered_recv_buf)

(***************************************************************************)
(* While the sender knows of no room at the receiver, the ticker that      *)
(* probes for some runs (on_range_ack: without it the flow would stop for  *)
(* good).                                                                  *)
(***************************************************************************)
ZeroWindowProbed == (recv_wnd = 0 /\ ~ send_closed) => bufprob_ticker

(***************************************************************************)
(* An open flow with something to send always has a timer that will send   *)
(* it: the retransmission alarm, or the ticker of a closed window          *)
(* (try_send, on_rtx_alarm and on_range_ack together).                     *)
(***************************************************************************)
SenderNeverStalls ==
  (DOMAIN send_queue # {} /\ ~ send_closed)
    => (rtx_alarm = "armed" \/ bufprob_ticker)

(***************************************************************************)
(* A step that puts bytes in flight had room for them: it ends less than a *)
(* segment above the smaller of the two windows in force (send_buget, read *)
(* before each chunk of try_send, against on_range_ack and on_rtx_alarm,   *)
(* which shrink the windows first).                                        *)
(***************************************************************************)
WindowRespected ==
  [][inflight_bytes' > inflight_bytes
       => inflight_bytes' < MinOf(recv_wnd', cong_wnd') + SMSS]_vars

(***************************************************************************)
(* Every message the application hands to an open flow is returned by the  *)
(* receiver's recv(), or the flow gives up: neither loss, delay nor a full *)
(* receive buffer leaves it waiting for good.                              *)
(***************************************************************************)
EventualDelivery ==
  \A m \in 1 .. MaxMsgs :
     Len(sent) >= m ~> (Len(delivered) >= m \/ send_closed)

(***************************************************************************)
(* A flow implements the channel of messages it stands for: send() accepts *)
(* a message, recv() delivers it, giving up or closing stops an end, and   *)
(* nothing else the halves or the network do shows outside.                *)
(***************************************************************************)
Messages == {Pieces(m, len) : m \in 1 .. MaxMsgs, len \in MsgSizes}
Accepted == [m \in 1 .. Len(sent) |-> Pieces(m, sent[m])]
Stopped ==
  (IF send_closed THEN {"send"} ELSE {}) \cup (IF recv_closed THEN {"recv"} ELSE {})

Channel ==
  INSTANCE MessageChannel WITH
    Message <- Messages, sent <- Accepted, delivered <- delivered,
    stopped <- Stopped

IsMessageChannel == Channel!Spec

(***************************************************************************)
(* A closed flow has no retransmission alarm: close() stops it, and        *)
(* on_rtx_alarm says it closes the flow when a chunk was sent too often.   *)
(***************************************************************************)
ClosedHasNoAlarm == send_closed => rtx_alarm = "nil"
=============================================================================
