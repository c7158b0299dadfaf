------------------------------ MODULE FlowInv -------------------------------
(***************************************************************************)
(* The inductive invariant of Flow: what is true of every state, and       *)
(* enough of it that one step preserves it.  FlowProofs proves it.         *)
(***************************************************************************)
EXTENDS Flow

(***************************************************************************)
(* pushed holds the messages one after the other: a chunk tells where its  *)
(* message starts, and all of that message is there.                       *)
(***************************************************************************)
WholeMessageAt(s) ==
  LET m   == pushed[s].data.msg
      i   == pushed[s].data.idx
      len == sent[m]
  IN  /\ m \in 1 .. Len(sent)
      /\ i \in 1 .. NumFrags(len)
      /\ \A k \in 1 .. NumFrags(len) :
           /\ s - i + k \in SeqNums
           /\ pushed[s - i + k] = Fragment(m, len, k)

LastOfMessage(s) == pushed[s].data.idx = NumFrags(sent[pushed[s].data.msg])

\* s is the last chunk of message m, 0 that of no message.
EndsMessage(s, m) ==
  \/ s = 0 /\ m = 0
  \/ s \in SeqNums /\ pushed[s].data.msg = m /\ LastOfMessage(s)

PushedInv ==
  /\ Len(pushed) = last_seqnum
  /\ \A s \in SeqNums : WholeMessageAt(s)
  /\ \A s \in 0 .. last_seqnum - 1, m \in 0 .. Len(sent) :
       EndsMessage(s, m) => pushed[s + 1].data.msg = m + 1 /\ pushed[s + 1].data.idx = 1
  /\ EndsMessage(last_seqnum, Len(sent))

(***************************************************************************)
(* Every copy of a chunk, wherever it is, is the chunk that was pushed.    *)
(***************************************************************************)
IsCopy(c, f) == c.frag = f.frag /\ c.data = f.data

(***************************************************************************)
(* What the receiver has: everything up to last_ordered_seqnum, and what   *)
(* is held out of order, with a gap between the two.                       *)
(***************************************************************************)
RecvRangesInv ==
  /\ recv_ranges = 1 .. last_ordered_seqnum \cup DOMAIN unordered_recv_buf
  /\ recv_ranges \subseteq SeqNums
  /\ last_ordered_seqnum \in 0 .. last_seqnum
  /\ \A s \in DOMAIN unordered_recv_buf :
       s > last_ordered_seqnum + 1 /\ IsCopy(unordered_recv_buf[s], pushed[s])

(***************************************************************************)
(* The receiver's counters, the ordered chunks counted where they were     *)
(* pushed: those after position Read have not been read yet.               *)
(***************************************************************************)
Read == last_ordered_seqnum - Len(ordered_recv_buf)

BufferInv ==
  /\ ordered_recved_bytes = Bytes(pushed, Read + 1 .. last_ordered_seqnum)
  /\ unordered_recv_buf_bytes = Bytes(unordered_recv_buf, DOMAIN unordered_recv_buf)

(***************************************************************************)
(* What has been read is the messages delivered, and what has not follows. *)
(***************************************************************************)
ReadInv ==
  /\ Read \in 0 .. last_seqnum
  /\ \A i \in 1 .. Len(ordered_recv_buf) :
       IsCopy(ordered_recv_buf[i], pushed[Read + i])
  /\ EndsMessage(Read, Len(delivered))
  /\ \A m \in 1 .. Len(delivered) : delivered[m] = Pieces(m, sent[m])

(***************************************************************************)
(* An open flow without an alarm has not sent anything; one whose alarm    *)
(* has fired for nothing has spent none of its burst.                      *)
(***************************************************************************)
TimerInv ==
  /\ ZeroWindowProbed
  /\ SenderNeverStalls
  /\ (rtx_alarm = "nil" /\ ~ send_closed) =>
       last_seqnum = 0 /\ recv_wnd > 0 /\ ~ bufprob_ticker /\ data_packets_count = 0
  /\ rtx_alarm = "idle" => data_packets_count = 0

SendInv ==
  /\ SendTypeOK
  /\ \A s \in DOMAIN send_queue : IsCopy(send_queue[s], pushed[s])
  /\ InflightAccounted
  /\ TimerInv

RecvInv == RecvTypeOK /\ RecvRangesInv /\ BufferInv /\ ReadInv

(***************************************************************************)
(* What is in transit: probes, copies of chunks, and acknowledgements of   *)
(* what the receiver has.                                                  *)
(***************************************************************************)
NetInv ==
  /\ \A p \in toRecv : p = BufferProbe \/ (p \in UserDataType /\ IsCopy(p, pushed[p.seq]))
  /\ toSend \subseteq RangeAckType
  /\ \A a \in toSend : 1 .. a.cumAck \subseteq recv_ranges /\ a.ranges \subseteq recv_ranges

(***************************************************************************)
(* The sender has dropped what it saw acknowledged and nothing else.       *)
(***************************************************************************)
AckedInv ==
  /\ ack_ranges \ {0} \subseteq recv_ranges
  /\ SeqNums \ DOMAIN send_queue \subseteq ack_ranges

IInv == PushedInv /\ SendInv /\ RecvInv /\ NetInv /\ AckedInv
=============================================================================
