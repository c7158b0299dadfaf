------------------------------ MODULE RecvFlow ------------------------------
(***************************************************************************)
(* The receiving half of a flow, recv_flow in flow.go: it puts the chunks  *)
(* in order, rebuilds the messages, and acknowledges, at once or after a   *)
(* delay.                                                                  *)
(*                                                                         *)
(* unordered_recv_buf is a heap of chunks by sequence number: here it is a *)
(* function from the sequence numbers held to the chunks.  recv_ranges is  *)
(* the set of the sequence numbers its ranges contain (module Ranges).     *)
(***************************************************************************)
EXTENDS Chunks, Network, Sequences, FiniteSetsExt

CONSTANTS
  MaxRecvBuf,         \* max_recv_buf_size
  Block               \* the unit of the advertised window, 1024 bytes

ASSUME RecvAssumption == MaxRecvBuf \in Nat \ {0} /\ Block \in Nat \ {0}

VARIABLES
  ordered_recv_buf,   \* the chunks in order and not yet read
  unordered_recv_buf,
  ordered_recved_bytes, unordered_recv_buf_bytes,
  recv_ranges, rx_data_packets, prev_rwnd, last_ordered_seqnum,
  delack_alarm,       \* TRUE while the delayed ack timer runs
  recv_closed,
  delivered           \* history: the messages recv() returned

recvVars == <<ordered_recv_buf, unordered_recv_buf, ordered_recved_bytes,
              unordered_recv_buf_bytes, recv_ranges, rx_data_packets,
              prev_rwnd, last_ordered_seqnum, delack_alarm, recv_closed,
              delivered>>

RecvInit ==
  /\ ordered_recv_buf = <<>> /\ unordered_recv_buf = <<>>
  /\ ordered_recved_bytes = 0 /\ unordered_recv_buf_bytes = 0
  /\ recv_ranges = {} /\ rx_data_packets = 0 /\ prev_rwnd = 0
  /\ last_ordered_seqnum = 0
  /\ delack_alarm = FALSE /\ recv_closed = FALSE /\ delivered = <<>>

(***************************************************************************)
(* send_ack.  The window travels in blocks, rounded down; the ranges name  *)
(* the chunks held out of order.                                           *)
(***************************************************************************)
\* Mutant: a buffer filled beyond its size is not seen.
AvailableBuffersUnchecked(occupied) == MaxRecvBuf - occupied

AvailableBuffers(occupied) ==
  IF occupied >= MaxRecvBuf THEN 0 ELSE MaxRecvBuf - occupied

\* Mutant: cumAck names the chunk expected next.
RangeAckNext(avail, cumAck, ranges) ==
  [type |-> "rangeack", bufAvail |-> (avail \div Block) * Block,
   cumAck |-> cumAck + 1, ranges |-> ranges]

RangeAck(avail, cumAck, ranges) ==
  [type |-> "rangeack", bufAvail |-> (avail \div Block) * Block,
   cumAck |-> cumAck, ranges |-> ranges]

\* The ack leaves the state the handler has reached: primed variables.
SendAck ==
  LET avail == AvailableBuffers(ordered_recved_bytes' + unordered_recv_buf_bytes')
  IN  /\ rx_data_packets' = 0
      /\ prev_rwnd' = avail \div Block
      /\ delack_alarm' = FALSE
      /\ toSend' = WithAck(toSend, RangeAck(avail, last_ordered_seqnum',
                                            DOMAIN unordered_recv_buf'))

(***************************************************************************)
(* on_userdata.                                                            *)
(***************************************************************************)
DuplicateData(p) ==
  /\ p.seq \in recv_ranges
  /\ UNCHANGED <<ordered_recv_buf, unordered_recv_buf, ordered_recved_bytes,
                 unordered_recv_buf_bytes, recv_ranges, last_ordered_seqnum,
                 recv_closed, delivered>>
  /\ SendAck

\* The number of ranges in a range queue that holds the set S.
NumRanges(S) == Cardinality({x \in S : x - 1 \notin S})

AckNow ==
  \/ rx_data_packets + 1 >= 2
  \/ prev_rwnd < 2
  \/ NumRanges(recv_ranges) > 1

\* The loop moves the n chunks that follow the last one in order, up to the
\* first gap.
NewData(p) ==
  LET buf == [s \in DOMAIN unordered_recv_buf \cup {p.seq} |->
                IF s = p.seq THEN [frag |-> p.frag, data |-> p.data]
                ELSE unordered_recv_buf[s]]
  IN  /\ p.seq \notin recv_ranges
      /\ recv_ranges' = recv_ranges \cup {p.seq}
      /\ \E n \in 0 .. Cardinality(DOMAIN buf) :
           LET moved == last_ordered_seqnum + 1 .. last_ordered_seqnum + n
           IN  /\ moved \subseteq DOMAIN buf
               /\ last_ordered_seqnum + n + 1 \notin DOMAIN buf
               /\ ordered_recv_buf' =
                    ordered_recv_buf \o [i \in 1 .. n |-> buf[last_ordered_seqnum + i]]
               /\ unordered_recv_buf' = [s \in DOMAIN buf \ moved |-> buf[s]]
               /\ ordered_recved_bytes' = ordered_recved_bytes + Bytes(buf, moved)
               /\ unordered_recv_buf_bytes' =
                    unordered_recv_buf_bytes + p.data.len - Bytes(buf, moved)
               /\ last_ordered_seqnum' = last_ordered_seqnum + n
      /\ IF AckNow THEN SendAck
         ELSE /\ rx_data_packets' = rx_data_packets + 1
              /\ delack_alarm' = TRUE
              /\ UNCHANGED <<prev_rwnd, toSend>>
      /\ UNCHANGED <<recv_closed, delivered>>

OnUserData(p) == DuplicateData(p) \/ NewData(p)

(***************************************************************************)
(* on_buffer_probe, the delayed ack timer, recv() and close().             *)
(***************************************************************************)
OnBufferProbe ==
  /\ UNCHANGED <<ordered_recv_buf, unordered_recv_buf, ordered_recved_bytes,
                 unordered_recv_buf_bytes, recv_ranges, last_ordered_seqnum,
                 recv_closed, delivered>>
  /\ SendAck

DelackAlarm == delack_alarm /\ OnBufferProbe /\ UNCHANGED toRecv

\* read_message takes the chunks up to the first end of a message.  When all
\* of them are empty it returns nil, which recv() takes for "no message yet".
\* Mutants: a message of one chunk is not seen to end; the first chunk of a
\* message is taken for all of it.
EndsWithoutWhole ==
  {i \in DOMAIN ordered_recv_buf : ordered_recv_buf[i].frag = "end"}
EndsWithBegin ==
  {i \in DOMAIN ordered_recv_buf : ordered_recv_buf[i].frag # "middle"}

MessageEnds ==
  {i \in DOMAIN ordered_recv_buf : ordered_recv_buf[i].frag \in {"whole", "end"}}

\* Mutant: the bytes of the chunk that ends the message are not given back.
BytesReadButLast(n) == Bytes(ordered_recv_buf, 1 .. n - 1)

BytesRead(n) == Bytes(ordered_recv_buf, 1 .. n)

Recv ==
  /\ ~ recv_closed
  /\ MessageEnds # {}
  /\ LET n   == Min(MessageEnds)
         msg == [i \in 1 .. n |-> ordered_recv_buf[i].data]
     IN  /\ ordered_recv_buf' =
              SubSeq(ordered_recv_buf, n + 1, Len(ordered_recv_buf))
         /\ ordered_recved_bytes' = ordered_recved_bytes - BytesRead(n)
         /\ delivered' = IF \A i \in 1 .. n : msg[i].len = 0 THEN delivered
                         ELSE Append(delivered, msg)
  /\ UNCHANGED <<unordered_recv_buf, unordered_recv_buf_bytes, recv_ranges,
                 rx_data_packets, prev_rwnd, last_ordered_seqnum, delack_alarm,
                 recv_closed, netVars>>

CloseRecv ==
  /\ ~ recv_closed
  /\ recv_closed' = TRUE
  /\ UNCHANGED <<ordered_recv_buf, unordered_recv_buf, ordered_recved_bytes,
                 unordered_recv_buf_bytes, recv_ranges, rx_data_packets,
                 prev_rwnd, last_ordered_seqnum, delack_alarm, delivered,
                 netVars>>

(***************************************************************************)
(* The types of the receiving half.                                        *)
(***************************************************************************)
RecvTypeOK ==
  /\ ordered_recv_buf \in Seq(FragmentType)
  /\ last_ordered_seqnum \in Nat
  /\ recv_ranges \subseteq Nat \ {0}
  /\ DOMAIN unordered_recv_buf \subseteq recv_ranges
  /\ unordered_recv_buf \in [DOMAIN unordered_recv_buf -> FragmentType]
  /\ ordered_recved_bytes \in Nat
  /\ unordered_recv_buf_bytes \in Nat
  /\ rx_data_packets \in 0 .. 1
  /\ prev_rwnd \in Nat
  /\ delack_alarm \in BOOLEAN
  /\ recv_closed \in BOOLEAN
  /\ delivered \in Seq(Seq(PieceType))
=============================================================================
