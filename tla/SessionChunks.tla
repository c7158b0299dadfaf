--------------------------- MODULE SessionChunks ---------------------------
(***************************************************************************)
(* The chunks of an open session: the send_... methods of session.go write *)
(* them and chunk.go reads them.  A chunk that continues the one before it *)
(* in the packet, and an ack with a bitmap, come from other peers only.    *)
(***************************************************************************)
EXTENDS Options

(***************************************************************************)
(* The options of a flow's first chunk: a signature, the flow it answers   *)
(* if there is one, and an empty option to end them.                       *)
(***************************************************************************)
NoFlow == 0

FlowOptions(signature, rel) ==
  signature
    \o (IF rel = NoFlow THEN <<>>
        ELSE EncodeVlu(1 + GetVluSize(rel)) \o <<10>> \o EncodeVlu(rel))
    \o <<0>>

(***************************************************************************)
(* User data: what it is a fragment of, and its place in its flow.         *)
(***************************************************************************)
Bit(b, weight) == IF b THEN weight ELSE 0

UserDataFlags(m) ==
  m.frag * 16 + Bit(m.options # <<>>, 128) + Bit(m.abandon, 2) + Bit(m.final, 1)

EncodeUserData(m) ==
  <<UserDataFlags(m)>> \o EncodeVlu(m.flowid) \o EncodeVlu(m.seq) \o EncodeVlu(m.offset)
    \o m.options \o m.data

EncodeNextUserData(m) == <<UserDataFlags(m)>> \o m.options \o m.data

\* What both kinds say, where place is theirs.
UserDataAt(place, flags, buf) ==
  LET options == IF flags >= 128 THEN ReadOptions(buf) ELSE [value |-> <<>>, rest |-> buf]
  IN  [type |-> "userdata", frag |-> (flags \div 16) % 4,
       abandon |-> (flags \div 2) % 2 = 1, final |-> flags % 2 = 1,
       flowid |-> place.flowid, seq |-> place.seq, offset |-> place.offset,
       options |-> options.value, data |-> options.rest]

DecodePlace(buf) ==
  LET flowid == DecodeVlu(buf)
      seq    == DecodeVlu(flowid.rest)
      offset == DecodeVlu(seq.rest)
  IN  [value |-> [flowid |-> flowid.value, seq |-> seq.value, offset |-> offset.value],
       rest  |-> offset.rest]

\* The place after that of the last user data in the packet.  Mutant: its
\* sequence number is used for both.
NextPlaceTwice(last) == [last EXCEPT !.offset = @ + 1]

NextPlace(last) == [last EXCEPT !.seq = @ + 1, !.offset = @ + 1]

\* What the context of a packet is after a chunk: the place of its user data.
PlaceAfter(type, last, buf) ==
  CASE type = "userdata"     -> DecodePlace(From(buf, 2)).value
    [] type = "nextuserdata" -> NextPlace(last)
    [] OTHER                 -> last

DecodeUserData(place, buf) == UserDataAt(place, Head(buf), DecodePlace(Tail(buf)).rest)

DecodeNextUserData(place, buf) == UserDataAt(place, Head(buf), Tail(buf))

(***************************************************************************)
(* Acks: a window in KiB, and gaps and lengths after cumAck.               *)
(***************************************************************************)
Cursor(cumAck, ranges, i) ==
  IF i = 1 THEN cumAck + 1 ELSE ranges[i - 1].pos + ranges[i - 1].len

\* Mutant: a gap counts from the chunk before the cursor.
EncodeRangesLate(cumAck, ranges) ==
  FlattenSeq([i \in DOMAIN ranges |->
    EncodeVlu(ranges[i].pos - Cursor(cumAck, ranges, i)) \o EncodeVlu(ranges[i].len - 1)])

EncodeRanges(cumAck, ranges) ==
  FlattenSeq([i \in DOMAIN ranges |->
    EncodeVlu(ranges[i].pos - Cursor(cumAck, ranges, i) - 1) \o EncodeVlu(ranges[i].len - 1)])

\* From a cursor and a buffer.
DecodeRanges[at \in Nat \X Buffer] ==
  IF at[2] = <<>> THEN <<>>
  ELSE LET gap == DecodeVlu(at[2])
           len == DecodeVlu(gap.rest)
           r   == [pos |-> at[1] + gap.value + 1, len |-> len.value + 1]
       IN  <<r>> \o DecodeRanges[<<r.pos + r.len, len.rest>>]

EncodeAckHead(m) ==
  EncodeVlu(m.flowid) \o EncodeVlu(m.bufAvail \div 1024) \o EncodeVlu(m.cumAck)

EncodeRangeAck(m) == EncodeAckHead(m) \o EncodeRanges(m.cumAck, m.ranges)

EncodeBitmapAck(m) == EncodeAckHead(m) \o m.bitmap

\* What both kinds of ack tell a flow; the bitmap is not read.
DecodeAck(type, buf) ==
  LET flowid   == DecodeVlu(buf)
      bufAvail == DecodeVlu(flowid.rest)
      cumAck   == DecodeVlu(bufAvail.rest)
  IN  [type |-> "rangeack", flowid |-> flowid.value,
       bufAvail |-> bufAvail.value * 1024, cumAck |-> cumAck.value,
       ranges |-> IF type = "rangeack" THEN DecodeRanges[<<cumAck.value + 1, cumAck.rest>>]
                  ELSE <<>>]

(***************************************************************************)
(* The others.                                                             *)
(***************************************************************************)
EncodeException(m) == EncodeVlu(m.flowid) \o EncodeVlu(m.exception)

DecodeException(buf) ==
  LET flowid == DecodeVlu(buf)
  IN  [type |-> "exception", flowid |-> flowid.value,
       exception |-> DecodeVlu(flowid.rest).value]

EncodeSessionChunk(m) ==
  CASE m.type = "userdata"  -> EncodeUserData(m)
    [] m.type = "rangeack"  -> EncodeRangeAck(m)
    [] m.type = "bitmapack" -> EncodeBitmapAck(m)
    [] m.type = "probe"     -> EncodeVlu(m.flowid)
    [] m.type = "exception" -> EncodeException(m)
    [] m.type \in {"ping", "pingreply"} -> m.body
    [] m.type \in {"closerequest", "closeack"} -> <<>>

DecodeSessionChunk(type, place, buf) ==
  CASE type = "userdata"  -> DecodeUserData(place, buf)
    [] type = "nextuserdata" -> DecodeNextUserData(place, buf)
    [] type \in {"rangeack", "bitmapack"} -> DecodeAck(type, buf)
    [] type = "probe"     -> [type |-> "probe", flowid |-> DecodeVlu(buf).value]
    [] type = "exception" -> DecodeException(buf)
    [] type \in {"ping", "pingreply"} -> [type |-> type, body |-> buf]
    [] type \in {"closerequest", "closeack"} -> [type |-> type]
=============================================================================
