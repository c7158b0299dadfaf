------------------------------ MODULE Packets ------------------------------
(***************************************************************************)
(* How chunks travel: they are put into a packet, padded to whole blocks,  *)
(* summed and encrypted, and taken out of it by a handshake or a session   *)
(* of the other side (packet.go, chunk.go and the senders of handshake.go  *)
(* and session.go).  What is sent is any chunk this code or, where it only *)
(* reads a kind, another peer writes.                                      *)
(*                                                                         *)
(* A cipher is modelled by its key: the same key gives the bytes back, and *)
(* what another makes of them fails the checksum.  The XOR that hides the  *)
(* session id is undone by the same XOR, and left out.                     *)
(***************************************************************************)
EXTENDS SessionChunks, Startup, Amf

Smss == 1460         \* what a chunk holds of a message

CONSTANTS
  Numbers,           \* flow ids, sequence numbers and gaps tried
  RelFlows,          \* the flows that a first chunk may answer
  DataSizes,         \* the sizes of the data of a chunk
  Signature,         \* the option of a flow's first chunk: its bytes
  Lengths,           \* the lengths of the byte arrays in messages
  DhKeys,            \* public keys, without zeros in front
  PseudoIds          \* identities of handshakes, 64 bytes

ASSUME NumbersAssumption ==
  \* Numbers of 31 bits, and lengths of 28, which a U29 holds.
  /\ \A n \in Numbers : n \in Nat /\ n \div 8 < FourDigits
  /\ \A len \in Lengths : len \in Nat /\ len < FourDigits
  /\ DataSizes \subseteq 0 .. Smss
  \* net_streams open all flows, and each has a signature, an option.
  /\ Signature \in Buffer /\ Len(Signature) <= Smss
  /\ \E n \in 1 .. Len(Signature) - 1 :
       Signature = EncodePrefixed(From(Signature, n + 1)) /\ Signature[n + 1] # 10
  \* get_vlu_size answers 1 for every number: longer ones are garbled.
  /\ \A f \in RelFlows : f \in 1 .. 127
  /\ \A k \in DhKeys : k \in Buffer /\ k # <<>> /\ Len(k) <= KeyLen /\ Head(k) # 0
  /\ \A p \in PseudoIds : p \in Buffer /\ Len(p) = 64

VARIABLES
  chunks,            \* the chunks sent, in one packet
  header,            \* what its header says: the timestamp and its echo, 0
                     \* for none, the mode and two marks
  dkey,              \* the key of the session it goes to, "none" before the
                     \* keys are exchanged
  packet,            \* the packet, Nothing before it is sent
  received           \* what the other side makes of it

packetVars == <<chunks, header, dkey, packet, received>>

Nothing == [key |-> "none", bytes |-> <<>>]
Dropped == [header |-> <<>>, chunks |-> <<>>]

(***************************************************************************)
(* What is sent.  The data of a chunk are some bytes, a message of a       *)
(* net_stream, or the beginning of the byte array a bi_stream sends: its   *)
(* length, as a U29 with a mark in its last bit, and a first byte.         *)
(***************************************************************************)
SomeBytes(size) == [i \in 1 .. size |-> 255]

ByteArray(len) == WriteU29(2 * len + 1) \o SomeBytes(1)

ArrayLength(buf) == ReadU29(buf).value \div 2

Play == <<112, 108, 97, 121>>       \* "play"

\* A command goes into one chunk.
ASSUME CommandsAssumption ==
  \A v \in Values : Len(EncodeMsg(17, Play, v)) <= Smss

CommandBytes == {EncodeMsg(form, Play, v) : form \in {15, 17, 20}, v \in Values}

UserData(frags, flowids, seqs, offsets, data) ==
  {[type |-> "userdata", frag |-> g, abandon |-> a, final |-> a, flowid |-> f,
    seq |-> n, offset |-> o, data |-> d,
    options |-> IF n = 1 THEN FlowOptions(Signature, rel) ELSE <<>>] :
     g \in frags, a \in BOOLEAN, f \in flowids, n \in seqs, o \in offsets, d \in data,
     rel \in RelFlows \cup {NoFlow}}

Sizes == {SomeBytes(size) : size \in DataSizes}

\* Chunks of one flow, one after the other.
Placed(s) ==
  [i \in DOMAIN s |-> [s[i] EXCEPT !.flowid = s[1].flowid, !.seq = s[1].seq + i - 1,
                                   !.offset = s[1].offset + i - 1]]

Continued ==
  LET next == UserData({2}, {2}, {2}, {2}, {SomeBytes(3)})
  IN  UNION {{Placed(<<m, n>>), Placed(<<m, n, n>>)} :
               m \in UserData({0, 1}, Numbers, {1, 127}, {0}, Sizes), n \in next}

\* The ranges of an ack: none, one, or one and another of length one behind it.
SomeRanges(cumAck) ==
  LET firsts == {[pos |-> cumAck + 1 + gap, len |-> len] : gap, len \in Numbers \ {0}}
  IN  {<<>>} \cup {<<r>> : r \in firsts}
        \cup {<<r, [pos |-> r.pos + r.len + 1, len |-> 1]>> : r \in firsts}

Acks ==
  [type : {"bitmapack"}, flowid : {1}, bufAvail : {1024}, cumAck : Numbers, bitmap : Sizes]
    \cup (UNION {[type : {"rangeack"}, flowid : {1}, bufAvail : {0, 1023, 1024, 1024 * 1024},
                  cumAck : {c}, ranges : SomeRanges(c)] : c \in Numbers})

OneChunk ==
  UserData(0 .. 3, Numbers, Numbers, {0, 128},
           Sizes \cup {ByteArray(len) : len \in Lengths})
    \cup UserData({0}, {2}, {2}, {2}, CommandBytes)
    \cup Acks
    \cup [type : {"probe"}, flowid : Numbers]
    \cup [type : {"exception"}, flowid : Numbers, exception : Numbers]
    \cup [type : {"ping", "pingreply"}, body : Sizes]
    \cup [type : {"closerequest", "closeack"}]

Bytes4 == {<<0, 0, 0, 1>>, <<255, 255, 255, 255>>}

Endpoint == {SomeBytes(size) : size \in {0, 32, 126, 200}}

Addresses == [ip : {SomeBytes(4), SomeBytes(16)}, port : {80, 65535}]

Certificates ==
  {Certificate(p) : p \in PseudoIds} \cup {FlashCert(p, k) : p \in PseudoIds, k \in DhKeys}

Hellos ==
  [type : {"ihello"}, edpType : {10, 15}, edp : Endpoint, tag : Bytes4]
    \cup [type : {"fihello"}, edpType : {15}, edp : Endpoint, addr : Addresses, tag : Bytes4]
    \cup [type : {"rhello"}, tag : Bytes4, cookie : Bytes4, cert : Certificates]
    \cup [type : {"redirect"}, tag : Bytes4,
          addrs : {<<>>} \cup {<<a, b>> : a, b \in Addresses}]
    \cup [type : {"cookiechange"}, old : Bytes4, cookie : Bytes4]

Keyings ==
  [type : {"iikeying"}, sid : {1, 65535}, cookie : Bytes4,
   cert : {InitiatorCert(k) : k \in DhKeys}, nonce : {Nonce(k) : k \in DhKeys}]
    \cup [type : {"rikeying"}, sid : {1, 256}, nonce : {Nonce(k) : k \in DhKeys}]

\* What goes to session id 0, the handshake, and who has only the default key.
ToHandshake(m) == m.type \in {"ihello", "fihello", "rhello", "redirect", "iikeying"}

KeyFor(m) == IF m.type \in StartupTypes THEN "default" ELSE "session"

Mode(m) == IF m.type \in StartupTypes THEN {3} ELSE {1, 2}

HeaderFor(m, stamps, marks) ==
  [ts : stamps, echo : stamps, mode : Mode(m), critical : marks, reverse : marks]

(***************************************************************************)
(* Packets.  What remains after the last chunk is padding: it stops the    *)
(* reader because no chunk is as long as it then says.                     *)
(***************************************************************************)
ChunkTypes ==
  [ihello |-> 48, fihello |-> 15, rhello |-> 112, cookiechange |-> 121, redirect |-> 113,
   iikeying |-> 56, rikeying |-> 120, userdata |-> 16, nextuserdata |-> 17,
   bitmapack |-> 80, rangeack |-> 81, closerequest |-> 12, closeack |-> 76,
   ping |-> 1, pingreply |-> 65, probe |-> 24, exception |-> 94]

TypeNamed(n) == CHOOSE type \in DOMAIN ChunkTypes : ChunkTypes[type] = n

AddChunk(type, data) == <<ChunkTypes[type]>> \o Word(Len(data)) \o data

PackChunk(i) ==
  LET m == chunks[i]
  IN  IF m.type \in StartupTypes THEN AddChunk(m.type, EncodeStartup(m))
      ELSE IF i > 1 /\ m.type = "userdata"
           THEN AddChunk("nextuserdata", EncodeNextUserData(m))
           ELSE AddChunk(m.type, EncodeSessionChunk(m))

Padding(len) == SomeBytes(((len - 1) \div 16 + 1) * 16 - len)

\* The sum of a buffer's words, and its complement with the carries added.
WordSum(buf) ==
  LET sum[i \in 0 .. Len(buf) \div 2] ==
        IF i = 0 THEN 0 ELSE sum[i - 1] + FromWord(SubSeq(buf, 2 * i - 1, 2 * i))
  IN  sum[Len(buf) \div 2]

CheckSum(buf) ==
  LET sum    == WordSum(buf)
      folded == (sum \div 65536) + (sum % 65536)
  IN  65535 - ((folded + (folded \div 65536)) % 65536)

HeaderBytes(h) ==
  <<Bit(h.critical, 128) + Bit(h.reverse, 64) + Bit(h.ts > 0, 8) + Bit(h.echo > 0, 4) + h.mode>>
    \o (IF h.ts > 0 THEN Word(h.ts) ELSE <<>>)
    \o (IF h.echo > 0 THEN Word(h.echo) ELSE <<>>)

Pack ==
  LET body   == HeaderBytes(header) \o FlattenSeq([i \in DOMAIN chunks |-> PackChunk(i)])
      padded == body \o Padding(2 + Len(body))
  IN  [key |-> KeyFor(chunks[1]), bytes |-> Word(CheckSum(padded)) \o padded]

Fits(buf) == Len(buf) - 3 >= FromWord(Tail(buf))

\* The chunks of a packet: their types and data.
Frames[buf \in Buffer] ==
  IF Len(buf) <= 2 \/ ~ Fits(buf) THEN <<>>
  ELSE LET len == FromWord(Tail(buf))
       IN  <<[type |-> buf[1], data |-> SubSeq(buf, 4, 3 + len)]>> \o Frames[From(buf, 4 + len)]

(***************************************************************************)
(* packet_context: the place of the last user data up to each chunk, for   *)
(* the one that continues it.                                              *)
(***************************************************************************)
ReadChunks(buf) ==
  LET frames == Frames[buf]
      place[i \in 0 .. Len(frames)] ==
        IF i = 0 THEN [flowid |-> 0, seq |-> 0, offset |-> 0]
        ELSE PlaceAfter(TypeNamed(frames[i].type), place[i - 1], frames[i].data)
  IN  [i \in DOMAIN frames |->
         LET type == TypeNamed(frames[i].type)
         IN  IF type \in StartupTypes THEN DecodeStartup(type, frames[i].data)
             ELSE DecodeSessionChunk(type, place[i], frames[i].data)]

\* A session that has no key yet reads with the one everybody knows.
ReaderKey == IF ToHandshake(chunks[1]) \/ dkey = "none" THEN "default" ELSE dkey

Readable(p) ==
  p.key = ReaderKey /\ FromWord(p.bytes) = CheckSum(From(p.bytes, 3))

Unpack(buf) ==
  LET flags   == buf[3]
      stamped == (flags \div 8) % 2
      echoed  == (flags \div 4) % 2
      At(i)   == FromWord(From(buf, i))
  IN  [header |-> [ts       |-> IF stamped = 1 THEN At(4) ELSE 0,
                   echo     |-> IF echoed = 1 THEN At(4 + 2 * stamped) ELSE 0,
                   mode     |-> flags % 4,
                   critical |-> flags >= 128,
                   reverse  |-> (flags \div 64) % 2 = 1],
       chunks |-> ReadChunks(From(buf, 4 + 2 * (stamped + echoed)))]
-----------------------------------------------------------------------------
PacketInit ==
  /\ \/ /\ chunks \in {<<m>> : m \in OneChunk \cup Keyings}
        /\ header \in HeaderFor(chunks[1], {256}, {FALSE})
        /\ dkey = IF chunks[1].type \in StartupTypes THEN "none" ELSE "session"
     \/ /\ chunks \in {<<m>> : m \in Hellos} \cup Continued
        /\ header \in HeaderFor(chunks[1], {0, 255}, {FALSE})
        /\ dkey \in {"none", "session"}
     \/ /\ chunks \in {<<m>> : m \in [type : {"rikeying"}, sid : {1}, nonce : {SomeBytes(8)}]
                                       \cup [type : {"ping", "pingreply"}, body : Sizes]}
        /\ header \in HeaderFor(chunks[1], {0, 1, 255, 256, 65535}, BOOLEAN)
        /\ dkey \in {"none", "session"}
  /\ packet = Nothing /\ received = Nothing

Send ==
  /\ packet = Nothing
  /\ packet' = Pack
  /\ UNCHANGED <<chunks, header, dkey, received>>

Receive ==
  /\ packet # Nothing /\ received = Nothing
  /\ received' = IF Readable(packet) THEN Unpack(packet.bytes) ELSE Dropped
  /\ UNCHANGED <<chunks, header, dkey, packet>>

PacketNext == Send \/ Receive

PacketSpec == PacketInit /\ [][PacketNext]_packetVars
-----------------------------------------------------------------------------
(***************************************************************************)
(* A packet is bytes, in whole blocks.                                     *)
(***************************************************************************)
PacketTypeOK ==
  /\ \A i \in DOMAIN packet.bytes : packet.bytes[i] \in Byte
  /\ Len(packet.bytes) % 16 = 0
  /\ dkey \in {"none", "session"}

(***************************************************************************)
(* The other side gets the chunks, all of them, each in its place in its   *)
(* flow, and nothing after them, with their timestamps, the flow they      *)
(* answer and the sender's public key, however short; only the window of   *)
(* an ack is rounded, down to 1024, and a bitmap lost.  A certificate with *)
(* no key is not taken for one with a key.  The other side drops the       *)
(* packet when it has not yet the key, or has it already and gets a second *)
(* answer to its keying.                                                   *)
(***************************************************************************)
Rounded(m) ==
  IF m.type \in {"rangeack", "bitmapack"}
  THEN [type |-> "rangeack", flowid |-> m.flowid, cumAck |-> m.cumAck,
        bufAvail |-> (m.bufAvail \div 1024) * 1024,
        ranges |-> IF m.type = "rangeack" THEN m.ranges ELSE <<>>]
  ELSE m

FindsKeys(m, r) ==
  \A k \in DhKeys :
    /\ m.type = "iikeying" /\ m.cert = InitiatorCert(k) => KeyInCert(r.cert) = k
    /\ m.type \in {"iikeying", "rikeying"} /\ m.nonce = Nonce(k) => KeyInNonce(r.nonce) = k
    /\ m.type = "rhello" => \A p \in PseudoIds :
         /\ m.cert = FlashCert(p, k) => KeyInRHello(r.cert) = k
         /\ m.cert = Certificate(p) => KeyInRHello(r.cert) = <<>>

ReceivedIsSent ==
  received # Nothing =>
    IF packet.key = ReaderKey
    THEN /\ received = [header |-> header,
                        chunks |-> [i \in DOMAIN chunks |-> Rounded(chunks[i])]]
         /\ FindsKeys(chunks[1], received.chunks[1])
         /\ \A rel \in RelFlows :
              chunks[1].type = "userdata" /\ chunks[1].options = FlowOptions(Signature, rel) =>
                ReadVluOption(received.chunks[1].options, 10, NoFlow) = rel
    ELSE received = Dropped

(***************************************************************************)
(* The receiver of a byte array reads the length that was written          *)
(* (write_amf3_bytearray and read_amf3_bytearray), although nothing but    *)
(* the marks of a U29 tells where it ends; and that of a command reads the *)
(* parameter, objects within objects and what follows them (encode_msg and *)
(* decode_msg), in each of the forms it may be written in.                 *)
(***************************************************************************)
ReadsBack ==
  received \notin {Nothing, Dropped} /\ chunks[1].type = "userdata" =>
    LET data == received.chunks[1].data
    IN  /\ \A len \in Lengths : chunks[1].data = ByteArray(len) => ArrayLength(data) = len
        /\ \A form \in {15, 17, 20}, v \in Values :
             chunks[1].data = EncodeMsg(form, Play, v) =>
               DecodeMsg(data) = [cmd |-> Play, param |-> v]
=============================================================================
