------------------------------ MODULE MCStream ------------------------------
(***************************************************************************)
(* Stream for TLC: a stream of two messages and a channel of one, and      *)
(* packets with numbers on both sides of where a VLU grows.  BiStream and  *)
(* Packets share no variable and no step reads both: a behaviour here      *)
(* moves one of them (see MCTransport).                                    *)
(***************************************************************************)
EXTENDS Stream

TwoMessages == <<"first", "second">>

\* net_stream_req_signature, an option of seven bytes after its length.
StreamSignature == <<7, 0, 84, 67, 4, 250, 137, 0>>

\* A key of a byte, one with zeros in front, and one without.
SomeKeys == {<<7>>, <<2>> \o SomeBytes(125), SomeBytes(128)}

\* The second reads like an option of type 29.
SomeIds == {[i \in 1 .. 64 |-> 0], [i \in 1 .. 64 |-> IF i % 3 = 0 THEN 29 ELSE 2]}

Text(s) == [type |-> "string", string |-> s]
Object(fields) == [type |-> "object", fields |-> fields]
Field(key, v) == [key |-> key, value |-> v]

\* Values, by how deep objects are nested in them.
SomeNesting ==
  LET flag   == Field(<<97>>, [type |-> "bool", bool |-> TRUE])
      number == Field(<<98, 98>>, [type |-> "number", number |-> <<63, 240, 0, 0, 0, 0, 0, 0>>])
      inner  == Field(<<99>>, Object(<<flag, number>>))
      flat   == {AmfNull, Text(<<>>), Text(SomeBytes(300)), flag.value, number.value,
                 [type |-> "bytes", bytes |-> SomeBytes(64)]}
      once   == {Object(<<>>), inner.value}
      twice  == {Object(<<number, inner, flag>>),
                 Object(<<Field(<<100>>, Object(<<>>)), Field(<<101>>, AmfNull)>>)}
  IN  [v \in flat \cup once \cup twice |-> IF v \in flat THEN 0 ELSE IF v \in once THEN 1 ELSE 2]
-----------------------------------------------------------------------------
VARIABLE half       \* the module that moves

\* Any packet will do for packets at rest.
MCInit ==
  /\ Init /\ half \in {"stream", "packets"}
  /\ half = "stream" => chunks = <<[type |-> "closeack"]>> /\ header.mode = 1

MCNext ==
  /\ UNCHANGED half
  /\ \/ half = "stream" /\ StreamNext /\ UNCHANGED packetVars
     \/ half = "packets" /\ PacketNext /\ UNCHANGED streamVars

\* StreamFairness, while the stream moves.
StreamMoves(A) == half = "stream" /\ A

MCSpec ==
  /\ MCInit /\ [][MCNext]_<<vars, half>>
  /\ WF_streamVars(StreamMoves(Open)) /\ WF_streamVars(StreamMoves(Opened \/ OpenTimesOut))
  /\ \A s \in Side :
       /\ WF_streamVars(StreamMoves(Arrive(s))) /\ WF_streamVars(StreamMoves(Loop(s)))
       /\ WF_streamVars(StreamMoves(AppReceives(s)))
       /\ \A g \in Goroutine :
            WF_streamVars(StreamMoves(CloseChannel(s, g) \/ CloseSession(s, g)))
=============================================================================
