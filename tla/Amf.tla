-------------------------------- MODULE Amf --------------------------------
(***************************************************************************)
(* The messages of a net_stream: a command and a parameter, as encode_msg  *)
(* and decode_msg of netstream.go and the AMF codec of amf.go write and    *)
(* read them.  A string is the sequence of its bytes, and a float64 its    *)
(* eight bytes; an object is the sequence of its fields in the order in    *)
(* which the map happened to give them.                                    *)
(***************************************************************************)
EXTENDS Options

CONSTANT Nesting      \* the values in messages, and how deep objects are
                      \* nested in each

AmfNull == [type |-> "null"]

Values == DOMAIN Nesting

Fields == Seq([key : Buffer, value : Values])

ValueType ==
  {AmfNull} \cup [type : {"number"}, number : Buffer] \cup [type : {"bool"}, bool : BOOLEAN]
    \cup [type : {"string"}, string : Buffer] \cup [type : {"bytes"}, bytes : Buffer]
    \cup [type : {"object"}, fields : Fields]

(***************************************************************************)
(* A value is as short as a chunk makes it, and no object is part of       *)
(* itself.  Lengths of keys are far from 2304, which begins with the byte  *)
(* that marks the end of an object.                                        *)
(***************************************************************************)
ASSUME AmfAssumption ==
  /\ Nesting \in [Values -> Nat]
  /\ Values \subseteq ValueType
  /\ \A v \in Values :
       /\ v.type = "number" => Len(v.number) = 8
       /\ v.type = "string" => Len(v.string) < 65536
       /\ v.type = "bytes" => Len(v.bytes) < 65536
       /\ v.type = "object" => \A i \in DOMAIN v.fields :
            /\ v.fields[i].key # <<>> /\ Len(v.fields[i].key) < 2304
            /\ Nesting[v.fields[i].value] < Nesting[v]

(***************************************************************************)
(* AMF0, and the byte array, the one value of AMF3.                        *)
(***************************************************************************)
WriteString(s) == Word(Len(s) % 65536) \o s

ReadString(buf) ==
  LET n == FromWord(buf) IN [value |-> SubSeq(buf, 3, 2 + n), rest |-> From(buf, 3 + n)]

WriteByteArray(bytes) == WriteU29(2 * Len(bytes) + 1) \o bytes

ReadByteArray(buf) ==
  LET size == ReadU29(buf)
      n    == size.value \div 2
  IN  [value |-> SubSeq(size.rest, 1, n), rest |-> From(size.rest, n + 1)]

\* Write is WriteAmf0: an object is written by writing what is in its fields.
WriteValue(v, Write) ==
  CASE v.type = "number" -> <<0>> \o v.number
    [] v.type = "bool"   -> <<1, IF v.bool THEN 1 ELSE 0>>
    [] v.type = "string" -> <<2>> \o WriteString(v.string)
    [] v.type = "object" ->
         <<3>> \o FlattenSeq([i \in DOMAIN v.fields |->
                    WriteString(v.fields[i].key) \o Write[v.fields[i].value]])
               \o WriteString(<<>>) \o <<9>>
    [] v.type = "null"   -> <<5>>
    [] v.type = "bytes"  -> <<17, 12>> \o WriteByteArray(v.bytes)

WriteAmf0[v \in Values] == WriteValue(v, WriteAmf0)

\* The fields of an object end at an end marker or at an empty key.  Mutant:
\* at the empty key, with the marker left for the reader of what follows.
EndOfFieldsEarly(buf) == From(buf, 3)

EndOfFields(buf) == IF Head(buf) = 9 THEN From(buf, 2) ELSE From(buf, 4)

ReadFields(buf, Read) ==
  LET key  == ReadString(buf)
      val  == Read[<<"value", key.rest>>]
      more == Read[<<"fields", val.rest>>]
  IN  IF Head(buf) = 9 \/ key.value = <<>>
      THEN [value |-> <<>>, rest |-> EndOfFields(buf)]
      ELSE [value |-> <<[key |-> key.value, value |-> val.value]>> \o more.value,
            rest  |-> more.rest]

ReadValue(buf, Read) ==
  LET type == Head(buf)
      here == From(buf, 2)
  IN  CASE type = 0 -> [value |-> [type |-> "number", number |-> SubSeq(here, 1, 8)],
                        rest  |-> From(here, 9)]
        [] type = 1 -> [value |-> [type |-> "bool", bool |-> Head(here) > 0],
                        rest  |-> From(here, 2)]
        [] type = 2 -> LET s == ReadString(here)
                       IN  [value |-> [type |-> "string", string |-> s.value], rest |-> s.rest]
        [] type = 3 -> LET o == Read[<<"fields", here>>]
                       IN  [value |-> [type |-> "object", fields |-> o.value], rest |-> o.rest]
        [] type \in {5, 6} -> [value |-> AmfNull, rest |-> here]
        [] type = 17 -> LET a == ReadByteArray(From(here, 2))
                        IN  [value |-> [type |-> "bytes", bytes |-> a.value], rest |-> a.rest]
        [] OTHER -> [value |-> AmfNull, rest |-> <<>>]     \* the code panics

\* Read is ReadAmf: a value is read by reading its fields, and these by reading values.
ReadAmf[at \in {"fields", "value"} \X Buffer] ==
  IF at[1] = "fields" THEN ReadFields(at[2], ReadAmf) ELSE ReadValue(at[2], ReadAmf)

ReadAmf0(buf) == ReadAmf[<<"value", buf>>]

(***************************************************************************)
(* Messages.  encode_msg writes form 20; other peers also write forms 17,  *)
(* with one byte more in front, and 15, which has no callback.             *)
(***************************************************************************)
HeaderLen(form) == IF form = 20 THEN 4 ELSE 5

EncodeMsg(form, cmd, v) ==
  <<form>> \o [i \in 1 .. HeaderLen(form) |-> 0]
    \o <<2>> \o WriteString(cmd)
    \o (IF form = 15 THEN <<>> ELSE [i \in 1 .. 9 |-> 0] \o <<5>>)
    \o WriteAmf0[v]

\* The callback is a number, and the first null after it is skipped.
AfterCallback(buf) == IF buf[10] = 5 THEN From(buf, 11) ELSE From(buf, 10)

DecodeMsg(buf) ==
  LET cmd   == ReadString(From(buf, 3 + HeaderLen(Head(buf))))
      param == IF Head(buf) = 15 THEN cmd.rest ELSE AfterCallback(cmd.rest)
  IN  [cmd |-> cmd.value, param |-> ReadAmf0(param).value]
=============================================================================
