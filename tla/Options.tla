------------------------------ MODULE Options ------------------------------
(***************************************************************************)
(* Options in base.go: a length, as a VLU, a type and data, one after the  *)
(* other.  Certificates, nonces and the first chunk of a flow carry them.  *)
(***************************************************************************)
EXTENDS Vlu

\* Big-endian uint16; zero when there are no two bytes.
Word(n) == <<n \div 256, n % 256>>
FromWord(buf) == IF Len(buf) < 2 THEN 0 ELSE buf[1] * 256 + buf[2]

EncodePrefixed(buf) == EncodeVlu(Len(buf)) \o buf

DecodePrefixed(buf) ==
  LET size == DecodeVlu(buf)
  IN  [value |-> SubSeq(size.rest, 1, size.value), rest |-> From(size.rest, size.value + 1)]

GetVluSize(v) == 1

\* read_options copies options up to the empty one.
AfterOptions[buf \in Buffer] ==
  LET size == DecodeVlu(buf)
  IN  IF size.value = 0 THEN size.rest ELSE AfterOptions[From(size.rest, size.value + 1)]

ReadOptions(buf) ==
  LET rest == AfterOptions[buf]
  IN  [value |-> SubSeq(buf, 1, Len(buf) - Len(rest)), rest |-> rest]

\* The options from the first of the type on, <<>> when there is none.
OptionsFrom(buf, type) ==
  LET from[b \in Buffer] ==
        LET size == DecodeVlu(b)
        IN  IF b = <<>> \/ (size.rest # <<>> /\ Head(size.rest) = type) THEN b
            ELSE from[From(size.rest, size.value + 1)]
  IN  from[buf]

\* read_option: nil, here <<>>, when there is none of the type.
ReadOption(buf, type) ==
  LET option == OptionsFrom(buf, type)
      size   == DecodeVlu(option)
  IN  IF option = <<>> THEN <<>> ELSE SubSeq(size.rest, 2, size.value)

ReadVluOption(buf, type, default) ==
  LET option == OptionsFrom(buf, type)
  IN  IF option = <<>> THEN default ELSE DecodeVlu(From(DecodeVlu(option).rest, 2)).value
=============================================================================
