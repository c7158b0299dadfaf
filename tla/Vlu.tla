-------------------------------- MODULE Vlu --------------------------------
(***************************************************************************)
(* Numbers of variable length, as sequences of bytes: the VLU of RTMFP     *)
(* (base.go) and the U29 of AMF3 (amf.go).  Both put seven bits in a byte  *)
(* and mark all but the last; a U29 of four bytes has eight in its last.   *)
(***************************************************************************)
EXTENDS Integers, Sequences, SequencesExt

Byte == 0 .. 255
Buffer == Seq(Byte)

From(buf, i) == SubSeq(buf, i, Len(buf))

Marked(b) == b >= 128

\* The digits before the last, all marked.
Leading[v \in Nat] ==
  IF v < 128 THEN <<>> ELSE Append(Leading[v \div 128], 128 + ((v \div 128) % 128))

InternalEncode(v, more) == Append(Leading[v], (v % 128) + (IF more THEN 128 ELSE 0))

EncodeVlu(v) == InternalEncode(v, FALSE)

FromDigits[buf \in Buffer] ==
  IF buf = <<>> THEN 0 ELSE FromDigits[Front(buf)] * 128 + (Last(buf) % 128)

(***************************************************************************)
(* A decoder gives what it read and what is left.  Past the end of the     *)
(* buffer it reads a zero.                                                 *)
(***************************************************************************)
DecodeVlu(buf) ==
  LET read == Append(buf, 0)
      n    == Min({i \in DOMAIN read : ~ Marked(read[i])})
  IN  [value |-> FromDigits[SubSeq(read, 1, n)], rest |-> From(buf, n + 1)]

\* The numbers of at most two, three and four digits are below.
TwoDigits   == 128 * 128
ThreeDigits == 128 * TwoDigits
FourDigits  == 128 * ThreeDigits

\* Mutant: seven bits in every byte.
WriteU29AsVlu(v) == EncodeVlu(v)

WriteU29(v) ==
  IF v < ThreeDigits THEN EncodeVlu(v)
  ELSE Append(InternalEncode(v \div 256, TRUE), v % 256)

ReadU29(buf) ==
  LET read == Append(buf, 0)
      n    == Min({i \in 1 .. 3 \cap DOMAIN read : ~ Marked(read[i])} \cup {4})
  IN  [value |-> IF n < 4 THEN FromDigits[SubSeq(read, 1, n)]
                 ELSE FromDigits[SubSeq(read, 1, 3)] * 256 + read[4],
       rest  |-> From(buf, n + 1)]
=============================================================================
