------------------------------- MODULE Chunks -------------------------------
(***************************************************************************)
(* The pieces a flow is made of: how send_flow.send cuts a message into    *)
(* data chunks, and how many bytes a set of chunks holds.                  *)
(*                                                                         *)
(* The payload of a chunk is abstracted to its origin: the message it was  *)
(* cut from, its index in that message and its length.                     *)
(***************************************************************************)
EXTENDS Integers, FiniteSets

CONSTANT SMSS            \* sender maximum segment size

ASSUME SMSSAssumption == SMSS \in Nat \ {0}

MinOf(a, b) == IF a > b THEN b ELSE a
MaxOf(a, b) == IF a < b THEN b ELSE a

FragCtrl == {"whole", "begin", "middle", "end"}

NumFrags(len) == IF len <= SMSS THEN 1 ELSE (len + SMSS - 1) \div SMSS

FragLen(len, i) == MinOf(SMSS, len - (i - 1) * SMSS)

FragControl(len, i) ==
  IF NumFrags(len) = 1 THEN "whole"
  ELSE IF i = NumFrags(len) THEN "end"
  ELSE IF i = 1 THEN "begin"
  ELSE "middle"

Piece(m, len, i) == [msg |-> m, idx |-> i, len |-> FragLen(len, i)]

\* All the pieces of message m, in order: what its receiver has to get.
Pieces(m, len) == [i \in 1 .. NumFrags(len) |-> Piece(m, len, i)]

PieceType == [msg : Nat \ {0}, idx : Nat \ {0}, len : 0 .. SMSS]

\* A chunk as both halves know it.
Fragment(m, len, i) == [frag |-> FragControl(len, i), data |-> Piece(m, len, i)]

FragmentType == [frag : FragCtrl, data : PieceType]

(***************************************************************************)
(* Bytes(f, S) is the number of payload bytes in the chunks f[s], s \in S: *)
(* the sum of their lengths, counted as the byte positions they hold.      *)
(***************************************************************************)
BytePositions(f, S) == {p \in S \X (1 .. SMSS) : p[2] <= f[p[1]].data.len}

Bytes(f, S) == Cardinality(BytePositions(f, S))
=============================================================================
