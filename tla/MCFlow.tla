------------------------------- MODULE MCFlow -------------------------------
(***************************************************************************)
(* Flow for TLC: segments of two bytes, messages of one and three bytes.   *)
(***************************************************************************)
EXTENDS FlowInv

\* Bound: the last message is the one that takes two chunks.
LastIsLong == Len(sent) = MaxMsgs => sent[MaxMsgs] = Max(MsgSizes)
=============================================================================
