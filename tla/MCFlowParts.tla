---------------------------- MODULE MCFlowParts -----------------------------
(***************************************************************************)
(* What Flow takes for granted, for TLC: that recv() is one step           *)
(* (RecvWait), and that a range queue is a set (RangeQueue).  The two      *)
(* share no variable: a behaviour here moves one of them.                  *)
(***************************************************************************)
EXTENDS RecvWait, RangeQueue

VARIABLE part        \* the module that moves

MCInit == Init /\ QueueInit /\ part \in {"recv", "queue"}

MCNext ==
  /\ UNCHANGED part
  /\ \/ part = "recv" /\ Next /\ UNCHANGED ranges
     \/ part = "queue" /\ QueueNext /\ UNCHANGED vars

MCSpec == MCInit /\ [][MCNext]_<<vars, ranges, part>>
=============================================================================
