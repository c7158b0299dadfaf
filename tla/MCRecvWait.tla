---------------------------- MODULE MCRecvWait ----------------------------
(***************************************************************************)
(* RecvWait for TLC.                                                       *)
(***************************************************************************)
EXTENDS RecvWait
=============================================================================
