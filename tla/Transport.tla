----------------------------- MODULE Transport ------------------------------
(***************************************************************************)
(* A transport.go Transport: the goroutines and channels a packet passes   *)
(* (Pipeline), and the channel that SetInChannelParam and                  *)
(* SetOutChannelParam put into its way (NoisyChan), which Pipeline knows   *)
(* only as a queue.                                                        *)
(***************************************************************************)
EXTENDS Pipeline, NoisyChan

vars == <<pipeVars, chanVars>>

Init == PipeInit /\ ChanInit

Next == (PipeNext /\ UNCHANGED chanVars) \/ (ChanNext /\ UNCHANGED pipeVars)

Spec == Init /\ [][Next]_vars

FairSpec == Spec /\ PipeFairness /\ ChanFairness
-----------------------------------------------------------------------------
(***************************************************************************)
(* Every variable has its type, and no channel, queue or bucket holds more *)
(* than its size.                                                          *)
(***************************************************************************)
TypeOK == PipeTypeOK /\ ChanTypeOK
=============================================================================
