------------------------------ MODULE Session -------------------------------
(***************************************************************************)
(* What a session knows of its path to the far end: how long a round trip  *)
(* takes (RoundTrip) and where the far end is (Mobility).  Both are kept   *)
(* by send_chunk and recv_packet of session.go.                            *)
(***************************************************************************)
EXTENDS RoundTrip, Mobility

vars == <<rttVars, mobVars>>

Init == RttInit /\ MobInit

Next == (RttNext /\ UNCHANGED mobVars) \/ (MobNext /\ UNCHANGED rttVars)

Spec == Init /\ [][Next]_vars

FairSpec == Spec /\ MobFairness
-----------------------------------------------------------------------------
(***************************************************************************)
(* Every variable has its type, and ages end at their limits.              *)
(***************************************************************************)
TypeOK == RttTypeOK /\ MobTypeOK
=============================================================================
