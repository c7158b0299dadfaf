----------------------------- MODULE MCSession ------------------------------
(***************************************************************************)
(* Session for TLC.  The two halves share no variable and no step reads    *)
(* both, so that a behaviour of one half, the other at rest, is as good as *)
(* one in which they take turns: a behaviour here moves one of them.       *)
(***************************************************************************)
EXTENDS Session

VARIABLE half       \* the half that moves

\* Any address will do for an end at rest.
MCInit ==
  /\ Init /\ half \in {"roundtrip", "address"}
  /\ half = "roundtrip" => far_addr = CHOOSE a \in Address : TRUE

MCNext ==
  /\ UNCHANGED half
  /\ \/ half = "roundtrip" /\ RttNext /\ UNCHANGED mobVars
     \/ half = "address" /\ MobNext /\ UNCHANGED rttVars

MCSpec == MCInit /\ [][MCNext]_<<vars, half>> /\ (half = "address" => MobFairness)
=============================================================================
