------------------------------- MODULE Stream -------------------------------
(***************************************************************************)
(* A bi_stream (BiStream) and the packets that carry the chunks of its     *)
(* flows and messages (Packets), which BiStream knows only as messages     *)
(* that arrive in some order.                                              *)
(***************************************************************************)
EXTENDS BiStream, Packets

vars == <<streamVars, packetVars>>

Init == StreamInit /\ PacketInit

Next ==
  \/ StreamNext /\ UNCHANGED packetVars
  \/ PacketNext /\ UNCHANGED streamVars

Spec == Init /\ [][Next]_vars /\ StreamFairness
-----------------------------------------------------------------------------
(***************************************************************************)
(* The types of the variables, the bounds of the channels, and the size of *)
(* a packet, which is bytes in whole blocks.                               *)
(***************************************************************************)
TypeOK == StreamTypeOK /\ PacketTypeOK
=============================================================================
