------------------------------ MODULE Network -------------------------------
(***************************************************************************)
(* What carries packets between the two ends of a session: UDP, or the     *)
(* noisy_chan the tests put in its place.  Packets may be lost, reordered  *)
(* and, when Duplicates is TRUE, delivered more than once.                 *)
(*                                                                         *)
(* Both directions are sets: identical packets in transit are one element, *)
(* which is the case where the network lost all copies but one.            *)
(***************************************************************************)
EXTENDS Integers, FiniteSets

CONSTANTS
  Duplicates,      \* BOOLEAN: may the network deliver a packet twice?
  AckCapacity      \* bound: acknowledgements in transit at a time

ASSUME NetworkAssumption == Duplicates \in BOOLEAN /\ AckCapacity \in Nat \ {0}

VARIABLES
  toRecv,          \* packets in transit to the receiving end
  toSend           \* packets in transit to the sending end

netVars == <<toRecv, toSend>>

NetInit == toRecv = {} /\ toSend = {}

\* What may be left in transit once packet p has been delivered from net.
Consumed(net, p) == {net \ {p}} \cup (IF Duplicates THEN {net} ELSE {})

\* An acknowledgement that finds AckCapacity others in transit is lost.
WithAck(net, p) ==
  IF Cardinality(net \cup {p}) <= AckCapacity THEN net \cup {p} ELSE net

LosePacket ==
  \/ \E p \in toRecv : toRecv' = toRecv \ {p} /\ UNCHANGED toSend
  \/ \E p \in toSend : toSend' = toSend \ {p} /\ UNCHANGED toRecv
=============================================================================
