------------------------------ MODULE Mobility ------------------------------
(***************************************************************************)
(* How a session follows the address of its far end, which changes when    *)
(* that end moves to another network: recv_packet pings an address it does *)
(* not expect, and recv_ping_reply takes it over once the far end has      *)
(* answered (session.go).                                                  *)
(*                                                                         *)
(* A ping reaches the far end only at the address it has on arrival; what  *)
(* the far end sends carries the address it had then.  The instant of the  *)
(* last ping is kept as an age, so that time has no end.                   *)
(***************************************************************************)
EXTENDS Naturals

CONSTANTS
  Address,         \* the addresses of the far end
  PingInterval,    \* the time between pings, 1 s
  ConfirmLimit,    \* the age of a ping that may still be answered, 120 s
  MaxMoves         \* bound: the far end moves

ASSUME MobilityAssumption ==
  /\ Address # {}
  /\ PingInterval \in Nat /\ ConfirmLimit \in Nat /\ PingInterval < ConfirmLimit
  /\ MaxMoves \in Nat

VARIABLES
  other_addr,      \* where the session sends
  ping_age,        \* the time since mobile_tx_ts
  far_addr,        \* where the far end is
  moves,           \* how often it moved
  toSession,       \* packets in transit to the session, with their source
  pings            \* the addresses of the pings in transit

mobVars == <<other_addr, ping_age, far_addr, moves, toSession, pings>>

\* Ages beyond the limit are all alike, and so is that of the zero time.
LongSince == ConfirmLimit + 1

Data(addr) == [type |-> "data", addr |-> addr]
PingReply(addr) == [type |-> "pingreply", addr |-> addr]

MobInit ==
  /\ far_addr \in Address /\ other_addr = far_addr
  /\ ping_age = LongSince /\ moves = 0
  /\ toSession = {} /\ pings = {}

(***************************************************************************)
(* The far end moves, sends, and answers a ping with send_ping_reply.      *)
(***************************************************************************)
Move ==
  /\ moves < MaxMoves /\ moves' = moves + 1
  /\ far_addr' \in Address \ {far_addr}
  /\ UNCHANGED <<other_addr, ping_age, toSession, pings>>

FarSends ==
  /\ toSession' = toSession \cup {Data(far_addr)}
  /\ UNCHANGED <<other_addr, ping_age, far_addr, moves, pings>>

RecvPing ==
  /\ far_addr \in pings
  /\ pings' = pings \ {far_addr}
  /\ toSession' = toSession \cup {PingReply(far_addr)}
  /\ UNCHANGED <<other_addr, ping_age, far_addr, moves>>

(***************************************************************************)
(* recv_packet: the chunks are handled first, so a ping reply changes the  *)
(* address before it is compared.  The reply says nothing of the ping it   *)
(* answers.                                                                *)
(***************************************************************************)
\* Mutant: an answer is awaited no longer than the time between pings.
ConfirmsHastily(p) ==
  p.type = "pingreply" /\ p.addr # other_addr /\ ping_age < PingInterval

Confirms(p) ==
  p.type = "pingreply" /\ p.addr # other_addr /\ ping_age < ConfirmLimit

MayPing == ping_age > PingInterval

RecvPacket(p) ==
  /\ p \in toSession
  /\ toSession' = toSession \ {p}
  /\ other_addr' = IF Confirms(p) THEN p.addr ELSE other_addr
  /\ IF p.addr # other_addr' /\ MayPing
     THEN ping_age' = 0 /\ pings' = pings \cup {p.addr}
     ELSE UNCHANGED <<ping_age, pings>>
  /\ UNCHANGED <<far_addr, moves>>

(***************************************************************************)
(* Losses, and time.                                                       *)
(***************************************************************************)
LoseOne ==
  /\ \/ \E p \in toSession : toSession' = toSession \ {p} /\ UNCHANGED pings
     \/ \E a \in pings : pings' = pings \ {a} /\ UNCHANGED toSession
  /\ UNCHANGED <<other_addr, ping_age, far_addr, moves>>

Elapse ==
  /\ ping_age < LongSince /\ ping_age' = ping_age + 1
  /\ UNCHANGED <<other_addr, far_addr, moves, toSession, pings>>

MobNext ==
  \/ Move \/ FarSends \/ RecvPing \/ LoseOne \/ Elapse
  \/ \E p \in toSession : RecvPacket(p)

MobSpec == MobInit /\ [][MobNext]_mobVars

(***************************************************************************)
(* Fairness.  The far end goes on sending and time passes; a packet sent   *)
(* again and again arrives in the end, also while another ping is allowed  *)
(* and also before the last ping is too old.  It need not move.            *)
(***************************************************************************)
Pinging == \E p \in toSession : RecvPacket(p) /\ ping_age' # ping_age
AnsweredInTime == RecvPing /\ ping_age < ConfirmLimit
Following == \E p \in toSession : RecvPacket(p) /\ other_addr' # other_addr

MobFairness ==
  /\ WF_mobVars(FarSends) /\ WF_mobVars(Elapse)
  /\ SF_mobVars(Pinging) /\ SF_mobVars(Following)
  /\ SF_mobVars(AnsweredInTime)
-----------------------------------------------------------------------------
MobTypeOK ==
  /\ other_addr \in Address /\ far_addr \in Address
  /\ ping_age \in 0 .. LongSince /\ moves \in 0 .. MaxMoves
  /\ toSession \subseteq [type : {"data", "pingreply"}, addr : Address]
  /\ pings \subseteq Address

(***************************************************************************)
(* A session finds its far end again: once that end has stopped moving,    *)
(* the session sends to where it is, and late packets and late answers     *)
(* from where it was turn it away no more (recv_packet, recv_ping_reply).  *)
(***************************************************************************)
AddressFollows == <>[](other_addr = far_addr)
=============================================================================
