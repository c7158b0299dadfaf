------------------------------ MODULE Pairing -------------------------------
(***************************************************************************)
(* What keying promises: an initiator's session agrees on keys with one    *)
(* responder's session, for good, and no other initiator's session has     *)
(* agreed with that one.                                                   *)
(***************************************************************************)
CONSTANTS Initiators, Responders

VARIABLE pairs           \* the pairs <<initiator, responder>> that agreed

TypeOK == pairs \subseteq Initiators \X Responders

Init == pairs = {}

Free(p) == \A q \in pairs : q[1] # p[1] /\ q[2] # p[2]

Next ==
  \E p \in pairs' \ pairs :
     /\ p \in Initiators \X Responders /\ Free(p)
     /\ pairs' = pairs \cup {p}

Spec == Init /\ [][Next]_pairs
=============================================================================
