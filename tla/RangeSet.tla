------------------------------ MODULE RangeSet ------------------------------
(***************************************************************************)
(* What a range queue stands for: a set of positions.  The queues of a     *)
(* system are combined as sets are.                                        *)
(***************************************************************************)
CONSTANTS Queues, Segments    \* Segments: the sets of positions of ranges

VARIABLE held                 \* the positions each queue holds

Init == held = [q \in Queues |-> {}]

Put(q, S) == held' = [held EXCEPT ![q] = S]

Next ==
  \E q \in Queues :
    \/ \E S \in Segments : Put(q, held[q] \cup S) \/ Put(q, held[q] \ S)
    \/ \E p \in Queues :
         \/ Put(q, held[q] \cup held[p])
         \/ Put(q, held[q] \ held[p])
         \/ \E r \in Queues : Put(q, held[p] \cap held[r])

Spec == Init /\ [][Next]_held
=============================================================================
