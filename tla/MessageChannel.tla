--------------------------- MODULE MessageChannel ---------------------------
(***************************************************************************)
(* What a flow promises the applications at its ends: the messages one     *)
(* sends are what the other receives, whole and in the order they were     *)
(* sent.  Either end may stop, for good and at any time.                   *)
(***************************************************************************)
EXTENDS Integers, Sequences

CONSTANT Message

VARIABLES
  sent,          \* the messages accepted from the sending application
  delivered,     \* the messages handed to the receiving application
  stopped        \* the ends that have stopped, of "send" and "recv"

vars == <<sent, delivered, stopped>>

Init == sent = <<>> /\ delivered = <<>> /\ stopped = {}

Accept ==
  /\ "send" \notin stopped
  /\ sent' # sent
  /\ \E msg \in Message : sent' = Append(sent, msg)
  /\ UNCHANGED <<delivered, stopped>>

\* The next message not yet delivered.
Deliver ==
  /\ "recv" \notin stopped
  /\ Len(delivered) < Len(sent)
  /\ delivered' = Append(delivered, sent[Len(delivered) + 1])
  /\ UNCHANGED <<sent, stopped>>

Stop(end) ==
  /\ stopped' = stopped \cup {end}
  /\ UNCHANGED <<sent, delivered>>

Next == Accept \/ Deliver \/ Stop("send") \/ Stop("recv")

Spec == Init /\ [][Next]_vars
=============================================================================
