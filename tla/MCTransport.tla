---------------------------- MODULE MCTransport -----------------------------
(***************************************************************************)
(* Transport for TLC: channels of one packet, and a noisy channel that     *)
(* does all it can to a few packets.  Pipeline and NoisyChan share no      *)
(* variable and no step reads both, so that a behaviour of one, the other  *)
(* at rest, is as good as one in which they take turns: a behaviour here   *)
(* moves one of them.                                                      *)
(***************************************************************************)
EXTENDS Transport

VARIABLE half       \* the module that moves

\* Bound: one of the datagrams, at most, is an iikeying.  Any datagrams will
\* do for a pipeline at rest.
MCInit ==
  /\ Init /\ half \in {"pipeline", "channel"}
  /\ \A p, q \in Packet :
       {kinds[p].what, kinds[q].what} \subseteq {"keying", "denied"} => p = q
  /\ half = "channel" => \A p \in Packet : kinds[p].what = "hello"

MCNext ==
  /\ UNCHANGED half
  /\ \/ half = "pipeline" /\ PipeNext /\ UNCHANGED chanVars
     \/ half = "channel" /\ ChanNext /\ UNCHANGED pipeVars

\* PipeFairness and ChanFairness, each while its module moves.
PipeMoves(A) == half = "pipeline" /\ A
ChanMoves(A) == half = "channel" /\ A

MCSpec ==
  /\ MCInit /\ [][MCNext]_<<vars, half>>
  /\ WF_pipeVars(PipeMoves(SocketRecv)) /\ WF_pipeVars(PipeMoves(HandshakeDispatch))
  /\ WF_pipeVars(PipeMoves(SendAnswer)) /\ WF_pipeVars(PipeMoves(SocketDispatch))
  /\ \A s \in SessionId : WF_pipeVars(PipeMoves(SessionDispatch(s)))
  /\ \A d \in Path : WF_pipeVars(PipeMoves(TapTakes(d)))
  /\ WF_chanVars(ChanMoves(Signal)) /\ WF_chanVars(ChanMoves(SendStep))
  /\ WF_chanVars(ChanMoves(Tick))
=============================================================================
