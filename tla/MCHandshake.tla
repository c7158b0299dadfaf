---------------------------- MODULE MCHandshake -----------------------------
(***************************************************************************)
(* Handshake for TLC: a call that goes through the server, and a direct    *)
(* one.                                                                    *)
(***************************************************************************)
EXTENDS Handshake

CONSTANTS introduced, direct     \* the calls

TwoCalls == {introduced, direct}
OneCall == {direct}
TargetOf == [c \in Calls |-> IF c = introduced THEN "server" ELSE "responder"]
=============================================================================
