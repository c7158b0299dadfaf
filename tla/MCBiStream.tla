---------------------------- MODULE MCBiStream ----------------------------
(***************************************************************************)
(* BiStream for TLC, alone.                                                *)
(***************************************************************************)
EXTENDS BiStream

OneMessage == <<"first">>
=============================================================================
