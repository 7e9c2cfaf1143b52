----------------------------- MODULE MCAuthoring -----------------------------
(***************************************************************************)
(* Instance of AuthoringTurn for TLC.                                       *)
(***************************************************************************)
EXTENDS AuthoringTurn
=============================================================================
