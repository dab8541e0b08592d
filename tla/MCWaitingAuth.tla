---------------------------- MODULE MCWaitingAuth ----------------------------
(***************************************************************************)
(* Instances of WaitingAuth for TLC.                                       *)
(***************************************************************************)
EXTENDS WaitingAuth
=============================================================================
