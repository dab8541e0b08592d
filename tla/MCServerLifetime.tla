-------------------------- MODULE MCServerLifetime --------------------------
(***************************************************************************)
(* Instances of ServerLifetime for TLC.                                    *)
(***************************************************************************)
EXTENDS ServerLifetime
=============================================================================
