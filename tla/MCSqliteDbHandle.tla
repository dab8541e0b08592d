-------------------------- MODULE MCSqliteDbHandle --------------------------
(* An instance of SqliteDbHandle for TLC. *)
EXTENDS SqliteDbHandle
=============================================================================
