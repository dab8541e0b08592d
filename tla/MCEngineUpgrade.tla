--------------------------- MODULE MCEngineUpgrade ---------------------------
(* Model values and the order of the engines for EngineUpgrade. *)
EXTENDS EngineUpgrade, TLC
CONSTANTS t1, t2

TwoEngines == <<"codex", "kilo">>
=============================================================================
