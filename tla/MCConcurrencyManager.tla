------------------------ MODULE MCConcurrencyManager ------------------------
(***************************************************************************)
(* Instances of ConcurrencyManager for TLC.                                *)
(***************************************************************************)
EXTENDS ConcurrencyManager, TLC

\* Jobs of one kind are interchangeable; only for runs without liveness.
Interchangeable ==
  Permutations(Creates) \cup Permutations(Resumes) \cup Permutations(Redriven)
=============================================================================
