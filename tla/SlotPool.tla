------------------------------ MODULE SlotPool ------------------------------
(***************************************************************************)
(* What the global concurrency guard promises to the run lifecycle: a job  *)
(* asks for a slot, at most MaxConcurrent jobs hold one at a time, and a   *)
(* job gives its slot back once.  ConcurrencyManager refines this when no  *)
(* run is redriven while the server starts.                                *)
(***************************************************************************)
EXTENDS Naturals, FiniteSets

CONSTANTS
  Jobs,           \* invocations of JobOrchestrator.run_job
  MaxConcurrent   \* slots the guard was configured with

VARIABLES
  asking,   \* jobs that want a slot and have none
  holding   \* jobs that own a slot

vars == <<asking, holding>>

Init == asking = {} /\ holding = {}

Ask(j) ==
  /\ j \notin asking \cup holding
  /\ asking' = asking \cup {j}
  /\ UNCHANGED holding

Take(j) ==
  /\ j \in asking
  /\ Cardinality(holding) < MaxConcurrent
  /\ asking' = asking \ {j}
  /\ holding' = holding \cup {j}

\* A job gives its slot back; a semaphore may pass it on in the same step.
Give(j) ==
  /\ j \in holding
  /\ UNCHANGED asking
  /\ holding' = holding \ {j}

HandOver(j, k) ==
  /\ j \in holding
  /\ k \in asking
  /\ asking' = asking \ {k}
  /\ holding' = (holding \ {j}) \cup {k}

Next ==
  \/ \E j \in Jobs : Ask(j) \/ Take(j) \/ Give(j)
  \/ \E j, k \in Jobs : HandOver(j, k)

Spec == Init /\ [][Next]_vars
=============================================================================
