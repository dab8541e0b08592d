----------------------------- MODULE TurnTaking -----------------------------
(***************************************************************************)
(* What the resume protocol of an interactive run promises: engine turns   *)
(* are taken one at a time, in the order of their attempt numbers, no      *)
(* attempt twice, and a turn after the first only once the question of the *)
(* previous attempt has been answered.                                     *)
(***************************************************************************)
EXTENDS Naturals

CONSTANT MaxAttempt

VARIABLES
  last,      \* the attempt whose turn was started last, 0 before the first
  live,      \* whether that turn is still going on, repair rounds included
  answered   \* attempts whose question has an answer

vars == <<last, live, answered>>

Init == last = 0 /\ live = FALSE /\ answered = {}

StartTurn ==
  /\ ~live
  /\ last = 0 \/ last \in answered
  /\ last < MaxAttempt
  /\ last' = last + 1
  /\ live' = TRUE
  /\ UNCHANGED answered

EndTurn == live /\ live' = FALSE /\ UNCHANGED <<last, answered>>

\* Only the question of the last turn can be open.
Answer ==
  /\ ~live /\ last > 0
  /\ last \notin answered
  /\ answered' = answered \cup {last}
  /\ UNCHANGED <<last, live>>

Next == StartTurn \/ EndTurn \/ Answer
Spec == Init /\ [][Next]_vars
=============================================================================
