-------------------------- MODULE SessionStatechart --------------------------
(***************************************************************************)
(* The canonical session statechart, TRANSITIONS of                        *)
(* server/runtime/session/statechart.py: the only ways the status of a run *)
(* may change.                                                             *)
(***************************************************************************)

VARIABLE status

\* Pairs of source and target; events that keep the status are stutters.
Transitions ==
  {<<"queued", "running">>,                                \* turn.started
   <<"running", "waiting_user">>,                          \* needs_input
   <<"running", "waiting_auth">>,                          \* auth.required
   <<"waiting_auth", "queued">>,                           \* auth.completed
   <<"waiting_user", "queued">>,                           \* reply, timeout
   <<"running", "succeeded">>,
   <<"running", "failed">>, <<"waiting_auth", "failed">>,
   <<"waiting_user", "failed">>, <<"queued", "failed">>}   \* restart
  \cup {<<s, "canceled">> :
          s \in {"queued", "running", "waiting_user", "waiting_auth"}}

Init == status = "queued"
Next == <<status, status'>> \in Transitions
Spec == Init /\ [][Next]_status
=============================================================================
