---------------------------- MODULE AuthSessions ----------------------------
(***************************************************************************)
(* Login sessions of the engines, the terminal of the UI, and the gate     *)
(* that keeps them apart (services/engine_management/                      *)
(* engine_auth_flow_manager.py, runtime/auth/session_lifecycle.py,         *)
(* runtime/auth/callbacks.py, engine_interaction_gate.py,                  *)
(* services/ui/ui_shell_manager.py).                                       *)
(*                                                                         *)
(* Every operation of the flow manager holds its _lock from end to end,    *)
(* and the routes call it, and the shell manager, from one event loop; the *)
(* threads of the callback listener enter through complete_callback.  A    *)
(* login is one of the codex and opencode/openai flows: by browser         *)
(* callback, by device code, or by the engine's own CLI.                   *)
(***************************************************************************)
EXTENDS FiniteSets

CONSTANTS
  Logins,      \* session ids of logins
  Terminals,   \* session ids of terminals
  Scopes,      \* keys engine::provider
  None

ASSUME IdsAssumption ==
  /\ Logins \cap Terminals = {}
  /\ None \notin Logins \cup Terminals \cup Scopes

VARIABLES
  status,     \* _AuthSession.status
  scope,      \* the key the session was started for
  driver,     \* its flow
  active,     \* _active_session_ids_by_scope
  gate,       \* session ids of EngineInteractionGate._active_by_key
  callbacks,  \* sessions whose state is in CallbackStateStore._state_index
  consumed,   \* sessions whose state is in CallbackStateStore._consumed
  listening,  \* the listener of channel "openai" is bound
  shell,      \* UiShellManager._active_session
  process,    \* child processes of the sessions
  late        \* sessions whose lifetime is over

registry == <<status, scope, driver, active>>
oauth == <<callbacks, consumed, listening>>
vars == <<registry, gate, oauth, shell, process, late>>

Drivers == {"callback", "device", "cli"}
ASSUME DriversAssumption == None \notin Drivers
Live == {"waiting_user", "submitted"}
Terminal == {"succeeded", "failed", "canceled", "expired"}
LiveLogins == {id \in Logins : status[id] \in Live}

Init ==
  /\ status = [id \in Logins |-> "none"]
  /\ scope = [id \in Logins |-> None]
  /\ driver = [id \in Logins |-> None]
  /\ active = [sc \in Scopes |-> None]
  /\ gate = {}
  /\ callbacks = {} /\ consumed = {} /\ listening = FALSE
  /\ shell = None
  /\ process = [p \in Logins \cup Terminals |-> "none"]
  /\ late = {}

-----------------------------------------------------------------------------
(* refresh_session_locked and _finalize_active_session *)

\* The statuses a session may have after a refresh.  The process of a CLI
\* login that exits has failed, whatever its exit code.
Refreshed(id) ==
  CASE status[id] \notin Live -> {status[id]}
    [] status[id] \in Live /\ id \in late -> {"expired"}
    [] status[id] \in Live /\ id \notin late /\ driver[id] = "callback" ->
         {status[id]}
    [] status[id] \in Live /\ id \notin late /\ driver[id] = "device" ->
         {status[id], "succeeded", "failed"}
    [] status[id] \in Live /\ id \notin late /\ driver[id] = "cli" ->
         {IF process[id] = "exited" THEN "failed" ELSE status[id]}

\* Mutant: the session's scope is released whoever holds it.
GateReleasesScope(S) ==
  {h \in gate : \A id \in S : h \in Terminals \/ scope[h] # scope[id]}
GateWithout(S) == gate \ S

\* Mutant: the state stays registered.
StatesKept(S) == callbacks
StatesWithout(S) == callbacks \ S

ActiveWithout(S) ==
  [sc \in Scopes |-> IF active[sc] \in S THEN None ELSE active[sc]]
\* on_session_finalizing stops the listener of the channel.
ListeningAfter(S) == listening /\ \A id \in S : driver[id] # "callback"
\* terminate_process_tree, or a process that has ended already.
Reaped(S) == [p \in DOMAIN process |->
                IF p \in S /\ process[p] = "alive" THEN "exited" ELSE process[p]]

\* The sessions of S, which have just ended, are finalized.
Finalized(S) ==
  /\ active' = ActiveWithout(S)
  /\ gate' = GateWithout(S)
  /\ callbacks' = StatesWithout(S)
  /\ listening' = ListeningAfter(S)
  /\ process' = Reaped(S)

Ending(id, s) == IF s \in Terminal /\ status[id] \in Live THEN {id} ELSE {}

\* get_session, get_active_session_snapshot
Get(id) ==
  /\ status[id] # "none"
  /\ \E s \in Refreshed(id) :
       /\ status' = [status EXCEPT ![id] = s]
       /\ Finalized(Ending(id, s))
  /\ UNCHANGED <<scope, driver, consumed, shell, late>>

-----------------------------------------------------------------------------
(* start_session *)

\* Statuses in which a session can leave its starter.
FirstStatus(d) ==
  IF d = "callback" THEN {"waiting_user"} ELSE {"waiting_user", "failed"}

\* EngineInteractionGate.acquire for a login raises.
BusyForLogin(holders, sc) ==
  \E h \in holders : h \in Terminals \/ scope[h] = sc

\* The session of the scope is refreshed, and is still there.
StartRefused(sc) ==
  LET a == active[sc] IN
  /\ a # None
  /\ \E s \in Refreshed(a) \cap Live : status' = [status EXCEPT ![a] = s]
  /\ UNCHANGED <<scope, driver, active, gate, oauth, shell, process, late>>

\* It has ended, or there was none: the scope is taken off the map and the
\* gate is asked.  gone holds the session that this refresh ended.
Settled(sc, s, gone) ==
  LET a == active[sc] IN
  IF a = None THEN s = "none" /\ gone = {}
  ELSE s \in Refreshed(a) /\ s \in Terminal /\ gone = Ending(a, s)

StatusSettled(sc, s) ==
  IF active[sc] = None THEN status ELSE [status EXCEPT ![active[sc]] = s]

\* The gate is busy, or starting fails and is rolled back.
StartFails(sc) ==
  /\ \E s \in Terminal \cup {"none"}, gone \in {{}, {active[sc]}} :
       /\ Settled(sc, s, gone)
       /\ status' = StatusSettled(sc, s)
       /\ active' = [ActiveWithout(gone) EXCEPT ![sc] = None]
       /\ gate' = GateWithout(gone)
       /\ callbacks' = StatesWithout(gone)
       \* A callback flow that fails stops the listener, whoever else uses it.
       /\ \/ listening' = ListeningAfter(gone)
          \/ ~BusyForLogin(GateWithout(gone), sc) /\ listening' = FALSE
       /\ process' = Reaped(gone)
  /\ UNCHANGED <<scope, driver, consumed, shell, late>>

\* init_paths raises outside the rollback: the gate keeps the session id.
StartBreaks(id, sc) ==
  /\ status[id] = "none" /\ id \notin gate
  /\ active[sc] = None
  /\ ~BusyForLogin(gate, sc)
  /\ gate' = gate \cup {id}
  /\ scope' = [scope EXCEPT ![id] = sc]
  /\ UNCHANGED <<status, driver, active, oauth, shell, process, late>>

Start(id, sc, d) ==
  /\ status[id] = "none" /\ id \notin gate
  /\ \E s \in Terminal \cup {"none"}, gone \in {{}, {active[sc]}},
        first \in FirstStatus(d) :
       /\ Settled(sc, s, gone)
       /\ ~BusyForLogin(GateWithout(gone), sc)
       /\ status' = [StatusSettled(sc, s) EXCEPT ![id] = first]
       \* The scope is set again after the starter's own refresh.
       /\ active' = [ActiveWithout(gone) EXCEPT ![sc] = id]
       /\ gate' = GateWithout(gone) \cup {i \in {id} : first \in Live}
       /\ callbacks' = StatesWithout(gone) \cup {i \in {id} : d = "callback"}
       /\ listening' = (ListeningAfter(gone) \/ d = "callback")
       /\ process' = [Reaped(gone) EXCEPT ![id] =
                        IF d # "cli" THEN "none"
                        ELSE IF first \in Live THEN "alive" ELSE "exited"]
  /\ scope' = [scope EXCEPT ![id] = sc]
  /\ driver' = [driver EXCEPT ![id] = d]
  /\ UNCHANGED <<consumed, shell, late>>

-----------------------------------------------------------------------------
(* cancel_session, input_session, complete_callback *)

Cancel(id) ==
  /\ status[id] # "none"
  /\ \E s \in Refreshed(id) :
       LET final == IF s \in Live THEN "canceled" ELSE s IN
       /\ status' = [status EXCEPT ![id] = final]
       /\ Finalized(Ending(id, final))
  /\ UNCHANGED <<scope, driver, consumed, shell, late>>

\* A device login refuses input, and so does a CLI that has exited: Get.
InputToCli(id) ==
  /\ driver[id] = "cli" /\ process[id] = "alive"
  /\ id \notin late
  /\ status' = [status EXCEPT ![id] = "submitted"]
  /\ UNCHANGED <<scope, driver, active, gate, oauth, shell, process, late>>

\* The handler of a callback login takes the code whatever the status is.
InputOfCode(id) ==
  /\ driver[id] = "callback"
  /\ \E s \in {"succeeded", "failed"} : status' = [status EXCEPT ![id] = s]
  /\ Finalized({id})
  /\ UNCHANGED <<scope, driver, consumed, shell, late>>

\* Mutant: a refresh that ends the session does not stop the callback.
CallbackUnchecked(id) ==
  /\ id \in callbacks
  /\ \E s \in Refreshed(id), final \in {"succeeded", "failed"} :
       /\ status' = [status EXCEPT ![id] = final]
       /\ Finalized({id})
  /\ consumed' = consumed \cup {id}
  /\ UNCHANGED <<scope, driver, shell, late>>
Callback(id) ==
  /\ id \in callbacks
  /\ \E s \in Refreshed(id),
        final \in {"succeeded", "failed"} \cup Terminal :
       /\ IF s \in Live THEN final \in {"succeeded", "failed"} ELSE final = s
       /\ status' = [status EXCEPT ![id] = final]
       /\ Finalized(Ending(id, final))
       /\ callbacks' = callbacks \ {id}
  /\ consumed' = consumed \cup {id}
  /\ UNCHANGED <<scope, driver, shell, late>>

-----------------------------------------------------------------------------
(* UiShellManager *)

Over(t) == process[t] = "exited" \/ t \in late

\* The terminal's lease and its place in the gate are given back.
Closed ==
  /\ gate' = gate \ {shell}
  /\ process' = Reaped({shell})
  /\ shell' = None

\* get_session_snapshot, and _cleanup_stale_session_locked of a start that
\* goes no further.
LookAtTerminal ==
  /\ shell # None /\ Over(shell)
  /\ Closed
  /\ UNCHANGED <<registry, oauth, late>>

StopTerminal ==
  /\ shell # None
  /\ Closed
  /\ UNCHANGED <<registry, oauth, late>>

\* The terminal that is over is cleaned up first.
StaleTerminal == IF shell = None THEN {} ELSE {shell}
Openable(t) ==
  /\ process[t] = "none" /\ t \notin gate
  /\ shell # None => Over(shell)

\* Mutant: the terminal asks only for other terminals.
BusyWithTerminals(holders) == holders \cap Terminals # {}
\* EngineInteractionGate.acquire for a terminal raises.
BusyForTerminal(holders) == holders # {}

OpenTerminal(t) ==
  /\ Openable(t)
  /\ ~BusyForTerminal(gate \ StaleTerminal)
  /\ gate' = (gate \ StaleTerminal) \cup {t}
  /\ process' = [Reaped(StaleTerminal) EXCEPT ![t] = "alive"]
  /\ shell' = t
  /\ UNCHANGED <<registry, oauth, late>>

\* The launch fails, before or after the process is spawned.
OpenRollsBack(t) ==
  /\ Openable(t)
  /\ ~BusyForTerminal(gate \ StaleTerminal)
  /\ gate' = gate \ StaleTerminal
  /\ process' = [Reaped(StaleTerminal) EXCEPT ![t] = "exited"]
  /\ shell' = None
  /\ UNCHANGED <<registry, oauth, late>>

\* The session's directory cannot be made, or the port of ttyd is taken:
\* raised before the rollback's try.
OpenBreaks(t) ==
  /\ Openable(t)
  /\ ~BusyForTerminal(gate \ StaleTerminal)
  /\ gate' = (gate \ StaleTerminal) \cup {t}
  /\ process' = Reaped(StaleTerminal)
  /\ shell' = None
  /\ UNCHANGED <<registry, oauth, late>>

-----------------------------------------------------------------------------
(* Processes and time *)

ProcessExits(p) ==
  /\ process[p] = "alive"
  /\ process' = [process EXCEPT ![p] = "exited"]
  /\ UNCHANGED <<registry, gate, oauth, shell, late>>

\* expires_at or the hard TTL of a session passes.
TimeIsUp(p) ==
  /\ p \in LiveLogins \/ p = shell
  /\ late' = late \cup {p}
  /\ UNCHANGED <<registry, gate, oauth, shell, process>>

Next ==
  \/ \E id \in Logins :
       \/ Get(id) \/ Cancel(id) \/ InputToCli(id) \/ InputOfCode(id)
       \/ Callback(id)
       \/ \E sc \in Scopes :
            \/ StartBreaks(id, sc)
            \/ \E d \in Drivers : Start(id, sc, d)
  \/ \E sc \in Scopes : StartRefused(sc) \/ StartFails(sc)
  \/ LookAtTerminal \/ StopTerminal
  \/ \E t \in Terminals : OpenTerminal(t) \/ OpenRollsBack(t) \/ OpenBreaks(t)
  \/ \E p \in Logins \cup Terminals : ProcessExits(p) \/ TimeIsUp(p)

Spec == Init /\ [][Next]_vars

-----------------------------------------------------------------------------
(* Properties *)

TypeOK ==
  /\ status \in [Logins -> {"none"} \cup Live \cup Terminal]
  /\ scope \in [Logins -> Scopes \cup {None}]
  /\ driver \in [Logins -> Drivers \cup {None}]
  /\ active \in [Scopes -> Logins \cup {None}]
  /\ gate \subseteq Logins \cup Terminals
  /\ callbacks \subseteq Logins /\ consumed \subseteq Logins
  /\ listening \in BOOLEAN
  /\ shell \in Terminals \cup {None}
  /\ process \in [Logins \cup Terminals -> {"none", "alive", "exited"}]
  /\ late \subseteq Logins \cup Terminals

\* One operator, one conversation: a terminal runs beside no login and no
\* other terminal, and a scope has at most one login under way.
Exclusive ==
  /\ \A t \in Terminals : process[t] = "alive" =>
       /\ LiveLogins = {}
       /\ \A u \in Terminals : process[u] = "alive" => u = t
  /\ \A i, j \in LiveLogins : scope[i] = scope[j] => i = j

\* The gate is held by the sessions under way; a session that ended, on any
\* path, is not in the way of the next one.  What else holds it never began:
\* its start raised before the rollback was in place.
NeverBegan(h) ==
  IF h \in Logins THEN status[h] = "none" ELSE process[h] = "none"
GateIsOwned ==
  LET under == LiveLogins \cup ({shell} \ {None}) IN
  under \subseteq gate /\ \A h \in gate \ under : NeverBegan(h)

\* A redirect is accepted for exactly the callback logins under way, and no
\* state is accepted again.
RedirectsExpected ==
  /\ callbacks = {id \in LiveLogins : driver[id] = "callback"}
  /\ callbacks \cap consumed = {}

\* A redirect that arrives after expires_at does not complete the login, even
\* if nobody has asked for the session since.
LateRedirectRefused ==
  [][\A id \in late \cap LiveLogins :
       id \in consumed' \ consumed => status'[id] = "expired"]_vars

=============================================================================
