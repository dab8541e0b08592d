---------------------------- MODULE EngineUpgrade ----------------------------
(***************************************************************************)
(* Engine upgrades and the engine status cache they refresh                *)
(* (services/engine_management/engine_upgrade_manager.py,                  *)
(* engine_upgrade_store.py, engine_status_cache_service.py).               *)
(*                                                                         *)
(* Every coroutine runs on one event loop; _state_lock is a thread lock    *)
(* that create_task keeps across its awaits.  The installers are processes *)
(* of their own: they outlive the server.                                  *)
(***************************************************************************)
EXTENDS Integers, Sequences, FiniteSets

CONSTANTS
  Requests,      \* requests to upgrade, each made once
  Engines,       \* SUPPORTED_ENGINES, in their order
  None,
  StoreFails,    \* whether a statement on the upgrades database may raise
  MaxCrashes     \* bound: deaths of the server process

ASSUME EnginesAssumption ==
  Engines \in Seq(STRING) /\ {None, "daily", "startup"} \cap Requests = {}
ASSUME FaultsAssumption == StoreFails \in BOOLEAN /\ MaxCrashes \in Nat

VARIABLES
  up,          \* the server accepts requests
  lock,        \* the request whose coroutine holds _state_lock
  frozen,      \* the event loop's thread waits for _state_lock
  runningId,   \* _running_request_id
  pc,          \* where the coroutines of a request are
  todo,        \* engines _run_task has still to treat, the current one first
  failed,      \* some engine's result is "failed"
  row,         \* status of the request's row in engine_upgrades
  installer,   \* the engine that the request's live child process installs
  installed,   \* version on disk
  snapshot,    \* _snapshot_payload
  db,          \* table engine_status_cache
  writes,      \* payloads whose writer holds or awaits _write_lock
  lost,        \* the last write of a payload failed or timed out
  crashes

manager == <<lock, frozen, runningId, pc, todo, failed, row>>
cache == <<snapshot, db, writes, lost>>
vars == <<up, manager, installer, installed, cache, crashes>>

EngineSet == {Engines[i] : i \in DOMAIN Engines}
Versions == 0..Cardinality(Requests)
Status == [version : Versions, error : BOOLEAN]
RowStates == {"none", "queued", "running", "succeeded", "failed"}
InTask == {"created", "starting", "engine", "waiting", "installed",
           "broken", "persisting", "finally"}
PCs == {"idle", "checking", "inserting", "refused", "over", "dead"} \cup InTask
\* Engine lists _resolve_engines can return.
Targets == {<<e>> : e \in EngineSet} \cup {Engines}

Init ==
  /\ up = TRUE
  /\ lock = None /\ frozen = FALSE /\ runningId = None
  /\ pc = [t \in Requests |-> "idle"]
  /\ todo = [t \in Requests |-> <<>>]
  /\ failed = [t \in Requests |-> FALSE]
  /\ row = [t \in Requests |-> "none"]
  /\ installer = [t \in Requests |-> None]
  /\ installed = [e \in EngineSet |-> 0]
  /\ snapshot = [e \in EngineSet |-> [version |-> 0, error |-> FALSE]]
  /\ db = snapshot
  /\ writes = <<>> /\ lost = FALSE
  /\ crashes = 0

Goes(t, place) == pc' = [pc EXCEPT ![t] = place]
\* The loop runs the next part of request t, which is at the given place.
At(t, place) == up /\ ~frozen /\ pc[t] = place

-----------------------------------------------------------------------------
(* create_task *)

\* with self._state_lock, taken while another coroutine of the same thread
\* holds it: nothing runs any more, the holder included.
Freeze(t) ==
  /\ up /\ ~frozen /\ pc[t] \in {"idle", "finally"}
  /\ lock # None
  /\ frozen' = TRUE
  /\ UNCHANGED <<up, lock, runningId, pc, todo, failed, row, installer,
                 installed, cache, crashes>>

\* Mutant: the row is asked about before _running_request_id.
CreateAsksRowFirst(t) ==
  /\ At(t, "idle")
  /\ lock = None
  /\ Goes(t, "checking") /\ lock' = t
  /\ UNCHANGED <<up, frozen, runningId, todo, failed, row, installer,
                 installed, cache, crashes>>
Create(t) ==
  /\ At(t, "idle")
  /\ lock = None
  /\ IF runningId # None
       THEN Goes(t, "refused") /\ UNCHANGED lock
       ELSE Goes(t, "checking") /\ lock' = t
  /\ UNCHANGED <<up, frozen, runningId, todo, failed, row, installer,
                 installed, cache, crashes>>

\* Mutant: the query looks for rows still queued.
SomeQueued == \E t \in Requests : row[t] = "queued"
HasRunningTask == \E t \in Requests : row[t] = "running"
CheckRunning(t) ==
  /\ At(t, "checking")
  /\ IF HasRunningTask
       THEN Goes(t, "refused") /\ lock' = None
       ELSE Goes(t, "inserting") /\ UNCHANGED lock
  /\ UNCHANGED <<up, frozen, runningId, todo, failed, row, installer,
                 installed, cache, crashes>>

Insert(t) ==
  /\ At(t, "inserting")
  /\ row' = [row EXCEPT ![t] = "queued"]
  /\ runningId' = t
  /\ lock' = None
  /\ Goes(t, "created")
  /\ UNCHANGED <<up, frozen, todo, failed, installer, installed, cache, crashes>>

\* The store raises inside create_task: the request ends in an error.
CreateRaises(t) ==
  /\ StoreFails
  /\ At(t, "checking") \/ At(t, "inserting")
  /\ lock' = None
  /\ Goes(t, "over")
  /\ UNCHANGED <<up, frozen, runningId, todo, failed, row, installer,
                 installed, cache, crashes>>

-----------------------------------------------------------------------------
(* _run_task *)

\* The row is read back; its mode and engine give the engines to treat.
ReadTask(t) ==
  /\ At(t, "created")
  /\ \E engines \in Targets : todo' = [todo EXCEPT ![t] = engines]
  /\ Goes(t, "starting")
  /\ UNCHANGED <<up, lock, frozen, runningId, failed, row, installer,
                 installed, cache, crashes>>

MarkRunning(t) ==
  /\ At(t, "starting")
  /\ row' = [row EXCEPT ![t] = "running"]
  /\ Goes(t, "engine")
  /\ UNCHANGED <<up, lock, frozen, runningId, todo, failed, installer,
                 installed, cache, crashes>>

\* The store raises before the try block: the task is gone, its id stays.
StartRaises(t) ==
  /\ StoreFails
  /\ At(t, "created") \/ At(t, "starting")
  /\ Goes(t, "dead")
  /\ UNCHANGED <<up, lock, frozen, runningId, todo, failed, row, installer,
                 installed, cache, crashes>>

Spawn(t) ==
  /\ At(t, "engine") /\ todo[t] # <<>>
  /\ installer' = [installer EXCEPT ![t] = Head(todo[t])]
  /\ Goes(t, "waiting")
  /\ UNCHANGED <<up, lock, frozen, runningId, todo, failed, row, installed,
                 cache, crashes>>

SpawnRaises(t) ==
  /\ At(t, "engine") /\ todo[t] # <<>>
  /\ Goes(t, "broken")
  /\ UNCHANGED <<up, lock, frozen, runningId, todo, failed, row, installer,
                 installed, cache, crashes>>

\* The child process ends, having installed a new version or failed; its exit
\* reaches the coroutine that awaits it, if the server still lives.
InstallerEnds(t) ==
  /\ installer[t] # None
  /\ installer' = [installer EXCEPT ![t] = None]
  /\ \/ /\ installed' = [installed EXCEPT ![installer[t]] = @ + 1]
        /\ pc' = IF pc[t] = "waiting" THEN [pc EXCEPT ![t] = "installed"] ELSE pc
     \/ /\ pc' = IF pc[t] = "waiting" THEN [pc EXCEPT ![t] = "broken"] ELSE pc
        /\ UNCHANGED installed
  /\ UNCHANGED <<up, lock, frozen, runningId, todo, failed, row, cache, crashes>>

EngineFailed(t) ==
  /\ At(t, "broken")
  /\ failed' = [failed EXCEPT ![t] = TRUE]
  /\ todo' = [todo EXCEPT ![t] = Tail(@)]
  /\ Goes(t, "engine")
  /\ UNCHANGED <<up, lock, frozen, runningId, row, installer, installed,
                 cache, crashes>>

Finish(t) ==
  /\ At(t, "engine") /\ todo[t] = <<>>
  /\ row' = [row EXCEPT ![t] = IF failed[t] THEN "failed" ELSE "succeeded"]
  /\ Goes(t, "finally")
  /\ UNCHANGED <<up, lock, frozen, runningId, todo, failed, installer,
                 installed, cache, crashes>>

\* sqlite3.Error is none of the exceptions handled: the row keeps "running".
FinishRaises(t) ==
  /\ StoreFails
  /\ At(t, "engine") /\ todo[t] = <<>>
  /\ Goes(t, "finally")
  /\ UNCHANGED <<up, lock, frozen, runningId, todo, failed, row, installer,
                 installed, cache, crashes>>

Finally(t) ==
  /\ At(t, "finally")
  /\ lock = None
  /\ runningId' = IF runningId = t THEN None ELSE runningId
  /\ Goes(t, "over")
  /\ failed' = [failed EXCEPT ![t] = FALSE]
  /\ UNCHANGED <<up, lock, frozen, todo, row, installer, installed, cache,
                 crashes>>

-----------------------------------------------------------------------------
(* The status cache *)

\* What _collect_status_payload returns: the version found, or the version
\* known so far with the error.
Collected(e) == {[version |-> installed[e], error |-> FALSE],
                 [version |-> snapshot[e].version, error |-> TRUE]}

\* write_payload replaces the snapshot at once and queues for _write_lock.
WritePayload(payload, writer) ==
  /\ snapshot' = payload
  /\ writes' = Append(writes, [payload |-> payload, writer |-> writer])

\* Mutant: the version is looked up before the installer runs.
RefreshStale(t) ==
  /\ At(t, "installed")
  /\ WritePayload(snapshot, t)
  /\ Goes(t, "persisting")
  /\ UNCHANGED <<up, lock, frozen, runningId, todo, failed, row, installer,
                 installed, db, lost, crashes>>
RefreshEngine(t) ==
  /\ At(t, "installed")
  /\ \E s \in Collected(Head(todo[t])) :
       WritePayload([snapshot EXCEPT ![Head(todo[t])] = s], t)
  /\ Goes(t, "persisting")
  /\ UNCHANGED <<up, lock, frozen, runningId, todo, failed, row, installer,
                 installed, db, lost, crashes>>

\* refresh_all, by the daily job (one instance at a time) or at startup.
RefreshAll(writer) ==
  /\ ~frozen
  /\ \A i \in DOMAIN writes : writes[i].writer # writer
  /\ \E payload \in [EngineSet -> Status] :
       /\ \A e \in EngineSet : payload[e] \in Collected(e)
       /\ WritePayload(payload, writer)
  /\ UNCHANGED <<manager, installer, installed, db, lost, crashes>>
DailyRefresh == up /\ RefreshAll("daily") /\ UNCHANGED up
StartupRefresh == ~up /\ RefreshAll("startup") /\ UNCHANGED up

\* The write at the head of _write_lock ends; asyncio.Lock is first come,
\* first served.  A timeout can strike before or after the commit.
Resumes(writer) ==
  IF writer \in Requests
    THEN /\ pc' = [pc EXCEPT ![writer] = "engine"]
         /\ todo' = [todo EXCEPT ![writer] = Tail(@)]
         /\ UNCHANGED up
    ELSE up' = TRUE /\ UNCHANGED <<pc, todo>>
\* Mutant: the commit is missing.
PersistUncommitted ==
  /\ ~frozen /\ writes # <<>>
  /\ lost' = FALSE
  /\ writes' = Tail(writes)
  /\ Resumes(Head(writes).writer)
  /\ UNCHANGED <<lock, frozen, runningId, failed, row, installer, installed,
                 snapshot, db, crashes>>
Persist ==
  /\ ~frozen /\ writes # <<>>
  /\ db' = Head(writes).payload
  /\ lost' = FALSE
  /\ writes' = Tail(writes)
  /\ Resumes(Head(writes).writer)
  /\ UNCHANGED <<lock, frozen, runningId, failed, row, installer, installed,
                 snapshot, crashes>>
PersistTimesOut ==
  /\ ~frozen /\ writes # <<>>
  /\ db' \in {db, Head(writes).payload}
  /\ lost' = TRUE
  /\ writes' = Tail(writes)
  /\ Resumes(Head(writes).writer)
  /\ UNCHANGED <<lock, frozen, runningId, failed, row, installer, installed,
                 snapshot, crashes>>

-----------------------------------------------------------------------------

\* The server dies, installers do not.
Crash ==
  /\ up /\ crashes < MaxCrashes
  /\ crashes' = crashes + 1
  /\ up' = FALSE
  /\ lock' = None /\ frozen' = FALSE /\ runningId' = None
  /\ pc' = [t \in Requests |-> IF pc[t] = "idle" THEN "idle" ELSE "over"]
  /\ todo' = [t \in Requests |-> <<>>]
  /\ failed' = [t \in Requests |-> FALSE]
  /\ writes' = <<>>
  \* load_persisted, before the refresh that ends the startup.
  /\ snapshot' = db
  /\ UNCHANGED <<row, installer, installed, db, lost>>

TaskStep(t) ==
  ReadTask(t) \/ MarkRunning(t) \/ Spawn(t) \/ EngineFailed(t)
    \/ RefreshEngine(t) \/ Finish(t) \/ Finally(t)

Next ==
  \/ \E t \in Requests :
       \/ Freeze(t)
       \/ Create(t) \/ CheckRunning(t) \/ Insert(t) \/ CreateRaises(t)
       \/ TaskStep(t) \/ StartRaises(t) \/ SpawnRaises(t) \/ FinishRaises(t)
       \/ InstallerEnds(t)
  \/ DailyRefresh \/ StartupRefresh
  \/ Persist \/ PersistTimesOut
  \/ Crash

Spec == Init /\ [][Next]_vars

\* The event loop runs every ready coroutine, the database answers within its
\* timeout, and an installer ends.
Fairness ==
  /\ \A t \in Requests : /\ WF_vars(TaskStep(t))
                         /\ WF_vars(InstallerEnds(t))
                         /\ WF_vars(CheckRunning(t)) /\ WF_vars(Insert(t))
  /\ WF_vars(StartupRefresh)
  /\ WF_vars(Persist \/ PersistTimesOut)
FairSpec == Spec /\ Fairness

-----------------------------------------------------------------------------
(* Properties *)

\* The values each variable can take.
TypeOK ==
  /\ up \in BOOLEAN /\ frozen \in BOOLEAN /\ lost \in BOOLEAN
  /\ lock \in Requests \cup {None} /\ runningId \in Requests \cup {None}
  /\ pc \in [Requests -> PCs]
  /\ todo \in [Requests -> Seq(EngineSet)]
  /\ failed \in [Requests -> BOOLEAN]
  /\ row \in [Requests -> RowStates]
  /\ installer \in [Requests -> EngineSet \cup {None}]
  /\ installed \in [EngineSet -> Nat]
  /\ snapshot \in [EngineSet -> [version : Nat, error : BOOLEAN]]
  /\ db \in [EngineSet -> [version : Nat, error : BOOLEAN]]
  /\ crashes \in 0..MaxCrashes

\* Never two installers at once, whatever the races between requests, and
\* neither when a restarted server meets the installer of the dead one.
OneInstaller ==
  \A t, u \in Requests : installer[t] # None /\ installer[u] # None => t = u

\* An upgrade that was accepted gets a final status unless the server dies or
\* the store fails it: nothing else, not even a frozen loop, can stop it,
\* since the loop can only freeze while no upgrade is in progress.
AcceptedSettles ==
  \A t \in Requests :
    row[t] \in {"queued", "running"}
      ~> \/ row[t] \in {"succeeded", "failed"}
         \/ crashes > 0
         \/ StoreFails /\ pc[t] \in {"dead", "over"}

\* While this server is the only one there was: the version shown for an
\* engine is the one on disk, unless it is shown with an error or the task
\* that installed it has still to refresh the cache.
ShownIsInstalled ==
  crashes = 0 =>
    \A e \in EngineSet :
      \/ snapshot[e].error
      \/ snapshot[e].version = installed[e]
      \/ \E t \in Requests : pc[t] = "installed" /\ Head(todo[t]) = e

\* Writers that overlap leave the newest payload in the table.
PersistedIsShown == up /\ writes = <<>> /\ ~lost => db = snapshot
=============================================================================
