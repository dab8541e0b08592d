--------------------------- MODULE SqliteDbHandle ---------------------------
(***************************************************************************)
(* One database handle shared by the two event loops of the server         *)
(* (services/platform/sqlite_db_handle.py): the serving loop, whose        *)
(* coroutines await their operations, and the loop of SQLiteSyncBridge,    *)
(* which runs an operation while the caller's thread waits for its result. *)
(* run_auth.db is used both ways: RunAuthStateStore awaits, and            *)
(* EngineAuthFlowManager persists its sessions through the bridge from     *)
(* inside coroutines of the serving loop.                                  *)
(*                                                                         *)
(* _operation_lock is an asyncio.Lock of Python 3.11: it is bound to the   *)
(* first loop that has to wait for it and raises in every other loop that  *)
(* has to.  Calls of the bridge from further threads are left out.         *)
(***************************************************************************)
EXTENDS Sequences, FiniteSets

CONSTANTS
  AsyncOps,   \* operations awaited on the serving loop
  SyncOps,    \* operations handed to the bridge on the serving loop's thread
  None

Ops == AsyncOps \cup SyncOps
LoopOf(o) == IF o \in AsyncOps THEN "serving" ELSE "bridge"

VARIABLES
  locked,    \* Lock._locked
  waiters,   \* Lock._waiters, whose first future may be done
  bound,     \* Lock._loop
  blocked,   \* the bridge call the serving thread waits for
  pc

vars == <<locked, waiters, bound, blocked, pc>>

Init ==
  /\ locked = FALSE
  /\ waiters = <<>>
  /\ bound = None
  /\ blocked = None
  /\ pc = [o \in Ops |-> "idle"]

\* Code on the serving loop runs unless its thread is blocked.
Runs(o) == LoopOf(o) = "bridge" \/ blocked = None

\* Lock.acquire: at once, after a wait, or not at all.
Acquire(o) ==
  \/ /\ ~locked /\ waiters = <<>>
     /\ locked' = TRUE
     /\ pc' = [pc EXCEPT ![o] = "operating"]
     /\ UNCHANGED <<waiters, bound>>
  \/ /\ locked \/ waiters # <<>>
     /\ bound \in {None, LoopOf(o)}
     /\ bound' = LoopOf(o)
     /\ waiters' = Append(waiters, o)
     /\ pc' = [pc EXCEPT ![o] = "waiting"]
     /\ UNCHANGED locked
  \/ /\ locked \/ waiters # <<>>
     /\ bound \notin {None, LoopOf(o)}
     /\ pc' = [pc EXCEPT ![o] = "raised"]
     /\ UNCHANGED <<locked, waiters, bound>>

\* operation(), awaited by a coroutine of the serving loop.
Await(o) ==
  /\ o \in AsyncOps /\ pc[o] = "idle" /\ Runs(o)
  /\ Acquire(o)
  /\ UNCHANGED blocked

\* SQLiteSyncBridge.run: run_coroutine_threadsafe(...).result().
Call(o) ==
  /\ o \in SyncOps /\ pc[o] = "idle" /\ blocked = None
  /\ blocked' = o
  /\ pc' = [pc EXCEPT ![o] = "submitted"]
  /\ UNCHANGED <<locked, waiters, bound>>

BridgeRuns(o) ==
  /\ pc[o] = "submitted"
  /\ Acquire(o)
  /\ UNCHANGED blocked

\* The statements of the operation end and the lock is released; the first
\* waiter's future is set and its coroutine leaves the queue when it runs.
Release(o) ==
  /\ pc[o] = "operating" /\ Runs(o)
  /\ locked' = FALSE
  /\ pc' = [pc EXCEPT ![o] = "done"]
  /\ UNCHANGED <<waiters, bound, blocked>>

Woken(o) ==
  /\ ~locked /\ waiters # <<>> /\ o = Head(waiters) /\ Runs(o)
  /\ locked' = TRUE
  /\ waiters' = Tail(waiters)
  /\ pc' = [pc EXCEPT ![o] = "operating"]
  /\ UNCHANGED <<bound, blocked>>

Return(o) ==
  /\ blocked = o /\ pc[o] \in {"done", "raised"}
  /\ blocked' = None
  /\ UNCHANGED <<locked, waiters, bound, pc>>

Next == \E o \in Ops : Await(o) \/ Call(o) \/ BridgeRuns(o)
                         \/ Release(o) \/ Woken(o) \/ Return(o)

Spec == Init /\ [][Next]_vars

\* Both loops run what is ready, and the database answers.
Fairness ==
  \A o \in Ops : /\ WF_vars(BridgeRuns(o)) /\ WF_vars(Release(o))
                 /\ WF_vars(Woken(o)) /\ WF_vars(Return(o))
FairSpec == Spec /\ Fairness

-----------------------------------------------------------------------------
(* Properties *)

TypeOK ==
  /\ locked \in BOOLEAN
  /\ waiters \in Seq(Ops)
  /\ bound \in {"serving", "bridge", None}
  /\ blocked \in SyncOps \cup {None}
  /\ pc \in [Ops -> {"idle", "submitted", "waiting", "operating", "done", "raised"}]

\* "operations against that DB file execute serially within the process",
\* whichever loops they run on.
Serial ==
  \A o, p \in Ops : pc[o] = "operating" /\ pc[p] = "operating" => o = p

\* A call through the bridge comes back, with a result or an error.  It would
\* if "all callsites that invoke migrated stores ... use `await` end-to-end"
\* (async-sqlite-store-access/spec.md:16); this one blocks its own loop.
CallReturns == \A o \in SyncOps : pc[o] = "submitted" ~> pc[o] \in {"done", "raised"}
=============================================================================
