# Skill-Runner in TLA+

Skill-Runner serves agent skills over HTTP.  A client creates a *run*; the server
starts a command-line engine (Codex, Claude, ...) in the run's workspace, reads what
it prints, and reports the status.  An *interactive* run may ask: its engine process
ends, the run waits, and a later reply starts the next *attempt* with the same
engine session.  Runs are canceled, time out, wait for a login, survive restarts.

The server is one Python process with one asyncio loop.  There is little parallelism
and a great deal of interleaving: a status lives in several stores which are written
one after the other, with an `await` in front of each write, and at every `await` any
other task may run.  Around the loop there are a few threads (login listeners, a bridge
to the database), child processes that outlive the server, and files that several tasks
write.  This project models that.

All paths below are relative to the repository.  `server/services/orchestration/` is
abbreviated to `orch/`.

## 1. Inventory

### Components that are modelled

| Component | State | Operations | Made hard by | Correct when | Module |
|---|---|---|---|---|---|
| Concurrency manager `server/services/platform/concurrency_manager.py` | `_queued`, `_running`, `_semaphore` | `admit_or_reject`, `acquire_slot`, `release_slot`, `reset_runtime_state` | a counter and a semaphore changed on both sides of an await; the semaphore replaced under running jobs | no more jobs in a slot than slots; a scheduled job gets one; 429 only when saturated | ConcurrencyManager |
| Session statechart `server/runtime/session/statechart.py` | none | `TRANSITIONS` | many writers of the status | every change of the status is a transition | SessionStatechart |
| Run job lifecycle `orch/run_job_lifecycle_service.py`, with attempt preparation, outcome, the projection finalizer and the rounds of `orch/run_output_convergence_service.py` | the position of a job; its attempt number, ticket and repair round | `run_job`, `converge` | three looks at a cancel flag around long awaits, none between repair rounds; two waiting projections; bundles after the outcome | one job owns the run; turns in order | RunLifecycle, WaitingAuth |
| Run state service `orch/run_state_service.py` | run_state, runs.status, dispatch phase, `result.json` | `initialize_queued_state`, `advance_dispatch_phase`, `write_(non_)terminal_projection` | three stores without a transaction; read-modify-write of the envelope | the stores agree when the run is at rest | RunLifecycle |
| Interaction store and resume tickets `orch/run_store_interaction_store.py`, `orch/run_store_auth_state_store.py` | pending questions, replies, one ticket row, session handle, pending login | submit, consume, issue, dispatch, start | compare-and-sets in separate transactions | one answer per question, one start per ticket | RunLifecycle, WaitingAuth |
| Interaction service and timers `orch/run_interaction_service.py`, `orch/run_interaction_lifecycle_service.py` | sleeping timer tasks | `submit_reply`, `auto_decide_after_timeout`, `resume_with_auto_decision` | replies and timers for the same question, timers that wake late | an accepted answer reaches the next attempt | RunLifecycle |
| Recovery `orch/run_recovery_service.py`, `server/main.py` | none of its own | preserve, redrive, reconcile as failed, reset of the slots | goes by one of three stores; redrives before the semaphore is replaced | every run settles or can be answered | RunLifecycle, WaitingAuth, ConcurrencyManager, ServerLifetime |
| Read facade and jobs router `server/runtime/observability/run_read_facade.py`, `server/routers/jobs.py` | none | create, cancel, redrive of a queued run by a reader | acts on a status read earlier; fails between admission and scheduling | cancel ends the run and its engine; admission is given back | RunLifecycle, ConcurrencyManager |
| Login during a run `orch/run_auth_orchestration_service.py` | pending login, choice of methods, resume context, the ticket | post, callback, poll, input, import, select | one finished login reported by callback, poll and client; expiry at the same time | the next attempt runs once; a login that succeeds resumes its run, and one that was given up does not | WaitingAuth |
| Engine login sessions `engine_auth_flow_manager.py`, `server/runtime/auth/`, the handlers of codex and opencode | sessions in memory, states of pending redirects, the listener of a channel | start, refresh, input, callback, cancel, finalize | redirects on threads; starts that fail half way; two sessions of one channel | a redirect is taken only for a session that waits for it | AuthSessions |
| Interactive gate `engine_interaction_gate.py`, with the UI shell `server/services/ui/ui_shell_manager.py` | who talks to the operator | `acquire`, `release` | every path has to ask and to give back | at most one login or terminal per scope | AuthSessions |
| Engine upgrade manager and status cache `engine_upgrade_manager.py`, `engine_status_cache_service.py` | one running upgrade in memory and in a table; a snapshot of versions in memory and in a table | `create_task`, `_run_task`; `refresh_engine`, `refresh_all`, `write_payload` | a thread lock held across awaits; installers that outlive the server; overlapping writers | one installer at a time; what is shown is installed | EngineUpgrade |
| Process supervisor and lease store `server/services/platform/process_supervisor.py`, with the capture in the execution adapter | rows of engine processes, references in memory | register, release, terminate, sweep, reap | a crash between spawn, lease, exit and reap | no engine outlives its server for long | ServerLifetime |
| Local runtime lease `server/services/platform/local_runtime_lease_service.py` | leases of plugins in memory | acquire, heartbeat, release, sweep, shutdown | the last lease goes by four ways | an abandoned server stops | ServerLifetime |
| Event protocol `server/runtime/protocol/live_publish.py`, `ordering_gate.py`, `live_journal_base.py`, and `run_observability.py` | next seq, held rows, ring, queues, a mirror file per attempt; a cursor per reader | publish, flush, expire; `iter_sse_events`, history | readers renumber the files writers append to; seqs lost in a crash; queues that drop | a reader sees the rows in order and misses none | EventStream |
| Database handle `server/services/platform/sqlite_db_handle.py` | `_operation_lock` | `operation`, `SQLiteSyncBridge.run` | one lock shared by two event loops | a call comes back | SqliteDbHandle |

They interact by shared stores and by tasks.  `create` schedules `run_job`.  `run_job`
asks the concurrency manager for a slot, drives the engine through the adapter, which
leases the process from the supervisor, and writes the stores through the state service.
When the engine asks, `run_job` ends, leaving a question and perhaps a timer; when it
wants a login, a login session or a choice of methods.  A reply, a timer or the end of the
login issues a *resume ticket* and schedules another `run_job` with it; a reader of the
run detail or recovery may *redrive* an unstarted ticket.  Cancel sets a flag, terminates
the process it finds, and writes the canceled projection itself.  Every step publishes
events, which readers follow through `GET /events`.

### Components that are not modelled

Run cleanup with the data reset and the result cache (deletion under use; planned), the
uv cache manager, skill packages, models and CLI installation, MCP registry, engine
adapters, management and UI routers, `e2e_client`, `agent_harness` and `scripts`: these
have little state of their own, or do pure input and output.  `PROJECT.json` gives the
reason for each.  Of output convergence the rounds and what they do to the run are
modelled in `RunLifecycle`, but not how it judges what was printed.

## 2. Modules

| Module | What it is |
|---|---|
| `SlotPool` | abstract: jobs ask for, take, hand over and give back at most `MaxConcurrent` slots |
| `ConcurrencyManager` | the guard and its callers in detail |
| `ConcurrencyManager_proofs` | its theorems |
| `SessionStatechart` | abstract: the transitions of the statechart |
| `TurnTaking` | abstract: engine turns one at a time, in order, each after an answer |
| `RunLifecycle` | one run in detail, from creation to rest |
| `RunLifecycle_proofs` | its theorems: one owner of the next turn, cancel, and that it implements `TurnTaking` |
| `RunLifecycle_stores` | its theorems about the stores and the status: of a run that is only answered, of one that meets cancels, faults and crashes, and of one that meets crashes alone |
| `WaitingAuth` | one run whose engine asks for a login |
| `WaitingAuth_proofs` | its theorems |
| `AuthSessions` | the login sessions of the engines, and the gate they share with terminals |
| `AuthSessions_proofs` | its theorems |
| `EngineUpgrade` | upgrades of engines and the cache of their versions |
| `EngineUpgrade_proofs` | its theorems |
| `ServerLifetime` | plugin leases, the life of the server, and the processes it leaves behind |
| `ServerLifetime_proofs` | its theorems |
| `EventStream` | the events of one run, from publisher to reader |
| `EventStream_proofs` | its theorems |
| `SqliteDbHandle` | the operation lock of a database used from two loops |
| `MC...` | instances for TLC |

A definition marked "Mutant" is a plausible mistake in the definition that follows
it.  It takes part in no specification; it documents which mistake a property of
`PROJECT.json` catches.

### ConcurrencyManager

A job is one call of `run_job`; `job[j]` is where it is.  `Admit`/`Reject` are
`admit_or_reject`; `Schedule`/`Drop` are the two dispatch writes of the endpoint, which
succeed or raise; `Resume` and `Redrive` schedule a job without admission.
`acquire_slot` is `AcquireNow` if the semaphore is free and otherwise `AcquireWait`
followed, after a release, by `Wake`.  `asyncio.Semaphore` is modelled from CPython
3.11: a waiter is handed the permit when it is chosen and resumes later; on resuming it
passes further permits on (`PassesOn`).  `ResetRuntimeState` ends startup recovery; `gen`
says which of the two semaphores is current.

### RunLifecycle

`store` is what a reader sees: run_state, the row in `runs`, `result.json`.  A projection
is a sequence of writes in `todo[t]`, performed one by one by `Write`, so that any other
task, or a crash, comes between them; a task goes on only when it owes none (`At`).  All
other actions are the code between two suspension points.  Tasks are workers
(`run_job`), timers, clients that reply, readers that poll, cancellers, and recovery.

`StartTicket`, `AdvancePhase`, `CheckCancel`, `Prepare`, `Launch`, `EngineExit` and the
three outcomes `TurnFailed`, `TurnSucceeded`, `TurnAsks` follow `run_job` top to bottom.
Between the exit and the outcome `RepairRound` starts the engine again, in the same
session, at most `MaxRepairs` times (three in the code): the output did not satisfy the
contract.  A turn is the process of the attempt with its repair rounds (`InTurn`), and
that is what `TurnTaking` promises to take one at a time.
`SubmitReply`, `IssueTicket` and `DispatchTicket` are the path shared by a reply and a
timeout; they differ in the writes they owe and in that timers all use one idempotency
key.  `PollReadsQueued`/`Redrive` and `CancelArrives` ... `ProjectCanceled` keep the await
between reading the status and acting on it.  `Crash` loses every task and keeps every
store; `Restart` is `recover_single_incomplete_run`.

What the engine prints is a choice among outcomes.  An interaction is identified by the
attempt that asked, since `interaction_id` counts them.  The ticket table has one row per
request, as in the code.

Three kinds of conversation are modelled: `session` (waits for a reply),
`session_timeout` (with automatic reply after a timeout) and `oneshot` (no session: put
back in the queue and answered at once).  Faults are inputs: `queue_full` (429), `audit`
(the audit files cannot be created), `bundle` (bundles cannot be built).

`situation`, chosen at the start, says what a behaviour may meet, so that one run can
check properties that need different surroundings: `calm`, only replies and reply
timeouts; `eager`, the same with answers at any moment; `cancel`, cancels, faults and
redriving readers; `crash`, crashes and redriving readers.  Where cancels are tried the
bounds allow one question and one reply less (`Fewer`).

Timing.  The code relies on some things being slow, and the model says so where it does:
an engine turn outlasts the few store writes of the tasks around it, except a cancel
(`EngineExit`); a reply timeout, one second at least, outlasts the writes of the attempt
that armed it (`TimerFires`).  Unless `eager`, a client replies only once the waiting
projection is complete (`ReplyArrives`).

### WaitingAuth

One run, seen from `run_auth_orchestration_service.py`.  A task is a coroutine: `run_job`
(by the ticket it resumes), a poll of the status, a client's submission, the callback of a
login, a cancel.  `StartLogin`, `RecoverLogin` and `OfferChoice` are the ways
`create_pending_auth` goes, for the attempt that asked or for a method a client chose;
`Persist` and `Post` write the pending login and the waiting status.  A finished login is
noticed by its callback (`CallbackArrives`), a poll (`PollLooks`, `Reconciled`) or an input;
all of them go through `ReadSource`, `IssueTicket`, `DispatchTicket`, `ClearPending` and
`Resume`, and only the ticket decides which of them starts the next attempt.  A login
session is its snapshot here.

The status is in two stores: `status` is that of run_state, by which readers see the run and
clients may submit, and `row` is `runs.status`, by which a restart goes.  `Project` is a
projection, which writes both; `RunLifecycle` has the order of its writes.  They differ after
`FailLogin`: a poll that finds a login expired clears the rows of the login and
then calls `update_status`, which raises when the poll is a read of the run's status, so
that nothing more is written, and does nothing when a client asks for the login, so that
only the row becomes failed.  Either way run_state stays `waiting_auth`; the history
variable `givenUp` says so until a login or choice is posted again.  For the same reason a
callback that did not succeed writes its pending login and no status (`RepostCallback`); an
input that did not has a projection of its own (`RepostInput`, then `Post`).

`Crash` loses the coroutines and every login session; the rows stay.  `Restart` is the
branch of `recover_single_incomplete_run` for these statuses: a choice of methods is
preserved, a pending login without its session fails the run, a queued run whose ticket
was not started is redriven.  `Spent` names the one ticket that survives a crash and that
nobody can win any more.

Timing.  A login takes longer to end, or to expire, than the writes of the task that posts
it (`PeopleAct`, dropped by `Eager`); a turn outlasts the coroutines it overlaps with
(`TurnOver`); a client does not choose another method while a login or a submission is
under way (`Free`, dropped by `Hasty`); and a completion does not clear the pending login
while another, that has found the login succeeded, has still to read which attempt it was
for (`ClearPending`, `PollArrives`, `InputArrives`; `Stale` drops it, and the run `wa_second` shows why it is needed).

### AuthSessions

Three kinds of flow: browser callback (a listener or a pasted address), device code, and
the engine's own command line.  Every operation of the flow manager holds its lock from
end to end and is one action: `Get`, `Start...`, `Cancel`, `Input...`, and `Callback`, which
a listener's thread enters.  Each begins with the refresh (`Refreshed`), which may end the
session, and a session that ends is finalized (`Finalized`): taken off the scope's map, the
gate, the expected states, its listener stopped and its process ended.  Starts
(`StartFails`, `StartBreaks`) and launches of terminals (`OpenRollsBack`, `OpenBreaks`) fail
at every point at which the code can raise, with the clean-up it has at that point.

### EngineUpgrade

`Create`, `CheckRunning` and `Insert` are `create_task` with its two awaits under a
*thread* lock: while it is held, any other coroutine that wants it blocks the thread, and
with it the loop (`Freeze`).  `MarkRunning` ... `Finally` are `_run_task`; the store may
raise at any of its calls (`StoreFails`).  `installer` is the child process, which survives
`Crash`.  `WritePayload` replaces the snapshot and queues for `_write_lock`; `Persist` and
`PersistTimesOut` are the end of the write at its head.

### ServerLifetime

A process is a run and the server that started it.  `Spawn` and `Register` are apart, as
in the adapter; `Capture`, `CaptureBreaks`, `Cancelled`, `SweepProcesses` release a lease;
`Start`, `Reap` and `Open` are the startup, one row after the other and terminate before
close.  `Acquire`, `Heartbeat`, `Lapse`, `Release`, `SweepLeases` are the plugin leases;
a lease that lapses is a step of its own, so time is not modelled.  The signal makes the
server stop taking requests and some time later end (`Stop`), exactly as a crash does,
for nothing in the shutdown terminates engines.

### EventStream

A row of the stream is its place in the order of publication, which the program stores
nowhere.  `Publish` is `FcmpEventPublisher.publish` with the ordering gate (`Passed`): the
ring, the subscribers' queues, which drop when full, and the writer of each attempt's file,
which lags (`Flush`).  `Connect`, `Subscribe`, `Pop`, `CatchUp`, `CheckStatus` are
`iter_sse_events`; `History` merges the ring with the files as `get_event_history_payload`
does, including the renumbering of the files by any reader that reads them (`Reindexed`,
`Numbered`).

The code relies on several windows not being hit.  `Rush` lists those that are; the module
explains each.  The passing run has `Rush = {}`.

### SqliteDbHandle

`asyncio.Lock` of Python 3.11 shared by two loops: bound to the first loop that waits, an
error for the other (`Acquire`).  `Call` blocks the serving loop's thread until the
operation on the bridge's loop is done.

## 3. Runs

Bounds: a job, task, reader or client beyond those given adds no new kind of overlap.
Deadlock is checked in `sl_restarts`.  Elsewhere it is not, because a run, a login or an
upgrade ends: when everything is done there is no step left.  The liveness properties
state that it does not stop too early.

### Passing

| Run | Instance | Shows |
|---|---|---|
| `cm_serving` | 4 creates, 1 resumption, 2 slots, queue of 1 | at most 2 in a slot; 429 only when saturated; every scheduled job gets a slot; `SlotPool` is implemented |
| `cm_recovery` | 2 creates that may fail, 1 resumption, 3 redriven jobs, 2 slots | permits are conserved over the two semaphores, at most twice the limit, no lost wakeup, counters never count a job twice |
| `rl_replies` | calm and eager, 3 attempts, 2 replies, a timer per question, 1 repair round | stores agree at rest; `TurnTaking` and the statechart are implemented; every accepted answer is consumed or the run ends; a live engine is reported as running; a run with automatic replies goes on |
| `rl_faults` | all conversations; either a cancel with every fault and a redriving reader, or a crash with one; 3 attempts, 2 replies, 2 repair rounds | one owner; a waiting run at rest can be answered; every queued or running run ends or waits; once the cancel is seen no further engine turn, unless the job was past its second check |
| `wa_logins` | 1 login of the run, 1 that a person left open in the UI, a poll, a client, a cancel, a crash, 2 attempts | an attempt runs once; a waiting run can be acted on, or a poll has given its login up; no completion goes on with a run whose row has failed; the statechart is implemented; a login that succeeds resumes its run, also after a restart |
| `au_logins` | 3 logins, 2 terminals, 2 channels | at most one holder of the gate per scope; it is held only by one who still works or whose start raised; a redirect is expected only by a session that exists, and a late one is refused |
| `eu_faults` | 2 requests, 2 engines, a store that raises, timeouts, a crash | one installer; the version shown is the one on disk; the table ends as the snapshot; an accepted upgrade gets a final status |
| `sl_restarts` | 2 plugin leases, 1 run, 2 crashes, so up to 5 servers | no row of an earlier server is active while one serves; a watched engine can be found; an orphan is ended; an abandoned server stops |
| `ev_stream` | 2 attempts of 2 rows, ring of 4, queue of 1, 2 connections, 1 restart | rows are seen in order, once and without a gap; the files keep the seqs; a stream the server ends is complete |

Two slots and more jobs than slots are the least for a permit to be passed on by a waiter;
three redriven jobs the least to have two running and one waiting on the replaced
semaphore.  Three attempts are the least in which a timer can outlive its question and
meet the next, and in which a crash can meet a run that has been resumed and asks again;
two replies let two clients compete for one question.  Two repair rounds let a cancel
terminate the first and meet the second.  Cancels and crashes are not tried in one
behaviour, whose states are too many: a crash in the middle of a canceled projection is not
checked.  In `wa_logins` one client, one poll
and one callback are three competitors for one ticket.  In `sl_restarts` two crashes let the
second meet the reap of the first.  In `ev_stream` four rows and four more of the
conversation overflow both the ring and the queue; readers meet only through the files
they rewrite, and one reader meets the writers there.

### Fairness

`ConcurrencyManager`: the loop runs ready tasks, recovery ends, and a running job ends
because the adapter bounds an engine by a hard timeout.  `RunLifecycle`: weak fairness on
the step of each task, which the loop gives to ready tasks, on the engine's exit for the
same timeout, on the timer, which is a sleep, and on restart after a crash.  Slots are
given by the other model's `ScheduledJobRuns`.  Clients, readers and cancellers are not
assumed to do anything.  Nothing forces the engine to stop asking; `MaxAttempt` does, and
the liveness results hold for that bound.

`WaitingAuth`: the loop runs the coroutines, engines end, every session reaches its
`expires_at`, a server that crashed is started again, and somebody keeps polling a waiting
run, as the observers of a run do; people who log in are assumed to do nothing.
`EngineUpgrade`: the loop, the
database's answer within its timeout, and the end of an installer.  `ServerLifetime`: the
periodic sweep, the signal and the end of a signalled server, and that a server that is
down is started again by the plugin that needs it; an engine need not end by itself.
`SqliteDbHandle`: both loops run what is ready.

### Disagreements with the documentation

These runs end in a violation on purpose; `PROJECT.json` quotes the line each contradicts.

| Run | What the code does |
|---|---|
| `sq_frozen` | a coroutine that persists a login through the synchronous bridge, while another coroutine is suspended inside an operation of the same database, waits for a lock that only its own thread could release: the server stands still |
| `rl_canceled` | a cancel during a repair round terminates the process of that round; the loop over rounds does not look for the cancel and starts the engine again, and the outcome of the last round is written over the canceled projection |
| `wa_second` | a completion that reads which attempt a login was for after another has cleared it takes the attempt to be 1; the ticket is replaced, that completion wins it, and the attempt after the first is run a second time, although only one path should win the ticket |

The models contain the following behaviours too.  They decide for which instance a
property above is checked, and each is found by checking that property on the other one.

Slots and runs:

- A job that waits for a slot is no longer counted in `_queued`
  (`concurrency_manager.py:84`), so the queue limit does not bound the jobs that wait.
- A create whose dispatch writes fail keeps its place in the queue for ever
  (`jobs.py:714`): `RejectOnlyWhenSaturated` fails with `Failing # {}`.
- The semaphore replaced at the end of recovery forgets the redriven jobs:
  `AtMostMaxConcurrent` fails with `Redriven # {}`; one that waits while it is replaced is
  never woken: `ScheduledJobRuns` fails with three of them.
- Unless `calm`, the second waiting projection (`run_attempt_projection_finalizer.py:77`)
  covers the queued status of a run already answered: `ImplementsStatechart` fails.
- A `oneshot` run goes from running to queued, which is no transition.
- A reader who redrives a ticket before the reply has written its second queued projection
  may have it cover the running state: `LiveTurnIsRunning` is checked without readers.
- `WaitingIsAnswerable` does not hold for every bound: it fails with two readers, four
  attempts, two replies and audit files that cannot be created.  The first redrive lets the
  engine run under the queued status its dispatcher still has to write; the second reader
  sees that status and redrives only the ticket of the next answer, while the run waits;
  `advance_dispatch_phase` of its job copies `waiting_user` over the queued status, and the
  job then ends at its audit files.  It is checked with one reader, and proved for every bound
  when the audit files can be created (`WaitingAnswerable`, §4).
- A run refused with 429, or whose audit files cannot be created, stays queued until a
  restart: `RunSettles` is checked without these faults.
- The waiting projection does not look at the cancel flag: a run canceled while its attempt
  asks may end waiting for the user, and its status and result may differ.
  `StoresAgreeAtRest` is checked without cancels, and `CancelStopsFurtherTurns` excepts the
  job that was past its last check.
- A crash between the terminal writes lets recovery, which goes by the row, write another
  outcome over the first.
- The reply timer of a waiting run does not survive a restart (`WaitingResumes` is checked
  without crashes).
- The timer of an answered question answers the next one before its time
  (`run_interaction_lifecycle_service.py:398`).

Logins:

- A crash after an import has dispatched the resume ticket (`mark_resume_ticket_dispatched`,
  `run_auth_orchestration_service.py:831`) and before the choice of methods is cleared
  (`:844`) leaves a run that recovery preserves as resumable (`run_recovery_service.py:273`)
  and that no later login can resume: each gets the same ticket, which is dispatched
  already.  `LoginResumes` excepts it (`Spent`).
- With two submissions at once, or a login that ends under the task that posts it
  (`Eager`), a run may wait for a login nobody can act on, and its status may leave the
  statechart.
- A login that expires does not end its run.  `_fail_waiting_auth_session`
  clears the login's rows and then calls `update_status` (`run_auth_orchestration_service.py:1220`).
  In a status read that is `_update_status` of the orchestrator, which raises
  (`job_orchestrator.py:264-273`), so line 1228 is not reached; in a client's read of the
  login it is a closure that does nothing (`run_interaction_service.py:709-719`), so that
  only `runs.status` fails.  Either way clients see `waiting_auth`, with no login and no
  choice: in the first case until a restart fails the run, in the second for good, since
  recovery passes over a row that has failed.  `WaitingIsActionable` fails without `givenUp`.
  The specifications say that the run goes from `waiting_auth` to `failed`
  (`openspec/specs/in-conversation-auth-flow/spec.md:66-69`,
  `openspec/specs/session-runtime-statechart-ssot/spec.md:20-23`).  The unit test
  (`tests/unit/test_run_auth_orchestration_service.py:1494`) passes a recording double for
  `update_status`.
- A callback that does not succeed raises at the same call (`:1150`), after its pending login
  is written.
- An input that does not succeed puts the run back to `waiting_auth`, whatever it has become
  (`run_auth_orchestration_service.py:684`).
- A method chosen while a login goes on leaves that login behind: `Hasty`.
- Any finalization of a codex or opencode session stops the one listener of the channel,
  also under a login that still waits for its redirect.
- A codex session takes an input whatever its status.
- A start of a login or a terminal that raises before its roll-back begins keeps the gate:
  `GateIsOwned` excepts exactly these.

Engines, server, events:

- A second `create_task` blocks the loop for good if it comes while the first awaits under
  the thread lock (`engine_upgrade_manager.py:55`); `AcceptedSettles` shows that this can
  happen only while no accepted upgrade is in progress.
- A row left `running` by a crash or a failing store refuses every later upgrade.
- A plugin lease taken between the decision to shut down and the signal does not stop it.
- An engine spawned and not yet leased when the server dies is never found:
  `LeasedOrphanEnds` and `WatchedIsLeased` begin with the lease.
- Each member of `Rush` breaks a property of `EventStream`: `subscribe`, `stale_cursor`:
  `SeenIsComplete`; `slow_mirror`, `overlap`: `MirrorKeepsSeq`; `live_only`: `SeenInOrder`,
  for after a restart in the middle of an attempt the new rows are numbered from the files,
  which lagged; `slow_end`: `EndedStreamIsComplete`.

## 4. Proofs

`ConcurrencyManager_proofs` proves, for any finite sets of jobs and any positive limits
(`JobsAssumption`, `LimitsAssumption`):

- `TypeCorrect`: `Spec => []TypeOK`, one case per action;
- `SlotsConserved`: `Spec => []SlotConservation`.  The formula is not inductive: a release
  hands the permit to the head of a queue, which conserves permits only if that job is
  really waiting and is not in the queue twice.  The invariant adds `WaitersOK` (the queue of a
  semaphore holds waiting jobs of that semaphore, each once) and that the second semaphore
  is empty before the reset;
- `OvercommitBounded`: at most `2 * MaxConcurrent` jobs in a slot, from conservation;
- `SlotLimitHolds` and `ConcurrencyManagerRefinesSlotPool`, under `Redriven = {}`: the first
  semaphore is never touched, so conservation leaves `MaxConcurrent` for the other; then
  every step maps to a step of `SlotPool` or to a stutter.

The assumption `Redriven = {}` is necessary: with redriven jobs the reset overcommits.

- `NoWakeupLost`: the reset puts a second semaphore in place with all its permits free, so
  nobody may wait there before it (`NoEarlyWaiters`); with the queues of `WaitersOK` the
  statement is then inductive;
- `RunningNeverOvercounted`, `QueuedNeverOvercounted`: each counter moves with the set it
  bounds, or the `max(0, ...)` of the code stops it at zero;
- `RejectsWhenSaturated`, under `Failing = {}`: the counter is bounded by the creates without a
  slot and those dropped on the way, and only a failed dispatch write drops one
  (`NoneDropped`).  With such a failure the statement is wrong, since nobody gives the
  admission back.

`RunLifecycle_proofs`, for every way to converse, every choice of faults and situations and
any bounds (`InputsAssumption`, `BoundsAssumption`):

- `TypeCorrect`, `OneToken` and `OwnerIsSingle` (`Spec => []SingleOwner`).  `SingleOwner` is far
  from inductive: two jobs could own an attempt as soon as two tickets, or a ticket and an
  open question, were about.  The invariant `Token` says that the right to the next turn is
  one token.  It is with the first job (`FirstJob`), an owner (`OwnerAlone`), an open
  question (`OneQuestion`), a resumer about to issue a ticket (`OneMind`), or a ticket not yet
  started (`TicketAlone`); several resumers may have the same question in hand, and then they
  agree on its ticket.  `AskerAlone` adds what the timing of an engine turn gives: when an
  attempt may ask, nobody is left with an older question.  Most steps pass no token and share
  one argument (`Calm`); the others have a lemma each, from `JobStarts` to `TicketIssued`.
  `WorkersCounted` bounds the jobs started, so that the bound in `Workers` is never met;
- `CancelStopsTurns`: the action property, one case per action.

- `TurnsAreTakenInOrder`: `RunLifecycle` implements `TurnTaking`.  With `Token`, the invariant
  `Order` says that whoever holds the token holds it for the turn that is due; a step is then
  `Steady` and maps to the end of a turn or to a stutter, or it is `Launch` or the acceptance of
  an answer and maps to `StartTurn` or `Answer`.  The run `rl_replies` checks this refinement
  without cancels and crashes, the theorem has them all.

`RunLifecycle_stores` proves, for every way to converse and any bounds, what the stores of a
run say that meets no cancel, no fault and no crash, then when a run that does meet them can
be answered, and what the stores of one say that has met crashes alone:

- `StoresAgree`, in the situations `calm` and `eager`.  That the stores agree when nothing is
  under way is about the last step before; the invariant `Story` speaks of every state.  A run
  is `Moving` (it has a job, or an answer or a ticket on its way to become one), `Waiting` (all
  writes there are settle on `waiting_user`), or `Over` (they settle on one terminal status,
  the result included).  A write under way counts as done (`Settling`).  The other parts say
  why each change of phase finds nothing older under way: a ticket is always in the hands of a
  task (`Carried`), a turn is resolved when nothing is owed (`Sole`), and an asker comes before
  the dispatcher of the answer to it (`AskerFirst`);
- `LiveTurnRunning` and `StatusFollowsStatechart`, in the situation `calm`, the one the two
  properties are about.  `Orderly` adds to `Story` that whoever begins a projection finds none
  under way: the one who issues a ticket, the one who dispatches it, and the attempt
  (`IssuerAlone`, `DispatcherAlone`, `AttemptAlone`, `AskerIsLast`, `AnswererAlone`).  The status
  is then determined by where the attempt is, and all writes owed carry one status, which the
  run state may take (`Lawful`);
- `WaitingAnswerable`, in every situation, unless the audit files cannot be created: there it
  fails (§3).  In the situations `calm` and `eager` it follows from `Story`.  A `oneshot` run is
  never said to wait (`NeverWaits`).  For a session with a cancel, faults, redriving readers or
  crashes the writes under way no longer settle on one status, so the invariant `Trouble` does
  not describe the stores but says why the run is not forgotten: while the status is
  `waiting_user`, the question is open, or somebody has the right to the next turn, or a write
  that replaces the status is owed (`WaitingGoesOn`).  For this to survive every write,
  whoever owes a waiting status must be the asker of the open question, or a job that will
  write its own status after it (`AskersWait`), and nobody can have the answer in hand while
  the asker still projects (`AskersFirst`).  A session handle is there whenever a waiting
  status is, or is about to be (`HandleKept`), and without one no answer was ever taken
  (`NoHandleYet`).  A crash forgets the writes under way and keeps those made.  Hence what
  the next server finds must be enough: a run that meets no cancel resolves its attempt when
  nothing else is under way (`AloneAtEnd`), from then on only its terminal writes move, the run
  state first (`EndsWell`), and a restart that finds the row behind the run state fails the run
  again and preserves or redrives nothing (`RowLast`).  `MoveKeeps` carries the operations
  that move one task, `WriteKeepsTrouble` the single writes, `CrashInTrouble` and
  `RestartInTrouble` the rest;
- `CrashedRunSettles`, for a session that meets crashes and nothing else, however many and
  wherever they fall: when nothing is under way it has ended or waits for its user, and the
  row, which the next restart goes by, equals the run state, which a client reads.  No run has
  this property among its own; it is the safety half of `RunSettles`, which needs fairness.
  `Aftermath` adds to `Trouble` that the right to the next turn is never lost (`Charged`), that
  the writes of a question, and those of an end, are of one status each and change the run
  state before the row (`Asked`, `OneEnd`, by `Settles`), and that an attempt which may still
  ask has no waiting row of an earlier question behind it, unless the write that replaces it
  is owed (`RowMovesOn`): recovery, which goes by the row, preserves only a run whose run state
  waits too.  The theorem says nothing of the result file, which a crash between row and result
  leaves missing, nor that the first outcome stands: recovery may fail a run whose success had
  reached the run state and not the row.

`WaitingAuth_proofs`, for any number of logins, callbacks and crashes:

- `TypeCorrect`, for every schedule;
- `OneTurn`, `Actable`, `FailedIsOver` and `RefinesStatechart` under `Orderly`: no login ends
  under the task that posts it, no client chooses or imports while one goes on, nobody clears the login
  another completion has still to read, and one client submits at a time.  Without the third
  TLC finds an attempt that runs twice (`wa_second`); without any one of the others a waiting
  run that nobody can act on, though no poll has given its login up, and a run whose row has
  failed and which goes on.  The invariant `IInv` has
  `OneTurnPerAttempt` itself and, for a run that is not canceled, `Core`; a canceled run starts
  no further turn.  `Core` says who may be under way next to whom: a job next to losers of its
  ticket only (`JobAlone`), one who starts a login alone (`AskAlone`), one who posts it next to
  readers of it (`PostHolds`, `HandsAgree`); of several completions one has won the ticket and
  the others go no further than it (`Complete`).  `Persisted`, `Owned` and `Down` carry the
  pending login over a crash, and `Actionable` is the conclusion in inductive form.  `RowHolds`
  says that row and run state differ only by a poll's failed row, over a run nobody goes on with.

`EventStream_proofs`, for any number of readers, attempts, rows, restarts and any ring:

- `FilesAreFaithful`, `FilesAreInOrder` and the action property `FilesAreAppendOnly`, under
  `Paced`: a row is on file before it leaves the ring and before rows of a later attempt, and
  no append meets a rewrite.  `MirrorKeepsSeq` needs the account of the rows that are not on
  file: the files hold the seqs `1 .. n`, of rows among the first `m` published, in the order of
  the attempts (`Mirror`); the rows after those wait in the writers' queues, in the order of the
  seqs that follow `n` (`Backlog`).  Files of this form are numbered by their order already, so
  a reader that renumbers them changes nothing (`ReindexedIsSame`), and a server that restarts
  finds in them the next seq (`NextSeqFollows`).
- `ReadersSeeInOrder`, `ReadersMissNothing`, under `Watched`: of the windows of `Rush` only
  `slow_end` may be hit (§3 names the property each of the others breaks).  The rows that no
  crash has lost have the seqs `1, 2, ...` (`Numbering`), are on file or with their writer
  (`Stored`), and those the ring lacks are on file (`RingIsLast`); so a history, put together
  from the ring and the files, is exactly the rows from a seq on (`HistoryIsExact`).  A reader
  has been sent exactly the rows up to its cursor, in order (`Got`).  The queue alone does not
  guarantee that, for it drops rows when it is full and a row is sent whatever came before:
  between a catch-up and the next row taken it has the rows beyond the cursor without a gap,
  and all of them unless it is full (`NoGap`).  Between the taking of a row and the catch-up
  nothing of the kind holds.
- `EndedStreamsAreComplete`, under `Rush = {}`: on top of that, a reader that has found nothing
  once and reads the status of a run that is over has all rows, and no reader is in that
  position while the terminal event is owed (`AtEnd`).

`AuthSessions_proofs`, for any sets of logins, terminals and scopes (`IdsAssumption`: they
are disjoint and `None` is none of them; `DriversAssumption`):

- `SessionsExclusive`, `GateOwned`, `RedirectsKnown`, `TypeCorrect` and, from the same
  invariant, the action property `LateRedirects`.  That the gate is held by the sessions under way does
  not keep a terminal and a login apart by itself: the invariant adds that a terminal is
  alone in the gate (`TerminalIsAlone`), that logins under way have different scopes, that no
  process outlives its session (`ProcessesAreOwned`), and that a state is consumed only of a
  login that has begun (`Begun`).  Two lemmas carry the cases: `SessionMoves` for the operations that move one login and
  finalize it or not, `TerminalMoves` for those that change the terminal.

`EngineUpgrade_proofs`, for any requests and any sequence of engines
(`EnginesAssumption`), and for every choice of faults:

- `OneInstallerAtATime`: of the thread lock, the task id in memory and the running row, one
  at least stands between two installers at any moment (`LockOrId`, `RowsOfTasks`,
  `OneRunningRow`), the installers that outlived their server included;
- `ShownVersionInstalled`, `TableFollowsSnapshot`: a task waits for its own write, so it has at
  most one in the queue, and the newest payload is the last one written (`NewestLast`).

`ServerLifetime_proofs`, for any runs, any finite set of leases and any number of crashes
(`LeasesAssumption`, `BoundsAssumption`):

- `ActiveRowsHeld`, `WatchedLeased`: while a server starts its list holds every active row,
  and when it serves the list is empty (`Quiet`).  That each server's engine is one of
  `Processes` takes an account of the starts: each one was ended by a crash or by a lease,
  and a lease is given once (`StartsAccounted`).

Every invariant and every safety property of steps that a passing run checks is stated by a
theorem, under the hypotheses named above.  Only model-checked: everything about
`SqliteDbHandle`, whose run shows a disagreement; and liveness, which is out of reach of the
prover under fairness.

## 5. What the models leave out

- In `RunLifecycle`: the custom-provider question; a missing run directory, which makes
  recovery and `run_job` end differently; the projection table, which no step reads;
  exceptions in the middle of a store write other than the faults named.
- Two runs at once: runs meet only in the concurrency manager, which has its own model.
- `_ensure_loop` (a second event loop) and the computation of the limits from the host.
- In `RunLifecycle`, of output convergence: how the output is judged, the files of the
  repair audit, and that the rows it writes fail.
- In `WaitingAuth`: the custom-provider form, more than one submission at a time.  A login of no run stays open until a run takes it.
- In `AuthSessions`: the Google flow of opencode, the other engines, the exchange with the
  provider, the PTY of a terminal.
- In `ServerLifetime`: reuse of process ids, a process that survives SIGKILL, pruning of
  closed rows; a reap that raises, after which the server opens with the rows it has not
  closed (`main.py:164-165`): `ActiveRowIsHeld` and `LeasedOrphanEnds` assume that it does
  not.  A terminated process ends.
- In `EventStream`: what the parser emits is a choice of kinds; a history is read in one
  step; the chat and RASP streams repeat the structure; coalescing of raw rows.  The wait for
  the writers of a run that is over (`Drained`) is for those of this stream only, where the
  code waits for those of all three; that can only matter when the wait times out, in the
  window `slow_mirror`.
- In `SqliteDbHandle`: opening and closing, calls of the bridge from other threads.

## 6. Plan

1. `Cleanup` with the result cache; the limits of the concurrency policy as an operator.
2. `RunLifecycle` composed with `ConcurrencyManager`: the exits of `run_job` give the slot
   back once.
3. Proofs: `CrashedRunSettles` for `oneshot` runs, which no recovery preserves.
