------------------------- MODULE ConcurrencyManager -------------------------
(***************************************************************************)
(* The admission counter and the slot semaphore of                         *)
(* server/services/platform/concurrency_manager.py, with its callers:      *)
(* the create endpoints (routers/jobs.py), every resumption of a waiting   *)
(* run, and the redrive of resume tickets while the server starts          *)
(* (run_recovery_service.py), which ends by replacing the semaphore.       *)
(*                                                                         *)
(* A job is one invocation of run_job.  Everything runs on one asyncio     *)
(* loop, so an action is the code between two suspension points.  The      *)
(* semaphore is asyncio.Semaphore of Python 3.11+: a FIFO whose release    *)
(* hands the permit to the first waiter, which resumes in a later step.    *)
(***************************************************************************)
EXTENDS Integers, Sequences, FiniteSets

CONSTANTS
  Creates,        \* jobs of newly created runs: they pass admission
  Resumes,        \* jobs that continue a run: scheduled without admission
  Redriven,       \* resumptions scheduled by startup recovery
  Failing,        \* admitted jobs whose dispatch writes may raise
  MaxConcurrent,  \* _max_concurrent
  MaxQueueSize    \* _max_queue_size

Jobs == Creates \cup Resumes \cup Redriven

ASSUME JobsAssumption ==
  /\ IsFiniteSet(Creates) /\ IsFiniteSet(Resumes) /\ IsFiniteSet(Redriven)
  /\ Creates \cap (Resumes \cup Redriven) = {}
  /\ Failing \subseteq Creates
ASSUME LimitsAssumption ==
  MaxConcurrent \in Nat \ {0} /\ MaxQueueSize \in Nat \ {0}

VARIABLES
  queued,    \* _queued
  running,   \* _running
  gen,       \* which semaphore _semaphore names: 0 until the reset that
             \* ends startup recovery, 1 while requests are served
  permits,   \* Semaphore._value of either semaphore
  waiters,   \* Semaphore._waiters whose future is not done
  sem,       \* the semaphore a job waited on
  job        \* where a job is

vars == <<queued, running, gen, permits, waiters, sem, job>>

Gens == {0, 1}
JobStates == {"new", "rejected", "admitted", "dropped", "scheduled",
              "waiting", "granted", "running", "done"}

In(states) == {j \in Jobs : job[j] \in states}
\* Jobs that own a permit, whether or not their task has resumed with it.
Holders == In({"granted", "running"})
GrantedOn(g) == {j \in In({"granted"}) : sem[j] = g}

Init ==
  /\ queued = 0
  /\ running = 0
  /\ gen = 0
  /\ permits = [g \in Gens |-> IF g = 0 THEN MaxConcurrent ELSE 0]
  /\ waiters = [g \in Gens |-> <<>>]
  /\ sem = [j \in Jobs |-> 0]
  /\ job = [j \in Jobs |-> "new"]

-----------------------------------------------------------------------------
(* Admission and scheduling *)

\* Mutant: an off-by-one at the limit.
SaturatedEarly == queued + 1 >= MaxQueueSize
Saturated == queued >= MaxQueueSize

Admit(j) ==
  /\ gen = 1
  /\ j \in Creates /\ job[j] = "new"
  /\ ~Saturated
  /\ queued' = queued + 1
  /\ job' = [job EXCEPT ![j] = "admitted"]
  /\ UNCHANGED <<running, gen, permits, waiters, sem>>

Reject(j) ==
  /\ gen = 1
  /\ j \in Creates /\ job[j] = "new"
  /\ Saturated
  /\ job' = [job EXCEPT ![j] = "rejected"]
  /\ UNCHANGED <<queued, running, gen, permits, waiters, sem>>

\* The two dispatch writes after admission succeed and run_job is added to
\* the background tasks of the response ...
Schedule(j) ==
  /\ job[j] = "admitted"
  /\ job' = [job EXCEPT ![j] = "scheduled"]
  /\ UNCHANGED <<queued, running, gen, permits, waiters, sem>>

\* ... or one of them raises and the request ends in an error.
Drop(j) ==
  /\ j \in Failing /\ job[j] = "admitted"
  /\ job' = [job EXCEPT ![j] = "dropped"]
  /\ UNCHANGED <<queued, running, gen, permits, waiters, sem>>

\* A reply, a finished login or a reply timeout schedules run_job directly.
\* Before the server serves requests only a job already running can do so.
Resume(j) ==
  /\ j \in Resumes /\ job[j] = "new"
  /\ gen = 1 \/ In({"running"}) # {}
  /\ job' = [job EXCEPT ![j] = "scheduled"]
  /\ UNCHANGED <<queued, running, gen, permits, waiters, sem>>

Redrive(j) ==
  /\ gen = 0
  /\ j \in Redriven /\ job[j] = "new"
  /\ job' = [job EXCEPT ![j] = "scheduled"]
  /\ UNCHANGED <<queued, running, gen, permits, waiters, sem>>

-----------------------------------------------------------------------------
(* Slots *)

\* Mutant: a floor at one.
DequeuedToOne == IF queued > 1 THEN queued - 1 ELSE queued
Dequeued == IF queued > 0 THEN queued - 1 ELSE queued

\* asyncio.Semaphore.locked() on the current semaphore.
Locked == permits[gen] = 0 \/ waiters[gen] # <<>> \/ GrantedOn(gen) # {}

\* acquire_slot, when the semaphore is free ...
AcquireNow(j) ==
  /\ job[j] = "scheduled"
  /\ ~Locked
  /\ queued' = Dequeued
  /\ running' = running + 1
  /\ permits' = [permits EXCEPT ![gen] = @ - 1]
  /\ sem' = [sem EXCEPT ![j] = gen]
  /\ job' = [job EXCEPT ![j] = "running"]
  /\ UNCHANGED <<gen, waiters>>

\* Mutant: the coroutine of Semaphore.acquire is not awaited.
AcquireUnawaited(j) ==
  /\ job[j] = "scheduled"
  /\ Locked
  /\ queued' = Dequeued
  /\ running' = running + 1
  /\ job' = [job EXCEPT ![j] = "running"]
  /\ UNCHANGED <<gen, permits, waiters, sem>>

\* ... and when it is not: the counter is decremented before the wait.
AcquireWait(j) ==
  /\ job[j] = "scheduled"
  /\ Locked
  /\ queued' = Dequeued
  /\ waiters' = [waiters EXCEPT ![gen] = Append(@, j)]
  /\ sem' = [sem EXCEPT ![j] = gen]
  /\ job' = [job EXCEPT ![j] = "waiting"]
  /\ UNCHANGED <<running, gen, permits>>

\* Semaphore.acquire on its way out: another permit goes to another waiter.
\* Mutant: it never does.
NeverPassesOn(g) == FALSE
PassesOn(g) == permits[g] > 0 /\ waiters[g] # <<>>

\* The task given a permit resumes in Semaphore.acquire, which passes a
\* remaining permit of its own semaphore on, and counts itself running.
Wake(j) ==
  LET g == sem[j]
  IN /\ job[j] = "granted"
     /\ running' = running + 1
     /\ IF PassesOn(g)
          THEN /\ permits' = [permits EXCEPT ![g] = @ - 1]
               /\ waiters' = [waiters EXCEPT ![g] = Tail(@)]
               /\ job' = [job EXCEPT ![j] = "running",
                                     ![Head(waiters[g])] = "granted"]
          ELSE /\ job' = [job EXCEPT ![j] = "running"]
               /\ UNCHANGED <<permits, waiters>>
     /\ UNCHANGED <<queued, gen, sem>>

\* Mutant: a floor at one.
LeftRunningToOne == IF running > 1 THEN running - 1 ELSE running
LeftRunning == IF running > 0 THEN running - 1 ELSE running

\* Mutants: release_slot returns before it reaches the semaphore; it is called
\* while the job still runs.
ReleaseForgotten(j) ==
  /\ job[j] = "running"
  /\ running' = LeftRunning
  /\ job' = [job EXCEPT ![j] = "done"]
  /\ UNCHANGED <<queued, gen, permits, waiters, sem>>
ReleaseEarly(j) ==
  /\ job[j] = "running"
  /\ running' = LeftRunning
  /\ IF waiters[gen] # <<>>
       THEN /\ waiters' = [waiters EXCEPT ![gen] = Tail(@)]
            /\ job' = [job EXCEPT ![Head(waiters[gen])] = "granted"]
            /\ UNCHANGED permits
       ELSE permits' = [permits EXCEPT ![gen] = @ + 1] /\ UNCHANGED <<waiters, job>>
  /\ UNCHANGED <<queued, gen, sem>>

\* release_slot: the permit goes to whatever semaphore is current.
Release(j) ==
  /\ job[j] = "running"
  /\ running' = LeftRunning
  /\ IF waiters[gen] # <<>>
       THEN /\ waiters' = [waiters EXCEPT ![gen] = Tail(@)]
            /\ job' = [job EXCEPT ![j] = "done",
                                  ![Head(waiters[gen])] = "granted"]
            /\ UNCHANGED permits
       ELSE /\ permits' = [permits EXCEPT ![gen] = @ + 1]
            /\ job' = [job EXCEPT ![j] = "done"]
            /\ UNCHANGED waiters
  /\ UNCHANGED <<queued, gen, sem>>

\* Mutant: it can be called again while requests are served.
ResetAtAnyTime ==
  /\ gen' = 1 /\ queued' = 0 /\ running' = 0
  /\ permits' = [permits EXCEPT ![1] = MaxConcurrent]
  /\ UNCHANGED <<waiters, sem, job>>

\* The last statement of recover_incomplete_runs_on_startup.  A redriven task
\* has called acquire_slot by then: the redrive awaits the run store after it
\* creates the task, and acquire_slot is the first await of run_job.
ResetRuntimeState ==
  /\ gen = 0
  /\ In({"scheduled"}) \cap Redriven = {}
  /\ gen' = 1
  /\ queued' = 0
  /\ running' = 0
  /\ permits' = [permits EXCEPT ![1] = MaxConcurrent]
  /\ UNCHANGED <<waiters, sem, job>>

Next ==
  \/ \E j \in Jobs : Admit(j) \/ Reject(j) \/ Schedule(j) \/ Drop(j)
                       \/ Resume(j) \/ Redrive(j)
  \/ \E j \in Jobs : AcquireNow(j) \/ AcquireWait(j) \/ Wake(j) \/ Release(j)
  \/ ResetRuntimeState

Spec == Init /\ [][Next]_vars

\* The event loop runs every ready task, recovery ends, and a job ends (the
\* adapter bounds an engine process by a hard timeout).
Fairness ==
  /\ WF_vars(ResetRuntimeState)
  /\ \A j \in Jobs : /\ WF_vars(Schedule(j))
                     /\ WF_vars(AcquireNow(j) \/ AcquireWait(j))
                     /\ WF_vars(Wake(j))
                     /\ WF_vars(Release(j))
FairSpec == Spec /\ Fairness

-----------------------------------------------------------------------------
(* Properties *)

\* The values each variable of the guard can take.
TypeOK ==
  /\ queued \in Nat
  /\ running \in Nat
  /\ gen \in Gens
  /\ permits \in [Gens -> Nat]
  /\ waiters \in [Gens -> Seq(Jobs)]
  /\ sem \in [Jobs -> Gens]
  /\ job \in [Jobs -> JobStates]

\* Permits are neither created nor lost by acquiring, handing over, waking or
\* releasing: those free on either semaphore and those owned by jobs add up to
\* MaxConcurrent for each semaphore created so far.
SlotConservation ==
  permits[0] + permits[1] + Cardinality(Holders) = MaxConcurrent * (gen + 1)

\* The guard's purpose: no more jobs own a slot than there are slots.
AtMostMaxConcurrent == Cardinality(Holders) <= MaxConcurrent

\* What startup recovery can make of it at worst: twice as many.
AtMostTwiceMaxConcurrent == Cardinality(Holders) <= 2 * MaxConcurrent

\* A task waits on a semaphore with a free permit only while a task given
\* an earlier permit has still to resume and pass the free one on.
NoLostWakeup ==
  \A g \in Gens :
    permits[g] > 0 /\ waiters[g] # <<>> => GrantedOn(g) # {}

\* state() reports the jobs that are in a slot and have resumed; a job that
\* kept its slot through the reset is missing from it, never counted twice.
RunningCounted == running <= Cardinality(In({"running"}))

\* The admission counter only counts creates that have been admitted and
\* have not asked for a slot (those dropped on the way are never given back).
QueuedCounted ==
  queued <= Cardinality(In({"admitted", "scheduled", "dropped"}) \cap Creates)

\* "Rejects new requests with queue-full signal when queue is saturated": a
\* create is rejected only if that many admitted creates are without a slot.
RejectOnlyWhenSaturated ==
  [][\A j \in Creates :
       job[j] = "new" /\ job'[j] = "rejected"
         => Cardinality(In({"admitted", "scheduled", "waiting"}) \cap Creates)
              >= MaxQueueSize]_vars

\* "Moves queued tasks into running slots": a job scheduled gets a slot.
ScheduledJobRuns ==
  \A j \in Jobs : job[j] \in {"scheduled", "waiting"} ~> job[j] = "running"

\* The guard implements the slot pool it promises.
Pool == INSTANCE SlotPool
          WITH asking <- In({"scheduled", "waiting"}), holding <- Holders
ImplementsSlotPool == Pool!Spec
=============================================================================
