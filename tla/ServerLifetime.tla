--------------------------- MODULE ServerLifetime ---------------------------
(***************************************************************************)
(* How long a local server lives, and what becomes of the processes it     *)
(* started when it is gone.  The plugins that use it hold leases in its    *)
(* memory; when the last one is released or lapses, the server sends       *)
(* itself SIGTERM.  The engines it started are processes of their own,     *)
(* which outlive it: each has a row in process_leases, by which the next   *)
(* server finds and terminates it before it recovers any run.              *)
(*                                                                         *)
(* Everything but the processes and the threads that terminate them runs   *)
(* on one loop: an action is the code between two suspension points.  A    *)
(* terminated process ends (it does not survive SIGKILL), and a process id *)
(* is not given to another process while a row holds it.  A reap that      *)
(* raises is left out: main.py goes on with the rows it has not closed.    *)
(***************************************************************************)
EXTENDS Naturals, FiniteSets

CONSTANTS
  Leases,    \* ids of leases plugins are given, each once
  Runs,      \* runs, each of which has at most one engine per server
  MaxCrashes \* bound: deaths of the server it did not ask for

ASSUME LeasesAssumption == IsFiniteSet(Leases)
ASSUME BoundsAssumption == MaxCrashes \in Nat

\* Every server but those of the crashes was ended by a lease of its own.
MaxStarts == MaxCrashes + Cardinality(Leases) + 1
Processes == Runs \X (1..MaxStarts)   \* a run and the server that started it

VARIABLES
  mode,      \* of the server: "down", "reaping", "up" or "stopping"
  starts,    \* how many servers there have been
  crashes,
  lease,     \* _leases: held ones are "fresh", or "stale" when they have lapsed
  ever,      \* _has_ever_had_lease
  requested, \* _shutdown_requested
  doomed,    \* a task sleeps before it sends SIGTERM
  process,   \* engine processes: "none", "alive" or "exited"
  row,       \* their rows in process_leases: "none", "active" or "closed"
  ref,       \* _active_by_lease_id: the processes in the supervisor's memory
  pc,        \* where the capture of a run's engine is
  killing,   \* runs whose process a cancel is terminating
  todo,      \* rows the startup reap has listed and not closed
  reaped     \* those of them whose process it has terminated

plugins == <<lease, ever, requested, doomed>>
engines == <<process, row, ref, pc, killing>>
server == <<mode, starts, crashes, todo, reaped>>
vars == <<server, plugins, engines>>

Of(r) == <<r, starts>>

Init ==
  /\ mode = "down" /\ starts = 0 /\ crashes = 0
  /\ lease = [l \in Leases |-> "unused"]
  /\ ever = FALSE /\ requested = FALSE /\ doomed = FALSE
  /\ process = [p \in Processes |-> "none"]
  /\ row = [p \in Processes |-> "none"]
  /\ ref = {} /\ killing = {} /\ todo = {} /\ reaped = {}
  /\ pc = [r \in Runs |-> "idle"]

-----------------------------------------------------------------------------
(* Leases of plugins *)

Pruned == [l \in Leases |-> IF lease[l] = "stale" THEN "gone" ELSE lease[l]]
Without(l) == [Pruned EXCEPT ![l] = "gone"]
NoneLeft(leases) == \A l \in Leases : leases[l] \notin {"fresh", "stale"}

\* The shutdown callback creates a task that sleeps and sends the signal.
ShutDownIf(needed) ==
  /\ requested' = (requested \/ needed)
  /\ doomed' = (doomed \/ needed)

Acquire(l) ==
  /\ mode = "up" /\ lease[l] = "unused"
  /\ lease' = [lease EXCEPT ![l] = "fresh"]
  /\ requested' = FALSE
  /\ ever' = TRUE
  /\ UNCHANGED <<server, engines, doomed>>

\* Heartbeats and reads of the status drop every lease that has lapsed.
Heartbeat ==
  /\ mode = "up"
  /\ lease' = Pruned
  /\ UNCHANGED <<server, engines, ever, requested, doomed>>

\* No heartbeat came in time.
Lapse(l) ==
  /\ mode = "up" /\ lease[l] = "fresh"
  /\ lease' = [lease EXCEPT ![l] = "stale"]
  /\ UNCHANGED <<server, engines, ever, requested, doomed>>

Release(l) ==
  /\ mode = "up" /\ lease[l] # "unused"
  /\ lease' = Without(l)
  /\ ShutDownIf(lease[l] # "gone" /\ NoneLeft(Without(l)) /\ ever /\ ~requested)
  /\ UNCHANGED <<server, engines, ever>>

\* Mutant: only a sweep that finds a lapsed lease itself shuts down.
SweepOfLapsed ==
  /\ mode = "up"
  /\ lease' = Pruned
  /\ ShutDownIf(lease # Pruned /\ NoneLeft(Pruned) /\ ever /\ ~requested)
  /\ UNCHANGED <<server, engines, ever>>

SweepLeases ==
  /\ mode = "up"
  /\ lease' = Pruned
  /\ ShutDownIf(NoneLeft(Pruned) /\ ever /\ ~requested)
  /\ UNCHANGED <<server, engines, ever>>

\* SIGTERM: the server takes no more requests ...
Signal ==
  /\ mode = "up" /\ doomed
  /\ mode' = "stopping"
  /\ UNCHANGED <<starts, crashes, todo, reaped, plugins, engines>>

-----------------------------------------------------------------------------
(* Engine processes *)

Serving == mode \in {"up", "stopping"}

Spawn(r) ==
  /\ Serving /\ pc[r] = "idle"
  /\ pc' = [pc EXCEPT ![r] = "spawned"]
  /\ process' = [process EXCEPT ![Of(r)] = "alive"]
  /\ UNCHANGED <<server, plugins, row, ref, killing>>

Register(r) ==
  /\ Serving /\ pc[r] = "spawned"
  /\ pc' = [pc EXCEPT ![r] = "watching"]
  /\ row' = [row EXCEPT ![Of(r)] = "active"]
  /\ ref' = ref \cup {Of(r)}
  /\ UNCHANGED <<server, plugins, process, killing>>

\* An engine ends by itself, whoever watches it.
Exit(p) ==
  /\ process[p] = "alive"
  /\ process' = [process EXCEPT ![p] = "exited"]
  /\ UNCHANGED <<server, plugins, row, ref, pc, killing>>

\* Mutant: the row of a released lease stays active.
Forgotten(S) == ref' = ref \ S /\ UNCHANGED row
Released(S) ==
  /\ ref' = ref \ S
  /\ row' = [p \in Processes |->
               IF p \in S /\ row[p] # "none" THEN "closed" ELSE row[p]]

\* The capture ends when the process has, which a hard timeout sees to ...
Capture(r) ==
  /\ Serving /\ pc[r] = "watching"
  /\ \/ /\ process[Of(r)] = "alive"
        /\ process' = [process EXCEPT ![Of(r)] = "exited"]
        /\ UNCHANGED <<row, ref, pc>>
     \/ /\ process[Of(r)] = "exited"
        /\ pc' = [pc EXCEPT ![r] = "done"]
        /\ Released({Of(r)})
        /\ UNCHANGED process
  /\ UNCHANGED <<server, plugins, killing>>

\* ... or with an error of the emitter or of a parser: the lease is released
\* on the way out whether or not the process has ended.
CaptureBreaks(r) ==
  /\ Serving /\ pc[r] = "watching"
  /\ pc' = [pc EXCEPT ![r] = "done"]
  /\ Released({Of(r)})
  /\ UNCHANGED <<server, plugins, process, killing>>

\* Mutant: the lease is released before its process is terminated.
CancelReleasesFirst(r) ==
  /\ mode = "up" /\ pc[r] = "watching"
  /\ killing' = killing \cup {r}
  /\ Released({Of(r)})
  /\ UNCHANGED <<server, plugins, process, pc>>

Cancel(r) ==
  /\ mode = "up" /\ pc[r] = "watching"
  /\ killing' = killing \cup {r}
  /\ UNCHANGED <<server, plugins, process, row, ref, pc>>

Cancelled(r) ==
  /\ Serving /\ r \in killing
  /\ killing' = killing \ {r}
  /\ process' = [process EXCEPT ![Of(r)] = "exited"]
  /\ Released({Of(r)})
  /\ UNCHANGED <<server, plugins, pc>>

SweepProcesses ==
  /\ Serving
  /\ Released({p \in ref : process[p] = "exited"})
  /\ UNCHANGED <<server, plugins, process, pc, killing>>

-----------------------------------------------------------------------------
(* Death and start of the server *)

\* Memory is lost, the rows and the processes stay.
Gone ==
  /\ mode' = "down"
  /\ lease' = [l \in Leases |-> IF lease[l] = "unused" THEN "unused" ELSE "gone"]
  /\ ever' = FALSE /\ requested' = FALSE /\ doomed' = FALSE
  /\ ref' = {} /\ killing' = {} /\ todo' = {} /\ reaped' = {}
  /\ pc' = [r \in Runs |-> IF pc[r] = "done" THEN "done" ELSE "idle"]
  /\ UNCHANGED <<starts, process, row>>

\* ... and, some time after the signal, ends.
Stop == mode = "stopping" /\ Gone /\ UNCHANGED crashes
Crash ==
  /\ mode # "down" /\ crashes < MaxCrashes
  /\ crashes' = crashes + 1
  /\ Gone

Start ==
  /\ mode = "down"
  /\ mode' = "reaping"
  /\ starts' = starts + 1
  /\ todo' = {p \in Processes : row[p] = "active"}
  /\ UNCHANGED <<crashes, reaped, plugins, engines>>

\* Mutant: the row is closed before its process is terminated.
ReapClosesFirst(p) ==
  /\ p \in todo /\ reaped \subseteq {p}
  /\ \/ /\ reaped = {} /\ reaped' = {p}
        /\ row' = [row EXCEPT ![p] = "closed"]
        /\ UNCHANGED <<process, todo>>
     \/ /\ reaped = {p} /\ reaped' = {}
        /\ process' = [process EXCEPT ![p] = "exited"]
        /\ todo' = todo \ {p}
        /\ UNCHANGED row
  /\ UNCHANGED <<mode, starts, crashes, plugins, ref, pc, killing>>

\* One row after the other: its process is terminated, then it is closed.
Reap(p) ==
  /\ p \in todo /\ reaped \subseteq {p}
  /\ \/ /\ reaped = {} /\ reaped' = {p}
        /\ process' = [process EXCEPT ![p] = "exited"]
        /\ UNCHANGED <<row, todo>>
     \/ /\ reaped = {p} /\ reaped' = {}
        /\ row' = [row EXCEPT ![p] = "closed"]
        /\ todo' = todo \ {p}
        /\ UNCHANGED process
  /\ UNCHANGED <<mode, starts, crashes, plugins, ref, pc, killing>>

\* Runs are recovered and requests are served once every row is closed.
Open ==
  /\ mode = "reaping" /\ todo = {}
  /\ mode' = "up"
  /\ UNCHANGED <<starts, crashes, todo, reaped, plugins, engines>>

-----------------------------------------------------------------------------
Next ==
  \/ \E l \in Leases : Acquire(l) \/ Lapse(l) \/ Release(l)
  \/ Heartbeat \/ SweepLeases \/ Signal
  \/ \E r \in Runs : \/ Spawn(r) \/ Register(r) \/ Capture(r) \/ CaptureBreaks(r)
                     \/ Cancel(r) \/ Cancelled(r)
  \/ SweepProcesses
  \/ \E p \in Processes : Exit(p) \/ Reap(p)
  \/ Stop \/ Crash \/ Start \/ Open

Spec == Init /\ [][Next]_vars

\* The loop runs its periodic tasks, a start is carried through, a signalled
\* server ends and a server that is down is started again by a plugin.  An
\* engine need never end by itself, and nothing is assumed of plugins.
Fairness ==
  /\ WF_vars(SweepLeases) /\ WF_vars(Signal) /\ WF_vars(Stop)
  /\ WF_vars(Start) /\ WF_vars(Open)
  /\ \A p \in Processes : WF_vars(Reap(p))
FairSpec == Spec /\ Fairness

-----------------------------------------------------------------------------
(* Properties *)

\* The values each variable can take.
TypeOK ==
  /\ mode \in {"down", "reaping", "up", "stopping"}
  /\ starts \in 0..MaxStarts /\ crashes \in 0..MaxCrashes
  /\ lease \in [Leases -> {"unused", "fresh", "stale", "gone"}]
  /\ {ever, requested, doomed} \subseteq BOOLEAN
  /\ process \in [Processes -> {"none", "alive", "exited"}]
  /\ row \in [Processes -> {"none", "active", "closed"}]
  /\ ref \subseteq Processes /\ todo \subseteq Processes /\ reaped \subseteq todo
  /\ pc \in [Runs -> {"idle", "spawned", "watching", "done"}]
  /\ killing \subseteq Runs

\* A row that is active while the server serves is of a process this server
\* holds, which it will release: none is left over from a server before it.
ActiveRowIsHeld == Serving => \A p \in Processes : row[p] = "active" => p \in ref

\* An engine that is alive and watched can be found, by this server for a
\* cancel and by the next one for the reap.
WatchedIsLeased ==
  \A r \in Runs : pc[r] = "watching" /\ process[Of(r)] = "alive"
                    => row[Of(r)] = "active" /\ Of(r) \in ref

\* An engine whose server died with its row active is ended, through any
\* number of further crashes.
LeasedOrphanEnds ==
  \A p \in Processes :
    mode = "down" /\ row[p] = "active" ~> process[p] = "exited"

\* A server that had a lease and has none any more stops, unless a new one
\* is taken, by whichever of release, heartbeat, status or sweep it went.
AbandonedServerStops ==
  mode = "up" /\ ever /\ (\A l \in Leases : lease[l] # "fresh")
    ~> mode # "up" \/ \E l \in Leases : lease[l] = "fresh"

=============================================================================
