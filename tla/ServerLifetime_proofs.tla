------------------------ MODULE ServerLifetime_proofs ------------------------
(***************************************************************************)
(* Theorems about ServerLifetime for every set of runs, every finite set   *)
(* of leases and every number of crashes.                                  *)
(***************************************************************************)
EXTENDS ServerLifetime, FiniteSetTheorems, TLAPS

(***************************************************************************)
(* A server ends by a crash, or because it once had a lease.  A lease is   *)
(* given once, so there are no more servers than MaxStarts: the engine a   *)
(* server starts is always one of Processes.                               *)
(***************************************************************************)
Used == {l \in Leases : lease[l] # "unused"}
Ends == starts + (IF mode = "down" THEN 0 ELSE -1) + (IF ever THEN 1 ELSE 0)

StartsAccounted ==
  /\ mode # "down" => starts > 0
  /\ Ends <= crashes + Cardinality(Used)
\* The signal is sent by a server that had a lease.
SignalledHadLease == doomed \/ mode = "stopping" => ever

\* While a server starts its list holds every active row, and nobody watches
\* an engine; when it serves the list is empty.
Quiet ==
  /\ mode = "reaping" => \A p \in Processes : row[p] = "active" => p \in todo
  /\ mode # "reaping" => todo = {}
  /\ ~Serving => \A r \in Runs : pc[r] \notin {"spawned", "watching"}

LEMMA UsedCounts ==
  /\ IsFiniteSet(Used) /\ Cardinality(Used) \in Nat /\ Cardinality(Leases) \in Nat
  /\ Cardinality(Used) <= Cardinality(Leases)
<1>1. IsFiniteSet(Used) /\ Cardinality(Used) <= Cardinality(Leases)
  BY LeasesAssumption, FS_Subset DEF Used
<1>2. Cardinality(Used) \in Nat /\ Cardinality(Leases) \in Nat
  BY <1>1, LeasesAssumption, FS_CardinalityType
<1> QED BY <1>1, <1>2

LEMMA MaxStartsIsNat == MaxStarts \in Nat /\ MaxStarts = MaxCrashes + Cardinality(Leases) + 1
  BY LeasesAssumption, BoundsAssumption, FS_CardinalityType DEF MaxStarts

\* The engine of a run of a server that has started is in the model.
LEMMA OfIsProcess ==
  ASSUME TypeOK, StartsAccounted, mode # "down", NEW r \in Runs
  PROVE  Of(r) \in Processes
<1>1. starts \in 1..MaxStarts
  BY MaxStartsIsNat DEF TypeOK, StartsAccounted
<1> QED BY <1>1 DEF Of, Processes

-----------------------------------------------------------------------------
LEMMA TypeStep == TypeOK /\ StartsAccounted /\ Quiet /\ [Next]_vars => TypeOK'
<1> SUFFICES ASSUME TypeOK, StartsAccounted, Quiet, [Next]_vars PROVE TypeOK'
  OBVIOUS
<1> USE MaxStartsIsNat DEF TypeOK, server, plugins, engines
<1>1. CASE UNCHANGED vars
  BY <1>1 DEF vars
<1>2. ASSUME NEW l \in Leases, Acquire(l) \/ Lapse(l) \/ Release(l) PROVE TypeOK'
  BY <1>2 DEF Acquire, Lapse, Release, Without, Pruned, ShutDownIf
<1>3. CASE Heartbeat \/ SweepLeases
  BY <1>3 DEF Heartbeat, SweepLeases, Pruned, ShutDownIf
<1>4. CASE Signal \/ Open
  BY <1>4 DEF Signal, Open
<1>5. ASSUME NEW r \in Runs, Spawn(r) \/ Cancel(r) PROVE TypeOK'
  BY <1>5 DEF Spawn, Cancel
<1>6. ASSUME NEW r \in Runs, Register(r) PROVE TypeOK'
  <2>1. Of(r) \in Processes
    BY <1>6, OfIsProcess DEF Register, Serving
  <2> QED BY <1>6, <2>1 DEF Register
<1>7. ASSUME NEW r \in Runs, Capture(r) \/ CaptureBreaks(r) \/ Cancelled(r) PROVE TypeOK'
  BY <1>7 DEF Capture, CaptureBreaks, Cancelled, Released
<1>8. CASE SweepProcesses
  BY <1>8 DEF SweepProcesses, Released
<1>9. ASSUME NEW p \in Processes, Exit(p) \/ Reap(p) PROVE TypeOK'
  BY <1>9 DEF Exit, Reap
<1>10. CASE Stop \/ Crash
  <2>1. crashes' \in 0..MaxCrashes
    BY <1>10, BoundsAssumption DEF Stop, Crash
  <2>2. Gone
    BY <1>10 DEF Stop, Crash
  <2>3. /\ lease' \in [Leases -> {"unused", "fresh", "stale", "gone"}]
        /\ pc' \in [Runs -> {"idle", "spawned", "watching", "done"}]
        /\ {ever, requested, doomed}' \subseteq BOOLEAN
    BY <2>2 DEF Gone
  <2> QED BY <2>1, <2>2, <2>3 DEF Gone
<1>11. CASE Start
  <2>1. starts < MaxStarts
    <3>1. starts <= crashes + Cardinality(Used)
      <4>1. mode = "down" /\ starts \in Nat /\ crashes \in Nat /\ ever \in BOOLEAN
        BY <1>11 DEF Start
      <4> QED BY <4>1, UsedCounts DEF StartsAccounted, Ends
    <3>2. starts \in Nat /\ crashes \in Nat /\ crashes <= MaxCrashes /\ MaxCrashes \in Nat
      BY BoundsAssumption
    <3> QED BY <3>1, <3>2, UsedCounts
  <2>2. starts' \in 0..MaxStarts
    BY <1>11, <2>1 DEF Start
  <2>3. reaped = {}
    BY <1>11 DEF Start, Quiet
  <2> QED BY <1>11, <2>2, <2>3 DEF Start
<1> QED BY <1>1, <1>2, <1>3, <1>4, <1>5, <1>6, <1>7, <1>8, <1>9, <1>10, <1>11 DEF Next

LEMMA StartsStep ==
  TypeOK /\ StartsAccounted /\ SignalledHadLease /\ [Next]_vars
    => StartsAccounted' /\ SignalledHadLease'
<1> SUFFICES ASSUME TypeOK, StartsAccounted, SignalledHadLease, [Next]_vars
             PROVE  StartsAccounted' /\ SignalledHadLease'
  OBVIOUS
<1>0. /\ starts \in Nat /\ crashes \in Nat /\ ever \in BOOLEAN /\ doomed \in BOOLEAN
      /\ Cardinality(Used) \in Nat
      /\ lease \in [Leases -> {"unused", "fresh", "stale", "gone"}]
  BY UsedCounts DEF TypeOK
<1>1. ASSUME UNCHANGED <<mode, starts, crashes, lease, ever, doomed>>
      PROVE  StartsAccounted' /\ SignalledHadLease'
  BY <1>1 DEF StartsAccounted, SignalledHadLease, Ends, Used
<1>2. ASSUME NEW l \in Leases, Acquire(l) PROVE StartsAccounted' /\ SignalledHadLease'
  <2>1. Used' = Used \cup {l} /\ l \notin Used
    BY <1>0, <1>2 DEF Acquire, Used
  <2>2. Cardinality(Used') = Cardinality(Used) + 1
    BY <2>1, UsedCounts, FS_AddElement
  <2>3. StartsAccounted'
    BY <1>0, <1>2, <2>2 DEF Acquire, StartsAccounted, Ends, server
  <2> QED BY <1>2, <2>3 DEF Acquire, SignalledHadLease
<1>3. ASSUME UNCHANGED <<mode, starts, crashes, ever>>, doomed' => doomed \/ ever, Used' = Used
      PROVE  StartsAccounted' /\ SignalledHadLease'
  BY <1>3 DEF StartsAccounted, SignalledHadLease, Ends
<1>4. ASSUME NEW l \in Leases, Lapse(l) \/ Release(l)
      PROVE  StartsAccounted' /\ SignalledHadLease'
  <2>1. Used' = Used
    BY <1>0, <1>4 DEF Lapse, Release, Without, Pruned, Used
  <2> QED BY <1>3, <1>4, <2>1 DEF Lapse, Release, ShutDownIf, server
<1>5. CASE Heartbeat \/ SweepLeases
  <2>1. Used' = Used
    BY <1>0, <1>5 DEF Heartbeat, SweepLeases, Pruned, Used
  <2> QED BY <1>3, <1>5, <2>1 DEF Heartbeat, SweepLeases, ShutDownIf, server
<1>6. CASE Signal \/ Open
  <2>1. UNCHANGED <<starts, crashes, lease, ever, doomed>> /\ mode' # "down" /\ mode # "down"
    BY <1>6 DEF Signal, Open, plugins
  <2>2. Used' = Used
    BY <2>1 DEF Used
  <2>3. StartsAccounted'
    BY <2>1, <2>2 DEF StartsAccounted, Ends
  <2> QED BY <1>6, <2>1, <2>3 DEF Signal, Open, SignalledHadLease
<1>7. CASE Stop \/ Crash
  <2>1. Used' = Used /\ ~ever' /\ ~doomed' /\ mode' = "down" /\ starts' = starts
    BY <1>7 DEF Stop, Crash, Gone, Used
  <2>2. CASE Stop
    BY <1>0, <2>1, <2>2 DEF Stop, StartsAccounted, SignalledHadLease, Ends
  <2>3. CASE Crash
    BY <1>0, <2>1, <2>3 DEF Crash, StartsAccounted, SignalledHadLease, Ends
  <2> QED BY <1>7, <2>2, <2>3
<1>8. CASE Start
  BY <1>0, <1>8 DEF Start, plugins, StartsAccounted, SignalledHadLease, Ends, Used
<1>9. ASSUME NEW r \in Runs,
             Spawn(r) \/ Register(r) \/ Capture(r) \/ CaptureBreaks(r) \/ Cancel(r) \/ Cancelled(r)
      PROVE  StartsAccounted' /\ SignalledHadLease'
  BY <1>1, <1>9
  DEF Spawn, Register, Capture, CaptureBreaks, Cancel, Cancelled, server, plugins
<1>10. ASSUME NEW p \in Processes, Exit(p) \/ Reap(p)
       PROVE  StartsAccounted' /\ SignalledHadLease'
  BY <1>1, <1>10 DEF Exit, Reap, server, plugins
<1>12. CASE SweepProcesses
  BY <1>1, <1>12 DEF SweepProcesses, server, plugins
<1>11. CASE UNCHANGED vars
  BY <1>1, <1>11 DEF vars, server, plugins
<1> QED BY <1>2, <1>4, <1>5, <1>6, <1>7, <1>8, <1>9, <1>10, <1>11, <1>12 DEF Next


-----------------------------------------------------------------------------
LEMMA QuietStep ==
  TypeOK /\ StartsAccounted /\ Quiet /\ [Next]_vars => Quiet'
<1> SUFFICES ASSUME TypeOK, StartsAccounted, Quiet, [Next]_vars PROVE Quiet'
  OBVIOUS
<1>1. ASSUME UNCHANGED <<mode, todo, row, pc>> PROVE Quiet'
  BY <1>1 DEF Quiet, Serving
<1>2. ASSUME Serving, UNCHANGED <<mode, todo>> PROVE Quiet'
  BY <1>2 DEF Quiet, Serving
<1>3. ASSUME NEW l \in Leases, Acquire(l) \/ Lapse(l) \/ Release(l) PROVE Quiet'
  BY <1>1, <1>3 DEF Acquire, Lapse, Release, server, engines
<1>4. CASE Heartbeat \/ SweepLeases
  BY <1>1, <1>4 DEF Heartbeat, SweepLeases, server, engines
<1>5. CASE Signal \/ Open
  BY <1>5 DEF Signal, Open, Quiet, Serving
<1>6. ASSUME NEW r \in Runs,
             Spawn(r) \/ Register(r) \/ Capture(r) \/ CaptureBreaks(r) \/ Cancel(r) \/ Cancelled(r)
      PROVE  Quiet'
  BY <1>2, <1>6
  DEF Spawn, Register, Capture, CaptureBreaks, Cancel, Cancelled, Serving, server
<1>7. CASE SweepProcesses
  BY <1>2, <1>7 DEF SweepProcesses, server
<1>8. ASSUME NEW p \in Processes, Exit(p) PROVE Quiet'
  BY <1>1, <1>8 DEF Exit, server
<1>9. ASSUME NEW p \in Processes, Reap(p) PROVE Quiet'
  <2>1. mode = "reaping" /\ mode' = mode /\ pc' = pc
    BY <1>9 DEF Reap, Quiet
  <2>2. ASSUME NEW q \in Processes, row'[q] = "active" PROVE q \in todo'
    BY <1>9, <2>1, <2>2 DEF Reap, Quiet, TypeOK
  <2> QED BY <2>1, <2>2 DEF Quiet, Serving
<1>10. CASE Stop \/ Crash
  BY <1>10 DEF Stop, Crash, Gone, Quiet, Serving
<1>11. CASE Start
  <2>1. UNCHANGED <<row, pc>> /\ Processes' = Processes
    BY <1>11 DEF Start, engines
  <2> QED BY <1>11, <2>1 DEF Start, Quiet, Serving
<1>12. CASE UNCHANGED vars
  BY <1>1, <1>12 DEF vars, server, engines
<1> QED BY <1>3, <1>4, <1>5, <1>6, <1>7, <1>8, <1>9, <1>10, <1>11, <1>12 DEF Next


-----------------------------------------------------------------------------
(* Rows, references and those who watch *)

LEMMA HeldStep ==
  TypeOK /\ StartsAccounted /\ Quiet /\ ActiveRowIsHeld /\ [Next]_vars => ActiveRowIsHeld'
<1> SUFFICES ASSUME TypeOK, StartsAccounted, Quiet, ActiveRowIsHeld, [Next]_vars
             PROVE  ActiveRowIsHeld'
  OBVIOUS
<1>1. ASSUME UNCHANGED <<row, ref>>, Serving' => Serving PROVE ActiveRowIsHeld'
  BY <1>1 DEF ActiveRowIsHeld
\* A release takes a reference and its row together.
<1>2. ASSUME Serving, NEW S, Released(S) PROVE ActiveRowIsHeld'
  BY <1>2 DEF Released, ActiveRowIsHeld
<1>3. ASSUME NEW l \in Leases, Acquire(l) \/ Lapse(l) \/ Release(l) PROVE ActiveRowIsHeld'
  BY <1>1, <1>3 DEF Acquire, Lapse, Release, server, engines, Serving
<1>4. CASE Heartbeat \/ SweepLeases \/ Signal
  BY <1>1, <1>4 DEF Heartbeat, SweepLeases, Signal, server, engines, Serving
<1>5. ASSUME NEW r \in Runs, Spawn(r) \/ Cancel(r) PROVE ActiveRowIsHeld'
  BY <1>1, <1>5 DEF Spawn, Cancel, server, Serving
<1>6. ASSUME NEW r \in Runs, Register(r) PROVE ActiveRowIsHeld'
  <2> SUFFICES ASSUME NEW p \in Processes, row'[p] = "active" PROVE p \in ref'
    BY DEF ActiveRowIsHeld
  <2>1. p = Of(r) \/ row[p] = "active"
    BY <1>6 DEF Register, TypeOK
  <2> QED BY <1>6, <2>1 DEF Register, ActiveRowIsHeld
<1>7. ASSUME NEW r \in Runs, Capture(r) \/ CaptureBreaks(r) \/ Cancelled(r)
      PROVE  ActiveRowIsHeld'
  <2>1. CASE UNCHANGED <<row, ref, mode>>
    BY <1>1, <2>1 DEF Serving
  <2>2. CASE Released({Of(r)})
    BY <1>2, <1>7, <2>2 DEF Capture, CaptureBreaks, Cancelled
  <2> QED BY <1>7, <2>1, <2>2 DEF Capture, CaptureBreaks, Cancelled, server
<1>8. CASE SweepProcesses
  BY <1>2, <1>8 DEF SweepProcesses
<1>9. ASSUME NEW p \in Processes, Exit(p) PROVE ActiveRowIsHeld'
  BY <1>1, <1>9 DEF Exit, server, Serving
<1>10. ASSUME NEW p \in Processes, Reap(p) PROVE ActiveRowIsHeld'
  BY <1>10 DEF Reap, Quiet, ActiveRowIsHeld, Serving
<1>11. CASE Stop \/ Crash \/ Start
  BY <1>11 DEF Stop, Crash, Gone, Start, ActiveRowIsHeld, Serving
\* The server opens when its list is empty, which held every active row.
<1>12. CASE Open
  BY <1>12 DEF Open, Quiet, ActiveRowIsHeld, engines
<1>13. CASE UNCHANGED vars
  BY <1>1, <1>13 DEF vars, server, engines, Serving
<1> QED BY <1>3, <1>4, <1>5, <1>6, <1>7, <1>8, <1>9, <1>10, <1>11, <1>12, <1>13 DEF Next

LEMMA WatchedStep ==
  TypeOK /\ StartsAccounted /\ Quiet /\ WatchedIsLeased /\ [Next]_vars => WatchedIsLeased'
<1> SUFFICES ASSUME TypeOK, StartsAccounted, Quiet, WatchedIsLeased, [Next]_vars,
                    NEW q \in Runs, (pc[q] = "watching")', (process[Of(q)] = "alive")'
             PROVE  (row[Of(q)] = "active" /\ Of(q) \in ref)'
  BY DEF WatchedIsLeased
<1> DEFINE Goal == (row[Of(q)] = "active" /\ Of(q) \in ref)'
<1>0. \A r \in Runs : r # q => Of(r) # Of(q)
  BY DEF Of
<1>1. ASSUME UNCHANGED <<starts, pc, process, row, ref>> PROVE Goal
  BY <1>1 DEF WatchedIsLeased, Of
<1>2. ASSUME NEW l \in Leases, Acquire(l) \/ Lapse(l) \/ Release(l) PROVE Goal
  BY <1>1, <1>2 DEF Acquire, Lapse, Release, server, engines
<1>3. CASE Heartbeat \/ SweepLeases \/ Signal \/ Open
  BY <1>1, <1>3 DEF Heartbeat, SweepLeases, Signal, Open, server, engines
<1>4. ASSUME NEW r \in Runs, Spawn(r) PROVE Goal
  <2>1. q # r /\ pc[q] = "watching" /\ Of(q)' = Of(q)
    BY <1>4 DEF Spawn, TypeOK, server, Of
  <2>2. process[Of(q)] = "alive"
    BY <1>0, <1>4, <2>1 DEF Spawn, TypeOK
  <2> QED BY <1>4, <2>1, <2>2 DEF Spawn, WatchedIsLeased
<1>5. ASSUME NEW r \in Runs, Register(r) PROVE Goal
  <2>1. Of(r) \in Processes /\ Of(q) \in Processes /\ Of(q)' = Of(q)
    BY <1>5, OfIsProcess DEF Register, Serving, server, Of
  <2>2. CASE q = r
    BY <1>5, <2>1, <2>2 DEF Register, TypeOK
  <2>3. CASE q # r
    BY <1>0, <1>5, <2>1, <2>3 DEF Register, TypeOK, WatchedIsLeased
  <2> QED BY <2>2, <2>3
\* The lease that is released is another one, or that of a process that ended.
<1>6. ASSUME NEW S, Released(S), Of(q) \notin S, Of(q) \in Processes, UNCHANGED starts,
             pc[q] = "watching", process[Of(q)] = "alive"
      PROVE  Goal
  BY <1>6 DEF Released, WatchedIsLeased, Of
<1>7. ASSUME NEW r \in Runs, Capture(r) \/ CaptureBreaks(r) \/ Cancelled(r) PROVE Goal
  <2>1. /\ starts' = starts /\ Of(q)' = Of(q) /\ Of(q) \in Processes
    BY <1>7, OfIsProcess DEF Capture, CaptureBreaks, Cancelled, server, Of, Serving
  <2>2. CASE Capture(r)
    <3>1. CASE process[Of(r)] = "alive" /\ process' = [process EXCEPT ![Of(r)] = "exited"]
               /\ UNCHANGED <<row, ref, pc>>
      BY <2>1, <3>1 DEF WatchedIsLeased, TypeOK
    <3>2. CASE pc' = [pc EXCEPT ![r] = "done"] /\ Released({Of(r)}) /\ UNCHANGED process
      <4>1. q # r /\ pc[q] = "watching" /\ process[Of(q)] = "alive"
        BY <2>1, <3>2 DEF TypeOK
      <4> QED BY <1>0, <1>6, <2>1, <3>2, <4>1
    <3> QED BY <2>2, <3>1, <3>2 DEF Capture
  <2>3. CASE CaptureBreaks(r)
    <3>1. q # r /\ pc[q] = "watching" /\ process[Of(q)] = "alive"
      BY <2>1, <2>3 DEF CaptureBreaks, TypeOK
    <3> QED BY <1>0, <1>6, <2>1, <2>3, <3>1 DEF CaptureBreaks
  <2>4. CASE Cancelled(r)
    <3>1. Of(q) # Of(r) /\ pc[q] = "watching" /\ process[Of(q)] = "alive"
      BY <2>1, <2>4 DEF Cancelled, TypeOK
    <3> QED BY <1>6, <2>1, <2>4, <3>1 DEF Cancelled
  <2> QED BY <1>7, <2>2, <2>3, <2>4
<1>8. CASE SweepProcesses
  <2>1. Of(q)' = Of(q) /\ Of(q) \in Processes /\ UNCHANGED <<starts, pc, process>>
    BY <1>8, OfIsProcess DEF SweepProcesses, server, Of, Serving
  <2> QED BY <1>6, <1>8, <2>1 DEF SweepProcesses
<1>9. ASSUME NEW r \in Runs, Cancel(r) PROVE Goal
  BY <1>1, <1>9 DEF Cancel, server
<1>10. ASSUME NEW p \in Processes, Exit(p) PROVE Goal
  <2>1. Of(q)' = Of(q) /\ process[Of(q)] = "alive" /\ pc[q] = "watching"
    BY <1>10 DEF Exit, server, Of, TypeOK
  <2> QED BY <1>10, <2>1 DEF Exit, WatchedIsLeased
\* Nobody watches while the server starts, stops or has stopped.
<1>11. ASSUME NEW p \in Processes, Reap(p) PROVE Goal
  BY <1>11 DEF Reap, Quiet, Serving
<1>12. CASE Stop \/ Crash
  BY <1>12 DEF Stop, Crash, Gone
<1>13. CASE Start
  BY <1>13 DEF Start, Quiet, Serving, engines
<1>14. CASE UNCHANGED vars
  BY <1>1, <1>14 DEF vars, server, engines
<1> QED BY <1>2, <1>3, <1>4, <1>5, <1>7, <1>8, <1>9, <1>10, <1>11, <1>12, <1>13, <1>14 DEF Next

-----------------------------------------------------------------------------
IInv ==
  TypeOK /\ StartsAccounted /\ SignalledHadLease /\ Quiet /\ ActiveRowIsHeld /\ WatchedIsLeased

LEMMA Initially == Init => IInv
<1> SUFFICES ASSUME Init PROVE IInv
  OBVIOUS
<1>1. TypeOK
  <2>1. starts \in 0..MaxStarts /\ crashes \in 0..MaxCrashes
    BY MaxStartsIsNat, BoundsAssumption DEF Init
  <2>2. {ever, requested, doomed} \subseteq BOOLEAN
    BY DEF Init
  <2> QED BY <2>1, <2>2 DEF Init, TypeOK
<1>2. StartsAccounted
  BY UsedCounts DEF Init, StartsAccounted, Ends
<1> QED BY <1>1, <1>2
  DEF Init, IInv, SignalledHadLease, Quiet, ActiveRowIsHeld, WatchedIsLeased, Serving

LEMMA Inductive == IInv /\ [Next]_vars => IInv'
  BY TypeStep, StartsStep, QuietStep, HeldStep, WatchedStep DEF IInv

LEMMA Invariance == Spec => []IInv
  BY Initially, Inductive, PTL DEF Spec

\* The variables keep their types, and there are never more servers than the
\* leases given and the crashes account for.
THEOREM TypeCorrect == Spec => []TypeOK
<1>1. IInv => TypeOK
  BY DEF IInv
<1> QED BY <1>1, Invariance, PTL

\* Whatever crashes in the middle of which start: a server that serves holds
\* every row that is active, and will release it.
THEOREM ActiveRowsHeld == Spec => []ActiveRowIsHeld
<1>1. IInv => ActiveRowIsHeld
  BY DEF IInv
<1> QED BY <1>1, Invariance, PTL

\* Whichever of capture, cancel and sweep comes first: an engine that is alive
\* and watched is in the supervisor's memory and in its table.
THEOREM WatchedLeased == Spec => []WatchedIsLeased
<1>1. IInv => WatchedIsLeased
  BY DEF IInv
<1> QED BY <1>1, Invariance, PTL

=============================================================================
