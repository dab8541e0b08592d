------------------------- MODULE EngineUpgrade_proofs -------------------------
(***************************************************************************)
(* Theorems about EngineUpgrade for any requests, engines and faults.      *)
(***************************************************************************)
EXTENDS EngineUpgrade, SequenceTheorems, TLAPS

Working == {"engine", "waiting", "installed", "broken", "persisting"}
Writers == Requests \cup {"daily", "startup"}
Payloads == [EngineSet -> [version : Nat, error : BOOLEAN]]

\* TypeOK, with what an unfinished task and an unfinished write hold.
Shapes ==
  /\ TypeOK
  /\ writes \in Seq([payload : Payloads, writer : Writers])
  /\ \A t \in Requests :
       pc[t] \in {"waiting", "installed", "broken", "persisting"} => todo[t] # <<>>

(***************************************************************************)
(* Who may act.  The lock is held from the first look to the insertion,    *)
(* the id from the insertion to the end of the task, and a row that runs   *)
(* refuses every other request, also when its server is gone: of the three *)
(* at least one stands between two installers at any time.                 *)
(***************************************************************************)
OneRunningRow ==
  \A t, u \in Requests : row[t] = "running" /\ row[u] = "running" => t = u
InstallerIsRunning ==
  \A t \in Requests :
    installer[t] # None =>
      /\ row[t] = "running"
      /\ \/ pc[t] = "waiting" /\ installer[t] = Head(todo[t])
         \/ pc[t] = "over" /\ crashes > 0
LockOrId ==
  \A t \in Requests :
    /\ pc[t] \in {"checking", "inserting"} => lock = t /\ runningId = None
    /\ pc[t] \in InTask => runningId = t
RowsOfTasks ==
  \A t \in Requests :
    /\ pc[t] \in {"inserting", "created", "starting"}
         => \A u \in Requests : row[u] # "running"
    /\ pc[t] \in Working => row[t] = "running"
Owners == OneRunningRow /\ InstallerIsRunning /\ LockOrId /\ RowsOfTasks

\* A task has at most one write, the one it waits for, and the newest payload
\* is written last.
WritersWait ==
  /\ \A i \in 1..Len(writes) :
       writes[i].writer \in Requests => pc[writes[i].writer] = "persisting"
  /\ \A i, k \in 1..Len(writes) :
       writes[i].writer \in Requests /\ writes[i].writer = writes[k].writer => i = k
NewestLast ==
  /\ writes # <<>> => writes[Len(writes)].payload = snapshot
  /\ writes = <<>> /\ ~lost => db = snapshot

-----------------------------------------------------------------------------
LEMMA TargetsAreSequences == Targets \subseteq Seq(EngineSet)
<1>1. Engines \in Seq(EngineSet)
  <2>1. Engines \in [1..Len(Engines) -> STRING] /\ Len(Engines) \in Nat
    BY EnginesAssumption
  <2>2. Engines \in [1..Len(Engines) -> EngineSet]
    BY <2>1 DEF EngineSet
  <2> QED BY <2>1, <2>2, SeqDef
<1>2. \A e \in EngineSet : <<e>> \in Seq(EngineSet)
  OBVIOUS
<1> QED BY <1>1, <1>2 DEF Targets

LEMMA HeadTail ==
  ASSUME NEW S, NEW s \in Seq(S), s # <<>>
  PROVE  /\ Head(s) \in S /\ Tail(s) \in Seq(S)
         /\ Head(s) = s[1] /\ Len(s) \in Nat \ {0}
         /\ Len(Tail(s)) = Len(s) - 1
         /\ \A i \in 1..Len(Tail(s)) : i + 1 \in 1..Len(s) /\ Tail(s)[i] = s[i + 1]
  OBVIOUS

LEMMA AppendOne ==
  ASSUME NEW S, NEW s \in Seq(S), NEW x \in S
  PROVE  /\ Append(s, x) \in Seq(S) /\ Append(s, x) # <<>>
         /\ Len(s) \in Nat /\ Len(Append(s, x)) = Len(s) + 1
         /\ Append(s, x)[Len(s) + 1] = x
         /\ \A i \in 1..Len(s) : Append(s, x)[i] = s[i]
  OBVIOUS

\* A payload that is collected has the shape of one.
LEMMA CollectedIsStatus ==
  ASSUME TypeOK, NEW e \in EngineSet
  PROVE  Collected(e) \subseteq [version : Nat, error : BOOLEAN]
  BY DEF TypeOK, Collected

LEMMA WriteShape ==
  ASSUME Shapes, NEW payload \in Payloads, NEW w \in Writers, WritePayload(payload, w)
  PROVE  /\ snapshot' \in Payloads
         /\ writes' \in Seq([payload : Payloads, writer : Writers])
<1>1. [payload |-> payload, writer |-> w] \in [payload : Payloads, writer : Writers]
  OBVIOUS
<1> QED BY <1>1, AppendOne DEF WritePayload, Shapes

LEMMA ShapesStep == Shapes /\ WritersWait /\ [Next]_vars => Shapes'
<1> SUFFICES ASSUME Shapes, WritersWait, [Next]_vars PROVE Shapes'
  OBVIOUS
<1> USE FaultsAssumption DEF Shapes, TypeOK
<1>1. CASE UNCHANGED vars
  BY <1>1 DEF vars, manager, cache
<1>2. ASSUME NEW t \in Requests, Freeze(t) \/ Create(t) \/ CheckRunning(t) \/ CreateRaises(t)
      PROVE  Shapes'
  BY <1>2 DEF Freeze, Create, CheckRunning, CreateRaises, Goes, PCs, InTask, cache
<1>3. ASSUME NEW t \in Requests, Insert(t) \/ MarkRunning(t) \/ StartRaises(t) \/ FinishRaises(t)
      PROVE  Shapes'
  BY <1>3 DEF Insert, MarkRunning, StartRaises, FinishRaises, Goes, PCs, InTask, RowStates, cache
<1>4. ASSUME NEW t \in Requests, ReadTask(t) PROVE Shapes'
  BY <1>4, TargetsAreSequences DEF ReadTask, Goes, PCs, InTask, cache, At
<1>5. ASSUME NEW t \in Requests, Spawn(t) \/ SpawnRaises(t) PROVE Shapes'
  <2>1. todo[t] # <<>> /\ Head(todo[t]) \in EngineSet
    BY <1>5, HeadTail DEF Spawn, SpawnRaises
  <2>2. pc' = [pc EXCEPT ![t] = "waiting"] \/ pc' = [pc EXCEPT ![t] = "broken"]
    BY <1>5 DEF Spawn, SpawnRaises, Goes
  <2>3. /\ pc' \in [Requests -> PCs]
        /\ \A u \in Requests : u # t => pc'[u] = pc[u]
    BY <2>2 DEF PCs, InTask
  <2>4. installer' \in [Requests -> EngineSet \cup {None}]
    BY <1>5, <2>1 DEF Spawn, SpawnRaises
  <2> QED BY <1>5, <2>1, <2>3, <2>4 DEF Spawn, SpawnRaises, cache
<1>6. ASSUME NEW t \in Requests, InstallerEnds(t) PROVE Shapes'
  <2>1. installer[t] \in EngineSet /\ installer' \in [Requests -> EngineSet \cup {None}]
    BY <1>6 DEF InstallerEnds
  <2>2. installed' \in [EngineSet -> Nat]
    <3>1. installed[installer[t]] + 1 \in Nat
      BY <2>1
    <3> QED BY <1>6, <3>1 DEF InstallerEnds
  <2>3. /\ pc' \in [Requests -> PCs]
        /\ \A u \in Requests : pc'[u] = pc[u] \/ pc[u] = "waiting"
    BY <1>6 DEF InstallerEnds, PCs, InTask
  <2> QED BY <1>6, <2>1, <2>2, <2>3 DEF InstallerEnds, cache
<1>7. ASSUME NEW t \in Requests, EngineFailed(t) PROVE Shapes'
  <2>1. Tail(todo[t]) \in Seq(EngineSet)
    BY <1>7, HeadTail DEF EngineFailed, At
  <2> QED BY <1>7, <2>1 DEF EngineFailed, Goes, PCs, InTask, cache
<1>8. ASSUME NEW t \in Requests, Finish(t) \/ Finally(t) PROVE Shapes'
  BY <1>8 DEF Finish, Finally, Goes, PCs, InTask, RowStates, cache
<1>9. ASSUME NEW t \in Requests, RefreshEngine(t) PROVE Shapes'
  <2>1. Head(todo[t]) \in EngineSet
    BY <1>9, HeadTail DEF RefreshEngine, At
  <2>2. PICK s \in Collected(Head(todo[t])) :
           WritePayload([snapshot EXCEPT ![Head(todo[t])] = s], t)
    BY <1>9 DEF RefreshEngine
  <2>3. [snapshot EXCEPT ![Head(todo[t])] = s] \in Payloads
    BY <2>1, <2>2, CollectedIsStatus DEF Payloads
  <2>4. snapshot' \in Payloads /\ writes' \in Seq([payload : Payloads, writer : Writers])
    BY <2>2, <2>3, WriteShape DEF Writers
  <2> QED BY <1>9, <2>4 DEF RefreshEngine, Goes, PCs, InTask, Payloads, At
<1>10. ASSUME NEW w \in {"daily", "startup"}, RefreshAll(w), up' \in BOOLEAN PROVE Shapes'
  <2>1. PICK payload \in [EngineSet -> Status] :
          (\A e \in EngineSet : payload[e] \in Collected(e)) /\ WritePayload(payload, w)
    BY <1>10 DEF RefreshAll
  <2>2. payload \in Payloads
    BY <2>1, CollectedIsStatus DEF Payloads
  <2>3. snapshot' \in Payloads /\ writes' \in Seq([payload : Payloads, writer : Writers])
    BY <2>1, <2>2, WriteShape DEF Writers
  <2> QED BY <1>10, <2>3 DEF RefreshAll, manager, Payloads
<1>11. CASE DailyRefresh \/ StartupRefresh
  BY <1>10, <1>11 DEF DailyRefresh, StartupRefresh
<1>12. CASE Persist \/ PersistTimesOut
  <2>1. /\ Head(writes) \in [payload : Payloads, writer : Writers]
        /\ Tail(writes) \in Seq([payload : Payloads, writer : Writers])
        /\ Head(writes).writer \in Requests => pc[Head(writes).writer] = "persisting"
    <3>1. writes # <<>> /\ writes \in Seq([payload : Payloads, writer : Writers])
      BY <1>12 DEF Persist, PersistTimesOut
    <3>2. Head(writes) = writes[1] /\ 1 \in 1..Len(writes)
      BY <3>1, HeadTail
    <3> QED BY <3>1, <3>2, HeadTail DEF WritersWait
  <2>2. db' \in Payloads /\ lost' \in BOOLEAN
    BY <1>12, <2>1 DEF Persist, PersistTimesOut, Payloads
  <2>3. CASE Head(writes).writer \in Requests
    <3>1. Tail(todo[Head(writes).writer]) \in Seq(EngineSet)
      BY <2>1, <2>3, HeadTail
    <3> QED BY <1>12, <2>1, <2>2, <2>3, <3>1
        DEF Persist, PersistTimesOut, Resumes, PCs, InTask, Payloads
  <2>4. CASE Head(writes).writer \notin Requests
    BY <1>12, <2>1, <2>2, <2>4 DEF Persist, PersistTimesOut, Resumes, Payloads
  <2> QED BY <2>3, <2>4
<1>13. CASE Crash
  <2>1. pc' \in [Requests -> PCs] /\ todo' \in [Requests -> Seq(EngineSet)]
    BY <1>13, EmptySeq DEF Crash, PCs, InTask
  <2>2. \A t \in Requests : pc'[t] \in {"idle", "over"}
    BY <1>13 DEF Crash
  <2>3. writes' \in Seq([payload : Payloads, writer : Writers])
    BY <1>13, EmptySeq DEF Crash
  <2>4. crashes' \in 0..MaxCrashes
    BY <1>13 DEF Crash
  <2> QED BY <1>13, <2>1, <2>2, <2>3, <2>4 DEF Crash
<1> QED BY <1>1, <1>2, <1>3, <1>4, <1>5, <1>6, <1>7, <1>8, <1>9, <1>11, <1>12, <1>13
    DEF Next, TaskStep


-----------------------------------------------------------------------------
LEMMA OwnersStep == Shapes /\ WritersWait /\ Owners /\ [Next]_vars => Owners'
<1> SUFFICES ASSUME Shapes, WritersWait, Owners, [Next]_vars PROVE Owners'
  OBVIOUS
<1>0. /\ pc \in [Requests -> PCs] /\ row \in [Requests -> RowStates]
      /\ installer \in [Requests -> EngineSet \cup {None}]
      /\ todo \in [Requests -> Seq(EngineSet)]
      /\ None \notin Requests /\ crashes \in Nat
  BY EnginesAssumption, FaultsAssumption DEF Shapes, TypeOK
<1> USE DEF Owners, OneRunningRow, InstallerIsRunning, LockOrId, RowsOfTasks,
            InTask, Working, PCs, Goes, At
<1>1. ASSUME UNCHANGED <<pc, row, installer, todo, lock, runningId, crashes>> PROVE Owners'
  BY <1>1
<1>2. CASE UNCHANGED vars
  BY <1>1, <1>2 DEF vars, manager
<1>3. ASSUME NEW t \in Requests, Freeze(t) PROVE Owners'
  BY <1>1, <1>3 DEF Freeze
<1>4. ASSUME NEW t \in Requests, Create(t) PROVE Owners'
  <2>1. /\ UNCHANGED <<row, installer, todo, runningId, crashes>>
        /\ pc[t] = "idle" /\ pc'[t] \in {"refused", "checking"}
        /\ pc'[t] = "checking" => runningId = None /\ lock' = t
        /\ \A u \in Requests : u # t => pc'[u] = pc[u]
    BY <1>0, <1>4 DEF Create
  <2>2. \A u \in Requests : pc[u] \in {"checking", "inserting"} => lock' = lock
    BY <1>0, <1>4 DEF Create
  <2>3. OneRunningRow' /\ InstallerIsRunning'
    BY <2>1
  <2>4. LockOrId'
    BY <2>1, <2>2
  <2>5. RowsOfTasks'
    BY <2>1
  <2> QED BY <2>3, <2>4, <2>5
<1>5. ASSUME NEW t \in Requests, CheckRunning(t) PROVE Owners'
  <2>1. CASE HasRunningTask
    BY <1>0, <1>5, <2>1 DEF CheckRunning
  <2>2. CASE ~HasRunningTask
    <3>1. pc' = [pc EXCEPT ![t] = "inserting"] /\ pc[t] = "checking"
          /\ UNCHANGED <<row, installer, todo, lock, runningId, crashes>>
      BY <1>5, <2>2 DEF CheckRunning
    <3>2. \A u \in Requests : row[u] # "running"
      BY <2>2 DEF HasRunningTask
    <3> QED BY <1>0, <3>1, <3>2
  <2> QED BY <2>1, <2>2
<1>6. ASSUME NEW t \in Requests, Insert(t) PROVE Owners'
  BY <1>0, <1>6 DEF Insert
<1>7. ASSUME NEW t \in Requests, CreateRaises(t) PROVE Owners'
  BY <1>0, <1>7 DEF CreateRaises
<1>8. ASSUME NEW t \in Requests, ReadTask(t) PROVE Owners'
  BY <1>0, <1>8 DEF ReadTask
<1>9. ASSUME NEW t \in Requests, MarkRunning(t) PROVE Owners'
  BY <1>0, <1>9 DEF MarkRunning
<1>10. ASSUME NEW t \in Requests, StartRaises(t) PROVE Owners'
  BY <1>0, <1>10 DEF StartRaises
<1>11. ASSUME NEW t \in Requests, Spawn(t) PROVE Owners'
  BY <1>0, <1>11 DEF Spawn
<1>12. ASSUME NEW t \in Requests, SpawnRaises(t) PROVE Owners'
  BY <1>0, <1>12 DEF SpawnRaises
<1>13. ASSUME NEW t \in Requests, InstallerEnds(t) PROVE Owners'
  BY <1>0, <1>13 DEF InstallerEnds
<1>14. ASSUME NEW t \in Requests, EngineFailed(t) PROVE Owners'
  BY <1>0, <1>14 DEF EngineFailed
<1>15. ASSUME NEW t \in Requests, RefreshEngine(t) PROVE Owners'
  BY <1>0, <1>15 DEF RefreshEngine
<1>16. ASSUME NEW t \in Requests, Finish(t) PROVE Owners'
  BY <1>0, <1>16 DEF Finish
<1>17. ASSUME NEW t \in Requests, FinishRaises(t) PROVE Owners'
  BY <1>0, <1>17 DEF FinishRaises
<1>18. ASSUME NEW t \in Requests, Finally(t) PROVE Owners'
  BY <1>0, <1>18 DEF Finally
<1>19. CASE DailyRefresh \/ StartupRefresh
  BY <1>1, <1>19 DEF DailyRefresh, StartupRefresh, RefreshAll, manager
<1>20. CASE Persist \/ PersistTimesOut
  <2> DEFINE w == Head(writes).writer
  <2>1. UNCHANGED <<row, installer, lock, runningId, crashes>> /\ Resumes(w)
    BY <1>20 DEF Persist, PersistTimesOut
  <2>2. CASE w \in Requests
    <3>1. pc[w] = "persisting"
      <4>1. writes # <<>> /\ writes \in Seq([payload : Payloads, writer : Writers])
        BY <1>20 DEF Persist, PersistTimesOut, Shapes
      <4>2. Head(writes) = writes[1] /\ 1 \in 1..Len(writes)
        BY <4>1, HeadTail
      <4> QED BY <2>2, <4>2 DEF WritersWait
    <3>2. /\ pc' = [pc EXCEPT ![w] = "engine"] /\ installer[w] = None
          /\ \A u \in Requests : u # w => todo'[u] = todo[u]
      BY <1>0, <2>1, <2>2, <3>1 DEF Resumes
    <3> HIDE DEF w
    <3> QED BY <1>0, <2>1, <2>2, <3>1, <3>2
  <2>3. CASE w \notin Requests
    BY <1>1, <2>1, <2>3 DEF Resumes
  <2> QED BY <2>2, <2>3
<1>21. CASE Crash
  BY <1>0, <1>21 DEF Crash
<1> QED BY <1>2, <1>3, <1>4, <1>5, <1>6, <1>7, <1>8, <1>9, <1>10, <1>11, <1>12, <1>13,
           <1>14, <1>15, <1>16, <1>17, <1>18, <1>19, <1>20, <1>21
    DEF Next, TaskStep


-----------------------------------------------------------------------------
\* A payload is written by somebody who does not write yet.
LEMMA WriteQueued ==
  ASSUME Shapes, WritersWait, NEW payload \in Payloads, NEW w \in Writers,
         WritePayload(payload, w), UNCHANGED <<db, lost>>,
         \A u \in Requests : u # w => pc'[u] = pc[u],
         w \in Requests => pc[w] # "persisting" /\ pc'[w] = "persisting"
  PROVE  WritersWait' /\ NewestLast'
<1> DEFINE entry == [payload |-> payload, writer |-> w]
<1>1. /\ writes \in Seq([payload : Payloads, writer : Writers])
      /\ entry \in [payload : Payloads, writer : Writers]
      /\ writes' = Append(writes, entry) /\ snapshot' = payload
      /\ entry.payload = payload /\ entry.writer = w
  BY DEF Shapes, WritePayload
<1> HIDE DEF entry
<1>2. /\ Len(writes) \in Nat /\ Len(writes') = Len(writes) + 1 /\ writes' # <<>>
      /\ writes'[Len(writes) + 1] = entry
      /\ \A i \in 1..Len(writes) : writes'[i] = writes[i]
  BY <1>1, AppendOne
<1>3. \A i \in 1..Len(writes) : writes[i].writer \in Requests => writes[i].writer # w
  BY DEF WritersWait
<1>4. \A i \in 1..Len(writes') : i \in 1..Len(writes) \/ i = Len(writes) + 1
  BY <1>2
<1>5. WritersWait'
  BY <1>1, <1>2, <1>3, <1>4 DEF WritersWait
<1> QED BY <1>1, <1>2, <1>5 DEF NewestLast

LEMMA WritesStep ==
  Shapes /\ WritersWait /\ NewestLast /\ [Next]_vars => WritersWait' /\ NewestLast'
<1> SUFFICES ASSUME Shapes, WritersWait, NewestLast, [Next]_vars
             PROVE  WritersWait' /\ NewestLast'
  OBVIOUS
<1>0. pc \in [Requests -> PCs] /\ writes \in Seq([payload : Payloads, writer : Writers])
  BY DEF Shapes, TypeOK
\* Most steps neither write nor move a task that waits for its write.
<1>1. ASSUME UNCHANGED cache,
             \A u \in Requests : pc[u] = "persisting" => pc'[u] = "persisting"
      PROVE  WritersWait' /\ NewestLast'
  BY <1>1 DEF WritersWait, NewestLast, cache
<1>2. CASE UNCHANGED vars
  BY <1>1, <1>2 DEF vars, manager
<1>3. ASSUME NEW t \in Requests, Freeze(t) PROVE WritersWait' /\ NewestLast'
  BY <1>1, <1>3 DEF Freeze
<1>4. ASSUME NEW t \in Requests, NEW place \in PCs, NEW from,
             pc[t] = from, from # "persisting", Goes(t, place), UNCHANGED cache
      PROVE  WritersWait' /\ NewestLast'
  BY <1>0, <1>1, <1>4 DEF Goes
<1>5. ASSUME NEW t \in Requests,
             Create(t) \/ CheckRunning(t) \/ Insert(t) \/ CreateRaises(t) \/ StartRaises(t)
      PROVE  WritersWait' /\ NewestLast'
  BY <1>4, <1>5 DEF Create, CheckRunning, Insert, CreateRaises, StartRaises, At, PCs, InTask
<1>6. ASSUME NEW t \in Requests,
             ReadTask(t) \/ MarkRunning(t) \/ Spawn(t) \/ SpawnRaises(t) \/ EngineFailed(t)
      PROVE  WritersWait' /\ NewestLast'
  BY <1>4, <1>6 DEF ReadTask, MarkRunning, Spawn, SpawnRaises, EngineFailed, At, PCs, InTask
<1>7. ASSUME NEW t \in Requests, Finish(t) \/ FinishRaises(t) \/ Finally(t)
      PROVE  WritersWait' /\ NewestLast'
  BY <1>4, <1>7 DEF Finish, FinishRaises, Finally, At, PCs, InTask
<1>8. ASSUME NEW t \in Requests, InstallerEnds(t) PROVE WritersWait' /\ NewestLast'
  BY <1>0, <1>1, <1>8 DEF InstallerEnds
<1>9. ASSUME NEW t \in Requests, RefreshEngine(t) PROVE WritersWait' /\ NewestLast'
  <2>1. Head(todo[t]) \in EngineSet
    BY <1>9, HeadTail DEF RefreshEngine, At, Shapes, TypeOK
  <2>2. PICK s \in Collected(Head(todo[t])) :
           WritePayload([snapshot EXCEPT ![Head(todo[t])] = s], t)
    BY <1>9 DEF RefreshEngine
  <2>3. [snapshot EXCEPT ![Head(todo[t])] = s] \in Payloads
    BY <2>1, <2>2, CollectedIsStatus DEF Payloads, Shapes, TypeOK
  <2>4. pc[t] = "installed" /\ pc' = [pc EXCEPT ![t] = "persisting"]
    BY <1>9 DEF RefreshEngine, At, Goes
  <2>5. pc'[t] = "persisting" /\ \A u \in Requests : u # t => pc'[u] = pc[u]
    BY <1>0, <2>4
  <2>6. UNCHANGED <<db, lost>> /\ t \in Writers
    BY <1>9 DEF RefreshEngine, Writers
  <2> QED BY <2>2, <2>3, <2>4, <2>5, <2>6, WriteQueued
<1>10. ASSUME NEW w \in {"daily", "startup"}, RefreshAll(w)
       PROVE  WritersWait' /\ NewestLast'
  <2>1. PICK payload \in [EngineSet -> Status] :
          (\A e \in EngineSet : payload[e] \in Collected(e)) /\ WritePayload(payload, w)
    BY <1>10 DEF RefreshAll
  <2>2. payload \in Payloads
    BY <2>1, CollectedIsStatus DEF Payloads, Shapes
  <2>3. w \notin Requests /\ w \in Writers /\ UNCHANGED <<pc, db, lost>>
    BY <1>10, EnginesAssumption DEF RefreshAll, manager, Writers
  <2> QED BY <2>1, <2>2, <2>3, WriteQueued
<1>11. CASE DailyRefresh \/ StartupRefresh
  BY <1>10, <1>11 DEF DailyRefresh, StartupRefresh
<1>12. CASE Persist \/ PersistTimesOut
  <2> DEFINE w == writes[1].writer
  <2>1. writes # <<>> /\ writes' = Tail(writes) /\ Resumes(Head(writes).writer)
        /\ snapshot' = snapshot
    BY <1>12 DEF Persist, PersistTimesOut
  <2>2. /\ Head(writes) = writes[1] /\ Len(writes) \in Nat \ {0}
        /\ Len(writes') = Len(writes) - 1
        /\ \A i \in 1..Len(writes') : i + 1 \in 1..Len(writes) /\ writes'[i] = writes[i + 1]
    BY <1>0, <2>1, HeadTail
  <2>3. \A u \in Requests : u # w => pc'[u] = pc[u]
    BY <1>0, <2>1, <2>2 DEF Resumes
  <2>4. \A i \in 1..Len(writes') : writes'[i].writer \in Requests => writes'[i].writer # w
    BY <2>2 DEF WritersWait
  <2> HIDE DEF w
  <2>5. WritersWait'
    <3>1. ASSUME NEW i \in 1..Len(writes'), writes'[i].writer \in Requests
          PROVE  pc'[writes'[i].writer] = "persisting"
      BY <2>2, <2>3, <2>4, <3>1 DEF WritersWait
    <3>2. ASSUME NEW i \in 1..Len(writes'), NEW k \in 1..Len(writes'),
                 writes'[i].writer \in Requests, writes'[i].writer = writes'[k].writer
          PROVE  i = k
      <4>1. /\ i + 1 \in 1..Len(writes) /\ writes[i + 1].writer \in Requests
            /\ k + 1 \in 1..Len(writes) /\ writes[i + 1].writer = writes[k + 1].writer
        BY <2>2, <3>2
      <4>2. i + 1 = k + 1
        BY <4>1 DEF WritersWait
      <4> QED BY <4>2
    <3> QED BY <3>1, <3>2 DEF WritersWait
  <2>6. CASE writes' # <<>>
    <3>1. Len(writes') \in 1..Len(writes')
      <4>1. writes' \in Seq([payload : Payloads, writer : Writers])
        BY <1>0, <2>1, HeadTail
      <4> QED BY <2>6, <4>1, EmptySeq
    <3>2. writes'[Len(writes')] = writes[Len(writes)]
      BY <2>2, <3>1
    <3> QED BY <2>1, <2>5, <2>6, <3>2 DEF NewestLast
  <2>7. CASE writes' = <<>>
    <3>1. Len(writes) = 1
      BY <2>2, <2>7
    <3> QED BY <1>12, <2>1, <2>2, <2>5, <2>7, <3>1 DEF NewestLast, Persist, PersistTimesOut
  <2> QED BY <2>6, <2>7
<1>13. CASE Crash
  <2>1. writes' = <<>> /\ snapshot' = db /\ db' = db
    BY <1>13 DEF Crash
  <2> QED BY <2>1 DEF WritersWait, NewestLast
<1> QED BY <1>2, <1>3, <1>5, <1>6, <1>7, <1>8, <1>9, <1>11, <1>12, <1>13 DEF Next, TaskStep

-----------------------------------------------------------------------------
LEMMA ShownStep ==
  Shapes /\ WritersWait /\ Owners /\ ShownIsInstalled /\ [Next]_vars => ShownIsInstalled'
<1> SUFFICES ASSUME Shapes, WritersWait, Owners, ShownIsInstalled, [Next]_vars
             PROVE  ShownIsInstalled'
  OBVIOUS
<1>0. /\ pc \in [Requests -> PCs] /\ todo \in [Requests -> Seq(EngineSet)]
      /\ snapshot \in Payloads /\ installed \in [EngineSet -> Nat] /\ crashes \in Nat
  BY FaultsAssumption DEF Shapes, TypeOK, Payloads
\* Most steps move no task that has still to refresh the cache.
<1>1. ASSUME UNCHANGED <<snapshot, installed, crashes>>,
             \A u \in Requests : pc[u] = "installed" => pc'[u] = "installed" /\ todo'[u] = todo[u]
      PROVE  ShownIsInstalled'
  BY <1>1 DEF ShownIsInstalled
<1>2. CASE UNCHANGED vars
  BY <1>1, <1>2 DEF vars, manager, cache
<1>3. ASSUME NEW t \in Requests, Freeze(t) PROVE ShownIsInstalled'
  BY <1>1, <1>3 DEF Freeze, cache
<1>4. ASSUME NEW t \in Requests, NEW place \in PCs, NEW from, NEW rest,
             pc[t] = from, from # "installed", Goes(t, place),
             UNCHANGED todo \/ todo' = [todo EXCEPT ![t] = rest],
             UNCHANGED <<snapshot, installed, crashes>>
      PROVE  ShownIsInstalled'
  BY <1>0, <1>1, <1>4 DEF Goes
<1>5. ASSUME NEW t \in Requests,
             Create(t) \/ CheckRunning(t) \/ Insert(t) \/ CreateRaises(t) \/ StartRaises(t)
      PROVE  ShownIsInstalled'
  BY <1>4, <1>5 DEF Create, CheckRunning, Insert, CreateRaises, StartRaises, At, PCs, InTask, cache
<1>6. ASSUME NEW t \in Requests,
             ReadTask(t) \/ MarkRunning(t) \/ Spawn(t) \/ SpawnRaises(t) \/ EngineFailed(t)
      PROVE  ShownIsInstalled'
  BY <1>4, <1>6
  DEF ReadTask, MarkRunning, Spawn, SpawnRaises, EngineFailed, At, PCs, InTask, cache
<1>7. ASSUME NEW t \in Requests, Finish(t) \/ FinishRaises(t) \/ Finally(t)
      PROVE  ShownIsInstalled'
  BY <1>4, <1>7 DEF Finish, FinishRaises, Finally, At, PCs, InTask, cache
\* What a task of a server that never died installs is the engine it treats.
<1>8. ASSUME NEW t \in Requests, InstallerEnds(t) PROVE ShownIsInstalled'
  <2> SUFFICES ASSUME crashes = 0, NEW e \in EngineSet
               PROVE  \/ snapshot[e].error
                      \/ snapshot[e].version = installed'[e]
                      \/ \E u \in Requests : pc'[u] = "installed" /\ Head(todo'[u]) = e
    BY <1>8 DEF ShownIsInstalled, InstallerEnds, cache
  <2>1. pc[t] = "waiting" /\ installer[t] = Head(todo[t]) /\ UNCHANGED todo
    BY <1>0, <1>8 DEF InstallerEnds, Owners, InstallerIsRunning
  <2>2. \A u \in Requests : pc[u] = "installed" => pc'[u] = "installed"
    BY <1>0, <1>8, <2>1 DEF InstallerEnds
  <2>3. CASE installed' = installed
    BY <2>1, <2>2, <2>3 DEF ShownIsInstalled
  <2>4. CASE installed' = [installed EXCEPT ![installer[t]] = @ + 1] /\ pc'[t] = "installed"
    BY <1>0, <2>1, <2>2, <2>4 DEF ShownIsInstalled
  <2> QED BY <1>0, <1>8, <2>1, <2>3, <2>4 DEF InstallerEnds
<1>9. ASSUME NEW t \in Requests, RefreshEngine(t) PROVE ShownIsInstalled'
  <2> DEFINE treated == Head(todo[t])
  <2>1. PICK s \in Collected(treated) : snapshot' = [snapshot EXCEPT ![treated] = s]
    BY <1>9 DEF RefreshEngine, WritePayload
  <2>2. UNCHANGED <<installed, crashes, todo>> /\ pc' = [pc EXCEPT ![t] = "persisting"]
    BY <1>9 DEF RefreshEngine, Goes
  <2>3. s.error \/ s.version = installed[treated]
    BY <2>1 DEF Collected
  <2> SUFFICES ASSUME crashes = 0, NEW e \in EngineSet
               PROVE  \/ snapshot'[e].error
                      \/ snapshot'[e].version = installed[e]
                      \/ \E u \in Requests : pc'[u] = "installed" /\ Head(todo[u]) = e
    BY <2>2 DEF ShownIsInstalled
  <2>4. CASE e = treated
    BY <1>0, <2>1, <2>3, <2>4 DEF Payloads
  <2>5. CASE e # treated
    <3>1. snapshot'[e] = snapshot[e]
      BY <1>0, <2>1, <2>5 DEF Payloads
    <3>2. \A u \in Requests : pc[u] = "installed" /\ Head(todo[u]) = e => pc'[u] = "installed"
      BY <1>0, <2>2, <2>5
    <3> QED BY <3>1, <3>2 DEF ShownIsInstalled
  <2> QED BY <2>4, <2>5
<1>10. ASSUME NEW w \in {"daily", "startup"}, RefreshAll(w) PROVE ShownIsInstalled'
  <2>1. /\ \A e \in EngineSet : snapshot'[e] \in Collected(e)
        /\ UNCHANGED <<installed, crashes>>
    BY <1>10 DEF RefreshAll, WritePayload
  <2> QED BY <2>1 DEF Collected, ShownIsInstalled
<1>11. CASE DailyRefresh \/ StartupRefresh
  BY <1>10, <1>11 DEF DailyRefresh, StartupRefresh
<1>12. CASE Persist \/ PersistTimesOut
  <2> DEFINE w == Head(writes).writer
  <2>1. writes # <<>> /\ Resumes(w) /\ UNCHANGED <<snapshot, installed, crashes>>
    BY <1>12 DEF Persist, PersistTimesOut
  <2>2. w \in Requests => pc[w] = "persisting"
    <3>1. Head(writes) = writes[1] /\ 1 \in 1..Len(writes)
      BY <2>1, HeadTail DEF Shapes
    <3> QED BY <3>1 DEF WritersWait
  <2> HIDE DEF w
  <2> QED BY <1>0, <1>1, <2>1, <2>2 DEF Resumes
<1>13. CASE Crash
  BY <1>0, <1>13 DEF Crash, ShownIsInstalled
<1> QED BY <1>2, <1>3, <1>5, <1>6, <1>7, <1>8, <1>9, <1>11, <1>12, <1>13 DEF Next, TaskStep

-----------------------------------------------------------------------------
IInv == Shapes /\ WritersWait /\ NewestLast /\ Owners /\ ShownIsInstalled

LEMMA Initially == Init => IInv
<1> SUFFICES ASSUME Init PROVE IInv
  OBVIOUS
<1>1. Shapes
  <2>1. /\ pc \in [Requests -> PCs] /\ row \in [Requests -> RowStates]
        /\ todo \in [Requests -> Seq(EngineSet)] /\ failed \in [Requests -> BOOLEAN]
        /\ installer \in [Requests -> EngineSet \cup {None}]
    BY EmptySeq DEF Init, PCs, RowStates
  <2>2. snapshot \in Payloads /\ db = snapshot /\ installed \in [EngineSet -> Nat]
    BY DEF Init, Payloads
  <2>3. writes \in Seq([payload : Payloads, writer : Writers])
    BY EmptySeq DEF Init
  <2>4. \A t \in Requests : pc[t] = "idle"
    BY DEF Init
  <2>5. up = TRUE /\ frozen = FALSE /\ lost = FALSE /\ lock = None /\ runningId = None
        /\ crashes \in 0..MaxCrashes
    BY FaultsAssumption DEF Init
  <2> QED BY <2>1, <2>2, <2>3, <2>4, <2>5 DEF Shapes, TypeOK, Payloads
<1>2. WritersWait /\ NewestLast
  BY DEF Init, WritersWait, NewestLast
<1>3. Owners
  BY DEF Init, Owners, OneRunningRow, InstallerIsRunning, LockOrId, RowsOfTasks, InTask, Working
<1>4. ShownIsInstalled
  BY DEF Init, ShownIsInstalled
<1> QED BY <1>1, <1>2, <1>3, <1>4 DEF IInv

LEMMA Inductive == IInv /\ [Next]_vars => IInv'
  BY ShapesStep, WritesStep, OwnersStep, ShownStep DEF IInv

LEMMA Invariance == Spec => []IInv
  BY Initially, Inductive, PTL DEF Spec

\* The variables of the manager and of the cache keep their types.
THEOREM TypeCorrect == Spec => []TypeOK
<1>1. IInv => TypeOK
  BY DEF IInv, Shapes
<1> QED BY <1>1, Invariance, PTL

\* However requests race and servers die, two installers never run at once.
THEOREM OneInstallerAtATime == Spec => []OneInstaller
<1>1. IInv => OneInstaller
  BY DEF IInv, Owners, InstallerIsRunning, OneRunningRow, OneInstaller
<1> QED BY <1>1, Invariance, PTL

\* While the server has not died, the version the cache shows is on disk.
THEOREM ShownVersionInstalled == Spec => []ShownIsInstalled
<1>1. IInv => ShownIsInstalled
  BY DEF IInv
<1> QED BY <1>1, Invariance, PTL

\* When nobody writes, the table holds what the cache shows.
THEOREM TableFollowsSnapshot == Spec => []PersistedIsShown
<1>1. IInv => PersistedIsShown
  BY DEF IInv, NewestLast, PersistedIsShown
<1> QED BY <1>1, Invariance, PTL

=============================================================================
