----------------------- MODULE ConcurrencyManager_proofs -----------------------
(***************************************************************************)
(* Theorems about ConcurrencyManager for every set of jobs and all limits. *)
(***************************************************************************)
EXTENDS ConcurrencyManager, FiniteSetTheorems, TLAPS

LEMMA JobsFinite == IsFiniteSet(Jobs)
  BY JobsAssumption, FS_Union DEF Jobs

\* What the steps below need of Head and Tail on a queue of waiters.
LEMMA QueueHeadTail ==
  ASSUME NEW s \in Seq(Jobs), s # <<>>
  PROVE  /\ Len(s) \in Nat \ {0}
         /\ Head(s) = s[1]
         /\ Head(s) \in Jobs
         /\ Tail(s) \in Seq(Jobs)
         /\ Len(Tail(s)) = Len(s) - 1
         /\ \A i \in 1..Len(Tail(s)) : i + 1 \in 1..Len(s) /\ Tail(s)[i] = s[i + 1]
  OBVIOUS

LEMMA TypeStep == TypeOK /\ [Next]_vars => TypeOK'
<1> USE LimitsAssumption DEF TypeOK, Gens, JobStates
<1> SUFFICES ASSUME TypeOK, [Next]_vars PROVE TypeOK'
  OBVIOUS
<1>1. CASE UNCHANGED vars
  BY <1>1 DEF vars
<1>2. ASSUME NEW j \in Jobs, Admit(j) PROVE TypeOK'
  BY <1>2 DEF Admit
<1>3. ASSUME NEW j \in Jobs, Reject(j) \/ Schedule(j) \/ Drop(j) \/ Resume(j) \/ Redrive(j)
      PROVE TypeOK'
  BY <1>3 DEF Reject, Schedule, Drop, Resume, Redrive
<1>4. ASSUME NEW j \in Jobs, AcquireNow(j) PROVE TypeOK'
  BY <1>4 DEF AcquireNow, Locked, Dequeued
<1>5. ASSUME NEW j \in Jobs, AcquireWait(j) PROVE TypeOK'
  BY <1>5 DEF AcquireWait, Dequeued
<1>6. ASSUME NEW j \in Jobs, Wake(j) PROVE TypeOK'
  <2>1. sem[j] \in Gens /\ waiters[sem[j]] \in Seq(Jobs)
    OBVIOUS
  <2>2. CASE permits[sem[j]] > 0 /\ waiters[sem[j]] # <<>>
    <3>1. Head(waiters[sem[j]]) \in Jobs /\ Tail(waiters[sem[j]]) \in Seq(Jobs)
      BY <2>1, <2>2, QueueHeadTail
    <3>2. permits' \in [Gens -> Nat]
      <4>1. permits[sem[j]] - 1 \in Nat
        BY <2>1, <2>2
      <4> QED BY <1>6, <2>1, <2>2, <4>1 DEF Wake, PassesOn
    <3>4. waiters' \in [Gens -> Seq(Jobs)]
      <4>1. waiters' = [waiters EXCEPT ![sem[j]] = Tail(waiters[sem[j]])]
        BY <1>6, <2>2 DEF Wake, PassesOn
      <4> QED BY <2>1, <3>1, <4>1
    <3>3. job' \in [Jobs -> JobStates]
      BY <1>6, <2>1, <2>2, <3>1 DEF Wake, PassesOn
    <3> QED BY <1>6, <3>2, <3>3, <3>4 DEF Wake, PassesOn
  <2>3. CASE ~(permits[sem[j]] > 0 /\ waiters[sem[j]] # <<>>)
    BY <1>6, <2>1, <2>3 DEF Wake, PassesOn
  <2> QED BY <2>2, <2>3
<1>7. ASSUME NEW j \in Jobs, Release(j) PROVE TypeOK'
  <2>1. CASE waiters[gen] # <<>>
    <3>1. Head(waiters[gen]) \in Jobs /\ Tail(waiters[gen]) \in Seq(Jobs)
      BY <2>1, QueueHeadTail
    <3>2. waiters' \in [Gens -> Seq(Jobs)]
      <4>1. waiters' = [waiters EXCEPT ![gen] = Tail(waiters[gen])]
        BY <1>7, <2>1 DEF Release, LeftRunning
      <4> QED BY <3>1, <4>1
    <3>4. job' \in [Jobs -> JobStates]
      BY <1>7, <2>1, <3>1 DEF Release, LeftRunning
    <3>3. running' \in Nat
      BY <1>7 DEF Release, LeftRunning
    <3> QED BY <1>7, <2>1, <3>2, <3>3, <3>4 DEF Release, LeftRunning
  <2>2. CASE waiters[gen] = <<>>
    BY <1>7, <2>2 DEF Release, LeftRunning
  <2> QED BY <2>1, <2>2
<1>8. CASE ResetRuntimeState
  BY <1>8 DEF ResetRuntimeState
<1> QED BY <1>1, <1>2, <1>3, <1>4, <1>5, <1>6, <1>7, <1>8 DEF Next

\* The guard's variables keep their types: the counters never go negative and
\* no job leaves its life cycle.
THEOREM TypeCorrect == Spec => []TypeOK
<1>1. Init => TypeOK
  BY LimitsAssumption DEF Init, TypeOK, Gens, JobStates
<1> QED BY <1>1, TypeStep, PTL DEF Spec

-----------------------------------------------------------------------------
(* Conservation of slots *)

\* The waiters of a semaphore wait, on it, and are queued once.
WaitersOK ==
  \A g \in Gens :
    /\ \A i \in 1..Len(waiters[g]) :
         job[waiters[g][i]] = "waiting" /\ sem[waiters[g][i]] = g
    /\ \A i, k \in 1..Len(waiters[g]) :
         waiters[g][i] = waiters[g][k] => i = k

\* The second semaphore holds no permit before the reset creates it.
ResetOK == gen = 0 => permits[1] = 0

\* A job that is neither a waiter nor made one leaves the queues as they are.
LEMMA WaitersFrame ==
  ASSUME TypeOK, WaitersOK, waiters' = waiters,
         \A k \in Jobs : job[k] = "waiting" => job'[k] = "waiting" /\ sem'[k] = sem[k]
  PROVE  WaitersOK'
<1> SUFFICES ASSUME NEW g \in Gens
             PROVE /\ \A i \in 1..Len(waiters[g]) :
                         job'[waiters[g][i]] = "waiting" /\ sem'[waiters[g][i]] = g
                   /\ \A i, k \in 1..Len(waiters[g]) :
                         waiters[g][i] = waiters[g][k] => i = k
  BY DEF WaitersOK
<1>1. waiters[g] \in Seq(Jobs)
  BY DEF TypeOK
<1>2. \A i \in 1..Len(waiters[g]) : waiters[g][i] \in Jobs
  BY <1>1
<1> QED BY <1>2 DEF WaitersOK

\* Handing a permit to the head of a queue keeps the rest of it in order.
LEMMA WaitersHandOver ==
  ASSUME TypeOK, WaitersOK, NEW h \in Gens, waiters[h] # <<>>,
         NEW j \in Jobs, job[j] # "waiting", NEW st \in JobStates,
         waiters' = [waiters EXCEPT ![h] = Tail(@)],
         job' = [job EXCEPT ![j] = st, ![Head(waiters[h])] = "granted"],
         sem' = sem
  PROVE  WaitersOK'
<1> DEFINE head == Head(waiters[h])
<1>0. waiters[h] \in Seq(Jobs) /\ waiters' \in [Gens -> Seq(Jobs)]
      /\ job \in [Jobs -> JobStates] /\ waiters \in [Gens -> Seq(Jobs)]
  <2>1. waiters \in [Gens -> Seq(Jobs)] /\ job \in [Jobs -> JobStates]
    BY DEF TypeOK
  <2>2. Tail(waiters[h]) \in Seq(Jobs)
    BY <2>1, QueueHeadTail
  <2> QED BY <2>1, <2>2
<1>1. /\ head = waiters[h][1] /\ head \in Jobs /\ 1 \in 1..Len(waiters[h])
      /\ Len(Tail(waiters[h])) = Len(waiters[h]) - 1
      /\ \A i \in 1..Len(Tail(waiters[h])) :
            i + 1 \in 1..Len(waiters[h]) /\ Tail(waiters[h])[i] = waiters[h][i + 1]
  <2>1. Len(waiters[h]) \in Nat \ {0} => 1 \in 1..Len(waiters[h])
    OBVIOUS
  <2> QED BY <1>0, <2>1, QueueHeadTail
<1>2. job[head] = "waiting" /\ sem[head] = h
  BY <1>1 DEF WaitersOK
<1>3. \A k \in Jobs : k # head /\ job[k] = "waiting" => job'[k] = "waiting"
  BY <1>0
<1>4. ASSUME NEW g \in Gens
      PROVE /\ \A i \in 1..Len(waiters'[g]) :
                  job'[waiters'[g][i]] = "waiting" /\ sem'[waiters'[g][i]] = g
            /\ \A i, k \in 1..Len(waiters'[g]) :
                  waiters'[g][i] = waiters'[g][k] => i = k
  <2>0. \A i \in 1..Len(waiters[g]) : waiters[g][i] \in Jobs
    <3>1. waiters[g] \in Seq(Jobs)
      BY <1>0
    <3> QED BY <3>1
  <2>1. CASE g # h
    <3>1. waiters'[g] = waiters[g]
      BY <2>1, <1>0
    <3>2. \A i \in 1..Len(waiters[g]) :
             job[waiters[g][i]] = "waiting" /\ sem[waiters[g][i]] = g
      BY DEF WaitersOK
    <3>3. \A i \in 1..Len(waiters[g]) : waiters[g][i] # head
      BY <3>2, <1>2, <2>1
    <3>4. \A i \in 1..Len(waiters[g]) :
             job'[waiters[g][i]] = "waiting" /\ sem'[waiters[g][i]] = g
      BY <3>2, <3>3, <2>0, <1>3
    <3>5. \A i, k \in 1..Len(waiters[g]) :
             waiters[g][i] = waiters[g][k] => i = k
      BY DEF WaitersOK
    <3> QED BY ONLY <3>1, <3>4, <3>5
  <2>2. CASE g = h
    <3>1. waiters'[g] = Tail(waiters[h])
      BY <2>2, <1>0
    <3>2. Len(waiters[h]) \in Nat
      BY <1>0
    <3>3. ASSUME NEW i \in 1..Len(waiters'[g])
          PROVE /\ i \in Int
                /\ i + 1 \in 1..Len(waiters[h])
                /\ waiters'[g][i] = waiters[h][i + 1]
                /\ waiters[h][i + 1] # waiters[h][1]
      <4>0. i \in 1..Len(Tail(waiters[h]))
        BY <3>1
      <4>1. i \in Nat \ {0} /\ i + 1 \in 1..Len(waiters[h])
        <5>1. Len(Tail(waiters[h])) \in Int
          BY <3>2, <1>1
        <5>2. i \in Nat \ {0}
          BY <4>0, <5>1
        <5> QED BY <4>0, <5>2, <1>1
      <4>2. waiters'[g][i] = waiters[h][i + 1]
        BY <3>1, <4>0, <1>1
      <4>3. i + 1 # 1
        BY <4>1
      <4>4. waiters[h][i + 1] = waiters[h][1] => i + 1 = 1
        BY <4>1, <1>1 DEF WaitersOK
      <4> QED BY <4>1, <4>2, <4>3, <4>4
    <3>4. ASSUME NEW i \in 1..Len(waiters'[g])
          PROVE job'[waiters'[g][i]] = "waiting" /\ sem'[waiters'[g][i]] = g
      <4> DEFINE w == waiters[h][i + 1]
      <4>1. w \in Jobs /\ w # head /\ waiters'[g][i] = w
        BY <3>3, <2>0, <2>2, <1>1
      <4>2. job[w] = "waiting" /\ sem[w] = h
        BY <3>3 DEF WaitersOK
      <4> QED BY <4>1, <4>2, <2>2, <1>3
    <3>5. ASSUME NEW i \in 1..Len(waiters'[g]), NEW k \in 1..Len(waiters'[g]),
                 waiters'[g][i] = waiters'[g][k]
          PROVE i = k
      <4>1. waiters[h][i + 1] = waiters[h][k + 1]
        BY <3>3, <3>5
      <4>2. i + 1 \in 1..Len(waiters[h]) /\ k + 1 \in 1..Len(waiters[h])
        BY <3>3
      <4>3. i + 1 = k + 1
        BY <4>1, <4>2 DEF WaitersOK
      <4>4. i \in Int /\ k \in Int
        BY <3>3
      <4> QED BY <4>3, <4>4
    <3> QED BY <3>4, <3>5
  <2> QED BY <2>1, <2>2
<1> QED BY <1>4 DEF WaitersOK

LEMMA WaitersStep == TypeOK /\ WaitersOK /\ [Next]_vars => WaitersOK'
<1> SUFFICES ASSUME TypeOK, WaitersOK, [Next]_vars PROVE WaitersOK'
  OBVIOUS
<1>0. job \in [Jobs -> JobStates] /\ sem \in [Jobs -> Gens] /\ gen \in Gens
      /\ waiters \in [Gens -> Seq(Jobs)]
  BY DEF TypeOK
<1>1. CASE UNCHANGED vars
  BY <1>1, WaitersFrame DEF vars
<1>2. ASSUME NEW j \in Jobs,
             Admit(j) \/ Reject(j) \/ Schedule(j) \/ Drop(j) \/ Resume(j) \/ Redrive(j)
      PROVE WaitersOK'
  BY <1>0, <1>2, WaitersFrame DEF Admit, Reject, Schedule, Drop, Resume, Redrive
<1>3. ASSUME NEW j \in Jobs, AcquireNow(j) PROVE WaitersOK'
  BY <1>0, <1>3, WaitersFrame DEF AcquireNow
<1>4. ASSUME NEW j \in Jobs, AcquireWait(j) PROVE WaitersOK'
  <2>1. /\ job[j] = "scheduled" /\ job' = [job EXCEPT ![j] = "waiting"]
        /\ sem' = [sem EXCEPT ![j] = gen]
        /\ waiters' = [waiters EXCEPT ![gen] = Append(@, j)]
    BY <1>4 DEF AcquireWait
  <2>2. \A g \in Gens : \A i \in 1..Len(waiters[g]) :
           waiters[g][i] \in Jobs /\ waiters[g][i] # j
    BY <1>0, <2>1 DEF WaitersOK
  <2>3. ASSUME NEW g \in Gens
        PROVE /\ \A i \in 1..Len(waiters'[g]) :
                    job'[waiters'[g][i]] = "waiting" /\ sem'[waiters'[g][i]] = g
              /\ \A i, k \in 1..Len(waiters'[g]) :
                    waiters'[g][i] = waiters'[g][k] => i = k
    <3>0. waiters[g] \in Seq(Jobs) /\ Len(waiters[g]) \in Nat
      BY <1>0
    <3>1. \A i \in 1..Len(waiters[g]) :
             job'[waiters[g][i]] = "waiting" /\ sem'[waiters[g][i]] = g
      BY <1>0, <2>1, <2>2 DEF WaitersOK
    <3>2. \A i, k \in 1..Len(waiters[g]) :
             waiters[g][i] = waiters[g][k] => i = k
      BY DEF WaitersOK
    <3>3. CASE g # gen
      <4>1. waiters'[g] = waiters[g]
        BY <1>0, <2>1, <3>3
      <4> QED BY ONLY <3>1, <3>2, <4>1
    <3>4. CASE g = gen
      <4>1. waiters'[g] = Append(waiters[g], j)
        BY <1>0, <2>1, <3>4
      <4>2. /\ Len(waiters'[g]) = Len(waiters[g]) + 1
            /\ waiters'[g][Len(waiters[g]) + 1] = j
            /\ \A i \in 1..Len(waiters[g]) : waiters'[g][i] = waiters[g][i]
        BY <3>0, <4>1
      <4>3. job'[j] = "waiting" /\ sem'[j] = g
        BY <1>0, <2>1, <3>4
      <4>4. \A i \in 1..Len(waiters'[g]) :
               i \in 1..Len(waiters[g]) \/ i = Len(waiters[g]) + 1
        BY <3>0, <4>2
      <4>5. \A i \in 1..Len(waiters[g]) : waiters[g][i] # j
        BY <2>2
      <4> QED BY ONLY <3>1, <3>2, <4>2, <4>3, <4>4, <4>5
    <3> QED BY <3>3, <3>4
  <2> QED BY <2>3 DEF WaitersOK
<1>5. ASSUME NEW j \in Jobs, Wake(j) PROVE WaitersOK'
  <2>1. CASE permits[sem[j]] > 0 /\ waiters[sem[j]] # <<>>
    <3>1. /\ job[j] # "waiting" /\ sem[j] \in Gens /\ sem' = sem
          /\ waiters' = [waiters EXCEPT ![sem[j]] = Tail(@)]
          /\ job' = [job EXCEPT ![j] = "running", ![Head(waiters[sem[j]])] = "granted"]
      BY <1>0, <1>5, <2>1 DEF Wake, PassesOn
    <3> QED BY <2>1, <3>1, WaitersHandOver DEF JobStates
  <2>2. CASE ~(permits[sem[j]] > 0 /\ waiters[sem[j]] # <<>>)
    BY <1>0, <1>5, <2>2, WaitersFrame DEF Wake, PassesOn
  <2> QED BY <2>1, <2>2
<1>6. ASSUME NEW j \in Jobs, Release(j) PROVE WaitersOK'
  <2>1. CASE waiters[gen] # <<>>
    <3>1. /\ job[j] # "waiting" /\ sem' = sem
          /\ waiters' = [waiters EXCEPT ![gen] = Tail(@)]
          /\ job' = [job EXCEPT ![j] = "done", ![Head(waiters[gen])] = "granted"]
      BY <1>6, <2>1 DEF Release, LeftRunning
    <3> QED BY <1>0, <2>1, <3>1, WaitersHandOver DEF JobStates
  <2>2. CASE waiters[gen] = <<>>
    BY <1>0, <1>6, <2>2, WaitersFrame DEF Release, LeftRunning
  <2> QED BY <2>1, <2>2
<1>7. CASE ResetRuntimeState
  BY <1>7, WaitersFrame DEF ResetRuntimeState
<1> QED BY <1>1, <1>2, <1>3, <1>4, <1>5, <1>6, <1>7 DEF Next

LEMMA ResetStep == TypeOK /\ ResetOK /\ [Next]_vars => ResetOK'
<1> USE DEF ResetOK
<1> SUFFICES ASSUME TypeOK, ResetOK, [Next]_vars, gen' = 0 PROVE permits'[1] = 0
  OBVIOUS
<1>1. permits \in [Gens -> Nat] /\ sem \in [Jobs -> Gens] /\ gen \in Gens
  BY DEF TypeOK
<1>2. CASE UNCHANGED vars
  BY <1>2 DEF vars
<1>3. ASSUME NEW j \in Jobs,
             Admit(j) \/ Reject(j) \/ Schedule(j) \/ Drop(j) \/ Resume(j)
               \/ Redrive(j) \/ AcquireWait(j)
      PROVE permits'[1] = 0
  BY <1>3 DEF Admit, Reject, Schedule, Drop, Resume, Redrive, AcquireWait
<1>4. ASSUME NEW j \in Jobs, AcquireNow(j) \/ Release(j) PROVE permits'[1] = 0
  BY <1>1, <1>4 DEF AcquireNow, Release, LeftRunning, Gens
<1>5. ASSUME NEW j \in Jobs, Wake(j) PROVE permits'[1] = 0
  <2>1. gen = 0 /\ permits[1] = 0
    BY <1>5 DEF Wake, PassesOn
  <2>2. CASE permits' = permits
    BY <2>1, <2>2
  <2>3. CASE permits[sem[j]] > 0 /\ permits' = [permits EXCEPT ![sem[j]] = @ - 1]
    BY <1>1, <2>1, <2>3 DEF Gens
  <2> QED BY <1>5, <2>2, <2>3 DEF Wake, PassesOn
<1>6. CASE ResetRuntimeState
  BY <1>6 DEF ResetRuntimeState
<1> QED BY <1>2, <1>3, <1>4, <1>5, <1>6 DEF Next

LEMMA HoldersFinite == IsFiniteSet(Holders) /\ Cardinality(Holders) \in Nat
<1>1. Holders \subseteq Jobs
  BY DEF Holders, In
<1> QED BY <1>1, JobsFinite, FS_Subset, FS_CardinalityType

\* The head of a queue is a waiter: it owns no permit before it is handed one.
LEMMA HeadWaits ==
  ASSUME TypeOK, WaitersOK, NEW g \in Gens, waiters[g] # <<>>
  PROVE  Head(waiters[g]) \in Jobs /\ job[Head(waiters[g])] = "waiting"
<1>1. waiters[g] \in Seq(Jobs)
  BY DEF TypeOK
<1>2. Head(waiters[g]) = waiters[g][1] /\ 1 \in 1..Len(waiters[g]) /\ Head(waiters[g]) \in Jobs
  <2>1. Len(waiters[g]) \in Nat \ {0} => 1 \in 1..Len(waiters[g])
    OBVIOUS
  <2> QED BY <1>1, <2>1, QueueHeadTail
<1> QED BY <1>2 DEF WaitersOK

LEMMA ConservationStep ==
  TypeOK /\ WaitersOK /\ ResetOK /\ SlotConservation /\ [Next]_vars => SlotConservation'
<1> SUFFICES ASSUME TypeOK, WaitersOK, ResetOK, SlotConservation, [Next]_vars
             PROVE SlotConservation'
  OBVIOUS
<1>0. /\ permits \in [Gens -> Nat] /\ sem \in [Jobs -> Gens] /\ gen \in Gens
      /\ job \in [Jobs -> JobStates] /\ permits[0] \in Nat /\ permits[1] \in Nat
  BY DEF TypeOK, Gens
<1>1. IsFiniteSet(Holders) /\ Cardinality(Holders) \in Nat
  BY HoldersFinite
<1>2. ASSUME permits' = permits, gen' = gen, Holders' = Holders PROVE SlotConservation'
  BY <1>2 DEF SlotConservation
<1>3. ASSUME NEW g \in Gens, permits' = [permits EXCEPT ![g] = @ - 1], gen' = gen,
             NEW j \in Jobs, j \notin Holders, Holders' = Holders \cup {j}
      PROVE SlotConservation'
  <2>1. Cardinality(Holders') = Cardinality(Holders) + 1
    BY <1>1, <1>3, FS_AddElement
  <2>2. permits'[0] + permits'[1] = permits[0] + permits[1] - 1
    BY <1>0, <1>3 DEF Gens
  <2>3. permits'[0] \in Int /\ permits'[1] \in Int
    BY <1>0, <1>3 DEF Gens
  <2> QED BY <1>0, <1>1, <1>3, <2>1, <2>2, <2>3 DEF SlotConservation
<1>4. CASE UNCHANGED vars
  BY <1>2, <1>4 DEF vars, Holders, In
<1>5. ASSUME NEW j \in Jobs,
             Admit(j) \/ Reject(j) \/ Schedule(j) \/ Drop(j) \/ Resume(j)
               \/ Redrive(j) \/ AcquireWait(j)
      PROVE SlotConservation'
  <2>1. /\ permits' = permits /\ gen' = gen
        /\ job[j] \notin {"granted", "running"}
        /\ \E st \in {"admitted", "rejected", "scheduled", "dropped", "waiting"} :
              job' = [job EXCEPT ![j] = st]
    BY <1>5 DEF Admit, Reject, Schedule, Drop, Resume, Redrive, AcquireWait
  <2>2. Holders' = Holders
    BY <1>0, <2>1 DEF Holders, In
  <2> QED BY <1>2, <2>1, <2>2
<1>6. ASSUME NEW j \in Jobs, AcquireNow(j) PROVE SlotConservation'
  <2>1. j \notin Holders /\ Holders' = Holders \cup {j}
    BY <1>0, <1>6 DEF AcquireNow, Holders, In
  <2> QED BY <1>0, <1>3, <1>6, <2>1 DEF AcquireNow
<1>7. ASSUME NEW j \in Jobs, Wake(j) PROVE SlotConservation'
  <2>1. CASE permits[sem[j]] > 0 /\ waiters[sem[j]] # <<>>
    <3> DEFINE head == Head(waiters[sem[j]])
    <3>1. head \in Jobs /\ job[head] = "waiting"
      BY <1>0, <2>1, HeadWaits
    <3>2. job' = [job EXCEPT ![j] = "running", ![head] = "granted"] /\ job[j] = "granted"
      BY <1>7, <2>1 DEF Wake, PassesOn
    <3>3. head \notin Holders /\ Holders' = Holders \cup {head}
      BY <1>0, <3>1, <3>2 DEF Holders, In
    <3>4. permits' = [permits EXCEPT ![sem[j]] = @ - 1] /\ gen' = gen
      BY <1>7, <2>1 DEF Wake, PassesOn
    <3> QED BY <1>0, <1>3, <3>1, <3>3, <3>4
  <2>2. CASE ~(permits[sem[j]] > 0 /\ waiters[sem[j]] # <<>>)
    <3>1. Holders' = Holders
      BY <1>0, <1>7, <2>2 DEF Wake, PassesOn, Holders, In
    <3> QED BY <1>2, <1>7, <2>2, <3>1 DEF Wake, PassesOn
  <2> QED BY <2>1, <2>2
<1>8. ASSUME NEW j \in Jobs, Release(j) PROVE SlotConservation'
  <2>0. j \in Holders
    BY <1>8 DEF Release, LeftRunning, Holders, In
  <2>1. CASE waiters[gen] # <<>>
    <3> DEFINE head == Head(waiters[gen])
    <3>1. head \in Jobs /\ job[head] = "waiting"
      BY <1>0, <2>1, HeadWaits
    <3>2. /\ job' = [job EXCEPT ![j] = "done", ![head] = "granted"]
          /\ job[j] = "running" /\ permits' = permits /\ gen' = gen
      BY <1>8, <2>1 DEF Release, LeftRunning
    <3>3. head \notin Holders \ {j} /\ Holders' = (Holders \ {j}) \cup {head}
      BY <1>0, <3>1, <3>2 DEF Holders, In
    <3>4. IsFiniteSet(Holders \ {j}) /\ Cardinality(Holders \ {j}) = Cardinality(Holders) - 1
      BY <1>1, <2>0, FS_RemoveElement
    <3>5. Cardinality((Holders \ {j}) \cup {head}) = Cardinality(Holders \ {j}) + 1
      BY <3>3, <3>4, FS_AddElement, Zenon
    <3>6. Cardinality(Holders') = Cardinality(Holders)
      BY <1>1, <3>3, <3>4, <3>5
    <3> QED BY <3>2, <3>6 DEF SlotConservation
  <2>2. CASE waiters[gen] = <<>>
    <3>1. Holders' = Holders \ {j}
      BY <1>0, <1>8, <2>2 DEF Release, LeftRunning, Holders, In
    <3>2. Cardinality(Holders') = Cardinality(Holders) - 1
      BY <1>1, <2>0, <3>1, FS_RemoveElement
    <3>3. permits' = [permits EXCEPT ![gen] = @ + 1] /\ gen' = gen
      BY <1>8, <2>2 DEF Release, LeftRunning
    <3>4. /\ permits'[0] + permits'[1] = permits[0] + permits[1] + 1
          /\ permits'[0] \in Int /\ permits'[1] \in Int
      BY <1>0, <3>3 DEF Gens
    <3> QED BY <1>0, <1>1, <3>2, <3>3, <3>4 DEF SlotConservation
  <2> QED BY <2>1, <2>2
<1>9. CASE ResetRuntimeState
  <2>1. /\ gen = 0 /\ gen' = 1 /\ permits[1] = 0
        /\ permits' = [permits EXCEPT ![1] = MaxConcurrent]
    BY <1>9 DEF ResetRuntimeState, ResetOK
  <2>2. permits'[0] = permits[0] /\ permits'[1] = MaxConcurrent
    BY <1>0, <2>1 DEF Gens
  <2>3. Holders' = Holders
    BY <1>9 DEF ResetRuntimeState, Holders, In
  <2> QED BY <1>0, <1>1, <2>1, <2>2, <2>3, LimitsAssumption DEF SlotConservation
<1> QED BY <1>4, <1>5, <1>6, <1>7, <1>8, <1>9 DEF Next

\* The inductive invariant behind the theorems on slots.
SlotInv == TypeOK /\ WaitersOK /\ ResetOK /\ SlotConservation

LEMMA SlotInvInductive == Spec => []SlotInv
<1>1. Init => SlotInv
  <2> SUFFICES ASSUME Init PROVE SlotInv
    OBVIOUS
  <2>1. TypeOK
    BY LimitsAssumption DEF Init, TypeOK, Gens, JobStates
  <2>2. WaitersOK
    BY DEF Init, WaitersOK
  <2>3. ResetOK
    BY DEF Init, ResetOK, Gens
  <2>4. SlotConservation
    <3>1. Holders = {}
      BY DEF Init, Holders, In
    <3>2. Cardinality(Holders) = 0
      BY <3>1, FS_EmptySet
    <3> QED BY <3>2, LimitsAssumption DEF Init, SlotConservation, Gens
  <2> QED BY <2>1, <2>2, <2>3, <2>4 DEF SlotInv
<1>2. SlotInv /\ [Next]_vars => SlotInv'
  BY TypeStep, WaitersStep, ResetStep, ConservationStep DEF SlotInv
<1> QED BY <1>1, <1>2, PTL DEF Spec

\* Acquiring, handing over, waking, releasing and the reset neither create nor
\* lose a permit, for any jobs and limits.
THEOREM SlotsConserved == Spec => []SlotConservation
<1>1. SlotInv => SlotConservation
  BY DEF SlotInv
<1> QED BY <1>1, SlotInvInductive, PTL

\* Whatever startup recovery redrives, at most twice MaxConcurrent jobs ever
\* own a slot.
THEOREM OvercommitBounded == Spec => []AtMostTwiceMaxConcurrent
<1>1. SlotInv => AtMostTwiceMaxConcurrent
  <2> SUFFICES ASSUME SlotInv PROVE Cardinality(Holders) <= 2 * MaxConcurrent
    BY DEF AtMostTwiceMaxConcurrent
  <2>1. permits[0] \in Nat /\ permits[1] \in Nat /\ gen \in {0, 1}
    BY DEF SlotInv, TypeOK, Gens
  <2>2. permits[0] + permits[1] + Cardinality(Holders) = MaxConcurrent * (gen + 1)
    BY DEF SlotInv, SlotConservation
  <2>3. MaxConcurrent * (gen + 1) <= 2 * MaxConcurrent
    <3>1. CASE gen = 0
      BY <3>1, LimitsAssumption
    <3>2. CASE gen = 1
      BY <3>2, LimitsAssumption
    <3> QED BY <2>1, <3>1, <3>2
  <2> QED BY <2>1, <2>2, <2>3, HoldersFinite, LimitsAssumption
<1> QED BY <1>1, SlotInvInductive, PTL

-----------------------------------------------------------------------------
(* Wakeups and counters *)

\* Nobody waits on the second semaphore before the reset creates it.
NoEarlyWaiters == gen = 0 => waiters[1] = <<>>

\* The head of a queue is handed a permit of the semaphore it waits on.
LEMMA HeadIsOfQueue ==
  ASSUME TypeOK, WaitersOK, NEW g \in Gens, waiters[g] # <<>>
  PROVE  /\ Head(waiters[g]) \in Jobs
         /\ job[Head(waiters[g])] = "waiting" /\ sem[Head(waiters[g])] = g
<1>1. Head(waiters[g]) = waiters[g][1] /\ 1 \in 1..Len(waiters[g]) /\ Head(waiters[g]) \in Jobs
  <2>1. waiters[g] \in Seq(Jobs)
    BY DEF TypeOK
  <2>2. Len(waiters[g]) \in Nat \ {0} => 1 \in 1..Len(waiters[g])
    OBVIOUS
  <2> QED BY <2>1, <2>2, QueueHeadTail
<1> QED BY <1>1 DEF WaitersOK

LEMMA WakeupStep ==
  SlotInv /\ NoEarlyWaiters /\ NoLostWakeup /\ [Next]_vars
    => NoEarlyWaiters' /\ NoLostWakeup'
<1> SUFFICES ASSUME SlotInv, NoEarlyWaiters, NoLostWakeup, [Next]_vars
             PROVE  NoEarlyWaiters' /\ NoLostWakeup'
  OBVIOUS
<1>0. /\ permits \in [Gens -> Nat] /\ sem \in [Jobs -> Gens] /\ gen \in Gens
      /\ job \in [Jobs -> JobStates] /\ waiters \in [Gens -> Seq(Jobs)]
      /\ TypeOK /\ WaitersOK
  BY DEF SlotInv, TypeOK
<1>1. ASSUME UNCHANGED <<gen, permits, waiters>>,
             \A k \in Jobs : job[k] = "granted" => job'[k] = "granted" /\ sem'[k] = sem[k]
      PROVE  NoEarlyWaiters' /\ NoLostWakeup'
  BY <1>1 DEF NoEarlyWaiters, NoLostWakeup, GrantedOn, In
<1>2. CASE UNCHANGED vars
  BY <1>1, <1>2 DEF vars
<1>3. ASSUME NEW j \in Jobs,
             Admit(j) \/ Reject(j) \/ Schedule(j) \/ Drop(j) \/ Resume(j) \/ Redrive(j)
      PROVE  NoEarlyWaiters' /\ NoLostWakeup'
  BY <1>0, <1>1, <1>3 DEF Admit, Reject, Schedule, Drop, Resume, Redrive
\* A semaphore that is free has no waiters.
<1>4. ASSUME NEW j \in Jobs, AcquireNow(j) PROVE NoEarlyWaiters' /\ NoLostWakeup'
  <2>1. waiters[gen] = <<>> /\ UNCHANGED <<gen, waiters>>
    BY <1>4 DEF AcquireNow, Locked
  <2>2. \A g \in Gens : g # gen => permits'[g] = permits[g] /\ GrantedOn(g)' = GrantedOn(g)
    BY <1>0, <1>4 DEF AcquireNow, GrantedOn, In
  <2> QED BY <2>1, <2>2 DEF NoEarlyWaiters, NoLostWakeup
\* One that is not free has no permit, or waiters, or a job to resume with one.
<1>5. ASSUME NEW j \in Jobs, AcquireWait(j) PROVE NoEarlyWaiters' /\ NoLostWakeup'
  <2>1. \A g \in Gens : permits'[g] = permits[g] /\ GrantedOn(g)' = GrantedOn(g)
    BY <1>0, <1>5 DEF AcquireWait, GrantedOn, In
  <2>2. permits[gen] > 0 => GrantedOn(gen) # {}
    BY <1>0, <1>5 DEF AcquireWait, Locked, NoLostWakeup
  <2>3. gen' = gen /\ \A g \in Gens : g # gen => waiters'[g] = waiters[g]
    BY <1>0, <1>5 DEF AcquireWait
  <2> QED BY <1>0, <2>1, <2>2, <2>3 DEF NoEarlyWaiters, NoLostWakeup, Gens
\* The semaphore a permit is handed on has a job that will resume with it.
<1>6. ASSUME NEW g \in Gens, waiters[g] # <<>>,
             job'[Head(waiters[g])] = "granted",
             \A k \in Jobs : job[k] = "granted" /\ sem[k] # g => job'[k] = "granted",
             \A h \in Gens : h # g => permits'[h] = permits[h],
             waiters' = [waiters EXCEPT ![g] = Tail(@)],
             UNCHANGED <<gen, sem>>
      PROVE  NoEarlyWaiters' /\ NoLostWakeup'
  <2>1. Head(waiters[g]) \in Jobs /\ sem[Head(waiters[g])] = g
    BY <1>0, <1>6, HeadIsOfQueue
  <2>2. Head(waiters[g]) \in GrantedOn(g)'
    BY <1>6, <2>1 DEF GrantedOn, In
  <2>3. \A h \in Gens : h # g => GrantedOn(h) \subseteq GrantedOn(h)' /\ waiters'[h] = waiters[h]
    BY <1>0, <1>6 DEF GrantedOn, In
  <2>4. g = 1 => gen # 0
    BY <1>6 DEF NoEarlyWaiters
  <2>5. NoLostWakeup'
    BY <1>6, <2>2, <2>3 DEF NoLostWakeup
  <2> QED BY <1>0, <1>6, <2>3, <2>4, <2>5 DEF NoEarlyWaiters, Gens
<1>7. ASSUME NEW j \in Jobs, Wake(j) PROVE NoEarlyWaiters' /\ NoLostWakeup'
  <2>1. CASE PassesOn(sem[j])
    <3> DEFINE g == sem[j]
    <3>1. /\ g \in Gens /\ waiters[g] # <<>>
          /\ waiters' = [waiters EXCEPT ![g] = Tail(@)]
          /\ job' = [job EXCEPT ![j] = "running", ![Head(waiters[g])] = "granted"]
          /\ UNCHANGED <<gen, sem>>
          /\ \A h \in Gens : h # g => permits'[h] = permits[h]
      BY <1>0, <1>7, <2>1 DEF Wake, PassesOn
    <3>2. /\ job'[Head(waiters[g])] = "granted"
          /\ \A k \in Jobs : job[k] = "granted" /\ sem[k] # g => job'[k] = "granted"
      BY <1>0, <3>1, HeadIsOfQueue
    <3> QED BY <1>6, <3>1, <3>2
  <2>2. CASE ~PassesOn(sem[j])
    <3>1. UNCHANGED <<gen, permits, waiters, sem>> /\ job' = [job EXCEPT ![j] = "running"]
      BY <1>7, <2>2 DEF Wake
    <3>2. \A h \in Gens : h # sem[j] => GrantedOn(h) \subseteq GrantedOn(h)'
      BY <1>0, <3>1 DEF GrantedOn, In
    <3> QED BY <2>2, <3>1, <3>2 DEF PassesOn, NoEarlyWaiters, NoLostWakeup
  <2> QED BY <2>1, <2>2
<1>8. ASSUME NEW j \in Jobs, Release(j) PROVE NoEarlyWaiters' /\ NoLostWakeup'
  <2>1. CASE waiters[gen] # <<>>
    <3>1. /\ job[j] = "running" /\ UNCHANGED <<gen, sem, permits>>
          /\ waiters' = [waiters EXCEPT ![gen] = Tail(@)]
          /\ job' = [job EXCEPT ![j] = "done", ![Head(waiters[gen])] = "granted"]
      BY <1>8, <2>1 DEF Release
    <3>2. /\ job'[Head(waiters[gen])] = "granted"
          /\ \A k \in Jobs : job[k] = "granted" => job'[k] = "granted"
      BY <1>0, <2>1, <3>1, HeadIsOfQueue
    <3> QED BY <1>0, <1>6, <2>1, <3>1, <3>2
  <2>2. CASE waiters[gen] = <<>>
    <3>1. /\ UNCHANGED <<gen, waiters, sem>> /\ job' = [job EXCEPT ![j] = "done"]
          /\ job[j] = "running" /\ permits' = [permits EXCEPT ![gen] = @ + 1]
      BY <1>8, <2>2 DEF Release
    <3>2. \A h \in Gens : GrantedOn(h) \subseteq GrantedOn(h)'
      BY <1>0, <3>1 DEF GrantedOn, In
    <3> QED BY <1>0, <2>2, <3>1, <3>2 DEF NoEarlyWaiters, NoLostWakeup
  <2> QED BY <2>1, <2>2
<1>9. CASE ResetRuntimeState
  <2>1. gen = 0 /\ gen' = 1 /\ UNCHANGED <<waiters, sem, job>> /\ permits'[0] = permits[0]
    BY <1>0, <1>9 DEF ResetRuntimeState, Gens
  <2>2. waiters[1] = <<>> /\ \A g \in Gens : GrantedOn(g)' = GrantedOn(g)
    BY <2>1 DEF NoEarlyWaiters, GrantedOn, In
  <2> QED BY <2>1, <2>2 DEF NoEarlyWaiters, NoLostWakeup, Gens
<1> QED BY <1>2, <1>3, <1>4, <1>5, <1>7, <1>8, <1>9 DEF Next

\* For any jobs and limits: a job never waits on a semaphore that has a permit
\* with nobody on the way to pass it on.
THEOREM NoWakeupLost == Spec => []NoLostWakeup
<1>1. Init => NoEarlyWaiters /\ NoLostWakeup
  BY DEF Init, NoEarlyWaiters, NoLostWakeup, Gens
<1> QED BY <1>1, WakeupStep, SlotInvInductive, PTL DEF Spec

\* Creates that have been admitted and have no place in a slot or a queue.
Unplaced == In({"admitted", "scheduled", "dropped"}) \cap Creates

LEMMA CountedFinite ==
  /\ IsFiniteSet(In({"running"})) /\ Cardinality(In({"running"})) \in Nat
  /\ IsFiniteSet(Unplaced) /\ Cardinality(Unplaced) \in Nat
<1>1. In({"running"}) \subseteq Jobs /\ Unplaced \subseteq Jobs
  BY DEF In, Unplaced
<1> QED BY <1>1, JobsFinite, FS_Subset, FS_CardinalityType

LEMMA RunningStep == SlotInv /\ RunningCounted /\ [Next]_vars => RunningCounted'
<1> SUFFICES ASSUME SlotInv, RunningCounted, [Next]_vars PROVE RunningCounted'
  OBVIOUS
<1> DEFINE R == In({"running"})
<1>0. /\ running \in Nat /\ gen \in Gens /\ sem \in [Jobs -> Gens] /\ job \in [Jobs -> JobStates]
      /\ IsFiniteSet(R) /\ Cardinality(R) \in Nat /\ running <= Cardinality(R)
      /\ TypeOK /\ WaitersOK
  BY CountedFinite DEF SlotInv, TypeOK, RunningCounted
<1>1. ASSUME running' = running, R' = R PROVE RunningCounted'
  BY <1>0, <1>1 DEF RunningCounted
<1>2. ASSUME NEW j \in Jobs, j \notin R, R' = R \cup {j}, running' = running + 1
      PROVE  RunningCounted'
  <2>1. Cardinality(R') = Cardinality(R) + 1
    BY <1>0, <1>2, FS_AddElement
  <2> QED BY <1>0, <1>2, <2>1 DEF RunningCounted
<1>3. CASE UNCHANGED vars
  BY <1>1, <1>3 DEF vars, In
<1>4. ASSUME NEW j \in Jobs,
             Admit(j) \/ Reject(j) \/ Schedule(j) \/ Drop(j) \/ Resume(j) \/ Redrive(j)
               \/ AcquireWait(j)
      PROVE  RunningCounted'
  <2>1. R' = R /\ running' = running
    BY <1>0, <1>4 DEF Admit, Reject, Schedule, Drop, Resume, Redrive, AcquireWait, In
  <2> QED BY <1>1, <2>1
<1>5. ASSUME NEW j \in Jobs, AcquireNow(j) PROVE RunningCounted'
  <2>1. j \notin R /\ R' = R \cup {j} /\ running' = running + 1
    BY <1>0, <1>5 DEF AcquireNow, In
  <2> QED BY <1>2, <2>1
<1>6. ASSUME NEW j \in Jobs, Wake(j) PROVE RunningCounted'
  <2>1. CASE PassesOn(sem[j])
    <3> DEFINE head == Head(waiters[sem[j]])
    <3>1. head \in Jobs /\ job[head] = "waiting"
      BY <1>0, <2>1, HeadIsOfQueue DEF PassesOn
    <3>2. job' = [job EXCEPT ![j] = "running", ![head] = "granted"] /\ job[j] = "granted"
      BY <1>6, <2>1 DEF Wake
    <3>3. j \notin R /\ R' = R \cup {j}
      BY <1>0, <3>1, <3>2 DEF In
    <3> QED BY <1>2, <1>6, <3>3 DEF Wake
  <2>2. CASE ~PassesOn(sem[j])
    <3>1. j \notin R /\ R' = R \cup {j}
      BY <1>0, <1>6, <2>2 DEF Wake, In
    <3> QED BY <1>2, <1>6, <3>1 DEF Wake
  <2> QED BY <2>1, <2>2
<1>7. ASSUME NEW j \in Jobs, Release(j) PROVE RunningCounted'
  <2>1. j \in R /\ R' = R \ {j}
    <3>1. CASE waiters[gen] # <<>>
      <4> DEFINE head == Head(waiters[gen])
      <4>1. head \in Jobs /\ job[head] = "waiting"
        BY <1>0, <3>1, HeadIsOfQueue
      <4>2. job' = [job EXCEPT ![j] = "done", ![head] = "granted"] /\ job[j] = "running"
        BY <1>7, <3>1 DEF Release
      <4> QED BY <1>0, <4>1, <4>2 DEF In
    <3>2. CASE waiters[gen] = <<>>
      BY <1>0, <1>7, <3>2 DEF Release, In
    <3> QED BY <3>1, <3>2
  <2>2. Cardinality(R') = Cardinality(R) - 1 /\ Cardinality(R') \in Nat
    <3>1. IsFiniteSet(R \ {j}) /\ Cardinality(R \ {j}) = Cardinality(R) - 1
      BY <1>0, <2>1, FS_RemoveElement
    <3>2. Cardinality(R \ {j}) \in Nat
      BY <3>1, FS_CardinalityType
    <3> QED BY <2>1, <3>1, <3>2
  <2>3. running' = LeftRunning
    BY <1>7 DEF Release
  <2> QED BY <1>0, <2>2, <2>3 DEF LeftRunning, RunningCounted
<1>8. CASE ResetRuntimeState
  <2>1. running' = 0 /\ R' = R
    BY <1>8 DEF ResetRuntimeState, In
  <2> QED BY <1>0, <2>1 DEF RunningCounted
<1> QED BY <1>3, <1>4, <1>5, <1>6, <1>7, <1>8 DEF Next

LEMMA QueuedStep == SlotInv /\ QueuedCounted /\ [Next]_vars => QueuedCounted'
<1> SUFFICES ASSUME SlotInv, QueuedCounted, [Next]_vars PROVE QueuedCounted'
  OBVIOUS
<1>0. /\ queued \in Nat /\ gen \in Gens /\ sem \in [Jobs -> Gens] /\ job \in [Jobs -> JobStates]
      /\ IsFiniteSet(Unplaced) /\ Cardinality(Unplaced) \in Nat
      /\ queued <= Cardinality(Unplaced)
      /\ TypeOK /\ WaitersOK
  BY CountedFinite DEF SlotInv, TypeOK, QueuedCounted, Unplaced
<1>1. ASSUME queued' = queued, Unplaced' = Unplaced PROVE QueuedCounted'
  BY <1>0, <1>1 DEF QueuedCounted, Unplaced
<1>2. CASE UNCHANGED vars
  BY <1>1, <1>2 DEF vars, In, Unplaced
<1>3. ASSUME NEW j \in Jobs, Admit(j) PROVE QueuedCounted'
  <2>1. j \notin Unplaced /\ Unplaced' = Unplaced \cup {j} /\ queued' = queued + 1
    BY <1>0, <1>3 DEF Admit, In, Unplaced
  <2>2. Cardinality(Unplaced') = Cardinality(Unplaced) + 1
    BY <1>0, <2>1, FS_AddElement
  <2> QED BY <1>0, <2>1, <2>2 DEF QueuedCounted, Unplaced
<1>4. ASSUME NEW j \in Jobs, Reject(j) \/ Schedule(j) \/ Drop(j) \/ Resume(j) \/ Redrive(j)
      PROVE  QueuedCounted'
  <2>1. Unplaced' = Unplaced /\ queued' = queued
    BY <1>0, <1>4, JobsAssumption
    DEF Reject, Schedule, Drop, Resume, Redrive, In, Unplaced
  <2> QED BY <1>1, <2>1
<1>5. ASSUME NEW j \in Jobs, AcquireNow(j) \/ AcquireWait(j) PROVE QueuedCounted'
  <2>1. queued' = Dequeued /\ Unplaced' = Unplaced \ {j}
    BY <1>0, <1>5 DEF AcquireNow, AcquireWait, In, Unplaced
  <2>2. /\ IsFiniteSet(Unplaced')
        /\ Cardinality(Unplaced') \in {Cardinality(Unplaced), Cardinality(Unplaced) - 1}
    BY <1>0, <2>1, FS_RemoveElement
  <2>3. Cardinality(Unplaced') \in Nat
    BY <2>2, FS_CardinalityType
  <2> QED BY <1>0, <2>1, <2>2, <2>3 DEF Dequeued, QueuedCounted, Unplaced
\* Neither a job that resumes nor the head of a queue is without a place.
<1>6. ASSUME NEW g \in Gens, waiters[g] # <<>>, NEW j \in Jobs, NEW st \in {"running", "done"},
             job[j] \in {"granted", "running"},
             job' = [job EXCEPT ![j] = st, ![Head(waiters[g])] = "granted"]
      PROVE  Unplaced' = Unplaced
  <2>1. Head(waiters[g]) \in Jobs /\ job[Head(waiters[g])] = "waiting"
    BY <1>0, <1>6, HeadIsOfQueue
  <2> QED BY <1>0, <1>6, <2>1 DEF In, Unplaced
<1>7. ASSUME NEW j \in Jobs, Wake(j) PROVE QueuedCounted'
  <2>1. CASE PassesOn(sem[j])
    BY <1>0, <1>1, <1>6, <1>7, <2>1 DEF Wake, PassesOn
  <2>2. CASE ~PassesOn(sem[j])
    <3>1. Unplaced' = Unplaced
      BY <1>0, <1>7, <2>2 DEF Wake, In, Unplaced
    <3> QED BY <1>1, <1>7, <3>1 DEF Wake
  <2> QED BY <2>1, <2>2
<1>8. ASSUME NEW j \in Jobs, Release(j) PROVE QueuedCounted'
  <2>1. CASE waiters[gen] # <<>>
    BY <1>0, <1>1, <1>6, <1>8, <2>1 DEF Release
  <2>2. CASE waiters[gen] = <<>>
    <3>1. Unplaced' = Unplaced
      BY <1>0, <1>8, <2>2 DEF Release, In, Unplaced
    <3> QED BY <1>1, <1>8, <3>1 DEF Release
  <2> QED BY <2>1, <2>2
<1>9. CASE ResetRuntimeState
  <2>1. queued' = 0 /\ Unplaced' = Unplaced
    BY <1>9 DEF ResetRuntimeState, In, Unplaced
  <2> QED BY <1>0, <2>1 DEF QueuedCounted, Unplaced
<1> QED BY <1>2, <1>3, <1>4, <1>5, <1>7, <1>8, <1>9 DEF Next

\* state() never reports more running jobs than there are.
THEOREM RunningNeverOvercounted == Spec => []RunningCounted
<1>1. Init => RunningCounted
  BY CountedFinite DEF Init, RunningCounted
<1> QED BY <1>1, RunningStep, SlotInvInductive, PTL DEF Spec

\* Nor does admission count a create that has asked for a slot.
THEOREM QueuedNeverOvercounted == Spec => []QueuedCounted
<1>1. Init => QueuedCounted
  BY CountedFinite DEF Init, QueuedCounted, Unplaced
<1> QED BY <1>1, QueuedStep, SlotInvInductive, PTL DEF Spec

-----------------------------------------------------------------------------
(* When no dispatch write fails, a full queue is a queue of creates *)

\* Only a failed dispatch write drops a job, which then counts for ever.
NoneDropped == In({"dropped"}) = {}

LEMMA DroppedStep ==
  ASSUME Failing = {}
  PROVE  SlotInv /\ NoneDropped /\ [Next]_vars => NoneDropped'
<1> SUFFICES ASSUME SlotInv, NoneDropped, [Next]_vars, NEW i \in Jobs PROVE job'[i] # "dropped"
  BY DEF NoneDropped, In
<1>0. /\ TypeOK /\ WaitersOK /\ job \in [Jobs -> JobStates] /\ sem \in [Jobs -> Gens]
      /\ gen \in Gens /\ job[i] # "dropped"
  BY DEF SlotInv, TypeOK, NoneDropped, In
<1>1. ASSUME NEW j \in Jobs, \/ Admit(j) \/ Reject(j) \/ Schedule(j) \/ Drop(j) \/ Resume(j)
                              \/ Redrive(j) \/ AcquireNow(j) \/ AcquireWait(j)
      PROVE job'[i] # "dropped"
  BY <1>0, <1>1 DEF Admit, Reject, Schedule, Drop, Resume, Redrive, AcquireNow, AcquireWait
<1>2. ASSUME NEW j \in Jobs, Wake(j) PROVE job'[i] # "dropped"
  <2>1. sem[j] \in Gens
    BY <1>0
  <2>2. PassesOn(sem[j]) => Head(waiters[sem[j]]) \in Jobs
    BY <1>0, <2>1, HeadWaits DEF PassesOn
  <2> QED BY <1>0, <1>2, <2>2 DEF Wake
<1>3. ASSUME NEW j \in Jobs, Release(j) PROVE job'[i] # "dropped"
  BY <1>0, <1>3, HeadWaits DEF Release
<1>4. CASE ResetRuntimeState \/ UNCHANGED vars
  BY <1>0, <1>4 DEF ResetRuntimeState, vars
<1> QED BY <1>1, <1>2, <1>3, <1>4 DEF Next

LEMMA RejectStep ==
  ASSUME NoneDropped, QueuedCounted, TypeOK, [Next]_vars,
         NEW j \in Creates, job[j] = "new", job'[j] = "rejected"
  PROVE  Cardinality(In({"admitted", "scheduled", "waiting"}) \cap Creates) >= MaxQueueSize
<1>1. Saturated
  <2>1. j \in Jobs /\ job \in [Jobs -> JobStates]
    BY DEF Jobs, TypeOK
  <2>2. ASSUME NEW i \in Jobs, ~Reject(i),
               \/ Admit(i) \/ Schedule(i) \/ Drop(i) \/ Resume(i) \/ Redrive(i)
               \/ AcquireNow(i) \/ AcquireWait(i) \/ Wake(i) \/ Release(i)
        PROVE FALSE
    BY <2>1, <2>2
       DEF Admit, Schedule, Drop, Resume, Redrive, AcquireNow, AcquireWait, Wake, Release
  <2>3. ~ResetRuntimeState /\ ~UNCHANGED vars
    BY DEF ResetRuntimeState, vars
  <2>4. \E i \in Jobs : Reject(i)
    BY <2>2, <2>3 DEF Next
  <2> QED BY <2>4 DEF Reject
<1> DEFINE Unserved == In({"admitted", "scheduled", "waiting"}) \cap Creates
<1>2. Unplaced \subseteq Unserved
  BY DEF Unplaced, In, NoneDropped
<1>3. IsFiniteSet(Unserved)
  BY JobsFinite, FS_Subset DEF In
<1>4. /\ Cardinality(Unplaced) \in Nat /\ Cardinality(Unserved) \in Nat
      /\ Cardinality(Unplaced) <= Cardinality(Unserved)
  BY <1>2, <1>3, FS_Subset, FS_CardinalityType
<1>5. queued \in Nat /\ queued <= Cardinality(Unplaced) /\ queued >= MaxQueueSize
  BY <1>1 DEF QueuedCounted, Unplaced, Saturated, TypeOK
<1> QED BY <1>4, <1>5, LimitsAssumption

\* A create is turned away only while MaxQueueSize admitted ones are without a
\* slot, provided the dispatch writes do not raise: a create dropped between its
\* admission and its schedule is never given back to the counter.
THEOREM RejectsWhenSaturated ==
  ASSUME Failing = {} PROVE Spec => RejectOnlyWhenSaturated
<1>1. Init => NoneDropped
  BY DEF Init, NoneDropped, In
<1>2. SlotInv => TypeOK
  BY DEF SlotInv
<1>3. NoneDropped /\ QueuedCounted /\ TypeOK /\ [Next]_vars =>
        [\A j \in Creates :
           job[j] = "new" /\ job'[j] = "rejected"
             => Cardinality(In({"admitted", "scheduled", "waiting"}) \cap Creates)
                  >= MaxQueueSize]_vars
  BY RejectStep
<1> QED BY <1>1, <1>2, <1>3, DroppedStep, SlotInvInductive, QueuedNeverOvercounted, PTL
        DEF Spec, RejectOnlyWhenSaturated

-----------------------------------------------------------------------------
(* Without a redrive at startup the guard is the slot pool it promises *)

\* Nothing runs before the reset, so the first semaphore stays full and idle.
Quiet ==
  /\ gen = 0 => \A j \in Jobs : job[j] = "new"
  /\ gen = 1 => permits[0] = MaxConcurrent
  /\ gen = 0 => permits[0] = MaxConcurrent
  /\ \A j \in Jobs : job[j] \in {"waiting", "granted", "running"} => sem[j] = 1

LEMMA QuietStep ==
  ASSUME Redriven = {}
  PROVE  SlotInv /\ Quiet /\ [Next]_vars => Quiet'
<1> SUFFICES ASSUME SlotInv, Quiet, [Next]_vars PROVE Quiet'
  OBVIOUS
<1>0. /\ permits \in [Gens -> Nat] /\ sem \in [Jobs -> Gens] /\ gen \in Gens
      /\ job \in [Jobs -> JobStates] /\ waiters \in [Gens -> Seq(Jobs)]
      /\ TypeOK /\ WaitersOK
  BY DEF SlotInv, TypeOK
<1>1. CASE UNCHANGED vars
  BY <1>1 DEF vars, Quiet
<1>2. CASE gen = 0
  <2>1. \A j \in Jobs : job[j] = "new"
    BY <1>2 DEF Quiet
  <2>2. In({"running"}) = {}
    BY <2>1 DEF In
  <2>3. CASE ResetRuntimeState
    BY <1>0, <1>2, <2>3 DEF ResetRuntimeState, Quiet, Gens
  <2>4. ASSUME NEW j \in Jobs, Admit(j) \/ Reject(j) \/ Schedule(j) \/ Drop(j) \/ Resume(j)
                 \/ Redrive(j) \/ AcquireNow(j) \/ AcquireWait(j) \/ Wake(j) \/ Release(j)
        PROVE FALSE
    BY <1>2, <2>1, <2>2, <2>4
       DEF Admit, Reject, Schedule, Drop, Resume, Redrive, AcquireNow, AcquireWait,
           Wake, PassesOn, Release, LeftRunning
  <2> QED BY <1>1, <2>3, <2>4 DEF Next
<1>3. CASE gen = 1
  <2>0. permits[0] = MaxConcurrent
    BY <1>3 DEF Quiet
  <2>1. ASSUME NEW j \in Jobs,
               Admit(j) \/ Reject(j) \/ Schedule(j) \/ Drop(j) \/ Resume(j) \/ Redrive(j)
        PROVE Quiet'
    BY <1>0, <1>3, <2>1 DEF Quiet, Admit, Reject, Schedule, Drop, Resume, Redrive
  <2>2. ASSUME NEW j \in Jobs, AcquireNow(j) \/ AcquireWait(j)
        PROVE Quiet'
    BY <1>0, <1>3, <2>0, <2>2 DEF Quiet, AcquireNow, AcquireWait, Gens
  <2>3. ASSUME NEW g \in Gens, waiters[g] # <<>>, g = 1
        PROVE /\ Head(waiters[g]) \in Jobs /\ job[Head(waiters[g])] = "waiting"
              /\ sem[Head(waiters[g])] = 1
    BY <1>0, <2>3, HeadWaits DEF Quiet
  <2>4. ASSUME NEW j \in Jobs, Wake(j) PROVE Quiet'
    <3>1. sem[j] = 1
      BY <2>4 DEF Wake, PassesOn, Quiet
    <3>2. CASE permits[1] > 0 /\ waiters[1] # <<>>
      BY <1>0, <1>3, <2>0, <2>3, <2>4, <3>1, <3>2 DEF Wake, PassesOn, Quiet, Gens
    <3>3. CASE ~(permits[1] > 0 /\ waiters[1] # <<>>)
      BY <1>0, <1>3, <2>0, <2>4, <3>1, <3>3 DEF Wake, PassesOn, Quiet
    <3> QED BY <3>2, <3>3
  <2>5. ASSUME NEW j \in Jobs, Release(j) PROVE Quiet'
    <3>1. CASE waiters[1] # <<>>
      BY <1>0, <1>3, <2>0, <2>3, <2>5, <3>1
         DEF Release, LeftRunning, Quiet, Gens
    <3>2. CASE waiters[1] = <<>>
      BY <1>0, <1>3, <2>0, <2>5, <3>2
         DEF Release, LeftRunning, Quiet, Gens
    <3> QED BY <3>1, <3>2
  <2>6. ~ResetRuntimeState
    BY <1>3 DEF ResetRuntimeState
  <2> QED BY <1>1, <2>1, <2>2, <2>4, <2>5, <2>6 DEF Next
<1> QED BY <1>0, <1>2, <1>3 DEF Gens

LEMMA QuietInv == ASSUME Redriven = {} PROVE Spec => [](SlotInv /\ Quiet)
<1>1. Init => Quiet
  BY DEF Init, Quiet, Gens
<1>2. SlotInv /\ Quiet /\ [Next]_vars => Quiet'
  BY QuietStep
<1> QED BY <1>1, <1>2, SlotInvInductive, PTL DEF Spec

\* A server that redrives nothing at startup never lets more than
\* MaxConcurrent jobs own a slot.
THEOREM SlotLimitHolds ==
  ASSUME Redriven = {} PROVE Spec => []AtMostMaxConcurrent
<1>1. SlotInv /\ Quiet => AtMostMaxConcurrent
  <2> SUFFICES ASSUME SlotInv, Quiet PROVE Cardinality(Holders) <= MaxConcurrent
    BY DEF AtMostMaxConcurrent
  <2>1. permits[0] = MaxConcurrent /\ permits[1] \in Nat /\ gen \in {0, 1}
    BY DEF SlotInv, Quiet, TypeOK, Gens
  <2>2. permits[0] + permits[1] + Cardinality(Holders) = MaxConcurrent * (gen + 1)
    BY DEF SlotInv, SlotConservation
  <2>3. MaxConcurrent * (gen + 1) <= 2 * MaxConcurrent
    <3>1. CASE gen = 0
      BY <3>1, LimitsAssumption
    <3>2. CASE gen = 1
      BY <3>2, LimitsAssumption
    <3> QED BY <2>1, <3>1, <3>2
  <2> QED BY <2>1, <2>2, <2>3, HoldersFinite, LimitsAssumption
<1> QED BY <1>1, QuietInv, PTL

\* A free permit of the serving semaphore means a slot is left in the pool.
LEMMA FreePermit ==
  ASSUME SlotInv, Quiet, gen = 1, permits[1] > 0
  PROVE  Cardinality(Holders) < MaxConcurrent
<1>1. permits[0] = MaxConcurrent /\ permits[1] \in Nat
  BY DEF SlotInv, TypeOK, Gens, Quiet
<1>2. permits[0] + permits[1] + Cardinality(Holders) = MaxConcurrent * 2
  BY DEF SlotInv, SlotConservation
<1> QED BY <1>1, <1>2, HoldersFinite, LimitsAssumption

LEMMA PoolStep ==
  ASSUME Redriven = {}
  PROVE  SlotInv /\ Quiet /\ [Next]_vars => [Pool!Next]_(Pool!vars)
<1> DEFINE asking == In({"scheduled", "waiting"})
<1> SUFFICES ASSUME SlotInv, Quiet, [Next]_vars PROVE Pool!Next \/ UNCHANGED Pool!vars
  OBVIOUS
<1>0. /\ permits \in [Gens -> Nat] /\ sem \in [Jobs -> Gens] /\ gen \in Gens
      /\ job \in [Jobs -> JobStates] /\ TypeOK /\ WaitersOK
  BY DEF SlotInv, TypeOK
<1>a. ASSUME asking' = asking, Holders' = Holders PROVE UNCHANGED Pool!vars
  BY <1>a DEF Pool!vars
<1>b. ASSUME NEW j \in Jobs, j \notin asking \cup Holders,
             asking' = asking \cup {j}, Holders' = Holders
      PROVE Pool!Next
  BY <1>b DEF Pool!Next, Pool!Ask
<1>c. ASSUME NEW j \in Jobs, j \in asking, Cardinality(Holders) < MaxConcurrent,
             asking' = asking \ {j}, Holders' = Holders \cup {j}
      PROVE Pool!Next
  <2>1. Pool!Take(j)
    BY <1>c DEF Pool!Take, Pool!Cardinality, Cardinality
  <2> QED BY <2>1 DEF Pool!Next
<1>1. CASE UNCHANGED vars
  <2>1. asking' = asking /\ Holders' = Holders
    BY <1>1 DEF vars, Holders, In
  <2> QED BY <1>a, <2>1
<1>2. ASSUME NEW j \in Jobs, Admit(j) \/ Reject(j) \/ Drop(j) \/ AcquireWait(j)
      PROVE UNCHANGED Pool!vars
  <2>1. asking' = asking /\ Holders' = Holders
    BY <1>0, <1>2 DEF Admit, Reject, Drop, AcquireWait, Holders, In
  <2> QED BY <1>a, <2>1
<1>3. ASSUME NEW j \in Jobs, Schedule(j) \/ Resume(j) \/ Redrive(j) PROVE Pool!Next
  <2>1. job[j] \in {"admitted", "new"} /\ job' = [job EXCEPT ![j] = "scheduled"]
    BY <1>3 DEF Schedule, Resume, Redrive
  <2>2. j \notin asking \cup Holders /\ asking' = asking \cup {j} /\ Holders' = Holders
    BY <1>0, <2>1 DEF Holders, In
  <2> QED BY <1>b, <2>2
<1>4. ASSUME NEW j \in Jobs, AcquireNow(j) PROVE Pool!Next
  <2>1. gen = 1
    BY <1>0, <1>4 DEF Quiet, AcquireNow, Gens
  <2>2. permits[1] > 0
    BY <1>0, <1>4, <2>1 DEF AcquireNow, Locked, Gens
  <2>3. j \in asking /\ asking' = asking \ {j} /\ Holders' = Holders \cup {j}
    BY <1>0, <1>4 DEF AcquireNow, Holders, In
  <2> QED BY <1>c, <2>1, <2>2, <2>3, FreePermit
<1>5. ASSUME NEW j \in Jobs, Wake(j) PROVE Pool!Next \/ UNCHANGED Pool!vars
  <2>1. gen = 1 /\ sem[j] = 1 /\ job[j] = "granted"
    BY <1>0, <1>5 DEF Wake, PassesOn, Quiet, Gens
  <2>2. CASE permits[1] > 0 /\ waiters[1] # <<>>
    <3> DEFINE head == Head(waiters[1])
    <3>1. head \in Jobs /\ job[head] = "waiting"
      BY <1>0, <2>2, HeadWaits DEF Gens
    <3>2. job' = [job EXCEPT ![j] = "running", ![head] = "granted"]
      BY <1>5, <2>1, <2>2 DEF Wake, PassesOn
    <3>3. head \in asking /\ asking' = asking \ {head} /\ Holders' = Holders \cup {head}
      BY <1>0, <2>1, <3>1, <3>2 DEF Holders, In
    <3> QED BY <1>c, <2>1, <2>2, <3>1, <3>3, FreePermit
  <2>3. CASE ~(permits[1] > 0 /\ waiters[1] # <<>>)
    <3>1. asking' = asking /\ Holders' = Holders
      BY <1>0, <1>5, <2>1, <2>3 DEF Wake, PassesOn, Holders, In
    <3> QED BY <1>a, <3>1
  <2> QED BY <2>2, <2>3
<1>6. ASSUME NEW j \in Jobs, Release(j) PROVE Pool!Next
  <2>0. j \in Holders
    BY <1>6 DEF Release, LeftRunning, Holders, In
  <2>1. CASE waiters[gen] # <<>>
    <3> DEFINE head == Head(waiters[gen])
    <3>1. head \in Jobs /\ job[head] = "waiting"
      BY <1>0, <2>1, HeadWaits
    <3>2. job' = [job EXCEPT ![j] = "done", ![head] = "granted"] /\ job[j] = "running"
      BY <1>6, <2>1 DEF Release, LeftRunning
    <3>3. /\ head \in asking /\ asking' = asking \ {head}
          /\ Holders' = (Holders \ {j}) \cup {head}
      BY <1>0, <3>1, <3>2 DEF Holders, In
    <3> QED BY <2>0, <3>1, <3>3 DEF Pool!Next, Pool!HandOver
  <2>2. CASE waiters[gen] = <<>>
    <3>1. asking' = asking /\ Holders' = Holders \ {j}
      BY <1>0, <1>6, <2>2 DEF Release, LeftRunning, Holders, In
    <3> QED BY <2>0, <3>1 DEF Pool!Next, Pool!Give
  <2> QED BY <2>1, <2>2
<1>7. CASE ResetRuntimeState
  <2>1. asking' = asking /\ Holders' = Holders
    BY <1>7 DEF ResetRuntimeState, Holders, In
  <2> QED BY <1>a, <2>1
<1> QED BY <1>1, <1>2, <1>3, <1>4, <1>5, <1>6, <1>7 DEF Next

\* The guard of a server that redrives nothing at startup implements the
\* abstract slot pool: every job that asks takes a slot only while one is free
\* or is handed one that is given back in the same step.
THEOREM ConcurrencyManagerRefinesSlotPool ==
  ASSUME Redriven = {} PROVE Spec => ImplementsSlotPool
<1>1. Init => Pool!Init
  BY DEF Init, Pool!Init, Holders, In
<1>2. SlotInv /\ Quiet /\ [Next]_vars => [Pool!Next]_(Pool!vars)
  BY PoolStep
<1> QED BY <1>1, <1>2, QuietInv, PTL DEF Spec, ImplementsSlotPool, Pool!Spec
=============================================================================
