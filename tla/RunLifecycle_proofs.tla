------------------------ MODULE RunLifecycle_proofs ------------------------
(***************************************************************************)
(* Theorems about RunLifecycle for every way to converse, every choice of  *)
(* faults and situations and any bounds.                                   *)
(***************************************************************************)
EXTENDS RunLifecycle, FiniteSetTheorems, SequenceTheorems, TLAPS

Resumers == Timers \cup Clients
Owning == {"claim", "materialize", "check", "prepare", "recheck", "launch", "engine",
           "ended", "resolve", "repair", "killed"}
Owners == {w \in Workers : pc[w] \in Owning}
Issuing == {t \in Resumers : pc[t] = "issue"}
Deciding == {t \in Resumers : pc[t] = "decide"}
Requeuing == {w \in Workers : pc[w] = "autoresume"}
\* Who has a question in hand that may become a ticket.
Minded == Issuing \cup Deciding \cup Requeuing
\* Workers that may still ask, or have asked and not yet let go.
Asking(w) == pc[w] = "resolve" \/ (pc[w] = "ended" /\ ~flagged)
Closing == {w \in Workers : Asking(w) \/ pc[w] \in {"arm", "autoresume"}}
\* Workers of the first attempt, which have no ticket.
Unstarted == {w \in Workers : pc[w] \in {"new", "ticket"} /\ tid[w] = 0}

(***************************************************************************)
(* The right to the next turn is one token.  It is with the first job, an  *)
(* owner, an open question, a resumer about to issue a ticket, or a ticket *)
(* not yet started, and passes from one to the next:                       *)
(***************************************************************************)
FirstJob ==
  \A w \in Unstarted :
    /\ w = <<"worker", 1>> /\ num[w] = 1 /\ ticket.id = 0
    /\ Owners = {} /\ Minded = {} /\ Pending = {}
OwnerAlone ==
  /\ \A v, w \in Owners : v = w
  /\ Owners # {} => Pending = {} /\ ~Redrivable /\ \A t \in Issuing : SameTicket(t)
  /\ \A w \in Owners : num[w] >= 1 /\ ticket.target <= num[w]
OneQuestion ==
  /\ \A a, b \in Pending : a = b
  /\ \A a \in Pending : /\ ticket.target <= a /\ Issuing = {}
                        /\ \A t \in Minded : num[t] = a
TicketAlone == Redrivable => Pending = {} /\ \A t \in Issuing : SameTicket(t)

\* Those who have a question in hand have the same one.  It was answered by
\* the kind of resumer that issues its ticket; once it is, they find it.
OneMind ==
  /\ \A s, t \in Minded : num[s] = num[t]
  /\ \A t \in Minded : num[t] \in Attempts /\ inter[num[t]].state # "absent"
  /\ \A t \in Issuing :
       /\ inter[num[t]].by = t[1] /\ inter[num[t]].state # "pending"
       /\ SameTicket(t) \/ ticket.target <= num[t]
  /\ \A t \in Deciding \cup Requeuing :
       inter[num[t]].state # "pending" /\ Issuing = {} =>
         ticket.by = inter[num[t]].by /\ ticket.target = num[t] + 1

\* An attempt that may still ask meets nobody with an older question in hand:
\* they were done before its engine exited.
AskerAlone ==
  /\ \A v, w \in Closing : v = w
  /\ \A w \in Workers : Asking(w) => Minded = {}
  /\ \A w \in Closing :
       num[w] \in Attempts => pc[<<"timer", num[w]>>] \notin {"look", "decide", "issue"}

Tickets ==
  /\ \A t \in Tasks : tid[t] <= ticket.id
  /\ ticket.id = 0 => ticket.state = "none" /\ ticket.target = 0 /\ ticket.by = "none"
  /\ ticket.id > 0 => ticket.state # "none" /\ ticket.target \in 2..MaxAttempt
  /\ \A w \in Workers : pc[w] \in {"new", "ticket"} /\ tid[w] = ticket.id /\ ticket.id > 0
                          => num[w] = ticket.target
  /\ \A t \in Resumers : pc[t] = "dispatch" /\ tid[t] = ticket.id
                           => ticket.id > 0 /\ num[t] + 1 = ticket.target
Questions == \A a \in Attempts : inter[a].state # "absent" => a < MaxAttempt
Servers ==
  /\ mode # "up" => \A t \in Tasks \ {recovery} : pc[t] \in {"idle", "done"}
  /\ mode = "down" => crashes > 0
  /\ \A t \in Cancellers : pc[t] = "kill" => flagged
  /\ pc[recovery] = "clear" => mode = "recovering"

\* A new worker is started by a ticket dispatched, by a poll, or by a restart:
\* there is one left.
Dispatched ==
  IF ticket.id = 0 THEN 0
  ELSE IF ticket.state = "issued" THEN ticket.target - 2 ELSE ticket.target - 1
Polled == {i \in 1..Polls : pc[<<"poll", i>>] = "done"}
Restarted == IF mode = "down" THEN crashes - 1 ELSE crashes
WorkersCounted ==
  Cardinality(Spawned) <= 1 + Dispatched + Cardinality(Polled) + Restarted

Core ==
  /\ FirstJob /\ OwnerAlone /\ OneQuestion /\ TicketAlone /\ OneMind /\ AskerAlone
  /\ Tickets /\ Questions
Token == Core /\ Servers /\ WorkersCounted

-----------------------------------------------------------------------------
(* Tasks *)

LEMMA Bounds ==
  MaxAttempt \in Nat \ {0} /\ MaxRepairs \in Nat /\ Polls \in Nat /\ MaxCrashes \in Nat
  BY BoundsAssumption

\* Tasks of different kinds are different.
LEMMA Kinds ==
  /\ \A t \in Workers : t[1] = "worker"
  /\ \A t \in Timers : t[1] = "timer" /\ t[2] \in Attempts /\ t = <<"timer", t[2]>>
  /\ \A t \in Clients : t[1] = "reply"
  /\ \A t \in Pollers : t[1] = "poll" /\ t[2] \in 1..Polls /\ t = <<"poll", t[2]>>
  /\ \A t \in Cancellers : t[1] = "cancel"
  /\ recovery[1] = "recovery"
  BY DEF Workers, Timers, Clients, Pollers, Cancellers, recovery

LEMMA Disjoint ==
  /\ Workers \subseteq Tasks /\ Resumers \subseteq Tasks /\ Timers \subseteq Resumers
  /\ Pollers \subseteq Tasks /\ Cancellers \subseteq Tasks /\ recovery \in Tasks
  /\ Workers \cap Resumers = {} /\ Workers \cap Pollers = {} /\ Workers \cap Cancellers = {}
  /\ Resumers \cap Pollers = {} /\ Resumers \cap Cancellers = {} /\ Pollers \cap Cancellers = {}
  /\ recovery \notin Workers \cup Resumers \cup Pollers \cup Cancellers
  BY Kinds DEF Tasks, Resumers

\* The kinds of resumers are the causes of a ticket.
LEMMA Causes == \A t \in Resumers : t[1] \in {"timer", "reply"}
  BY Kinds DEF Resumers

LEMMA FirstWorker == <<"worker", 1>> \in Workers
  BY Bounds DEF Workers

\* Each arrival is of a task of its kind.
LEMMA Arrivals ==
  ASSUME NEW t, Arrival(t)
  PROVE  \/ t \in Resumers /\ ReplyArrives(t)
         \/ t \in Pollers /\ PollReadsQueued(t)
         \/ t \in Cancellers /\ CancelArrives(t)
  BY DEF Arrival, ReplyArrives, PollReadsQueued, CancelArrives, Resumers

LEMMA ManyWorkers ==
  IsFiniteSet(Workers) /\ Cardinality(Workers) = MaxAttempt + Polls + MaxCrashes + 1
<1> DEFINE N == MaxAttempt + Polls + MaxCrashes + 1
           f == [i \in 1..N |-> <<"worker", i>>]
<1>1. N \in Nat
  BY Bounds
<1>2. IsFiniteSet(1..N) /\ Cardinality(1..N) = N
  BY <1>1, FS_Interval
<1>3. f \in Bijection(1..N, Workers)
  BY DEF Workers, Bijection, Injection, Surjection, IsInjective
<1> QED BY <1>2, <1>3, FS_Bijection DEF ExistsBijection

-----------------------------------------------------------------------------
(* Types *)

Todo == Seq(Writes)

LEMMA ProjectionType ==
  /\ \A s \in Statuses : <<Put("row", s)>> \in Todo /\ <<Put("state", s)>> \in Todo
  /\ \A s \in Statuses : NonTerminalProjection(s) \in Todo
  /\ \A s \in Terminal : TerminalProjection(s) \in Todo
<1>1. \A s \in Statuses : Put("row", s) \in Writes /\ Put("state", s) \in Writes
  BY DEF Put, Writes
<1>2. \A s \in Terminal : Put("result", s) \in Writes /\ s \in Statuses
  BY DEF Put, Writes, Statuses
<1>3. \A s \in Statuses : NonTerminalProjection(s) \in Todo
  BY <1>1 DEF NonTerminalProjection, Todo
<1>4. \A s \in Terminal : TerminalProjection(s) \in Todo
  BY <1>2, <1>3, ConcatProperties DEF TerminalProjection, Todo
<1> QED BY <1>1, <1>3, <1>4 DEF Todo

LEMMA LongProjectionType ==
  /\ \A s \in Statuses : NonTerminalProjection(s) \o <<Put("row", s)>> \in Todo
  /\ \A s \in Terminal : TerminalProjection(s) \o <<Put("row", s)>> \in Todo
  BY ProjectionType, ConcatProperties DEF Todo, Statuses

\* The step of a task that leaves the server as it is.
LEMMA TaskType ==
  ASSUME TypeOK, NEW t \in Tasks, NEW step \in Steps, NEW writes \in Todo,
         pc' = [pc EXCEPT ![t] = step], todo' \in {todo, [todo EXCEPT ![t] = writes]}
  PROVE  pc' \in [Tasks -> Steps] /\ todo' \in [Tasks -> Seq(Writes)]
<1>1. pc' \in [Tasks -> Steps]
  BY DEF TypeOK
<1>2. todo \in [Tasks -> Seq(Writes)] /\ writes \in Seq(Writes)
  BY DEF TypeOK, Todo
<1>3. [todo EXCEPT ![t] = writes] \in [Tasks -> Seq(Writes)]
  BY <1>2
<1> QED BY <1>1, <1>2, <1>3

\* The latest pending interaction is the only one.
LEMMA LatestPending == OneQuestion /\ Pending # {} => Max(Pending) \in Pending
<1> SUFFICES ASSUME OneQuestion, Pending # {} PROVE Max(Pending) \in Pending
  OBVIOUS
<1>1. PICK a \in Pending : Pending = {a}
  BY DEF OneQuestion
<1>2. a >= a
  BY DEF Pending, Attempts
<1> QED BY <1>1, <1>2 DEF Max

LEMMA SpawnType ==
  ASSUME TypeOK, NEW attempt \in Nat, NEW id \in Nat, Spawn(attempt, id)
  PROVE  num' \in [Tasks -> Nat] /\ tid' \in [Tasks -> Nat]
  BY DEF Spawn, TypeOK

LEMMA NoWrites == <<>> \in Todo
  BY DEF Todo

LEMMA StepNames == ASSUME NEW s \in {
   "idle", "new", "ticket", "claim", "materialize", "check", "prepare", "recheck", "launch",
   "engine", "ended", "resolve", "repair", "killed", "bundle", "arm", "autoresume",
   "armed", "look", "decide", "issue", "dispatch", "redrive",
   "flag", "flag_kill", "kill", "project", "clear", "done"} PROVE s \in Steps
  BY DEF Steps

LEMMA WriteType == ASSUME TypeOK, NEW t \in Tasks, Write(t) PROVE TypeOK'
<1>1. todo[t] \in Seq(Writes) /\ todo[t] # <<>>
  BY DEF Write, TypeOK
<1>2. Head(todo[t]) \in Writes /\ Tail(todo[t]) \in Seq(Writes)
  BY <1>1, HeadTailProperties
<1>3. todo' \in [Tasks -> Seq(Writes)]
  BY <1>2 DEF Write, TypeOK
<1>4. store' \in [state : Statuses, row : Statuses, result : Terminal \cup {"none"}]
  <2> DEFINE h == Head(todo[t])
  <2>1. store' = [store EXCEPT ![h.to] = h.status]
    BY DEF Write
  <2>2. h \in Writes
    BY <1>2
  <2> HIDE DEF h
  <2>3. CASE h.to = "state" /\ h.status \in Statuses
    BY <2>1, <2>3 DEF TypeOK
  <2>4. CASE h.to = "row" /\ h.status \in Statuses
    BY <2>1, <2>4 DEF TypeOK
  <2>5. CASE h.to = "result" /\ h.status \in Terminal
    BY <2>1, <2>5 DEF TypeOK
  <2> QED BY <2>2, <2>3, <2>4, <2>5 DEF Writes
<1> QED BY <1>3, <1>4 DEF Write, TypeOK, data, steady, server

\* What a worker does, but for its spawning and its writes.
LEMMA WorkerType ==
  ASSUME TypeOK, NEW w \in Workers, WorkerStep(w) \/ RejectRun(w) \/ AuditFails(w)
  PROVE  TypeOK'
<1>0. w \in Tasks
  BY Disjoint
<1>1. \A s \in Terminal : TerminalProjection(s) \o <<Put("row", s)>> \in Todo
  BY LongProjectionType
<1>2. ASSUME NEW s \in Terminal, Finish(w, s)
      PROVE  pc' \in [Tasks -> Steps] /\ todo' \in [Tasks -> Seq(Writes)]
  BY <1>0, <1>1, <1>2, TaskType DEF Finish, GotoOwing, Goto, Steps
<1>3. ASSUME NEW s \in Steps, NEW writes \in Todo, GotoOwing(w, s, writes)
      PROVE  pc' \in [Tasks -> Steps] /\ todo' \in [Tasks -> Seq(Writes)]
  BY <1>0, <1>3, TaskType DEF GotoOwing, Goto
<1>4. ASSUME NEW s \in Steps, Goto(w, s), UNCHANGED todo
      PROVE  pc' \in [Tasks -> Steps] /\ todo' \in [Tasks -> Seq(Writes)]
  BY <1>0, <1>4, TaskType, NoWrites DEF Goto
<1>5. ASSUME Admit(w) \/ RejectRun(w) \/ AuditFails(w) PROVE TypeOK'
  <2>1. pc' \in [Tasks -> Steps] /\ todo' \in [Tasks -> Seq(Writes)]
    BY <1>4, <1>5 DEF Admit, RejectRun, AuditFails, Steps
  <2> QED BY <1>5, <2>1 DEF Admit, RejectRun, AuditFails, TypeOK, data, steady, server
<1>6. ASSUME StartTicket(w) PROVE TypeOK'
  <2>1. pc' \in [Tasks -> Steps] /\ todo' \in [Tasks -> Seq(Writes)]
    BY <1>4, <1>6 DEF StartTicket, Steps
  <2>2. ticket' = ticket \/ ticket' = [ticket EXCEPT !.state = "started"]
    BY <1>6 DEF StartTicket
  <2> QED BY <1>6, <2>1, <2>2 DEF StartTicket, TypeOK, steady, server
<1>7. ASSUME AdvancePhase(w) PROVE TypeOK'
  <2>1. <<Put("state", store.state)>> \in Todo
    BY ProjectionType DEF TypeOK
  <2>2. pc' \in [Tasks -> Steps] /\ todo' \in [Tasks -> Seq(Writes)]
    BY <1>3, <1>7, <2>1 DEF AdvancePhase, GotoOwing, Steps
  <2> QED BY <1>7, <2>2 DEF AdvancePhase, TypeOK, data, steady, server
<1>8. ASSUME CheckCancel(w) PROVE TypeOK'
  <2>1. NonTerminalProjection("running") \in Todo /\ "canceled" \in Terminal
    BY ProjectionType DEF Statuses, Terminal
  <2>2. pc' \in [Tasks -> Steps] /\ todo' \in [Tasks -> Seq(Writes)]
    BY <1>2, <1>3, <1>4, <1>8, <2>1 DEF CheckCancel, Steps
  <2> QED BY <1>8, <2>2 DEF CheckCancel, TypeOK, data, steady, server
<1>9. ASSUME Prepare(w) PROVE TypeOK'
  <2>1. pc' \in [Tasks -> Steps] /\ todo' \in [Tasks -> Seq(Writes)]
    BY <1>2, <1>4, <1>9 DEF Prepare, Steps, Terminal
  <2>2. inter' \in [Attempts -> [state : {"absent", "pending", "answered", "consumed"},
                                 by : {"none", "timer", "reply"}]]
    <3> DEFINE i == num[w] - 1
    <3>1. \/ inter' = inter
          \/ inter' = [inter EXCEPT ![i] = [inter[i] EXCEPT !.state = Consumed(inter[i].state)]]
      BY <1>9 DEF Prepare
    <3> HIDE DEF i
    <3>2. \A s \in {"absent", "pending", "answered", "consumed"} :
            Consumed(s) \in {"absent", "pending", "answered", "consumed"}
      BY DEF Consumed
    <3> DEFINE r == [inter[i] EXCEPT !.state = Consumed(inter[i].state)]
               Inters == [state : {"absent", "pending", "answered", "consumed"},
                          by : {"none", "timer", "reply"}]
    <3>3. inter \in [Attempts -> Inters]
      BY DEF TypeOK
    <3>4. i \in Attempts => r \in Inters
      BY <3>2, <3>3
    <3>5. inter' = inter \/ inter' = [inter EXCEPT ![i] = r]
      BY <3>1
    <3> HIDE DEF r, Inters
    <3>6. inter' \in [Attempts -> Inters]
      BY <3>3, <3>4, <3>5
    <3> QED BY <3>6 DEF Inters
  <2> QED BY <1>9, <2>1, <2>2 DEF Prepare, TypeOK, steady, server
<1>10. ASSUME Launch(w) PROVE TypeOK'
  <2>1. pc' \in [Tasks -> Steps] /\ todo' \in [Tasks -> Seq(Writes)]
    BY <1>4, <1>10 DEF Launch, Steps
  <2>2. turns' \in Seq(Nat)
    BY <1>0, <1>10 DEF Launch, TypeOK
  <2> QED BY <1>10, <2>1, <2>2 DEF Launch, TypeOK, data, steady, server
<1>11. ASSUME EngineExit(w) PROVE TypeOK'
  <2>1. pc' \in [Tasks -> Steps] /\ todo' \in [Tasks -> Seq(Writes)]
    BY <1>4, <1>11 DEF EngineExit, Steps
  <2>2. handle' \in BOOLEAN
    BY <1>11 DEF EngineExit, TypeOK
  <2> QED BY <1>11, <2>1, <2>2 DEF EngineExit, TypeOK, steady, server
<1>12. ASSUME RepairRound(w) PROVE TypeOK'
  <2>1. pc' \in [Tasks -> Steps] /\ todo' \in [Tasks -> Seq(Writes)]
    BY <1>4, <1>12 DEF RepairRound, Steps
  <2>2. round' \in [Workers -> 0..MaxRepairs]
    BY <1>12, Bounds DEF RepairRound, MayRepair, TypeOK
  <2> QED BY <1>12, <2>1, <2>2 DEF RepairRound, TypeOK, data, server
<1>13. ASSUME Converged(w)
       PROVE  round' \in [Workers -> 0..MaxRepairs] /\ UNCHANGED server
  BY <1>13, Bounds DEF Converged, TypeOK
<1>14. ASSUME TurnFailed(w) \/ TurnSucceeded(w) PROVE TypeOK'
  <2>1. TerminalProjection("succeeded") \o <<Put("row", "succeeded")>> \in Todo
    BY <1>1 DEF Terminal
  <2>2. pc' \in [Tasks -> Steps] /\ todo' \in [Tasks -> Seq(Writes)]
    BY <1>2, <1>3, <1>4, <1>14, <2>1 DEF TurnFailed, TurnSucceeded, Steps, Terminal
  <2>3. Converged(w) /\ UNCHANGED <<store, data, turns, num, tid>>
    BY <1>14 DEF TurnFailed, TurnSucceeded
  <2> QED BY <1>13, <2>2, <2>3 DEF TypeOK, data, server
<1>15. ASSUME TurnAsks(w) PROVE TypeOK'
  <2>1. /\ NonTerminalProjection("waiting_user") \in Todo
        /\ NonTerminalProjection("queued") \o <<Put("row", "queued")>> \in Todo
    BY ProjectionType, LongProjectionType DEF Statuses
  <2>2. pc' \in [Tasks -> Steps] /\ todo' \in [Tasks -> Seq(Writes)]
    BY <1>2, <1>3, <1>15, <2>1 DEF TurnAsks, Steps, Terminal
  <2>3. /\ inter' = [inter EXCEPT ![num[w]] = [state |-> "pending", by |-> "none"]]
        /\ Converged(w) /\ UNCHANGED <<store, flagged, ticket, handle, turns, num, tid>>
    BY <1>15 DEF TurnAsks
  <2>4. inter' \in [Attempts -> [state : {"absent", "pending", "answered", "consumed"},
                                 by : {"none", "timer", "reply"}]]
    BY <2>3 DEF TypeOK
  <2> QED BY <1>13, <2>2, <2>3, <2>4 DEF TypeOK, server
<1>16. ASSUME FinishWaiting(w) PROVE TypeOK'
  <2>1. NonTerminalProjection("waiting_user") \o <<Put("row", "waiting_user")>> \in Todo
    BY LongProjectionType DEF Statuses
  <2>2. pc' \in [Tasks -> Steps]
    BY <1>16 DEF FinishWaiting, TypeOK, Steps
  <2>3. todo' \in [Tasks -> Seq(Writes)]
    BY <1>16, <2>1 DEF FinishWaiting, TypeOK, Todo
  <2> QED BY <1>16, <2>2, <2>3 DEF FinishWaiting, TypeOK, data, steady, server
<1>17. ASSUME FinishRequeued(w) PROVE TypeOK'
  <2>1. pc' \in [Tasks -> Steps] /\ num' \in [Tasks -> Nat]
    BY <1>0, <1>17 DEF FinishRequeued, TypeOK, Steps
  <2> QED BY <1>17, <2>1 DEF FinishRequeued, TypeOK, data, steady, server
<1> QED
  BY <1>5, <1>6, <1>7, <1>8, <1>9, <1>10, <1>11, <1>12, <1>14, <1>15, <1>16, <1>17
     DEF WorkerStep

LEMMA ResumerType ==
  ASSUME TypeOK, OneQuestion, NEW t \in Resumers,
         TimerFires(t) \/ ReplyArrives(t) \/ LookUpPending(t) \/ SubmitReply(t)
           \/ IssueTicket(t) \/ DispatchTicket(t)
  PROVE  TypeOK'
<1>0. t \in Tasks /\ t[1] \in {"timer", "reply"}
  BY Disjoint, Causes
<1>1. ASSUME NEW s \in Steps, NEW writes \in Todo, GotoOwing(t, s, writes)
      PROVE  pc' \in [Tasks -> Steps] /\ todo' \in [Tasks -> Seq(Writes)]
  BY <1>0, <1>1, TaskType DEF GotoOwing, Goto
<1>2. ASSUME NEW s \in Steps, Goto(t, s), UNCHANGED todo
      PROVE  pc' \in [Tasks -> Steps] /\ todo' \in [Tasks -> Seq(Writes)]
  BY <1>0, <1>2, TaskType, NoWrites DEF Goto
<1>3. ASSUME TimerFires(t) \/ ReplyArrives(t) PROVE TypeOK'
  <2>1. pc' \in [Tasks -> Steps] /\ todo' \in [Tasks -> Seq(Writes)]
    BY <1>2, <1>3 DEF TimerFires, ReplyArrives, Steps
  <2> QED BY <1>3, <2>1 DEF TimerFires, ReplyArrives, TypeOK, data, steady, server
<1>4. ASSUME LookUpPending(t) PROVE TypeOK'
  <2>1. pc' \in [Tasks -> Steps] /\ todo' \in [Tasks -> Seq(Writes)]
    BY <1>2, <1>4 DEF LookUpPending, Steps
  <2>2. num' \in [Tasks -> Nat]
    BY <1>4, LatestPending DEF LookUpPending, TypeOK, Attempts, Pending
  <2> QED BY <1>4, <2>1, <2>2 DEF LookUpPending, TypeOK, data, steady, server
<1>5. ASSUME SubmitReply(t) PROVE TypeOK'
  <2>1. <<Put("row", "queued")>> \in Todo
    BY ProjectionType DEF Statuses
  <2>2. NonTerminalProjection("queued") \o <<Put("row", "queued")>> \in Todo
    BY LongProjectionType DEF Statuses
  <2>3. pc' \in [Tasks -> Steps] /\ todo' \in [Tasks -> Seq(Writes)]
    BY <1>1, <1>2, <1>5, <2>1, <2>2 DEF SubmitReply, Steps
  <2>4. inter' \in [Attempts -> [state : {"absent", "pending", "answered", "consumed"},
                                 by : {"none", "timer", "reply"}]]
    BY <1>0, <1>5 DEF SubmitReply, TypeOK
  <2> QED BY <1>5, <2>3, <2>4 DEF SubmitReply, TypeOK, steady, server
<1>6. ASSUME IssueTicket(t) PROVE TypeOK'
  <2>1. NonTerminalProjection("queued") \in Todo
    BY ProjectionType DEF Statuses
  <2>2. pc' \in [Tasks -> Steps] /\ todo' \in [Tasks -> Seq(Writes)]
    BY <1>1, <1>6, <2>1 DEF IssueTicket, Steps
  <2>3. ticket' \in [id : Nat, by : {"none", "timer", "reply"}, target : Nat,
                     state : {"none", "issued", "dispatched", "started"}]
    BY <1>0, <1>6 DEF IssueTicket, TypeOK
  <2>4. tid' \in [Tasks -> Nat]
    BY <1>6, <2>3 DEF IssueTicket, TypeOK
  <2> QED BY <1>6, <2>2, <2>3, <2>4 DEF IssueTicket, TypeOK, steady, server
<1>7. ASSUME DispatchTicket(t) PROVE TypeOK'
  <2>1. pc' \in [Tasks -> Steps]
    BY <1>0, <1>7 DEF DispatchTicket, Goto, TypeOK, Steps
  <2>2. num' \in [Tasks -> Nat] /\ tid' \in [Tasks -> Nat]
    <3>1. num[t] + 1 \in Nat /\ tid[t] \in Nat
      BY <1>0 DEF TypeOK
    <3>2. Spawn(num[t] + 1, tid[t]) \/ UNCHANGED <<num, tid>>
      BY <1>7 DEF DispatchTicket
    <3> QED BY <3>1, <3>2, SpawnType DEF TypeOK
  <2>3. ticket' \in {ticket, [ticket EXCEPT !.state = "dispatched"]}
    BY <1>7 DEF DispatchTicket
  <2> QED BY <1>7, <2>1, <2>2, <2>3 DEF DispatchTicket, TypeOK, steady, server
<1> QED BY <1>3, <1>4, <1>5, <1>6, <1>7

LEMMA TypeStep == TypeOK /\ OneQuestion /\ [Next]_vars => TypeOK'
<1> SUFFICES ASSUME TypeOK, OneQuestion, [Next]_vars PROVE TypeOK'
  OBVIOUS
<1>1. ASSUME NEW t \in Pollers, PollReadsQueued(t) \/ Redrive(t) PROVE TypeOK'
  <2>1. pc' \in [Tasks -> Steps]
    BY <1>1 DEF PollReadsQueued, Redrive, Goto, TypeOK, Steps
  <2>2. num' \in [Tasks -> Nat] /\ tid' \in [Tasks -> Nat]
    <3>1. ticket.target \in Nat /\ ticket.id \in Nat
      BY DEF TypeOK
    <3>2. Spawn(ticket.target, ticket.id) \/ UNCHANGED <<num, tid>>
      BY <1>1 DEF PollReadsQueued, Redrive
    <3> QED BY <3>1, <3>2, SpawnType DEF TypeOK
  <2> QED BY <1>1, <2>1, <2>2 DEF PollReadsQueued, Redrive, TypeOK, data, steady, server
<1>2. ASSUME NEW t \in Cancellers,
             CancelArrives(t) \/ SetCancelRequested(t) \/ Kill(t) \/ ProjectCanceled(t)
      PROVE  TypeOK'
  <2>1. TerminalProjection("canceled") \o <<Put("row", "canceled")>> \in Todo
    BY LongProjectionType DEF Terminal
  <2>2. pc' \in [Tasks -> Steps]
    BY <1>2 DEF CancelArrives, SetCancelRequested, Kill, ProjectCanceled, Finish, GotoOwing,
                Goto, TypeOK, Steps
  <2>3. \/ UNCHANGED todo
        \/ todo' = [todo EXCEPT ![t] = TerminalProjection("canceled") \o <<Put("row", "canceled")>>]
    BY <1>2 DEF CancelArrives, SetCancelRequested, Kill, ProjectCanceled, Finish, GotoOwing
  <2>4. todo' \in [Tasks -> Seq(Writes)]
    BY <2>1, <2>3 DEF TypeOK, Todo
  <2>5. flagged' \in BOOLEAN
    BY <1>2 DEF CancelArrives, SetCancelRequested, Kill, ProjectCanceled, TypeOK, data
  <2>6. UNCHANGED <<store, inter, ticket, handle, steady, turns, num, tid>>
    BY <1>2 DEF CancelArrives, SetCancelRequested, Kill, ProjectCanceled, data
  <2> QED BY <2>2, <2>4, <2>5, <2>6 DEF TypeOK, steady, server
<1>3. CASE Crash
  <2>1. pc' \in [Tasks -> Steps]
    BY <1>3 DEF Crash, TypeOK, Steps
  <2>2. todo' \in [Tasks -> Seq(Writes)]
    BY <1>3, NoWrites DEF Crash, Todo
  <2>3. crashes' \in 0..MaxCrashes
    BY <1>3, Bounds DEF Crash, TypeOK
  <2> QED BY <1>3, <2>1, <2>2, <2>3 DEF Crash, TypeOK, data
<1>4. CASE Restart
  <2>1. pc' \in [Tasks -> Steps]
    BY <1>4 DEF Restart, GotoOwing, Goto, TypeOK, Steps
  <2>2. num' \in [Tasks -> Nat] /\ tid' \in [Tasks -> Nat]
    <3>1. ticket.target \in Nat /\ ticket.id \in Nat
      BY DEF TypeOK
    <3>2. Spawn(ticket.target, ticket.id) \/ UNCHANGED <<num, tid>>
      BY <1>4 DEF Restart
    <3> QED BY <3>1, <3>2, SpawnType DEF TypeOK
  <2>3. TerminalProjection("failed") \o <<Put("row", "failed")>> \in Todo
    BY LongProjectionType DEF Terminal
  <2>4. \/ UNCHANGED todo
        \/ todo' = [todo EXCEPT ![recovery] =
                      TerminalProjection("failed") \o <<Put("row", "failed")>>]
    BY <1>4 DEF Restart, GotoOwing
  <2>5. todo' \in [Tasks -> Seq(Writes)]
    BY <2>3, <2>4 DEF TypeOK, Todo
  <2>6. /\ mode' \in {"up", "recovering"}
        /\ UNCHANGED <<conversation, situation, store, data, crashes, turns, round>>
    BY <1>4 DEF Restart
  <2> QED BY <2>1, <2>2, <2>5, <2>6 DEF TypeOK, data
<1>5. CASE ClearBindings
  <2>1. pc' \in [Tasks -> Steps]
    BY <1>5 DEF ClearBindings, Goto, TypeOK, Steps
  <2>2. inter' \in [Attempts -> [state : {"absent", "pending", "answered", "consumed"},
                                 by : {"none", "timer", "reply"}]]
    <3> DEFINE Inters == [state : {"absent", "pending", "answered", "consumed"},
                          by : {"none", "timer", "reply"}]
    <3>1. inter' = [a \in Attempts |-> IF a \in Pending
                                          THEN [inter[a] EXCEPT !.state = "consumed"]
                                          ELSE inter[a]]
      BY <1>5 DEF ClearBindings
    <3>2. ASSUME NEW a \in Attempts
          PROVE  inter[a] \in Inters /\ [inter[a] EXCEPT !.state = "consumed"] \in Inters
      BY DEF TypeOK
    <3> HIDE DEF Inters
    <3>3. inter' \in [Attempts -> Inters]
      BY <3>1, <3>2
    <3> QED BY <3>3 DEF Inters
  <2> QED BY <1>5, <2>1, <2>2 DEF ClearBindings, TypeOK
<1>6. CASE UNCHANGED vars
  BY <1>6 DEF vars, TypeOK
<1>7. ASSUME NEW t \in Tasks, Step(t) \/ Arrival(t) PROVE TypeOK'
  BY <1>1, <1>2, <1>7, WriteType, WorkerType, ResumerType, Arrivals DEF Step, Resumers
<1> QED BY <1>3, <1>4, <1>5, <1>6, <1>7 DEF Next

-----------------------------------------------------------------------------
(* Steps that pass no token *)

\* w has just been started with the present ticket.
StartedWithTicket(w) ==
  pc'[w] = "ticket" /\ ticket.id > 0 /\ tid'[w] = ticket.id /\ num'[w] = ticket.target

\* Nobody comes to own, to ask or to have a question in hand; what becomes
\* of an interaction is not seen from outside, or nobody is there to see it.
Calm ==
  /\ flagged => flagged'
  /\ \A a \in Attempts :
       /\ inter'[a].by = inter[a].by
       /\ inter'[a].state = "pending" => inter[a].state = "pending"
       /\ inter[a].state = "pending" => inter'[a].state = "pending" \/ Minded' = {}
       /\ inter'[a].state = "absent" <=> inter[a].state = "absent"
  /\ ticket'.id = ticket.id /\ ticket'.by = ticket.by /\ ticket'.target = ticket.target
  /\ \/ ticket'.state = ticket.state
     \/ ticket.state = "issued" /\ ticket'.state = "dispatched"
  /\ \A t \in Tasks :
       UNCHANGED <<num[t], tid[t]>> \/ (t \in Workers /\ StartedWithTicket(t))
  /\ \A w \in Workers :
       /\ pc'[w] \in {"new", "ticket"} => pc[w] \in {"new", "ticket"} \/ StartedWithTicket(w)
       /\ pc'[w] \in Owning => pc[w] \in Owning
       /\ Asking(w)' => Asking(w)
       /\ pc'[w] \in {"arm", "autoresume"} => pc[w] = pc'[w]
  /\ Issuing' = Issuing \/ Minded' = {}
  /\ \A t \in Resumers : pc'[t] \in {"decide", "dispatch"} => pc[t] = pc'[t]
  /\ \A t \in Timers :
       pc'[t] = "look" => pc[t] = "look" \/ \A w \in Closing' : num'[w] # t[2]

LEMMA CalmSets ==
  ASSUME Calm
  PROVE  /\ Owners' \subseteq Owners /\ Closing' \subseteq Closing /\ Pending' \subseteq Pending
         /\ Issuing' \subseteq Issuing /\ Deciding' \subseteq Deciding
         /\ Requeuing' \subseteq Requeuing /\ Minded' \subseteq Minded
         /\ \A t \in Owners' \cup Closing' \cup Minded' : UNCHANGED <<num[t], tid[t]>>
         /\ Redrivable' <=> Redrivable
         /\ \A t \in Minded' : SameTicket(t)' <=> SameTicket(t)
<1>1. Owners' \subseteq Owners
  BY DEF Calm, Owners
<1>2. Closing' \subseteq Closing
  BY DEF Calm, Closing
<1>3. Pending' \subseteq Pending
  BY DEF Calm, Pending
<1>4. Issuing' \subseteq Issuing
  BY DEF Calm, Minded
<1>5. Deciding' \subseteq Deciding
  BY DEF Calm, Deciding
<1>6. Requeuing' \subseteq Requeuing
  BY DEF Calm, Requeuing
<1>7. \A t \in Owners' \cup Closing' \cup Minded' : t \in Tasks /\ ~(t \in Workers /\ pc'[t] = "ticket")
  BY Disjoint DEF Owners, Closing, Minded, Issuing, Deciding, Requeuing, Owning, Asking
<1>8. \A t \in Owners' \cup Closing' \cup Minded' : UNCHANGED <<num[t], tid[t]>>
  BY <1>7 DEF Calm, StartedWithTicket
<1>9. Redrivable' <=> Redrivable
  BY DEF Calm, Redrivable
<1>10. \A t \in Minded' : SameTicket(t)' <=> SameTicket(t)
  BY <1>8 DEF Calm, SameTicket
<1> QED BY <1>1, <1>2, <1>3, <1>4, <1>5, <1>6, <1>8, <1>9, <1>10 DEF Minded

LEMMA CalmStep == ASSUME TypeOK, Core, Calm PROVE Core'
<1>0. /\ Owners' \subseteq Owners /\ Closing' \subseteq Closing /\ Pending' \subseteq Pending
      /\ Issuing' \subseteq Issuing /\ Deciding' \subseteq Deciding
      /\ Requeuing' \subseteq Requeuing /\ Minded' \subseteq Minded
      /\ \A t \in Owners' \cup Closing' \cup Minded' : UNCHANGED <<num[t], tid[t]>>
      /\ Redrivable' <=> Redrivable
      /\ \A t \in Minded' : SameTicket(t)' <=> SameTicket(t)
  BY CalmSets
<1>1. ticket'.id = ticket.id /\ ticket'.by = ticket.by /\ ticket'.target = ticket.target
  BY DEF Calm
<1>2. FirstJob'
  <2>1. \A w \in Unstarted' : w \in Unstarted /\ num'[w] = num[w]
    BY Disjoint DEF Calm, Unstarted, StartedWithTicket
  <2> QED BY <1>0, <1>1, <2>1 DEF Core, FirstJob
<1>3. OwnerAlone'
  BY <1>0, <1>1 DEF Core, OwnerAlone, Minded
<1>4. OneQuestion'
  BY <1>0, <1>1 DEF Core, OneQuestion
<1>5. TicketAlone'
  BY <1>0, <1>1 DEF Core, TicketAlone, Minded
<1>6. OneMind'
  <2>1. /\ \A s, t \in Minded' : num'[s] = num'[t]
        /\ \A t \in Minded' : num'[t] \in Attempts /\ inter'[num'[t]].state # "absent"
    BY <1>0 DEF Core, OneMind, Calm
  <2>2. \A t \in Issuing' :
          /\ inter'[num'[t]].by = t[1] /\ inter'[num'[t]].state # "pending"
          /\ SameTicket(t)' \/ ticket'.target <= num'[t]
    <3> TAKE t \in Issuing'
    <3>1. t \in Issuing /\ t \in Minded' /\ num'[t] = num[t] /\ num[t] \in Attempts
      BY <1>0 DEF Core, OneMind, Minded
    <3> QED BY <1>0, <1>1, <3>1 DEF Core, OneMind, Calm
  <2>3. \A t \in Deciding' \cup Requeuing' :
          inter'[num'[t]].state # "pending" /\ Issuing' = {} =>
            ticket'.by = inter'[num'[t]].by /\ ticket'.target = num'[t] + 1
    <3> TAKE t \in Deciding' \cup Requeuing'
    <3>1. /\ t \in Deciding \cup Requeuing /\ t \in Minded' /\ num'[t] = num[t]
          /\ num[t] \in Attempts
      BY <1>0 DEF Core, OneMind, Minded
    <3>2. Issuing' = Issuing
      BY <3>1 DEF Calm
    <3>3. inter[num[t]].state = "pending" => inter'[num'[t]].state = "pending"
      BY <3>1 DEF Calm
    <3>4. inter'[num'[t]].by = inter[num[t]].by
      BY <3>1 DEF Calm
    <3> QED BY <1>1, <3>1, <3>2, <3>3, <3>4 DEF Core, OneMind
  <2> QED BY <2>1, <2>2, <2>3 DEF OneMind
<1>7. AskerAlone'
  <2>1. \A w \in Workers : Asking(w)' => Minded' = {}
    BY <1>0 DEF Core, AskerAlone, Calm
  <2>2. ASSUME NEW w \in Closing', num'[w] \in Attempts
        PROVE  pc'[<<"timer", num'[w]>>] \notin {"look", "decide", "issue"}
    <3> DEFINE t == <<"timer", num[w]>>
    <3>1. w \in Closing /\ num'[w] = num[w] /\ num[w] \in Attempts
      BY <1>0, <2>2
    <3>2. t \in Timers /\ t \in Resumers /\ t[2] = num[w]
      BY <3>1, Disjoint DEF Timers
    <3>3. pc[t] \notin {"look", "decide", "issue"}
      BY <3>1 DEF Core, AskerAlone
    <3>4. pc'[t] # "look"
      BY <2>2, <3>1, <3>2, <3>3 DEF Calm
    <3>5. pc'[t] # "decide"
      BY <3>2, <3>3 DEF Calm
    <3>6. pc'[t] # "issue"
      BY <1>0, <3>2, <3>3 DEF Issuing
    <3> QED BY <3>1, <3>4, <3>5, <3>6
  <2> QED BY <1>0, <2>1, <2>2 DEF Core, AskerAlone
<1>8. Tickets'
  <2>1. \A t \in Tasks : tid'[t] <= ticket'.id
    <3> TAKE t \in Tasks
    <3>1. tid'[t] = tid[t] \/ tid'[t] = ticket.id
      BY DEF Calm, StartedWithTicket
    <3> QED BY <1>1, <3>1 DEF Core, Tickets, TypeOK
  <2>2. /\ ticket'.id = 0 => ticket'.state = "none" /\ ticket'.target = 0 /\ ticket'.by = "none"
        /\ ticket'.id > 0 => ticket'.state # "none" /\ ticket'.target \in 2..MaxAttempt
    BY <1>1 DEF Core, Tickets, Calm
  <2>3. ASSUME NEW w \in Workers, pc'[w] \in {"new", "ticket"}, tid'[w] = ticket.id,
               ticket.id > 0
        PROVE  num'[w] = ticket.target
    <3>1. CASE StartedWithTicket(w)
      BY <3>1 DEF StartedWithTicket
    <3>2. CASE ~StartedWithTicket(w)
      <4>1. pc[w] \in {"new", "ticket"} /\ UNCHANGED <<num[w], tid[w]>>
        BY <2>3, <3>2, Disjoint DEF Calm
      <4> QED BY <2>3, <4>1 DEF Core, Tickets
    <3> QED BY <3>1, <3>2
  <2>4. ASSUME NEW t \in Resumers, pc'[t] = "dispatch", tid'[t] = ticket.id
        PROVE  ticket.id > 0 /\ num'[t] + 1 = ticket.target
    <3>1. pc[t] = "dispatch" /\ UNCHANGED <<num[t], tid[t]>>
      BY <2>4, Disjoint DEF Calm
    <3> QED BY <2>4, <3>1 DEF Core, Tickets
  <2> QED BY <1>1, <2>1, <2>2, <2>3, <2>4 DEF Tickets
<1>9. Questions'
  BY DEF Core, Questions, Calm
<1> QED BY <1>2, <1>3, <1>4, <1>5, <1>6, <1>7, <1>8, <1>9 DEF Core

-----------------------------------------------------------------------------
(* The server and the count of workers *)

LEMMA BusyIsUp ==
  ASSUME Servers, NEW t \in Tasks \ {recovery}, pc[t] \notin {"idle", "done"} PROVE mode = "up"
  BY DEF Servers

LEMMA ServersKept ==
  ASSUME Servers, mode = "up" \/ pc' = pc, UNCHANGED <<mode, crashes>>, flagged => flagged',
         \A c \in Cancellers : pc'[c] = "kill" => pc[c] = "kill" \/ flagged',
         pc'[recovery] = pc[recovery]
  PROVE  Servers'
  BY DEF Servers

CountsTyped ==
  /\ IsFiniteSet(Spawned) /\ Cardinality(Spawned) \in Nat
  /\ IsFiniteSet(Polled) /\ Cardinality(Polled) \in 0..Polls
  /\ Dispatched \in Int /\ Restarted \in Int
LEMMA Counts == TypeOK => CountsTyped
<1> SUFFICES ASSUME TypeOK PROVE CountsTyped
  OBVIOUS
<1>1. Spawned \in SUBSET Workers /\ Polled \in SUBSET (1..Polls)
  BY DEF Spawned, Polled
<1>2. IsFiniteSet(1..Polls) /\ Cardinality(1..Polls) = Polls
  BY Bounds, FS_Interval
<1>3. IsFiniteSet(Spawned) /\ IsFiniteSet(Polled) /\ Cardinality(Polled) <= Polls
  BY <1>1, <1>2, ManyWorkers, FS_Subset
<1>4. Cardinality(Spawned) \in Nat /\ Cardinality(Polled) \in Nat
  BY <1>3, FS_CardinalityType
<1>5. Dispatched \in Int /\ Restarted \in Int
  BY Bounds DEF TypeOK, Dispatched, Restarted
<1> QED BY <1>3, <1>4, <1>5, Bounds DEF CountsTyped
LEMMA CountsNext == TypeOK' => CountsTyped'
  BY Counts, PTL

LEMMA CountKept ==
  ASSUME TypeOK, TypeOK', WorkersCounted,
         Spawned' = Spawned, Polled \subseteq Polled',
         Dispatched' >= Dispatched, Restarted' >= Restarted
  PROVE  WorkersCounted'
<1>1. /\ Cardinality(Spawned) \in Nat /\ Cardinality(Polled) \in Nat
      /\ Dispatched \in Int /\ Restarted \in Int
  BY Counts DEF CountsTyped
<1>2. /\ IsFiniteSet(Polled') /\ Cardinality(Polled') \in 0..Polls
      /\ Dispatched' \in Int /\ Restarted' \in Int
  BY CountsNext DEF CountsTyped
<1>3. Cardinality(Polled) <= Cardinality(Polled')
  BY <1>2, FS_Subset
<1> QED BY <1>1, <1>2, <1>3 DEF WorkersCounted

\* A task that was there before moves and leaves the tickets alone.
LEMMA MoveCounted ==
  ASSUME TypeOK, TypeOK', WorkersCounted,
         \A w \in Workers : pc'[w] = "idle" <=> pc[w] = "idle",
         \A i \in 1..Polls : pc[<<"poll", i>>] = "done" => pc'[<<"poll", i>>] = "done",
         Dispatched' >= Dispatched, UNCHANGED <<mode, crashes>>
  PROVE  WorkersCounted'
<1>1. Spawned' = Spawned /\ Polled \subseteq Polled'
  BY DEF Spawned, Polled
<1>2. Restarted' >= Restarted
  BY Bounds DEF Restarted, TypeOK
<1> QED BY <1>1, <1>2, CountKept

\* There is an idle worker for whoever starts one.
LEMMA NewWorkerIsIdle ==
  ASSUME TypeOK, Token PROVE NewWorker \in Workers /\ pc[NewWorker] = "idle"
<1>1. Dispatched <= MaxAttempt - 1
  BY Bounds DEF Dispatched, Token, Core, Tickets, TypeOK
<1>2. Restarted <= MaxCrashes
  BY Bounds DEF Restarted, TypeOK
<1>3. Cardinality(Spawned) < Cardinality(Workers)
  BY <1>1, <1>2, Counts, ManyWorkers, Bounds DEF Token, WorkersCounted, CountsTyped
<1>4. Spawned # Workers
  <2>1. Cardinality(Workers) \in Nat
    BY ManyWorkers, Bounds
  <2>2. ASSUME Spawned = Workers PROVE FALSE
    <3>1. Cardinality(Spawned) = Cardinality(Workers)
      BY <2>2
    <3> QED BY <1>3, <2>1, <3>1
  <2> QED BY <2>2
<1>5. \E w \in Workers : w \notin Spawned
  BY <1>4 DEF Spawned
<1> QED BY <1>5 DEF NewWorker, Spawned

-----------------------------------------------------------------------------
(* The steps that are calm *)

LEMMA WorkerCalm ==
  ASSUME TypeOK, TypeOK', Token, NEW w \in Workers, NEW s,
         pc[w] \notin {"idle", "done"},
         pc' = [pc EXCEPT ![w] = s],
         s \notin {"idle", "new", "arm", "autoresume", "ended"},
         s \in Owning => pc[w] \in Owning,
         s = "ticket" => pc[w] = "new",
         s = "resolve" => Asking(w),
         \A a \in Attempts :
           /\ inter'[a].by = inter[a].by
           /\ inter'[a].state = "pending" <=> inter[a].state = "pending"
           /\ inter'[a].state = "absent" <=> inter[a].state = "absent",
         UNCHANGED <<flagged, ticket, num, tid, mode, crashes>>
  PROVE  Token'
<1>1. pc \in [Tasks -> Steps]
  BY DEF TypeOK
<1>2. pc'[w] = s /\ \A t \in Tasks : t # w => pc'[t] = pc[t]
  BY <1>1, Disjoint
<1>3. \A t \in Resumers \cup Pollers \cup Cancellers : t \in Tasks /\ t # w
  BY Disjoint
<1>4. \A v \in Workers :
        /\ pc'[v] \in {"new", "ticket"} => pc[v] \in {"new", "ticket"}
        /\ pc'[v] \in Owning => pc[v] \in Owning
        /\ Asking(v)' => Asking(v)
        /\ pc'[v] \in {"arm", "autoresume"} => pc[v] = pc'[v]
        /\ pc'[v] = "idle" <=> pc[v] = "idle"
  BY <1>2, Disjoint DEF Asking
<1>5. Issuing' = Issuing
  BY <1>2, <1>3 DEF Issuing
<1>6. \A t \in Resumers : pc'[t] = pc[t]
  BY <1>2, <1>3
<1>7. Calm
  BY <1>4, <1>5, <1>6, Disjoint DEF Calm
<1>8. Core'
  BY <1>7, CalmStep DEF Token
<1>9. Servers'
  <2>1. mode = "up"
    BY BusyIsUp, Disjoint DEF Token
  <2>2. \A c \in Cancellers : pc'[c] = pc[c]
    BY <1>2, <1>3
  <2>3. pc'[recovery] = pc[recovery]
    BY <1>2, Disjoint
  <2> QED BY <2>1, <2>2, <2>3, ServersKept DEF Token
<1>10. WorkersCounted'
  <2>1. \A i \in 1..Polls : pc'[<<"poll", i>>] = pc[<<"poll", i>>]
    BY <1>2, <1>3 DEF Pollers
  <2>2. Dispatched' >= Dispatched
    BY Counts DEF Dispatched, CountsTyped
  <2> QED BY <1>4, <2>1, <2>2, MoveCounted DEF Token
<1> QED BY <1>8, <1>9, <1>10 DEF Token

\* Another task moves, and is not one that issues.
LEMMA OtherCalm ==
  ASSUME TypeOK, TypeOK', Token, NEW t \in Resumers \cup Pollers \cup Cancellers, NEW s,
         mode = "up", pc' = [pc EXCEPT ![t] = s],
         pc[t] \notin {"issue", "done"}, s \notin {"decide", "issue", "dispatch"},
         s = "look" => t \notin Timers \/ \A w \in Closing : num[w] # t[2],
         flagged => flagged', s = "kill" => flagged',
         UNCHANGED <<inter, ticket, num, tid, mode, crashes>>
  PROVE  Token'
<1>1. t \in Tasks /\ t \notin Workers
  BY Disjoint
<1>2. pc'[t] = s /\ \A u \in Tasks : u # t => pc'[u] = pc[u]
  BY <1>1 DEF TypeOK
<1>3. \A w \in Workers : w \in Tasks /\ pc'[w] = pc[w]
  BY <1>1, <1>2, Disjoint
<1>4. \A w \in Workers : Asking(w)' => Asking(w)
  BY <1>3 DEF Asking
<1>5. Closing' \subseteq Closing
  BY <1>3, <1>4 DEF Closing
<1>6. \A u \in Resumers : u \in Tasks
  BY Disjoint
<1>7. Issuing' = Issuing
  BY <1>2, <1>6 DEF Issuing
<1>8. \A u \in Resumers : pc'[u] \in {"decide", "dispatch"} => pc[u] = pc'[u]
  BY <1>2, <1>6
<1>9. \A u \in Timers :
        pc'[u] = "look" => pc[u] = "look" \/ \A w \in Closing' : num'[w] # u[2]
  BY <1>2, <1>5, <1>6, Disjoint
<1>10. Calm
  BY <1>3, <1>4, <1>7, <1>8, <1>9 DEF Calm
<1>11. Core'
  BY <1>10, CalmStep DEF Token
<1>12. Servers'
  <2>1. \A c \in Cancellers : pc'[c] = "kill" => pc[c] = "kill" \/ flagged'
    BY <1>2, Disjoint
  <2>2. pc'[recovery] = pc[recovery]
    BY <1>2, Disjoint
  <2> QED BY <2>1, <2>2, ServersKept DEF Token
<1>13. WorkersCounted'
  <2>1. \A i \in 1..Polls : pc[<<"poll", i>>] = "done" => pc'[<<"poll", i>>] = "done"
    <3> TAKE i \in 1..Polls
    <3>1. <<"poll", i>> \in Tasks
      BY Disjoint DEF Pollers
    <3> QED BY <1>2, <3>1
  <2>2. Dispatched' >= Dispatched
    BY Counts DEF Dispatched, CountsTyped
  <2> QED BY <1>3, <2>1, <2>2, MoveCounted DEF Token
<1> QED BY <1>11, <1>12, <1>13 DEF Token

\* Nothing moves.
LEMMA StillCalm ==
  ASSUME TypeOK, TypeOK', Token,
         UNCHANGED <<flagged, inter, ticket, pc, num, tid, mode, crashes>>
  PROVE  Token'
<1>1. Calm
  BY DEF Calm, Issuing, Asking
<1>2. Core'
  BY <1>1, CalmStep DEF Token
<1>3. Servers' /\ WorkersCounted'
  BY DEF Token, Servers, WorkersCounted, Spawned, Dispatched, Polled, Restarted
<1> QED BY <1>2, <1>3 DEF Token

\* The steps of run_job that start, repair and end an attempt.
LEMMA WorkerCalmSteps ==
  ASSUME TypeOK, TypeOK', Token, NEW w \in Workers,
         \/ Admit(w) \/ RejectRun(w) \/ AuditFails(w) \/ AdvancePhase(w) \/ CheckCancel(w)
         \/ Prepare(w) \/ Launch(w) \/ RepairRound(w) \/ TurnFailed(w) \/ TurnSucceeded(w)
         \/ StartTicket(w) /\ UNCHANGED ticket /\ pc' = [pc EXCEPT ![w] = "done"]
  PROVE  Token'
<1>1. ASSUME NEW s, pc' = [pc EXCEPT ![w] = s], pc[w] \notin {"idle", "done"},
             s \notin {"idle", "new", "arm", "autoresume", "ended"},
             s \in Owning => pc[w] \in Owning,
             s = "ticket" => pc[w] = "new",
             s = "resolve" => Asking(w),
             UNCHANGED <<flagged, inter, ticket, num, tid, mode, crashes>>
      PROVE  Token'
  BY <1>1, WorkerCalm
<1>2. CASE Admit(w)
  BY <1>1, <1>2 DEF Admit, At, Goto, Owning, data, steady, server
<1>3. CASE RejectRun(w) \/ AuditFails(w)
  BY <1>1, <1>3 DEF RejectRun, AuditFails, At, Goto, Owning, data, steady, server
<1>4. CASE AdvancePhase(w)
  BY <1>1, <1>4 DEF AdvancePhase, At, Goto, Owning, data, steady, server
<1>5. CASE CheckCancel(w)
  BY <1>1, <1>5 DEF CheckCancel, At, Finish, GotoOwing, Goto, Owning, Asking, data, steady, server
<1>6. CASE Prepare(w)
  <2> DEFINE i == num[w] - 1
  <2>1. /\ pc[w] = "prepare" /\ UNCHANGED <<flagged, ticket, num, tid, mode, crashes>>
        /\ \/ pc' = [pc EXCEPT ![w] = "recheck"]
           \/ pc' = [pc EXCEPT ![w] = "done"]
        /\ \/ inter' = inter
           \/ inter' = [inter EXCEPT ![i] = [inter[i] EXCEPT !.state = Consumed(inter[i].state)]]
    BY <1>6 DEF Prepare, At, Finish, GotoOwing, Goto, steady, server
  <2>2. \A a \in Attempts :
           /\ inter'[a].by = inter[a].by
           /\ inter'[a].state = "pending" <=> inter[a].state = "pending"
           /\ inter'[a].state = "absent" <=> inter[a].state = "absent"
    <3> TAKE a \in Attempts
    <3> HIDE DEF i
    <3>1. CASE inter' = inter \/ a # i
      BY <2>1, <3>1 DEF TypeOK
    <3>2. CASE inter' = [inter EXCEPT ![i] = [inter[i] EXCEPT !.state = Consumed(inter[i].state)]]
               /\ a = i
      <4>1. inter'[a] = [inter[a] EXCEPT !.state = Consumed(inter[a].state)]
        BY <3>2 DEF TypeOK
      <4>2. inter'[a].by = inter[a].by /\ inter'[a].state = Consumed(inter[a].state)
        BY <4>1 DEF TypeOK
      <4> QED BY <4>2 DEF Consumed
    <3> QED BY <2>1, <3>1, <3>2
  <2>3. CASE pc' = [pc EXCEPT ![w] = "recheck"]
    BY <2>1, <2>2, <2>3, WorkerCalm DEF Owning
  <2>4. CASE pc' = [pc EXCEPT ![w] = "done"]
    BY <2>1, <2>2, <2>4, WorkerCalm DEF Owning
  <2> QED BY <2>1, <2>3, <2>4
<1>7. CASE Launch(w)
  BY <1>1, <1>7 DEF Launch, At, Goto, Owning, data, steady, server
<1>8. CASE RepairRound(w)
  BY <1>1, <1>8 DEF RepairRound, At, Goto, Owning, data, server
<1>9. CASE TurnFailed(w) \/ TurnSucceeded(w)
  BY <1>1, <1>9
     DEF TurnFailed, TurnSucceeded, Converged, At, Finish, GotoOwing, Goto, Owning, data, server
<1>10. CASE StartTicket(w) /\ UNCHANGED ticket /\ pc' = [pc EXCEPT ![w] = "done"]
  BY <1>1, <1>10 DEF StartTicket, At, Owning, steady, server
<1> QED BY <1>2, <1>3, <1>4, <1>5, <1>6, <1>7, <1>8, <1>9, <1>10

\* Readers, clients and cancels that arrive, timers that fire, and those who
\* find nothing to do.
LEMMA OtherCalmSteps ==
  ASSUME TypeOK, TypeOK', Token, NEW t \in Tasks,
         \/ t \in Timers /\ TimerFires(t)
         \/ ReplyArrives(t) \/ PollReadsQueued(t) \/ CancelArrives(t)
         \/ t \in Resumers /\ LookUpPending(t) /\ Pending = {}
         \/ t \in Resumers /\ SubmitReply(t) /\ pc'[t] = "done"
         \/ t \in Resumers /\ DispatchTicket(t) /\ UNCHANGED ticket
         \/ t \in Pollers /\ Redrive(t) /\ ~Redrivable
         \/ t \in Cancellers /\ (SetCancelRequested(t) \/ ProjectCanceled(t))
  PROVE  Token'
<1>0. pc \in [Tasks -> Steps] /\ Servers
  BY DEF TypeOK, Token
<1>1. ASSUME t \in Resumers \cup Pollers \cup Cancellers, NEW s,
             mode = "up", pc' = [pc EXCEPT ![t] = s],
             pc[t] \notin {"issue", "done"}, s \notin {"decide", "issue", "dispatch"},
             s = "look" => t \notin Timers \/ \A w \in Closing : num[w] # t[2],
             flagged => flagged', s = "kill" => flagged',
             UNCHANGED <<inter, ticket, num, tid, mode, crashes>>
      PROVE  Token'
  BY <1>1, OtherCalm
<1>2. CASE t \in Timers /\ TimerFires(t)
  <2>1. t \in Resumers /\ pc[t] = "armed" /\ mode = "up"
    BY <1>0, <1>2, BusyIsUp, Disjoint DEF TimerFires, At
  <2>2. \A w \in Closing : num[w] # t[2]
    <3> TAKE w \in Closing
    <3>1. w \in Workers /\ ~AtRest(w)
      BY DEF Closing, Asking, AtRest
    <3> QED BY <1>2, <3>1 DEF TimerFires
  <2>3. \/ pc' = [pc EXCEPT ![t] = "look"]
        \/ pc' = [pc EXCEPT ![t] = "done"]
    BY <1>2 DEF TimerFires, Goto
  <2> QED BY <1>1, <1>2, <2>1, <2>2, <2>3 DEF TimerFires, data, steady, server
<1>3. CASE ReplyArrives(t)
  <2>1. t \in Resumers /\ t \notin Timers
    BY <1>3, Kinds DEF ReplyArrives, Resumers
  <2>2. pc[t] = "idle" /\ mode = "up" /\ pc' = [pc EXCEPT ![t] = "look"]
    BY <1>3 DEF ReplyArrives, At, Goto
  <2>3. UNCHANGED <<flagged, inter, ticket, num, tid, mode, crashes>>
    BY <1>3 DEF ReplyArrives, data, steady, server
  <2>4. pc[t] \notin {"issue", "done"} /\ t \in Resumers \cup Pollers \cup Cancellers
    BY <2>1, <2>2
  <2>5. flagged => flagged'
    BY <2>3
  <2> QED BY <1>1, <2>1, <2>2, <2>3, <2>4, <2>5
<1>4. CASE PollReadsQueued(t)
  <2>1. /\ t \in Pollers /\ pc[t] = "idle" /\ mode = "up"
        /\ pc' = [pc EXCEPT ![t] = "redrive"]
    BY <1>4 DEF PollReadsQueued, At, Goto
  <2>2. UNCHANGED <<flagged, inter, ticket, num, tid, mode, crashes>>
    BY <1>4 DEF PollReadsQueued, data, steady, server
  <2>3. pc[t] \notin {"issue", "done"} /\ t \in Resumers \cup Pollers \cup Cancellers
    BY <2>1
  <2>4. flagged => flagged'
    BY <2>2
  <2> QED BY <1>1, <2>1, <2>2, <2>3, <2>4
<1>5. CASE CancelArrives(t)
  <2>1. /\ t \in Cancellers /\ pc[t] = "idle" /\ mode = "up"
        /\ \/ pc' = [pc EXCEPT ![t] = "flag_kill"]
           \/ pc' = [pc EXCEPT ![t] = "flag"]
    BY <1>5 DEF CancelArrives, At, Goto
  <2>2. UNCHANGED <<flagged, inter, ticket, num, tid, mode, crashes>>
    BY <1>5 DEF CancelArrives, data, steady, server
  <2> QED BY <1>1, <2>1, <2>2
<1>6. CASE t \in Resumers /\ LookUpPending(t) /\ Pending = {}
  <2>1. pc[t] = "look" /\ mode = "up"
    BY <1>0, <1>6, BusyIsUp, Disjoint DEF LookUpPending, At
  <2> QED BY <1>1, <1>6, <2>1 DEF LookUpPending, Goto, data, steady, server
<1>7. CASE t \in Resumers /\ SubmitReply(t) /\ pc'[t] = "done"
  <2>1. pc[t] = "decide" /\ mode = "up"
    BY <1>0, <1>7, BusyIsUp, Disjoint DEF SubmitReply, At
  <2>2. pc' = [pc EXCEPT ![t] = "done"] /\ UNCHANGED inter
    BY <1>0, <1>7, Disjoint DEF SubmitReply, GotoOwing, Goto
  <2> QED BY <1>1, <1>7, <2>1, <2>2 DEF SubmitReply, steady, server
<1>8. CASE t \in Resumers /\ DispatchTicket(t) /\ UNCHANGED ticket
  <2>1. pc[t] = "dispatch" /\ mode = "up"
    BY <1>0, <1>8, BusyIsUp, Disjoint DEF DispatchTicket, At
  <2>2. pc' = [pc EXCEPT ![t] = "done"] /\ UNCHANGED <<num, tid>>
    <3>1. ticket.state = "issued" => [ticket EXCEPT !.state = "dispatched"].state # ticket.state
      BY DEF TypeOK
    <3> QED BY <1>8, <3>1 DEF DispatchTicket, Goto
  <2>3. UNCHANGED <<flagged, inter, ticket, num, tid, mode, crashes>>
    BY <1>8, <2>2 DEF DispatchTicket, steady, server
  <2>4. pc[t] \notin {"issue", "done"} /\ t \in Resumers \cup Pollers \cup Cancellers
    BY <1>8, <2>1
  <2>5. flagged => flagged'
    BY <2>3
  <2> QED BY <1>1, <2>1, <2>2, <2>3, <2>4, <2>5
<1>9. CASE t \in Pollers /\ Redrive(t) /\ ~Redrivable
  <2>1. pc[t] = "redrive" /\ mode = "up"
    BY <1>0, <1>9, BusyIsUp, Disjoint DEF Redrive, At
  <2> QED BY <1>1, <1>9, <2>1 DEF Redrive, Goto, data, steady, server
<1>10. CASE t \in Cancellers /\ (SetCancelRequested(t) \/ ProjectCanceled(t))
  <2>1. pc[t] \in {"flag", "flag_kill", "project"} /\ mode = "up"
    BY <1>0, <1>10, BusyIsUp, Disjoint DEF SetCancelRequested, ProjectCanceled, At
  <2>2. \/ pc' = [pc EXCEPT ![t] = "kill"] /\ flagged'
        \/ pc' = [pc EXCEPT ![t] = "project"] /\ flagged'
        \/ pc' = [pc EXCEPT ![t] = "done"] /\ flagged' = flagged
    BY <1>10 DEF SetCancelRequested, ProjectCanceled, Finish, GotoOwing, Goto, data
  <2>3. UNCHANGED <<inter, ticket, num, tid, mode, crashes>>
    BY <1>10 DEF SetCancelRequested, ProjectCanceled, data, steady, server
  <2> QED BY <1>1, <1>10, <2>1, <2>2, <2>3
<1> QED BY <1>2, <1>3, <1>4, <1>5, <1>6, <1>7, <1>8, <1>9, <1>10

\* The process of a run that is being canceled is terminated.
LEMMA KillCalm ==
  ASSUME TypeOK, TypeOK', Token, NEW t \in Cancellers, Kill(t) PROVE Token'
<1>1. /\ pc[t] = "kill" /\ flagged /\ mode = "up" /\ t \in Tasks
      /\ UNCHANGED <<flagged, inter, ticket, num, tid, mode, crashes>>
  BY BusyIsUp, Disjoint DEF Kill, At, Token, Servers, data, steady, server
<1>2. /\ \A u \in Tasks \ Workers : u # t => pc'[u] = pc[u]
      /\ pc'[t] = "project"
      /\ \A w \in Workers : /\ pc[w] \notin {"engine", "repair"} => pc'[w] = pc[w]
                            /\ pc[w] = "engine" => pc'[w] = "ended"
                            /\ pc[w] = "repair" => pc'[w] = "killed"
  BY Disjoint DEF Kill
<1>3. Issuing' = Issuing /\ \A u \in Resumers : pc'[u] = pc[u]
  BY <1>2, Disjoint DEF Issuing
<1>4. \A w \in Workers :
        /\ pc'[w] \in {"new", "ticket"} => pc[w] \in {"new", "ticket"}
        /\ pc'[w] \in Owning => pc[w] \in Owning
        /\ Asking(w)' => Asking(w)
        /\ pc'[w] \in {"arm", "autoresume"} => pc[w] = pc'[w]
        /\ pc'[w] = "idle" <=> pc[w] = "idle"
  BY <1>1, <1>2 DEF Asking, Owning
<1>5. Calm
  BY <1>1, <1>3, <1>4, Disjoint DEF Calm
<1>6. Core'
  BY <1>5, CalmStep DEF Token
<1>7. Servers'
  <2>1. \A c \in Cancellers : pc'[c] = "kill" => pc[c] = "kill"
    BY <1>2, Disjoint
  <2>2. pc'[recovery] = pc[recovery]
    BY <1>2, Disjoint
  <2> QED BY <1>1, <2>1, <2>2, ServersKept DEF Token
<1>8. WorkersCounted'
  <2>1. \A i \in 1..Polls : pc'[<<"poll", i>>] = pc[<<"poll", i>>]
    BY <1>2, Disjoint DEF Pollers
  <2>2. Dispatched' >= Dispatched
    BY <1>1, Counts DEF Dispatched, CountsTyped
  <2> QED BY <1>1, <1>4, <2>1, <2>2, MoveCounted DEF Token
<1> QED BY <1>6, <1>7, <1>8 DEF Token

\* A timer is armed: it is not one that has a question in hand.
LEMMA FinishWaitingCalm ==
  ASSUME TypeOK, TypeOK', Token, NEW w \in Workers, FinishWaiting(w) PROVE Token'
<1> DEFINE t == <<"timer", num[w]>>
<1>1. /\ pc[w] = "arm" /\ mode = "up" /\ w \in Tasks /\ w \in Closing
      /\ UNCHANGED <<flagged, inter, ticket, num, tid, mode, crashes>>
  BY BusyIsUp, Disjoint DEF FinishWaiting, At, Token, Closing, data, steady, server
<1>2. /\ pc'[w] = "done"
      /\ \A u \in Tasks : u # w => pc'[u] = pc[u] \/ (u = t /\ pc'[u] = "armed")
  <2>1. pc' = [u \in Tasks |-> CASE u = w -> "done"
                                [] ArmsTimer(w, u) -> "armed"
                                [] OTHER -> pc[u]]
    BY DEF FinishWaiting
  <2>2. pc'[w] = "done"
    <3>1. ~ArmsTimer(w, w)
      BY Kinds DEF ArmsTimer
    <3> QED BY <1>1, <2>1, <3>1
  <2>3. ASSUME NEW u \in Tasks, u # w PROVE pc'[u] = pc[u] \/ (u = t /\ pc'[u] = "armed")
    <3>1. CASE ArmsTimer(w, u)
      BY <2>1, <2>3, <3>1 DEF ArmsTimer
    <3>2. CASE ~ArmsTimer(w, u)
      BY <2>1, <2>3, <3>2
    <3> QED BY <3>1, <3>2
  <2> QED BY <2>2, <2>3
<1>3. t \in Tasks => t \in Timers /\ pc[t] \notin {"look", "decide", "issue"}
  <2> SUFFICES ASSUME t \in Tasks PROVE t \in Timers /\ pc[t] \notin {"look", "decide", "issue"}
    OBVIOUS
  <2>1. t \in Timers
    BY Kinds DEF Tasks
  <2>2. num[w] \in Attempts
    BY <2>1, Kinds
  <2> QED BY <1>1, <2>1, <2>2 DEF Token, Core, AskerAlone
<1>4. \A u \in Tasks : u # w /\ u \notin Timers => pc'[u] = pc[u]
  BY <1>2, <1>3
<1>5. Issuing' = Issuing
  BY <1>2, <1>3, Disjoint DEF Issuing
<1>6. \A v \in Workers : pc'[v] = pc[v] \/ (v = w /\ pc'[v] = "done" /\ pc[v] = "arm")
  BY <1>1, <1>2, <1>4, Disjoint
<1>7. \A v \in Workers :
        /\ pc'[v] \in {"new", "ticket"} => pc[v] \in {"new", "ticket"}
        /\ pc'[v] \in Owning => pc[v] \in Owning
        /\ Asking(v)' => Asking(v)
        /\ pc'[v] \in {"arm", "autoresume"} => pc[v] = pc'[v]
        /\ pc'[v] = "idle" <=> pc[v] = "idle"
  BY <1>1, <1>6 DEF Asking, Owning
<1>8. \A u \in Resumers : pc'[u] = pc[u] \/ pc'[u] = "armed"
  BY <1>2, Disjoint
<1>9. Calm
  BY <1>1, <1>5, <1>7, <1>8, Disjoint DEF Calm
<1>10. Core'
  BY <1>9, CalmStep DEF Token
<1>11. Servers'
  <2>1. \A c \in Cancellers : pc'[c] = pc[c]
    BY <1>4, Disjoint
  <2>2. pc'[recovery] = pc[recovery]
    BY <1>4, Disjoint
  <2> QED BY <1>1, <2>1, <2>2, ServersKept DEF Token
<1>12. WorkersCounted'
  <2>1. \A i \in 1..Polls : pc'[<<"poll", i>>] = pc[<<"poll", i>>]
    BY <1>4, Disjoint DEF Pollers
  <2>2. Dispatched' >= Dispatched
    BY <1>1, Counts DEF Dispatched, CountsTyped
  <2> QED BY <1>1, <1>7, <2>1, <2>2, MoveCounted DEF Token
<1> QED BY <1>10, <1>11, <1>12 DEF Token

\* Nobody survives a crash with a question in hand.
LEMMA CrashCalm == ASSUME TypeOK, TypeOK', Token, Crash PROVE Token'
<1>1. UNCHANGED <<flagged, inter, ticket, num, tid>> /\ mode' = "down" /\ crashes' = crashes + 1
  BY DEF Crash, data
<1>2. \A t \in Tasks : pc'[t] \in {"idle", "done"} /\ (pc'[t] = "idle" <=> pc[t] = "idle")
  BY DEF Crash
<1>3. Minded' = {} /\ Owners' = {} /\ Closing' = {}
  BY <1>2, Disjoint DEF Minded, Issuing, Deciding, Requeuing, Owners, Owning, Closing, Asking
<1>4. \A w \in Workers :
        pc'[w] \notin {"new", "ticket"} /\ pc'[w] \notin Owning /\ ~Asking(w)'
          /\ pc'[w] \notin {"arm", "autoresume"}
  BY <1>2, Disjoint DEF Owning, Asking
<1>5. \A t \in Resumers : pc'[t] \notin {"decide", "dispatch", "look"}
  BY <1>2, Disjoint
<1>6. Calm
  BY <1>1, <1>3, <1>4, <1>5, Disjoint DEF Calm
<1>7. Core'
  BY <1>6, CalmStep DEF Token
<1>8. Servers'
  <2>1. crashes' > 0
    BY <1>1, Bounds DEF TypeOK
  <2>2. \A t \in Cancellers \cup {recovery} : pc'[t] \notin {"kill", "clear"}
    BY <1>2, Disjoint
  <2> QED BY <1>1, <1>2, <2>1, <2>2 DEF Servers
<1>9. WorkersCounted'
  <2>1. Spawned' = Spawned
    BY <1>2, Disjoint DEF Spawned
  <2>2. Polled \subseteq Polled'
    BY <1>2, Disjoint DEF Polled, Pollers
  <2>3. Dispatched' >= Dispatched
    BY <1>1, Counts DEF Dispatched, CountsTyped
  <2>4. Restarted' >= Restarted
    BY <1>1, Bounds DEF Restarted, TypeOK
  <2> QED BY <2>1, <2>2, <2>3, <2>4, CountKept DEF Token
<1> QED BY <1>7, <1>8, <1>9 DEF Token

\* The question is closed by the recovery, when nobody has it in hand.
LEMMA ClearCalm == ASSUME TypeOK, TypeOK', Token, ClearBindings PROVE Token'
<1>1. /\ pc[recovery] = "clear" /\ mode = "recovering" /\ mode' = "up"
      /\ UNCHANGED <<flagged, ticket, num, tid, crashes>>
  BY DEF ClearBindings, At, Token, Servers
<1>2. /\ pc'[recovery] = "idle" /\ \A t \in Tasks : t # recovery => pc'[t] = pc[t]
  BY Disjoint DEF ClearBindings, Goto, TypeOK
<1>3. \A t \in Tasks \ {recovery} : pc[t] \in {"idle", "done"} /\ pc'[t] = pc[t]
  BY <1>1, <1>2 DEF Token, Servers
<1>4. \A t \in Workers \cup Resumers \cup Pollers \cup Cancellers :
        t \in Tasks /\ pc[t] \in {"idle", "done"} /\ pc'[t] = pc[t]
  BY <1>3, Disjoint
<1>5. Minded' = {}
  BY <1>4 DEF Minded, Issuing, Deciding, Requeuing
<1>6. \A w \in Workers :
        pc'[w] \notin {"new", "ticket"} /\ pc'[w] \notin Owning /\ ~Asking(w)'
          /\ pc'[w] \notin {"arm", "autoresume"}
  BY <1>4 DEF Owning, Asking
<1>7. \A t \in Resumers : pc'[t] \notin {"decide", "dispatch", "look"}
  BY <1>4
<1>8. \A a \in Attempts :
        /\ inter'[a].by = inter[a].by
        /\ inter'[a].state = "pending" => inter[a].state = "pending"
        /\ inter'[a].state = "absent" <=> inter[a].state = "absent"
  <2> TAKE a \in Attempts
  <2>1. inter'[a] = IF a \in Pending THEN [inter[a] EXCEPT !.state = "consumed"] ELSE inter[a]
    BY DEF ClearBindings
  <2>2. CASE a \in Pending
    BY <2>1, <2>2 DEF TypeOK, Pending
  <2>3. CASE a \notin Pending
    BY <2>1, <2>3
  <2> QED BY <2>2, <2>3
<1>9. Calm
  BY <1>1, <1>5, <1>6, <1>7, <1>8, Disjoint DEF Calm
<1>10. Core'
  BY <1>9, CalmStep DEF Token
<1>11. Servers'
  BY <1>1, <1>2, <1>4 DEF Servers
<1>12. WorkersCounted'
  <2>1. Spawned' = Spawned
    BY <1>4 DEF Spawned
  <2>2. Polled \subseteq Polled'
    BY <1>4 DEF Polled, Pollers
  <2>3. Dispatched' >= Dispatched
    BY <1>1, Counts DEF Dispatched, CountsTyped
  <2>4. Restarted' >= Restarted
    BY <1>1, Bounds DEF Restarted, TypeOK
  <2> QED BY <2>1, <2>2, <2>3, <2>4, CountKept DEF Token
<1> QED BY <1>10, <1>11, <1>12 DEF Token

\* A restart that leaves the run waiting, or that fails it.
LEMMA RestartCalm ==
  ASSUME TypeOK, TypeOK', Token, mode = "down",
         UNCHANGED <<flagged, inter, ticket, num, tid, crashes>>,
         \/ pc' = pc /\ mode' = "up"
         \/ pc' = [pc EXCEPT ![recovery] = "clear"] /\ mode' = "recovering"
  PROVE  Token'
<1>1. \A t \in Tasks \ {recovery} : pc[t] \in {"idle", "done"} /\ pc'[t] = pc[t]
  BY DEF Token, Servers, TypeOK
<1>2. \A t \in Workers \cup Resumers \cup Pollers \cup Cancellers :
        t \in Tasks /\ pc[t] \in {"idle", "done"} /\ pc'[t] = pc[t]
  BY <1>1, Disjoint
<1>3. Issuing' = Issuing
  BY <1>2 DEF Issuing
<1>4. \A w \in Workers :
        pc'[w] \notin {"new", "ticket"} /\ pc'[w] \notin Owning /\ ~Asking(w)'
          /\ pc'[w] \notin {"arm", "autoresume"}
  BY <1>2 DEF Owning, Asking
<1>5. \A t \in Resumers : pc'[t] \notin {"decide", "dispatch", "look"}
  BY <1>2
<1>6. Calm
  BY <1>3, <1>4, <1>5, Disjoint DEF Calm
<1>7. Core'
  BY <1>6, CalmStep DEF Token
<1>8. Servers'
  <2>1. pc[recovery] # "clear"
    BY DEF Token, Servers
  <2>2. pc'[recovery] = "clear" => mode' = "recovering"
    BY <2>1
  <2>3. mode' # "down"
    OBVIOUS
  <2> QED BY <1>1, <1>2, <2>2, <2>3 DEF Servers
<1>9. WorkersCounted'
  <2>1. Spawned' = Spawned
    BY <1>2 DEF Spawned
  <2>2. Polled \subseteq Polled'
    BY <1>2 DEF Polled, Pollers
  <2>3. Dispatched' >= Dispatched
    BY Counts DEF Dispatched, CountsTyped
  <2>4. Restarted' >= Restarted
    BY Bounds DEF Restarted, TypeOK
  <2> QED BY <2>1, <2>2, <2>3, <2>4, CountKept DEF Token
<1> QED BY <1>7, <1>8, <1>9 DEF Token

-----------------------------------------------------------------------------
(* The steps that start a worker *)

\* The actors of the code start the worker n with the present ticket.
Starts(n) ==
  /\ n \in Workers /\ pc[n] = "idle" /\ pc'[n] = "ticket" /\ ticket.id > 0
  /\ num' = [num EXCEPT ![n] = ticket.target]
  /\ tid' = [tid EXCEPT ![n] = ticket.id]
  /\ ticket'.id = ticket.id /\ ticket'.by = ticket.by /\ ticket'.target = ticket.target
  /\ \/ ticket'.state = ticket.state
     \/ ticket.state = "issued" /\ ticket'.state = "dispatched"
  /\ UNCHANGED <<flagged, inter>>
  /\ \A t \in Tasks \ {n} :
       \/ pc'[t] = pc[t]
       \/ t \notin Workers /\ pc'[t] = "done" /\ pc[t] \in {"dispatch", "redrive"}

LEMMA StartCalm ==
  ASSUME TypeOK, TypeOK', Token, NEW n, Starts(n)
  PROVE  Core' /\ Spawned' = Spawned \cup {n} /\ n \notin Spawned
<1>1. \A t \in Resumers \cup Pollers \cup Cancellers : t \in Tasks /\ t # n
  BY Disjoint DEF Starts
<1>2. \A w \in Workers : w = n \/ pc'[w] = pc[w]
  BY Disjoint DEF Starts
<1>3. n \in Tasks /\ pc'[n] = "ticket" /\ tid'[n] = ticket.id /\ num'[n] = ticket.target
  BY Disjoint DEF Starts, TypeOK
<1>4. StartedWithTicket(n)
  BY <1>3 DEF StartedWithTicket, Starts
<1>5. \A t \in Tasks : t # n => UNCHANGED <<num[t], tid[t]>>
  BY DEF Starts, TypeOK
<1>6. \A t \in Resumers : pc'[t] = pc[t] \/ (pc'[t] = "done" /\ pc[t] # "issue")
  BY <1>1 DEF Starts
<1>7. Issuing' = Issuing
  BY <1>6 DEF Issuing
<1>8. \A w \in Workers :
        /\ pc'[w] \in {"new", "ticket"} => pc[w] \in {"new", "ticket"} \/ StartedWithTicket(w)
        /\ pc'[w] \in Owning => pc[w] \in Owning
        /\ Asking(w)' => Asking(w)
        /\ pc'[w] \in {"arm", "autoresume"} => pc[w] = pc'[w]
  <2>1. flagged' = flagged
    BY DEF Starts
  <2> QED BY <1>2, <1>3, <1>4, <2>1 DEF Owning, Asking
<1>9. \A t \in Tasks : UNCHANGED <<num[t], tid[t]>> \/ (t \in Workers /\ StartedWithTicket(t))
  BY <1>4, <1>5 DEF Starts
<1>10. Calm
  BY <1>6, <1>7, <1>8, <1>9, Disjoint DEF Calm, Starts
<1>11. Core'
  BY <1>10, CalmStep DEF Token
<1>12. Spawned' = Spawned \cup {n} /\ n \notin Spawned
  BY <1>2, <1>3 DEF Spawned, Starts
<1> QED BY <1>11, <1>12

LEMMA StartCounted ==
  ASSUME TypeOK, TypeOK', WorkersCounted, NEW n, n \notin Spawned,
         Spawned' = Spawned \cup {n},
         Cardinality(Polled') + Dispatched' + Restarted'
           >= Cardinality(Polled) + Dispatched + Restarted + 1
  PROVE  WorkersCounted'
<1>1. /\ IsFiniteSet(Spawned) /\ Cardinality(Spawned) \in Nat /\ Cardinality(Polled) \in Nat
      /\ Dispatched \in Int /\ Restarted \in Int
  BY Counts DEF CountsTyped
<1>2. /\ Cardinality(Polled') \in Nat /\ Dispatched' \in Int /\ Restarted' \in Int
  BY CountsNext DEF CountsTyped
<1>3. Cardinality(Spawned') = Cardinality(Spawned) + 1
  BY <1>1, FS_AddElement
<1> QED BY <1>1, <1>2, <1>3 DEF WorkersCounted

LEMMA DispatchStarts ==
  ASSUME TypeOK, TypeOK', Token, NEW t \in Resumers, DispatchTicket(t),
         ticket.id = tid[t], ticket.state = "issued"
  PROVE  Token'
<1> DEFINE n == NewWorker
<1>1. /\ pc[t] = "dispatch" /\ mode = "up" /\ t \in Tasks /\ t \notin Workers
      /\ UNCHANGED <<flagged, inter, mode, crashes>>
  BY BusyIsUp, Disjoint DEF DispatchTicket, At, Token, steady, server
<1>2. n \in Workers /\ pc[n] = "idle" /\ n \in Tasks /\ n # t
  BY <1>1, NewWorkerIsIdle, Disjoint
<1>3. /\ ticket' = [ticket EXCEPT !.state = "dispatched"]
      /\ num' = [num EXCEPT ![n] = num[t] + 1] /\ tid' = [tid EXCEPT ![n] = tid[t]]
      /\ pc' = [pc EXCEPT ![t] = "done", ![n] = "ticket"]
  BY DEF DispatchTicket, Spawn
<1>4. ticket.id > 0 /\ num[t] + 1 = ticket.target
  BY <1>1 DEF Token, Core, Tickets
<1>5. /\ ticket'.id = ticket.id /\ ticket'.by = ticket.by /\ ticket'.target = ticket.target
      /\ ticket'.state = "dispatched"
  BY <1>3 DEF TypeOK
<1> HIDE DEF n
<1>6. pc'[n] = "ticket" /\ pc'[t] = "done" /\ \A u \in Tasks : u # n /\ u # t => pc'[u] = pc[u]
  BY <1>1, <1>2, <1>3 DEF TypeOK
<1>7. Starts(n)
  BY <1>1, <1>2, <1>3, <1>4, <1>5, <1>6 DEF Starts
<1>8. Core' /\ Spawned' = Spawned \cup {n} /\ n \notin Spawned
  BY <1>7, StartCalm
<1>9. Servers'
  <2>1. \A c \in Cancellers \cup {recovery} : pc'[c] = pc[c]
    BY <1>1, <1>2, <1>6, Disjoint
  <2> QED BY <1>1, <2>1, ServersKept DEF Token
<1>10. WorkersCounted'
  <2>1. \A i \in 1..Polls : pc'[<<"poll", i>>] = pc[<<"poll", i>>]
    BY <1>1, <1>2, <1>6, Disjoint DEF Pollers
  <2>2. Polled' = Polled
    BY <2>1 DEF Polled
  <2>3. Restarted' = Restarted
    BY <1>1 DEF Restarted
  <2>4. Dispatched' = Dispatched + 1
    BY <1>4, <1>5 DEF Dispatched, TypeOK
  <2>5. Cardinality(Polled) \in Nat /\ Dispatched \in Int /\ Restarted \in Int
    BY Counts DEF CountsTyped
  <2>6. Cardinality(Polled') + Dispatched' + Restarted'
          >= Cardinality(Polled) + Dispatched + Restarted + 1
    BY <2>2, <2>3, <2>4, <2>5
  <2> QED BY <1>8, <2>6, StartCounted DEF Token
<1> QED BY <1>8, <1>9, <1>10 DEF Token

LEMMA RedriveStarts ==
  ASSUME TypeOK, TypeOK', Token, NEW t \in Pollers, Redrive(t), Redrivable
  PROVE  Token'
<1> DEFINE n == NewWorker
<1>1. /\ pc[t] = "redrive" /\ mode = "up" /\ t \in Tasks /\ t \notin Workers
      /\ UNCHANGED <<flagged, inter, ticket, mode, crashes>>
  BY BusyIsUp, Disjoint DEF Redrive, At, Token, data, steady, server
<1>2. n \in Workers /\ pc[n] = "idle" /\ n \in Tasks /\ n # t
  BY <1>1, NewWorkerIsIdle, Disjoint
<1>3. /\ num' = [num EXCEPT ![n] = ticket.target] /\ tid' = [tid EXCEPT ![n] = ticket.id]
      /\ pc' = [pc EXCEPT ![t] = "done", ![n] = "ticket"]
  BY DEF Redrive, Spawn
<1>4. ticket.id > 0
  BY DEF Token, Core, Tickets, Redrivable, TypeOK
<1> HIDE DEF n
<1>6. pc'[n] = "ticket" /\ pc'[t] = "done" /\ \A u \in Tasks : u # n /\ u # t => pc'[u] = pc[u]
  BY <1>1, <1>2, <1>3 DEF TypeOK
<1>7. Starts(n)
  BY <1>1, <1>2, <1>3, <1>4, <1>6 DEF Starts
<1>8. Core' /\ Spawned' = Spawned \cup {n} /\ n \notin Spawned
  BY <1>7, StartCalm
<1>9. Servers'
  <2>1. \A c \in Cancellers \cup {recovery} : pc'[c] = pc[c]
    BY <1>1, <1>2, <1>6, Disjoint
  <2> QED BY <1>1, <2>1, ServersKept DEF Token
<1>10. WorkersCounted'
  <2>1. PICK j \in 1..Polls : t = <<"poll", j>>
    BY Kinds
  <2>2. \A i \in 1..Polls : <<"poll", i>> \in Tasks /\ <<"poll", i>> # n
    BY <1>2, Disjoint DEF Pollers
  <2>3. \A i \in 1..Polls : i # j => pc'[<<"poll", i>>] = pc[<<"poll", i>>]
    BY <1>6, <2>1, <2>2
  <2>4. Polled' = Polled \cup {j} /\ j \notin Polled
    BY <1>1, <1>6, <2>1, <2>3 DEF Polled
  <2>5. IsFiniteSet(Polled) /\ Cardinality(Polled) \in Nat
        /\ Dispatched \in Int /\ Restarted \in Int
    BY Counts DEF CountsTyped
  <2>6. Cardinality(Polled') = Cardinality(Polled) + 1
    BY <2>4, <2>5, FS_AddElement
  <2>7. Restarted' = Restarted /\ Dispatched' = Dispatched
    BY <1>1 DEF Restarted, Dispatched
  <2>8. Cardinality(Polled') + Dispatched' + Restarted'
          >= Cardinality(Polled) + Dispatched + Restarted + 1
    BY <2>5, <2>6, <2>7
  <2> QED BY <1>8, <2>8, StartCounted DEF Token
<1> QED BY <1>8, <1>9, <1>10 DEF Token

LEMMA RestartStarts ==
  ASSUME TypeOK, TypeOK', Token, mode = "down", Redrivable, mode' = "up",
         UNCHANGED <<flagged, inter, ticket, crashes>>,
         Spawn(ticket.target, ticket.id), Goto(NewWorker, "ticket")
  PROVE  Token'
<1> DEFINE n == NewWorker
<1>1. n \in Workers /\ pc[n] = "idle" /\ n \in Tasks
  BY NewWorkerIsIdle, Disjoint
<1>2. /\ num' = [num EXCEPT ![n] = ticket.target] /\ tid' = [tid EXCEPT ![n] = ticket.id]
      /\ pc' = [pc EXCEPT ![n] = "ticket"]
  BY DEF Goto, Spawn
<1>3. ticket.id > 0
  BY DEF Token, Core, Tickets, Redrivable, TypeOK
<1> HIDE DEF n
<1>4. pc'[n] = "ticket" /\ \A u \in Tasks : u # n => pc'[u] = pc[u]
  BY <1>1, <1>2 DEF TypeOK
<1>5. Starts(n)
  BY <1>1, <1>2, <1>3, <1>4 DEF Starts
<1>6. Core' /\ Spawned' = Spawned \cup {n} /\ n \notin Spawned
  BY <1>5, StartCalm
<1>7. Servers'
  <2>1. \A c \in Cancellers \cup {recovery} : pc'[c] = pc[c]
    BY <1>1, <1>4, Disjoint
  <2>2. \A c \in Cancellers : pc'[c] = "kill" => flagged'
    BY <2>1 DEF Token, Servers
  <2>3. pc'[recovery] # "clear"
    BY <2>1 DEF Token, Servers
  <2> QED BY <2>2, <2>3 DEF Servers
<1>8. WorkersCounted'
  <2>1. \A i \in 1..Polls : pc'[<<"poll", i>>] = pc[<<"poll", i>>]
    BY <1>1, <1>4, Disjoint DEF Pollers
  <2>2. Polled' = Polled
    BY <2>1 DEF Polled
  <2>3. Restarted' = Restarted + 1
    BY Bounds DEF Restarted, TypeOK
  <2>4. Dispatched' = Dispatched
    BY DEF Dispatched
  <2>5. Cardinality(Polled) \in Nat /\ Dispatched \in Int /\ Restarted \in Int
    BY Counts DEF CountsTyped
  <2>6. Cardinality(Polled') + Dispatched' + Restarted'
          >= Cardinality(Polled) + Dispatched + Restarted + 1
    BY <2>2, <2>3, <2>4, <2>5
  <2> QED BY <1>6, <2>6, StartCounted DEF Token
<1> QED BY <1>6, <1>7, <1>8 DEF Token

-----------------------------------------------------------------------------
(* The steps that pass the token on *)

LEMMA Passed ==
  ASSUME TypeOK, TypeOK', Token, NEW t \in Workers \cup Resumers,
         pc[t] \notin {"idle", "done"}, pc'[t] # "idle",
         \A u \in Tasks \ Resumers : u = t \/ pc'[u] = pc[u],
         UNCHANGED <<flagged, mode, crashes>>, Dispatched' >= Dispatched
  PROVE  Servers' /\ WorkersCounted'
<1>1. \A u \in Workers \cup Pollers \cup Cancellers \cup {recovery} :
        u \in Tasks /\ u \notin Resumers /\ (u \notin Workers => u # t)
  BY Disjoint
<1>2. Servers'
  <2>1. mode = "up"
    BY BusyIsUp, Disjoint DEF Token
  <2>2. \A c \in Cancellers : pc'[c] = pc[c]
    BY <1>1, Disjoint
  <2>3. pc'[recovery] = pc[recovery]
    BY <1>1, Disjoint
  <2> QED BY <2>1, <2>2, <2>3, ServersKept DEF Token
<1>3. WorkersCounted'
  <2>1. \A w \in Workers : pc'[w] = "idle" <=> pc[w] = "idle"
    BY <1>1
  <2>2. \A i \in 1..Polls : pc'[<<"poll", i>>] = pc[<<"poll", i>>]
    BY <1>1, Disjoint DEF Pollers
  <2> QED BY <2>1, <2>2, MoveCounted DEF Token
<1> QED BY <1>2, <1>3

\* A job begins its attempt: the only one, as its ticket is no other's.
LEMMA JobStarts ==
  ASSUME TypeOK, TypeOK', Token, NEW w \in Workers, StartTicket(w),
         pc' = [pc EXCEPT ![w] = "claim"],
         \/ tid[w] = 0 /\ ticket' = ticket
         \/ /\ tid[w] # 0 /\ tid[w] = ticket.id /\ Redrivable
            /\ ticket' = [ticket EXCEPT !.state = "started"]
  PROVE  Token'
<1>1. /\ pc[w] = "ticket" /\ w \in Tasks /\ w \notin Resumers
      /\ UNCHANGED <<flagged, inter, num, tid, mode, crashes>>
  BY Disjoint DEF StartTicket, At, steady, server
<1>2. /\ pc'[w] = "claim" /\ \A u \in Tasks : u # w => pc'[u] = pc[u]
  BY <1>1 DEF TypeOK
<1>3. /\ ticket'.id = ticket.id /\ ticket'.by = ticket.by /\ ticket'.target = ticket.target
      /\ ticket'.state = ticket.state \/ (ticket'.state = "started" /\ ticket.id # 0)
  BY DEF TypeOK
<1>4. /\ Owners = {} /\ Pending = {} /\ ~Redrivable' /\ \A t \in Issuing : SameTicket(t)
      /\ num[w] >= 1 /\ ticket.target <= num[w] /\ \A v \in Unstarted : v = w
  <2>1. CASE tid[w] = 0 /\ ticket' = ticket
    <3>1. w \in Unstarted
      BY <1>1, <2>1 DEF Unstarted
    <3>2. num[w] = 1 /\ ticket.id = 0 /\ Owners = {} /\ Minded = {} /\ Pending = {}
          /\ \A v \in Unstarted : v = w
      BY <3>1 DEF Token, Core, FirstJob
    <3>3. ticket.state = "none" /\ ticket.target = 0
      BY <3>2 DEF Token, Core, Tickets
    <3>4. ~Redrivable'
      BY <2>1, <3>3 DEF Redrivable
    <3> QED BY <3>2, <3>3, <3>4 DEF Minded
  <2>2. CASE tid[w] # 0 /\ tid[w] = ticket.id /\ Redrivable
             /\ ticket' = [ticket EXCEPT !.state = "started"]
    <3>1. Pending = {} /\ \A t \in Issuing : SameTicket(t)
      BY <2>2 DEF Token, Core, TicketAlone
    <3>2. Owners = {}
      BY <2>2 DEF Token, Core, OwnerAlone
    <3>3. ticket.id > 0 /\ tid[w] = ticket.id
      BY <2>2 DEF TypeOK
    <3>4. num[w] = ticket.target /\ ticket.target \in 2..MaxAttempt
      BY <1>1, <3>3 DEF Token, Core, Tickets
    <3>5. num[w] >= 1 /\ ticket.target <= num[w]
      BY <3>4, Bounds
    <3>6. ~Redrivable'
      BY <2>2 DEF Redrivable, TypeOK
    <3>7. Unstarted = {}
      BY <3>3 DEF Token, Core, FirstJob
    <3> QED BY <3>1, <3>2, <3>5, <3>6, <3>7
  <2> QED BY <2>1, <2>2
<1>5. \A v \in Workers : v \in Tasks /\ (v # w => pc'[v] = pc[v])
  BY <1>2, Disjoint
<1>6. \A u \in Resumers : u \in Tasks /\ pc'[u] = pc[u]
  BY <1>1, <1>2, Disjoint
<1>7. Owners' = {w}
  BY <1>2, <1>4, <1>5 DEF Owners, Owning
<1>8. /\ Issuing' = Issuing /\ Deciding' = Deciding /\ Requeuing' = Requeuing
      /\ Minded' = Minded /\ Pending' = Pending
  BY <1>1, <1>2, <1>5, <1>6 DEF Issuing, Deciding, Requeuing, Minded, Pending
<1>9. \A v \in Workers : Asking(v)' <=> Asking(v)
  BY <1>1, <1>2, <1>5 DEF Asking
<1>10. Closing' = Closing
  BY <1>1, <1>2, <1>5, <1>9 DEF Closing
<1>11. \A t \in Tasks : SameTicket(t)' <=> SameTicket(t)
  BY <1>1, <1>3 DEF SameTicket
<1>12. Unstarted' = {}
  BY <1>1, <1>2, <1>4, <1>5 DEF Unstarted
<1>13. FirstJob'
  BY <1>12 DEF FirstJob
<1>14. OwnerAlone'
  BY <1>1, <1>3, <1>4, <1>6, <1>7, <1>8, <1>11 DEF OwnerAlone, Issuing
<1>15. OneQuestion' /\ TicketAlone'
  BY <1>4, <1>8 DEF OneQuestion, TicketAlone
<1>16. OneMind'
  <2>1. OneMind
    BY DEF Token, Core
  <2> QED BY <1>1, <1>3, <1>6, <1>8, <1>11, <2>1 DEF OneMind, Issuing
<1>17. AskerAlone'
  <2>1. ASSUME NEW v \in Closing', num'[v] \in Attempts
        PROVE  pc'[<<"timer", num'[v]>>] \notin {"look", "decide", "issue"}
    <3>1. <<"timer", num[v]>> \in Resumers
      BY <1>1, <2>1, Disjoint DEF Timers
    <3> QED BY <1>1, <1>6, <1>10, <2>1, <3>1 DEF Token, Core, AskerAlone
  <2> QED BY <1>8, <1>9, <1>10, <2>1 DEF Token, Core, AskerAlone
<1>18. Tickets'
  <2>1. \A t \in Tasks : tid'[t] <= ticket'.id
    BY <1>1, <1>3 DEF Token, Core, Tickets
  <2>2. /\ ticket'.id = 0 => ticket'.state = "none" /\ ticket'.target = 0 /\ ticket'.by = "none"
        /\ ticket'.id > 0 => ticket'.state # "none" /\ ticket'.target \in 2..MaxAttempt
    BY <1>3 DEF Token, Core, Tickets
  <2>3. ASSUME NEW v \in Workers, pc'[v] \in {"new", "ticket"}, tid'[v] = ticket'.id, ticket'.id > 0
        PROVE  num'[v] = ticket'.target
    BY <1>1, <1>2, <1>3, <1>5, <2>3 DEF Token, Core, Tickets
  <2>4. ASSUME NEW t \in Resumers, pc'[t] = "dispatch", tid'[t] = ticket'.id
        PROVE  ticket'.id > 0 /\ num'[t] + 1 = ticket'.target
    BY <1>1, <1>3, <1>6, <2>4 DEF Token, Core, Tickets
  <2> QED BY <2>1, <2>2, <2>3, <2>4 DEF Tickets
<1>19. Questions'
  BY <1>1 DEF Token, Core, Questions
<1>20. Servers' /\ WorkersCounted'
  <2>1. Dispatched' >= Dispatched
    <3>1. ticket.target \in Int
      BY DEF TypeOK
    <3>2. CASE ticket.id = 0
      BY <1>3, <3>2 DEF Dispatched
    <3>3. CASE ticket.id # 0
      <4>1. Dispatched' = IF ticket'.state = "issued" THEN ticket.target - 2 ELSE ticket.target - 1
        BY <1>3, <3>3 DEF Dispatched
      <4>2. Dispatched = IF ticket.state = "issued" THEN ticket.target - 2 ELSE ticket.target - 1
        BY <3>3 DEF Dispatched
      <4> QED BY <1>3, <3>1, <4>1, <4>2
    <3> QED BY <3>2, <3>3
  <2> QED BY <1>1, <1>2, <2>1, Passed
<1> QED BY <1>13, <1>14, <1>15, <1>16, <1>17, <1>18, <1>19, <1>20 DEF Token, Core

\* An attempt may ask from now on; it is the only one, and nobody has an older
\* question in hand.
LEMMA EngineExits ==
  ASSUME TypeOK, TypeOK', Token, NEW w \in Workers, EngineExit(w) PROVE Token'
<1>1. /\ pc[w] \in {"engine", "repair"} /\ w \in Tasks /\ w \notin Resumers \cup Cancellers
      /\ UNCHANGED <<flagged, inter, ticket, num, tid, mode, crashes>>
      /\ \A t \in Tasks \ ({w} \cup Cancellers) : AtRest(t)
      /\ pc' = [pc EXCEPT ![w] = "ended"] \/ pc' = [pc EXCEPT ![w] = "resolve"]
  BY Disjoint DEF EngineExit, At, Goto, steady, server
<1>2. /\ pc'[w] \in {"ended", "resolve"} /\ \A u \in Tasks : u # w => pc'[u] = pc[u]
  BY <1>1 DEF TypeOK
<1>3. \A u \in Workers \cup Resumers :
        u \in Tasks /\ (u # w => AtRest(u) /\ pc'[u] = pc[u])
  BY <1>1, <1>2, Disjoint
<1>4. Minded = {} /\ Minded' = {} /\ Issuing' = {} /\ Deciding' = {} /\ Requeuing' = {}
  BY <1>1, <1>2, <1>3, Disjoint DEF Minded, Issuing, Deciding, Requeuing, AtRest
<1>5. Owners' = Owners /\ w \in Owners
  BY <1>1, <1>2, <1>3 DEF Owners, Owning
<1>6. Closing' \subseteq {w} /\ \A v \in Workers : Asking(v)' => v = w
  BY <1>2, <1>3 DEF Closing, Asking, AtRest
<1>7. Pending' = Pending /\ (Redrivable' <=> Redrivable)
  BY <1>1 DEF Pending, Redrivable
<1>8. FirstJob'
  <2>1. Unstarted = {}
    BY <1>5 DEF Token, Core, FirstJob
  <2>2. Unstarted' = {}
    BY <1>1, <1>2, <1>3, <2>1 DEF Unstarted
  <2> QED BY <2>2 DEF FirstJob
<1>9. OwnerAlone' /\ OneQuestion' /\ TicketAlone' /\ OneMind'
  BY <1>1, <1>4, <1>5, <1>7
     DEF Token, Core, OwnerAlone, OneQuestion, TicketAlone, OneMind
<1>10. AskerAlone'
  <2>1. ASSUME NEW v \in Closing', num'[v] \in Attempts
        PROVE  pc'[<<"timer", num'[v]>>] \notin {"look", "decide", "issue"}
    <3>1. <<"timer", num'[v]>> \in Resumers
      BY <2>1, Disjoint DEF Timers
    <3> QED BY <1>1, <1>3, <3>1 DEF AtRest
  <2> QED BY <1>4, <1>6, <2>1 DEF AskerAlone
<1>11. Tickets'
  <2>1. \A v \in Workers : pc'[v] \in {"new", "ticket"} => pc[v] = pc'[v]
    BY <1>2, <1>3
  <2>2. \A t \in Resumers : pc'[t] = pc[t]
    BY <1>1, <1>3
  <2> QED BY <1>1, <2>1, <2>2 DEF Token, Core, Tickets
<1>12. Questions'
  BY <1>1 DEF Token, Core, Questions
<1>13. Servers' /\ WorkersCounted'
  <2>1. Dispatched' >= Dispatched
    BY <1>1, Counts DEF Dispatched, CountsTyped
  <2> QED BY <1>1, <1>2, <2>1, Passed
<1> QED BY <1>8, <1>9, <1>10, <1>11, <1>12, <1>13 DEF Token, Core

\* The owner gives the token to its question.
LEMMA QuestionAsked ==
  ASSUME TypeOK, TypeOK', Token, NEW w \in Workers, TurnAsks(w) PROVE Token'
<1> DEFINE a == num[w]
<1>1. /\ pc[w] = "resolve" /\ w \in Tasks /\ w \notin Resumers
      /\ a < MaxAttempt - Fewer
      /\ inter' = [inter EXCEPT ![a] = [state |-> "pending", by |-> "none"]]
      /\ UNCHANGED <<flagged, ticket, num, tid, mode, crashes>>
      /\ \/ pc' = [pc EXCEPT ![w] = "arm"]
         \/ pc' = [pc EXCEPT ![w] = "done"]
         \/ pc' = [pc EXCEPT ![w] = "autoresume"]
  BY Disjoint DEF TurnAsks, At, Finish, GotoOwing, Goto, Converged, server
<1>2. /\ pc'[w] \in {"arm", "done", "autoresume"} /\ \A u \in Tasks : u # w => pc'[u] = pc[u]
  BY <1>1 DEF TypeOK
<1>3. w \in Owners /\ w \in Closing /\ Asking(w)
  BY <1>1 DEF Owners, Owning, Closing, Asking
<1>4. /\ Owners = {w} /\ Pending = {} /\ ~Redrivable /\ Minded = {} /\ Unstarted = {}
      /\ a >= 1 /\ ticket.target <= a /\ \A v \in Closing : v = w
  BY <1>3 DEF Token, Core, OwnerAlone, AskerAlone, FirstJob
<1>5. a \in Attempts /\ a < MaxAttempt
  BY <1>1, <1>4, Bounds DEF Fewer, Attempts, TypeOK
<1>6. /\ inter'[a].state = "pending" /\ inter'[a].by = "none"
      /\ \A b \in Attempts : b # a => inter'[b] = inter[b]
  BY <1>1, <1>5 DEF TypeOK
<1>7. Pending' = {a}
  BY <1>4, <1>5, <1>6 DEF Pending
<1>8. \A v \in Workers : v \in Tasks /\ (v # w => pc'[v] = pc[v])
  BY <1>2, Disjoint
<1>9. \A u \in Resumers : u \in Tasks /\ pc'[u] = pc[u]
  BY <1>1, <1>2, Disjoint
<1>10. Owners' = {}
  BY <1>2, <1>4, <1>8 DEF Owners, Owning
<1>11. Issuing' = {} /\ Deciding' = {} /\ Requeuing' \subseteq {w} /\ Minded' \subseteq {w}
  BY <1>2, <1>4, <1>8, <1>9 DEF Minded, Issuing, Deciding, Requeuing
<1>12. \A v \in Workers : ~Asking(v)'
  <2>1. \A v \in Workers : Asking(v) => v = w
    BY <1>4 DEF Closing
  <2> QED BY <1>1, <1>2, <1>8, <2>1 DEF Asking
<1>13. Closing' \subseteq {w}
  BY <1>1, <1>4, <1>8, <1>12 DEF Closing
<1>14. FirstJob'
  <2>1. Unstarted' = {}
    BY <1>1, <1>2, <1>4, <1>8 DEF Unstarted
  <2> QED BY <2>1 DEF FirstJob
<1>15. ~Redrivable'
  BY <1>1, <1>4 DEF Redrivable
<1>16. OwnerAlone' /\ TicketAlone'
  BY <1>10, <1>15 DEF OwnerAlone, TicketAlone
<1>17. OneQuestion'
  BY <1>1, <1>4, <1>7, <1>11 DEF OneQuestion
<1>18. OneMind'
  BY <1>1, <1>5, <1>6, <1>11 DEF OneMind
<1>19. AskerAlone'
  <2>1. ASSUME NEW v \in Closing', num'[v] \in Attempts
        PROVE  pc'[<<"timer", num'[v]>>] \notin {"look", "decide", "issue"}
    <3>1. v = w /\ num'[v] = a
      BY <1>1, <1>13, <2>1
    <3>2. <<"timer", a>> \in Resumers
      BY <1>5, Disjoint DEF Timers
    <3>3. pc[<<"timer", a>>] \notin {"look", "decide", "issue"}
      BY <1>3, <1>5 DEF Token, Core, AskerAlone
    <3> QED BY <1>9, <3>1, <3>2, <3>3
  <2> QED BY <1>12, <1>13, <2>1 DEF AskerAlone
<1>20. Tickets'
  <2>1. \A v \in Workers : pc'[v] \in {"new", "ticket"} => pc[v] = pc'[v]
    BY <1>2, <1>8
  <2> QED BY <1>1, <1>9, <2>1 DEF Token, Core, Tickets
<1>21. Questions'
  BY <1>5, <1>6 DEF Token, Core, Questions
<1>22. Servers' /\ WorkersCounted'
  <2>1. Dispatched' >= Dispatched
    BY <1>1, Counts DEF Dispatched, CountsTyped
  <2> QED BY <1>1, <1>2, <2>1, Passed
<1> QED BY <1>14, <1>16, <1>17, <1>18, <1>19, <1>20, <1>21, <1>22 DEF Token, Core

\* The job gives its question to the timer.
LEMMA TimerTakesOver ==
  ASSUME TypeOK, TypeOK', Token, NEW w \in Workers, FinishRequeued(w) PROVE Token'
<1> DEFINE t == <<"timer", num[w]>>
<1>1. /\ pc[w] = "autoresume" /\ w \in Tasks /\ w \notin Resumers
      /\ pc' = [pc EXCEPT ![w] = "done", ![t] = "decide"]
      /\ num' = [num EXCEPT ![t] = num[w]]
      /\ UNCHANGED <<flagged, inter, ticket, tid, mode, crashes>>
  BY Disjoint DEF FinishRequeued, At, data, steady, server
<1>2. w \in Requeuing /\ w \in Minded /\ w \in Closing
  BY <1>1 DEF Minded, Requeuing, Closing
<1>3. /\ num[w] \in Attempts /\ \A u \in Minded : num[u] = num[w]
      /\ \A u \in Minded : inter[num[w]].state # "absent"
      /\ \A a \in Pending : ticket.target <= a /\ Issuing = {} /\ num[w] = a
      /\ Unstarted = {} /\ \A v \in Workers : ~Asking(v)
      /\ \A v \in Closing : v = w
  BY <1>2 DEF Token, Core, OneMind, OneQuestion, FirstJob, AskerAlone
<1>4. t \in Timers /\ t \in Resumers /\ t \in Tasks /\ t # w
  BY <1>1, <1>3, Disjoint DEF Timers
<1>5. pc[t] \notin {"look", "decide", "issue"}
  BY <1>2, <1>3 DEF Token, Core, AskerAlone
<1> HIDE DEF t
<1>6. /\ pc'[w] = "done" /\ pc'[t] = "decide" /\ num'[t] = num[w]
      /\ \A u \in Tasks : u # w /\ u # t => pc'[u] = pc[u]
      /\ \A u \in Tasks : u # t => num'[u] = num[u]
  BY <1>1, <1>4 DEF TypeOK
<1>7. \A v \in Workers : v \in Tasks /\ num'[v] = num[v] /\ (v # w => pc'[v] = pc[v])
  BY <1>4, <1>6, Disjoint
<1>8. \A u \in Resumers : u \in Tasks /\ (u # t => pc'[u] = pc[u] /\ num'[u] = num[u])
  BY <1>1, <1>6, Disjoint
<1>9. Owners' = Owners /\ Pending' = Pending /\ (Redrivable' <=> Redrivable)
  BY <1>1, <1>6, <1>7 DEF Owners, Owning, Pending, Redrivable
<1>10. Issuing' = Issuing /\ \A u \in Issuing : u # t
  BY <1>5, <1>6, <1>8 DEF Issuing
<1>11. Deciding' = Deciding \cup {t}
  BY <1>4, <1>6, <1>8 DEF Deciding
<1>12. Requeuing' \subseteq Requeuing
  BY <1>1, <1>6, <1>7 DEF Requeuing
<1>13. Minded' \subseteq Minded \cup {t}
  BY <1>10, <1>11, <1>12 DEF Minded
<1>14. \A u \in Minded' : num'[u] = num[w]
  <2>1. \A u \in Minded : u \in Tasks
    BY Disjoint DEF Minded, Issuing, Deciding, Requeuing
  <2> QED BY <1>3, <1>6, <1>13, <2>1
<1>15. \A v \in Workers : ~Asking(v)'
  BY <1>1, <1>3, <1>6, <1>7 DEF Asking
<1>16. Closing' = {}
  <2>1. \A v \in Workers : v # w => pc[v] \notin {"arm", "autoresume"}
    BY <1>3 DEF Closing
  <2> QED BY <1>6, <1>7, <1>15, <2>1 DEF Closing
<1>17. \A u \in Issuing : SameTicket(u)' <=> SameTicket(u)
  BY <1>1, <1>8, <1>10 DEF SameTicket, Issuing
<1>18. FirstJob'
  <2>1. Unstarted' = {}
    BY <1>1, <1>3, <1>6, <1>7 DEF Unstarted
  <2> QED BY <2>1 DEF FirstJob
<1>19. OwnerAlone'
  <2>1. \A v \in Owners : num'[v] = num[v]
    BY <1>7 DEF Owners
  <2> QED BY <1>1, <1>9, <1>10, <1>17, <2>1 DEF Token, Core, OwnerAlone
<1>20. OneQuestion'
  BY <1>1, <1>3, <1>9, <1>10, <1>14 DEF Token, Core, OneQuestion
<1>21. TicketAlone'
  BY <1>9, <1>10, <1>17 DEF Token, Core, TicketAlone
<1>22. OneMind'
  <2>1. \A u \in Minded' : num'[u] \in Attempts /\ inter'[num'[u]].state # "absent"
    BY <1>1, <1>2, <1>3, <1>14
  <2>2. \A u, v \in Minded' : num'[u] = num'[v]
    BY <1>14
  <2>3. \A u \in Issuing' :
          /\ inter'[num'[u]].by = u[1] /\ inter'[num'[u]].state # "pending"
          /\ SameTicket(u)' \/ ticket'.target <= num'[u]
    <3> TAKE u \in Issuing'
    <3>1. u \in Issuing /\ num'[u] = num[u]
      BY <1>8, <1>10 DEF Issuing
    <3> QED BY <1>1, <1>17, <3>1 DEF Token, Core, OneMind
  <2>4. inter[num[w]].state # "pending" /\ Issuing = {} =>
          ticket.by = inter[num[w]].by /\ ticket.target = num[w] + 1
    BY <1>2 DEF Token, Core, OneMind
  <2>5. \A u \in Deciding' \cup Requeuing' : num'[u] = num[w]
    BY <1>14 DEF Minded
  <2> QED BY <1>1, <1>10, <2>1, <2>2, <2>3, <2>4, <2>5 DEF OneMind
<1>23. AskerAlone'
  BY <1>15, <1>16 DEF AskerAlone
<1>24. Tickets'
  <2>1. \A v \in Workers : pc'[v] \in {"new", "ticket"} => pc[v] = pc'[v]
    BY <1>6, <1>7
  <2>2. \A u \in Resumers : pc'[u] = "dispatch" => pc[u] = "dispatch" /\ num'[u] = num[u]
    BY <1>6, <1>8
  <2> QED BY <1>1, <1>7, <2>1, <2>2 DEF Token, Core, Tickets
<1>25. Questions'
  BY <1>1 DEF Token, Core, Questions
<1>26. Servers' /\ WorkersCounted'
  <2>1. Dispatched' >= Dispatched
    BY <1>1, Counts DEF Dispatched, CountsTyped
  <2>2. \A u \in Tasks \ Resumers : u = w \/ pc'[u] = pc[u]
    BY <1>4, <1>6
  <2> QED BY <1>1, <1>6, <2>1, <2>2, Passed
<1> QED BY <1>18, <1>19, <1>20, <1>21, <1>22, <1>23, <1>24, <1>25, <1>26 DEF Token, Core

\* The open question is taken in hand by one more.
LEMMA QuestionFound ==
  ASSUME TypeOK, TypeOK', Token, NEW t \in Resumers, LookUpPending(t), Pending # {}
  PROVE  Token'
<1> DEFINE a == Max(Pending)
<1>1. /\ pc[t] = "look" /\ t \in Tasks /\ t \notin Workers
      /\ pc' = [pc EXCEPT ![t] = "decide"] /\ num' = [num EXCEPT ![t] = a]
      /\ UNCHANGED <<flagged, inter, ticket, tid, mode, crashes>>
  BY Disjoint DEF LookUpPending, At, Goto, data, steady, server
<1>2. a \in Pending
  BY LatestPending DEF Token, Core
<1> HIDE DEF a
<1>3. /\ a \in Attempts /\ inter[a].state = "pending" /\ \A b \in Pending : b = a
      /\ ticket.target <= a /\ Issuing = {} /\ \A u \in Minded : num[u] = a
      /\ Owners = {} /\ Unstarted = {} /\ ~Redrivable
  BY <1>2 DEF Pending, Token, Core, OneQuestion, OwnerAlone, FirstJob, TicketAlone
<1>4. /\ pc'[t] = "decide" /\ num'[t] = a
      /\ \A u \in Tasks : u # t => pc'[u] = pc[u] /\ num'[u] = num[u]
  BY <1>1 DEF TypeOK
<1>5. \A v \in Workers : v \in Tasks /\ num'[v] = num[v] /\ pc'[v] = pc[v]
  BY <1>1, <1>4, Disjoint
<1>6. \A u \in Resumers : u \in Tasks /\ (u # t => pc'[u] = pc[u] /\ num'[u] = num[u])
  BY <1>4, Disjoint
<1>7. Owners' = {} /\ Pending' = Pending /\ ~Redrivable' /\ Unstarted' = {}
  BY <1>1, <1>3, <1>5 DEF Owners, Pending, Redrivable, Unstarted
<1>8. Issuing' = {}
  BY <1>3, <1>4, <1>6 DEF Issuing
<1>9. Deciding' \subseteq Deciding \cup {t} /\ Requeuing' \subseteq Requeuing
  BY <1>5, <1>6 DEF Deciding, Requeuing
<1>10. \A u \in Minded' : num'[u] = a
  <2>1. \A u \in Minded : u \in Tasks
    BY Disjoint DEF Minded, Issuing, Deciding, Requeuing
  <2>2. Minded' \subseteq Minded \cup {t}
    BY <1>8, <1>9 DEF Minded
  <2> QED BY <1>3, <1>4, <2>1, <2>2
<1>11. \A v \in Workers : ~Asking(v)'
  <2>1. \A v \in Workers : ~Asking(v)
    BY <1>3 DEF Owners, Owning, Asking
  <2> QED BY <1>1, <1>5, <2>1 DEF Asking
<1>12. Closing' \subseteq Closing
  BY <1>5, <1>11 DEF Closing
<1>13. FirstJob' /\ OwnerAlone' /\ TicketAlone'
  BY <1>7 DEF FirstJob, OwnerAlone, TicketAlone
<1>14. OneQuestion'
  BY <1>1, <1>3, <1>7, <1>8, <1>10 DEF OneQuestion
<1>15. OneMind'
  <2>1. \A u \in Deciding' \cup Requeuing' : num'[u] = a
    BY <1>10 DEF Minded
  <2> QED BY <1>1, <1>3, <1>8, <1>10, <2>1 DEF OneMind
<1>16. AskerAlone'
  <2>1. ASSUME NEW v \in Closing', num'[v] \in Attempts
        PROVE  pc'[<<"timer", num'[v]>>] \notin {"look", "decide", "issue"}
    <3>1. v \in Closing /\ num'[v] = num[v]
      BY <1>5, <1>12, <2>1 DEF Closing
    <3>2. pc[<<"timer", num[v]>>] \notin {"look", "decide", "issue"}
      BY <2>1, <3>1 DEF Token, Core, AskerAlone
    <3>3. <<"timer", num[v]>> \in Tasks /\ <<"timer", num[v]>> # t
      BY <1>1, <2>1, <3>1, <3>2, Disjoint DEF Timers
    <3> QED BY <1>4, <3>1, <3>2, <3>3
  <2> QED BY <1>11, <1>12, <2>1 DEF Token, Core, AskerAlone
<1>17. Tickets'
  <2>1. \A u \in Resumers : pc'[u] = "dispatch" => pc[u] = "dispatch" /\ num'[u] = num[u]
    BY <1>4, <1>6
  <2> QED BY <1>1, <1>5, <2>1 DEF Token, Core, Tickets
<1>18. Questions'
  BY <1>1 DEF Token, Core, Questions
<1>19. Servers' /\ WorkersCounted'
  <2>1. Dispatched' >= Dispatched
    BY <1>1, Counts DEF Dispatched, CountsTyped
  <2> QED BY <1>1, <1>4, <2>1, Passed
<1> QED BY <1>13, <1>14, <1>15, <1>16, <1>17, <1>18, <1>19 DEF Token, Core

\* An answer is accepted: the question is closed, and whoever goes on with it
\* will find the ticket of the first who did.
LEMMA AnswerAccepted ==
  ASSUME TypeOK, TypeOK', Token, NEW t \in Resumers, SubmitReply(t), pc'[t] # "done"
  PROVE  Token'
<1> DEFINE i == num[t]
<1>1. /\ pc[t] = "decide" /\ t \in Tasks /\ t \notin Workers
      /\ UNCHANGED <<flagged, ticket, num, tid, mode, crashes>>
  BY Disjoint DEF SubmitReply, At, steady, server
<1>2. t \in Deciding /\ t \in Minded
  BY <1>1 DEF Deciding, Minded
<1>3. /\ i \in Attempts /\ inter[i].state # "absent" /\ \A u \in Minded : num[u] = i
      /\ Unstarted = {} /\ \A v \in Workers : ~Asking(v)
      /\ \A b \in Pending : b = i /\ ticket.target <= b /\ Issuing = {}
  BY <1>2 DEF Token, Core, OneMind, OneQuestion, FirstJob, AskerAlone
<1>4. /\ pc' = [pc EXCEPT ![t] = "issue"]
      /\ \/ /\ i \in Pending
            /\ inter' = [inter EXCEPT ![i] = [state |-> "answered", by |-> t[1]]]
         \/ /\ i \notin Pending /\ t[1] = "timer" /\ inter[i].by = "timer"
            /\ UNCHANGED inter
  <2>1. ~(pc' = [pc EXCEPT ![t] = "done"])
    BY <1>1 DEF TypeOK
  <2> QED BY <1>3, <2>1 DEF SubmitReply, GotoOwing, Goto, First, Pending
<1>5. pc'[t] = "issue" /\ \A u \in Tasks : u # t => pc'[u] = pc[u]
  BY <1>1, <1>4 DEF TypeOK
<1>6. /\ inter'[i].by = t[1] /\ inter'[i].state \notin {"pending", "absent"}
      /\ \A b \in Attempts : b # i => inter'[b] = inter[b]
  BY <1>3, <1>4 DEF TypeOK, Pending
<1>7. Pending' = {}
  BY <1>3, <1>6 DEF Pending
<1>8. \A v \in Workers : v \in Tasks /\ pc'[v] = pc[v]
  BY <1>1, <1>5, Disjoint
<1>9. \A u \in Resumers : u \in Tasks /\ (u # t => pc'[u] = pc[u])
  BY <1>5, Disjoint
<1>10. Owners' = Owners /\ (Redrivable' <=> Redrivable) /\ Unstarted' = {}
  BY <1>1, <1>3, <1>8 DEF Owners, Redrivable, Unstarted
<1>11. Issuing' = Issuing \cup {t}
  BY <1>5, <1>9 DEF Issuing
<1>12. Minded' = Minded
  <2>1. Deciding' = Deciding \ {t} /\ t \in Deciding /\ Requeuing' = Requeuing
    BY <1>1, <1>5, <1>8, <1>9 DEF Deciding, Requeuing
  <2> QED BY <1>11, <2>1 DEF Minded
<1>13. \A u \in Tasks : SameTicket(u)' <=> SameTicket(u)
  BY <1>1 DEF SameTicket
<1>14. \A u \in Issuing : inter[i].by = u[1] /\ (SameTicket(u) \/ ticket.target <= i)
  BY <1>3 DEF Token, Core, OneMind, Minded
<1>15. \/ Owners = {} /\ ~Redrivable /\ Issuing = {} /\ ticket.target <= i
       \/ Issuing = {} /\ SameTicket(t)
       \/ \E u \in Issuing : /\ t[1] = u[1] /\ (SameTicket(t) <=> SameTicket(u))
                             /\ SameTicket(u) \/ ticket.target <= i
  <2>1. CASE i \in Pending
    BY <1>3, <2>1 DEF Token, Core, OwnerAlone, TicketAlone
  <2>2. CASE i \notin Pending /\ t[1] = "timer" /\ inter[i].by = "timer" /\ Issuing = {}
    <3>1. inter[i].state # "pending"
      BY <1>3, <2>2 DEF Pending
    <3>2. ticket.by = inter[i].by /\ ticket.target = i + 1
      BY <1>2, <2>2, <3>1 DEF Token, Core, OneMind
    <3> QED BY <2>2, <3>2 DEF SameTicket
  <2>3. ASSUME t[1] = "timer", inter[i].by = "timer", NEW u \in Issuing
        PROVE  t[1] = u[1] /\ (SameTicket(t) <=> SameTicket(u))
                 /\ (SameTicket(u) \/ ticket.target <= i)
    <3>1. u[1] = "timer" /\ num[u] = i
      BY <1>3, <1>14, <2>3 DEF Minded
    <3> QED BY <1>14, <2>3, <3>1 DEF SameTicket
  <2> QED BY <1>4, <2>1, <2>2, <2>3
<1>16. OwnerAlone'
  <2>1. Owners # {} => \A u \in Issuing' : SameTicket(u)'
    <3>1. Owners # {} => SameTicket(t)
      BY <1>15 DEF Token, Core, OwnerAlone
    <3>2. Owners # {} => \A u \in Issuing : SameTicket(u) /\ u \in Tasks
      BY <1>9 DEF Token, Core, OwnerAlone, Issuing
    <3> QED BY <1>1, <1>11, <1>13, <3>1, <3>2
  <2> QED BY <1>1, <1>7, <1>10, <2>1 DEF Token, Core, OwnerAlone
<1>17. TicketAlone'
  <2>1. Redrivable => \A u \in Issuing' : SameTicket(u)'
    <3>1. Redrivable => SameTicket(t)
      BY <1>15 DEF Token, Core, TicketAlone
    <3>2. Redrivable => \A u \in Issuing : SameTicket(u) /\ u \in Tasks
      BY <1>9 DEF Token, Core, TicketAlone, Issuing
    <3> QED BY <1>1, <1>11, <1>13, <3>1, <3>2
  <2> QED BY <1>7, <1>10, <2>1 DEF TicketAlone
<1>18. OneMind'
  <2>1. \A u \in Issuing' : SameTicket(u)' \/ ticket'.target <= i
    <3>1. SameTicket(t) \/ ticket.target <= i
      BY <1>15
    <3>2. \A u \in Issuing : u \in Tasks
      BY <1>9 DEF Issuing
    <3> QED BY <1>1, <1>11, <1>13, <1>14, <3>1, <3>2
  <2>2. \A u \in Issuing' : u[1] = inter'[i].by
    <3>1. \A u \in Issuing : u[1] = t[1]
      BY <1>3, <1>4, <1>14
    <3> QED BY <1>6, <1>11, <3>1
  <2>3. \A u \in Minded' : num'[u] = i
    BY <1>1, <1>3, <1>12
  <2>4. \A u \in Issuing' : num'[u] = i
    BY <2>3 DEF Minded
  <2>5. t \in Issuing'
    BY <1>11
  <2> QED BY <1>3, <1>6, <2>1, <2>2, <2>3, <2>4, <2>5 DEF OneMind
<1>19. AskerAlone'
  <2>1. \A v \in Workers : ~Asking(v)' /\ num'[v] = num[v]
    BY <1>1, <1>3, <1>8 DEF Asking
  <2>2. Closing' \subseteq Closing
    BY <1>8, <2>1 DEF Closing
  <2>3. ASSUME NEW v \in Closing', num'[v] \in Attempts
        PROVE  pc'[<<"timer", num'[v]>>] \notin {"look", "decide", "issue"}
    <3>1. v \in Closing /\ num'[v] = num[v]
      BY <1>1, <2>2, <2>3
    <3>2. pc[<<"timer", num[v]>>] \notin {"look", "decide", "issue"}
      BY <2>3, <3>1 DEF Token, Core, AskerAlone
    <3>3. <<"timer", num[v]>> \in Tasks /\ <<"timer", num[v]>> # t
      BY <1>1, <2>3, <3>1, <3>2, Disjoint DEF Timers
    <3> QED BY <1>5, <3>1, <3>2, <3>3
  <2> QED BY <2>1, <2>2, <2>3 DEF Token, Core, AskerAlone
<1>20. FirstJob' /\ OneQuestion'
  BY <1>7, <1>10 DEF FirstJob, OneQuestion
<1>21. Tickets'
  <2>1. \A u \in Resumers : pc'[u] = "dispatch" => pc[u] = "dispatch"
    BY <1>5, <1>9
  <2> QED BY <1>1, <1>8, <2>1 DEF Token, Core, Tickets
<1>22. Questions'
  BY <1>3, <1>6 DEF Token, Core, Questions
<1>23. Servers' /\ WorkersCounted'
  <2>1. Dispatched' >= Dispatched
    BY <1>1, Counts DEF Dispatched, CountsTyped
  <2> QED BY <1>1, <1>5, <2>1, Passed
<1> QED BY <1>16, <1>17, <1>18, <1>19, <1>20, <1>21, <1>22, <1>23 DEF Token, Core

\* A question answered becomes a ticket, the same for all who have it in hand.
LEMMA TicketIssued ==
  ASSUME TypeOK, TypeOK', Token, NEW t \in Resumers, IssueTicket(t) PROVE Token'
<1> DEFINE i == num[t]
<1>1. /\ pc[t] = "issue" /\ t \in Tasks /\ t \notin Workers
      /\ pc' = [pc EXCEPT ![t] = "dispatch"]
      /\ tid' = [tid EXCEPT ![t] = ticket'.id]
      /\ UNCHANGED <<flagged, inter, num, mode, crashes>>
  BY Disjoint DEF IssueTicket, At, GotoOwing, Goto, steady, server
<1>2. t \in Issuing /\ t \in Minded
  BY <1>1 DEF Issuing, Minded
<1>3. /\ i \in Attempts /\ inter[i].state \notin {"absent", "pending"} /\ i < MaxAttempt
      /\ inter[i].by = t[1] /\ \A u \in Minded : num[u] = i
      /\ Unstarted = {} /\ \A v \in Workers : ~Asking(v)
      /\ Pending = {} /\ \A u \in Issuing : inter[i].by = u[1]
      /\ SameTicket(t) \/ ticket.target <= i
  BY <1>2 DEF Token, Core, OneMind, OneQuestion, FirstJob, AskerAlone, Questions, Minded
<1>4. /\ ticket'.id >= ticket.id /\ ticket'.id > 0
      /\ ticket'.by = t[1] /\ ticket'.target = i + 1 /\ ticket'.state # "none"
      /\ Dispatched' >= Dispatched
      /\ Owners # {} => ~Redrivable'
      /\ ticket' = ticket \/ (ticket'.id > ticket.id /\ Owners = {})
  <2>1. CASE SameTicket(t)
    <3>1. ticket' = ticket /\ ticket.by = t[1] /\ ticket.target = i + 1
      BY <2>1 DEF IssueTicket, SameTicket
    <3>2. ticket.id > 0
      BY <1>3, <3>1 DEF Token, Core, Tickets, TypeOK, Attempts
    <3>3. ticket.state # "none" /\ Dispatched' = Dispatched /\ (Redrivable' <=> Redrivable)
      BY <3>1, <3>2 DEF Token, Core, Tickets, Dispatched, Redrivable
    <3>4. Dispatched \in Int /\ ticket.id \in Nat
      BY Counts DEF CountsTyped, TypeOK
    <3>5. Owners # {} => ~Redrivable
      BY DEF Token, Core, OwnerAlone
    <3> QED BY <3>1, <3>2, <3>3, <3>4, <3>5
  <2>2. CASE ~SameTicket(t)
    <3>1. ticket' = [id |-> ticket.id + 1, by |-> t[1], target |-> i + 1, state |-> "issued"]
      BY <2>2 DEF IssueTicket
    <3>2. Owners = {} /\ ~Redrivable /\ ticket.target <= i
      BY <1>2, <1>3, <2>2 DEF Token, Core, OwnerAlone, TicketAlone
    <3>0. i \in Int /\ i >= 1 /\ ticket.id \in Nat
      BY <1>3 DEF Attempts, TypeOK
    <3>3. Dispatched' = i - 1
      <4>1. ticket'.id # 0 /\ ticket'.state = "issued" /\ ticket'.target = i + 1
        BY <3>0, <3>1
      <4>2. Dispatched' = ticket'.target - 2
        BY <4>1 DEF Dispatched
      <4> QED BY <3>0, <4>1, <4>2
    <3>4. ticket.id # 0 => ticket.state = "started"
      BY <3>2 DEF Token, Core, Tickets, Redrivable, TypeOK
    <3>5. Dispatched <= i - 1
      <4>1. CASE ticket.id = 0
        BY <3>0, <4>1 DEF Dispatched
      <4>2. CASE ticket.id # 0
        <5>1. Dispatched = ticket.target - 1
          BY <3>4, <4>2 DEF Dispatched
        <5>2. ticket.target \in Int
          BY DEF TypeOK
        <5> QED BY <3>0, <3>2, <5>1, <5>2
      <4> QED BY <4>1, <4>2
    <3>6. Dispatched \in Int /\ i \in Int
      BY <1>3, Counts DEF CountsTyped, Attempts
    <3>7. ticket'.id = ticket.id + 1 /\ ticket.id \in Nat
      BY <3>1 DEF TypeOK
    <3> QED BY <3>1, <3>2, <3>3, <3>5, <3>6, <3>7
  <2> QED BY <2>1, <2>2
<1>5. /\ pc'[t] = "dispatch" /\ tid'[t] = ticket'.id
      /\ \A u \in Tasks : u # t => pc'[u] = pc[u] /\ tid'[u] = tid[u]
  BY <1>1 DEF TypeOK
<1>6. \A v \in Workers : v \in Tasks /\ pc'[v] = pc[v] /\ tid'[v] = tid[v]
  BY <1>1, <1>5, Disjoint
<1>7. \A u \in Resumers : u \in Tasks /\ (u # t => pc'[u] = pc[u] /\ tid'[u] = tid[u])
  BY <1>5, Disjoint
<1>8. Owners' = Owners /\ Unstarted' = {} /\ Pending' = {}
  BY <1>1, <1>3, <1>6 DEF Owners, Unstarted, Pending
<1>9. Issuing' \subseteq Issuing /\ Deciding' = Deciding /\ Requeuing' = Requeuing
  BY <1>1, <1>5, <1>6, <1>7 DEF Issuing, Deciding, Requeuing
<1>10. Minded' \subseteq Minded /\ \A u \in Minded' : num'[u] = i
  BY <1>1, <1>3, <1>9 DEF Minded
<1>11. \A u \in Issuing' : SameTicket(u)' /\ num'[u] = i /\ inter'[i].by = u[1]
  <2> TAKE u \in Issuing'
  <2>1. u \in Issuing /\ num'[u] = i
    BY <1>9, <1>10 DEF Minded
  <2>2. u[1] = t[1]
    BY <1>3, <2>1
  <2> QED BY <1>1, <1>3, <1>4, <2>1, <2>2 DEF SameTicket
<1>12. FirstJob' /\ OneQuestion' /\ TicketAlone'
  BY <1>8, <1>11 DEF FirstJob, OneQuestion, TicketAlone
<1>13. OwnerAlone'
  <2>1. Owners # {} => ticket' = ticket
    BY <1>4
  <2> QED BY <1>1, <1>4, <1>8, <1>11, <2>1 DEF Token, Core, OwnerAlone
<1>14. OneMind'
  <2>1. \A u \in Deciding' \cup Requeuing' : num'[u] = i
    BY <1>10 DEF Minded
  <2> QED BY <1>1, <1>3, <1>4, <1>10, <1>11, <2>1 DEF OneMind
<1>15. AskerAlone'
  <2>1. \A v \in Workers : ~Asking(v)' /\ num'[v] = num[v]
    BY <1>1, <1>3, <1>6 DEF Asking
  <2>2. Closing' \subseteq Closing
    BY <1>6, <2>1 DEF Closing
  <2>3. ASSUME NEW v \in Closing', num'[v] \in Attempts
        PROVE  pc'[<<"timer", num'[v]>>] \notin {"look", "decide", "issue"}
    <3>1. v \in Closing /\ num'[v] = num[v]
      BY <1>1, <2>2, <2>3
    <3>2. pc[<<"timer", num[v]>>] \notin {"look", "decide", "issue"}
      BY <2>3, <3>1 DEF Token, Core, AskerAlone
    <3>3. <<"timer", num[v]>> \in Tasks
      BY <2>3, <3>1, Disjoint DEF Timers
    <3> QED BY <1>5, <3>1, <3>2, <3>3
  <2> QED BY <2>1, <2>2, <2>3 DEF Token, Core, AskerAlone
<1>16. Tickets'
  <2>0. \A u \in Tasks : tid[u] \in Nat /\ tid[u] <= ticket.id
    BY DEF Token, Core, Tickets, TypeOK
  <2>00. ticket.id \in Nat /\ ticket'.id \in Nat
    BY DEF TypeOK
  <2>1. \A u \in Tasks : tid'[u] <= ticket'.id
    BY <1>4, <1>5, <2>0, <2>00
  <2>2. ticket'.id > 0 /\ ticket'.state # "none" /\ ticket'.target \in 2..MaxAttempt
    BY <1>3, <1>4, Bounds DEF Attempts
  <2>3. ASSUME NEW v \in Workers, pc'[v] \in {"new", "ticket"}, tid'[v] = ticket'.id
        PROVE  num'[v] = ticket'.target
    <3>1. tid[v] = ticket'.id /\ tid[v] <= ticket.id /\ pc[v] \in {"new", "ticket"}
      BY <1>6, <2>0, <2>3
    <3>2. ticket' = ticket
      BY <1>4, <2>00, <3>1
    <3>3. ticket.id > 0
      BY <1>4, <3>2
    <3> QED BY <1>1, <3>1, <3>2, <3>3 DEF Token, Core, Tickets
  <2>4. ASSUME NEW u \in Resumers, pc'[u] = "dispatch", tid'[u] = ticket'.id
        PROVE  num'[u] + 1 = ticket'.target
    <3>1. CASE u = t
      BY <1>1, <1>4, <3>1
    <3>2. CASE u # t
      <4>1. tid[u] = ticket'.id /\ tid[u] <= ticket.id /\ pc[u] = "dispatch"
        BY <1>7, <2>0, <2>4, <3>2
      <4>2. ticket' = ticket
        BY <1>4, <2>00, <4>1
      <4> QED BY <1>1, <4>1, <4>2 DEF Token, Core, Tickets
    <3> QED BY <3>1, <3>2
  <2> QED BY <2>1, <2>2, <2>3, <2>4, <2>00 DEF Tickets
<1>17. Questions'
  BY <1>1 DEF Token, Core, Questions
<1>18. Servers' /\ WorkersCounted'
  BY <1>1, <1>4, <1>5, Passed
<1> QED BY <1>12, <1>13, <1>14, <1>15, <1>16, <1>17, <1>18 DEF Token, Core

-----------------------------------------------------------------------------
(* The theorems *)

LEMMA Initially == Init => TypeOK /\ Token
<1> SUFFICES ASSUME Init PROVE TypeOK /\ Token
  OBVIOUS
<1> DEFINE first == <<"worker", 1>>
<1>1. /\ pc[first] = "new" /\ num[first] = 1 /\ first \in Workers
      /\ \A t \in Tasks : /\ t # first => pc[t] = "idle"
                          /\ num[t] \in Nat /\ tid[t] = 0 /\ todo[t] = <<>>
  BY FirstWorker, Disjoint DEF Init
<1>2. TypeOK
  <2>1. pc \in [Tasks -> Steps] /\ num \in [Tasks -> Nat] /\ tid \in [Tasks -> Nat]
    BY DEF Init, Steps
  <2>2. todo \in [Tasks -> Seq(Writes)]
    BY NoWrites DEF Init, Todo
  <2>3. round \in [Workers -> 0..MaxRepairs] /\ crashes \in 0..MaxCrashes
    BY Bounds DEF Init
  <2>4. /\ store \in [state : Statuses, row : Statuses, result : Terminal \cup {"none"}]
        /\ inter \in [Attempts -> [state : {"absent", "pending", "answered", "consumed"},
                                   by : {"none", "timer", "reply"}]]
        /\ ticket \in [id : Nat, by : {"none", "timer", "reply"}, target : Nat,
                       state : {"none", "issued", "dispatched", "started"}]
    BY DEF Init, Statuses
  <2>5. /\ conversation \in Conversations /\ situation \in Situations
        /\ flagged \in BOOLEAN /\ handle \in BOOLEAN
        /\ mode \in {"up", "down", "recovering"}
    BY DEF Init
  <2>6. turns \in Seq(Nat)
    <3>1. turns = <<>>
      BY DEF Init
    <3> QED BY <3>1
  <2> QED BY <2>1, <2>2, <2>3, <2>4, <2>5, <2>6 DEF TypeOK
<1> HIDE DEF first
<1>3. \A t \in Resumers \cup Pollers \cup Cancellers \cup {recovery} :
        t \in Tasks /\ pc[t] = "idle"
  BY <1>1, Disjoint
<1>4. \A w \in Workers : w \in Tasks /\ pc[w] \in {"idle", "new"} /\ (w # first => pc[w] = "idle")
  BY <1>1, Disjoint
<1>5. /\ Owners = {} /\ Minded = {} /\ Issuing = {} /\ Deciding = {} /\ Requeuing = {}
      /\ Closing = {} /\ \A w \in Workers : ~Asking(w)
  BY <1>3, <1>4 DEF Owners, Owning, Minded, Issuing, Deciding, Requeuing, Closing, Asking
<1>6. /\ ticket.id = 0 /\ ticket.state = "none" /\ ticket.target = 0 /\ ticket.by = "none"
      /\ mode = "up" /\ crashes = 0 /\ \A a \in Attempts : inter[a].state = "absent"
  BY DEF Init
<1>7. Pending = {} /\ ~Redrivable
  BY <1>6 DEF Pending, Redrivable
<1>8. FirstJob
  <2>1. \A w \in Unstarted : w = first
    BY <1>4 DEF Unstarted
  <2> QED BY <1>1, <1>5, <1>6, <1>7, <2>1 DEF FirstJob, first
<1>9. OwnerAlone /\ OneQuestion /\ TicketAlone /\ OneMind /\ AskerAlone
  BY <1>5, <1>7 DEF OwnerAlone, OneQuestion, TicketAlone, OneMind, AskerAlone
<1>10. Tickets /\ Questions /\ Servers
  BY <1>1, <1>3, <1>6 DEF Tickets, Questions, Servers
<1>11. WorkersCounted
  <2>1. Spawned = {first}
    BY <1>1, <1>4 DEF Spawned
  <2>2. Cardinality(Spawned) = 1
    BY <2>1, FS_Singleton
  <2>3. Dispatched = 0 /\ Restarted = 0
    BY <1>6 DEF Dispatched, Restarted
  <2>4. Cardinality(Polled) \in Nat
    BY <1>2, Counts DEF CountsTyped
  <2> QED BY <2>2, <2>3, <2>4 DEF WorkersCounted
<1> QED BY <1>2, <1>8, <1>9, <1>10, <1>11 DEF Token, Core

\* The token is passed on by every step, and never doubled.
LEMMA Inductive == TypeOK /\ Token /\ [Next]_vars => TypeOK' /\ Token'
<1> SUFFICES ASSUME TypeOK, Token, [Next]_vars PROVE TypeOK' /\ Token'
  OBVIOUS
<1>1. TypeOK'
  BY TypeStep DEF Token, Core
<1>2. ASSUME NEW w \in Workers, WorkerStep(w) \/ RejectRun(w) \/ AuditFails(w) PROVE Token'
  <2>1. CASE StartTicket(w)
    <3>1. \/ UNCHANGED ticket /\ pc' = [pc EXCEPT ![w] = "done"]
          \/ /\ pc' = [pc EXCEPT ![w] = "claim"]
             /\ \/ tid[w] = 0 /\ ticket' = ticket
                \/ /\ tid[w] # 0 /\ tid[w] = ticket.id /\ Redrivable
                   /\ ticket' = [ticket EXCEPT !.state = "started"]
      BY <2>1 DEF StartTicket, Goto
    <3> QED BY <1>1, <2>1, <3>1, WorkerCalmSteps, JobStarts
  <2>2. CASE EngineExit(w)
    BY <1>1, <2>2, EngineExits
  <2>3. CASE TurnAsks(w)
    BY <1>1, <2>3, QuestionAsked
  <2>4. CASE FinishWaiting(w)
    BY <1>1, <2>4, FinishWaitingCalm
  <2>5. CASE FinishRequeued(w)
    BY <1>1, <2>5, TimerTakesOver
  <2>6. CASE \/ Admit(w) \/ RejectRun(w) \/ AuditFails(w) \/ AdvancePhase(w) \/ CheckCancel(w)
             \/ Prepare(w) \/ Launch(w) \/ RepairRound(w) \/ TurnFailed(w) \/ TurnSucceeded(w)
    BY <1>1, <2>6, WorkerCalmSteps
  <2> QED BY <1>2, <2>1, <2>2, <2>3, <2>4, <2>5, <2>6 DEF WorkerStep
<1>3. ASSUME NEW t \in Resumers, LookUpPending(t) \/ SubmitReply(t) \/ IssueTicket(t)
                                   \/ DispatchTicket(t)
      PROVE  Token'
  <2>0. t \in Tasks
    BY Disjoint
  <2>1. CASE LookUpPending(t)
    BY <1>1, <2>0, <2>1, QuestionFound, OtherCalmSteps
  <2>2. CASE SubmitReply(t)
    BY <1>1, <2>0, <2>2, AnswerAccepted, OtherCalmSteps
  <2>3. CASE IssueTicket(t)
    BY <1>1, <2>3, TicketIssued
  <2>4. CASE DispatchTicket(t)
    <3>1. (ticket.id = tid[t] /\ ticket.state = "issued") \/ UNCHANGED ticket
      BY <2>4 DEF DispatchTicket
    <3> QED BY <1>1, <2>0, <2>4, <3>1, DispatchStarts, OtherCalmSteps
  <2> QED BY <1>3, <2>1, <2>2, <2>3, <2>4
<1>4. ASSUME NEW t \in Pollers, Redrive(t) PROVE Token'
  BY <1>1, <1>4, RedriveStarts, OtherCalmSteps, Disjoint
<1>5. ASSUME NEW t \in Cancellers, SetCancelRequested(t) \/ Kill(t) \/ ProjectCanceled(t)
      PROVE  Token'
  BY <1>1, <1>5, KillCalm, OtherCalmSteps, Disjoint
<1>6. ASSUME NEW t \in Tasks, Write(t) PROVE Token'
  BY <1>1, <1>6, StillCalm DEF Write, data, steady, server
<1>7. ASSUME NEW t \in Timers, TimerFires(t) PROVE Token'
  BY <1>1, <1>7, OtherCalmSteps, Disjoint
<1>8. ASSUME NEW t \in Tasks, Arrival(t) PROVE Token'
  BY <1>1, <1>8, OtherCalmSteps DEF Arrival
<1>9. CASE Restart
  <2>1. /\ mode = "down" /\ UNCHANGED <<flagged, inter, ticket, crashes>>
    BY <1>9 DEF Restart, data
  <2>2. \/ mode' = "up" /\ UNCHANGED <<pc, num, tid>>
        \/ /\ Redrivable /\ mode' = "up"
           /\ Spawn(ticket.target, ticket.id) /\ Goto(NewWorker, "ticket")
        \/ /\ mode' = "recovering" /\ UNCHANGED <<num, tid>>
           /\ pc' = [pc EXCEPT ![recovery] = "clear"]
    BY <1>9 DEF Restart, RedriveTicket, GotoOwing, Goto
  <2>3. CASE mode' = "up" /\ UNCHANGED <<pc, num, tid>>
    BY <1>1, <2>1, <2>3, RestartCalm
  <2>4. CASE /\ Redrivable /\ mode' = "up"
             /\ Spawn(ticket.target, ticket.id) /\ Goto(NewWorker, "ticket")
    BY <1>1, <2>1, <2>4, RestartStarts
  <2>5. CASE /\ mode' = "recovering" /\ UNCHANGED <<num, tid>>
             /\ pc' = [pc EXCEPT ![recovery] = "clear"]
    BY <1>1, <2>1, <2>5, RestartCalm
  <2> QED BY <2>2, <2>3, <2>4, <2>5
<1>10. CASE UNCHANGED vars
  BY <1>1, <1>10, StillCalm DEF vars
<1>11. CASE Crash \/ ClearBindings
  BY <1>1, <1>11, CrashCalm, ClearCalm
<1>12. ASSUME NEW t \in Tasks, Step(t) PROVE Token'
  BY <1>2, <1>3, <1>4, <1>5, <1>6, <1>7, <1>12 DEF Step, Resumers
<1> QED BY <1>1, <1>8, <1>9, <1>10, <1>11, <1>12 DEF Next

\* The stores, the tickets and the tasks have the values the code can give them,
\* whatever is submitted, polled, canceled or crashed.
THEOREM TypeCorrect == Spec => []TypeOK
<1>1. TypeOK /\ Token /\ [Next]_vars => (TypeOK /\ Token)'
  BY Inductive
<1> QED BY Initially, <1>1, PTL DEF Spec

\* The right to the next turn is one token, held by a job, an open question, a
\* resumer about to issue a ticket, or a ticket not yet started.
THEOREM OneToken == Spec => []Token
<1>1. TypeOK /\ Token /\ [Next]_vars => (TypeOK /\ Token)'
  BY Inductive
<1> QED BY Initially, <1>1, PTL DEF Spec

LEMMA TokenIsSingle == Token => SingleOwner
<1> SUFFICES ASSUME Token PROVE SingleOwner
  OBVIOUS
<1>1. SingleOwner <=> Cardinality(Owners) <= 1
  BY DEF SingleOwner, Owners, Owning
<1>2. \A v, w \in Owners : v = w
  BY DEF Token, Core, OwnerAlone
<1>3. CASE Owners = {}
  BY <1>1, <1>3, FS_EmptySet
<1>4. CASE Owners # {}
  <2>1. PICK w \in Owners : Owners = {w}
    BY <1>2, <1>4
  <2>2. Cardinality({w}) = 1
    BY FS_Singleton
  <2> QED BY <1>1, <2>1, <2>2
<1> QED BY <1>3, <1>4

\* "Single resume winner": however many replies, timeouts, readers, cancels and
\* restarts there are, two jobs are never both in an attempt.
THEOREM OwnerIsSingle == Spec => []SingleOwner
BY OneToken, TokenIsSingle, PTL

-----------------------------------------------------------------------------
(* Cancel *)

\* Whoever is past its last check was there before or has passed it.
LEMMA ChecksAreKept ==
  ASSUME TypeOK, [Next]_vars, flagged, \A w \in Workers : pc[w] \notin PastLastCheck
  PROVE  turns' = turns /\ \A w \in Workers : pc'[w] \notin PastLastCheck
<1>1. \A w \in Workers : w \in Tasks /\ pc[w] \notin {"launch", "resolve", "repair", "killed"}
  BY Disjoint DEF PastLastCheck
<1>2. ASSUME NEW t \in Tasks, NEW s \in Steps \ PastLastCheck, pc' = [pc EXCEPT ![t] = s]
      PROVE  \A w \in Workers : pc'[w] \notin PastLastCheck
  BY <1>2, Disjoint DEF TypeOK
<1>3. ASSUME NEW t \in Tasks, NEW s \in Steps \ PastLastCheck, NEW u, NEW r \in Steps \ PastLastCheck,
             pc' = [pc EXCEPT ![t] = s, ![u] = r]
      PROVE  \A w \in Workers : pc'[w] \notin PastLastCheck
  BY <1>3, Disjoint DEF TypeOK
<1>4. ASSUME NEW w \in Workers, WorkerStep(w) \/ RejectRun(w) \/ AuditFails(w)
      PROVE  turns' = turns /\ \A v \in Workers : pc'[v] \notin PastLastCheck
  <2>1. w \in Tasks /\ ~At(w, "launch") /\ ~At(w, "resolve") /\ ~At(w, "repair") /\ ~At(w, "killed")
    BY <1>1 DEF At
  <2>2. CASE \/ Admit(w) \/ RejectRun(w) \/ AuditFails(w) \/ StartTicket(w)
             \/ AdvancePhase(w) \/ EngineExit(w)
    <3>1. \E s \in {"ticket", "done", "claim", "materialize", "check", "ended"} :
            pc' = [pc EXCEPT ![w] = s]
      BY <2>1, <2>2 DEF Admit, RejectRun, AuditFails, StartTicket, AdvancePhase, EngineExit, Goto
    <3>2. turns' = turns
      BY <2>2 DEF Admit, RejectRun, AuditFails, StartTicket, AdvancePhase, EngineExit
    <3> QED BY <1>2, <2>1, <3>1, <3>2 DEF Steps, PastLastCheck
  <2>3. CASE CheckCancel(w) \/ Prepare(w)
    <3>1. \E s \in {"prepare", "recheck", "done"} : pc' = [pc EXCEPT ![w] = s]
      BY <2>1, <2>3 DEF CheckCancel, PassesRecheck, Prepare, Finish, GotoOwing, Goto
    <3>2. turns' = turns
      BY <2>3 DEF CheckCancel, Prepare
    <3> QED BY <1>2, <2>1, <3>1, <3>2 DEF Steps, PastLastCheck
  <2>4. CASE TurnSucceeded(w)
    <3>1. pc' = [pc EXCEPT ![w] = "done"] /\ turns' = turns
      BY <2>1, <2>4 DEF TurnSucceeded, Finish, GotoOwing, Goto
    <3> QED BY <1>2, <2>1, <3>1 DEF Steps, PastLastCheck
  <2>5. CASE FinishWaiting(w)
    <3>1. \A v \in Workers : pc'[v] \in {"done", "armed", pc[v]}
      BY <1>1, <2>5 DEF FinishWaiting
    <3> QED BY <1>1, <2>5, <3>1 DEF FinishWaiting, PastLastCheck
  <2>6. CASE FinishRequeued(w)
    <3>1. pc' = [pc EXCEPT ![w] = "done", ![<<"timer", num[w]>>] = "decide"] /\ turns' = turns
      BY <2>6 DEF FinishRequeued
    <3> QED BY <1>3, <2>1, <3>1 DEF Steps, PastLastCheck
  <2>7. ~Launch(w) /\ ~RepairRound(w) /\ ~TurnFailed(w) /\ ~TurnAsks(w)
    BY <2>1 DEF Launch, RepairRound, TurnFailed, TurnAsks
  <2> QED BY <1>4, <2>2, <2>3, <2>4, <2>5, <2>6, <2>7 DEF WorkerStep
<1>5. ASSUME NEW t \in Tasks \ Workers, Step(t) \/ Arrival(t), ~Write(t)
      PROVE  turns' = turns /\ \A v \in Workers : pc'[v] \notin PastLastCheck
  <2>1. CASE Kill(t)
    <3>1. \A v \in Workers : pc'[v] \in {"project", "ended", pc[v]}
      BY <1>1, <2>1 DEF Kill
    <3> QED BY <1>1, <2>1, <3>1 DEF Kill, PastLastCheck
  <2>2. CASE TimerFires(t) \/ LookUpPending(t) \/ SubmitReply(t) \/ IssueTicket(t) \/ Arrival(t)
    <3>1. \E s \in {"look", "done", "decide", "issue", "dispatch", "redrive", "flag", "flag_kill"} :
            pc' = [pc EXCEPT ![t] = s]
      BY <2>2 DEF TimerFires, LookUpPending, SubmitReply, IssueTicket, Arrival, ReplyArrives,
                  PollReadsQueued, CancelArrives, GotoOwing, Goto
    <3>2. turns' = turns
      BY <2>2 DEF TimerFires, LookUpPending, SubmitReply, IssueTicket, Arrival, ReplyArrives,
                  PollReadsQueued, CancelArrives
    <3> QED BY <1>2, <3>1, <3>2 DEF Steps, PastLastCheck
  <2>3. CASE DispatchTicket(t) \/ Redrive(t)
    <3>1. turns' = turns /\ (\/ pc' = [pc EXCEPT ![t] = "done"]
                             \/ pc' = [pc EXCEPT ![t] = "done", ![NewWorker] = "ticket"])
      BY <2>3 DEF DispatchTicket, Redrive, Goto
    <3> QED BY <1>2, <1>3, <3>1 DEF Steps, PastLastCheck
  <2>4. CASE SetCancelRequested(t) \/ ProjectCanceled(t)
    <3>1. turns' = turns /\ \E s \in {"project", "kill", "done"} : pc' = [pc EXCEPT ![t] = s]
      BY <2>4 DEF SetCancelRequested, ProjectCanceled, Finish, GotoOwing, Goto
    <3> QED BY <1>2, <3>1 DEF Steps, PastLastCheck
  <2> QED BY <1>5, <2>1, <2>2, <2>3, <2>4 DEF Step
<1>6. ASSUME NEW t \in Tasks, Write(t)
      PROVE  turns' = turns /\ \A v \in Workers : pc'[v] \notin PastLastCheck
  BY <1>1, <1>6 DEF Write, PastLastCheck
<1>7. CASE Crash \/ ClearBindings \/ Restart
  <2>1. turns' = turns
    BY <1>7 DEF Crash, ClearBindings, Restart
  <2>2. \A v \in Workers : pc'[v] \notin PastLastCheck
    BY <1>1, <1>7, Disjoint DEF Crash, ClearBindings, Restart, GotoOwing, Goto, PastLastCheck, TypeOK
  <2> QED BY <2>1, <2>2
<1>8. CASE UNCHANGED vars
  BY <1>1, <1>8 DEF vars, PastLastCheck
<1>9. ASSUME NEW t \in Workers, Step(t) \/ Arrival(t), ~Write(t)
      PROVE  WorkerStep(t) \/ RejectRun(t) \/ AuditFails(t)
  BY <1>9, Disjoint, Arrivals DEF Step, Resumers
<1> QED BY <1>4, <1>5, <1>6, <1>7, <1>8, <1>9 DEF Next

\* Once a cancel is recorded nobody gets past the last check before an engine is
\* started or a turn is resolved, and no engine is started by those who had not.
THEOREM CancelStopsTurns == Spec => CancelStopsFurtherTurns
<1>1. TypeOK /\ [Next]_vars =>
        [flagged /\ (\A w \in Workers : pc[w] \notin PastLastCheck)
           => turns' = turns /\ \A w \in Workers : pc'[w] \notin PastLastCheck]_vars
  BY ChecksAreKept
<1> QED BY TypeCorrect, <1>1, PTL DEF Spec, CancelStopsFurtherTurns

-----------------------------------------------------------------------------
(***************************************************************************)
(* The turns of the engine are taken as TurnTaking promises.               *)
(***************************************************************************)

LastTurn == IF turns = <<>> THEN 0 ELSE Last(turns)
Answered == {a \in Attempts : inter[a].by # "none"}
BeforeTurn == Owning \ InTurn

(***************************************************************************)
(* Whoever holds the token holds it for the turn that is due: an attempt   *)
(* under way for the last one started or the next, an open question and an *)
(* answer without a ticket for the last one, a ticket for the next.        *)
(***************************************************************************)
AnswersAreOld == \A a \in Answered : a <= LastTurn
QuestionIsLast == \A a \in Pending : a = LastTurn /\ a \notin Answered
OwnerIsDue ==
  \A w \in Workers :
    /\ pc[w] \in InTurn => num[w] = LastTurn /\ LastTurn \notin Answered
    /\ pc[w] \in BeforeTurn => /\ num[w] = LastTurn + 1 /\ num[w] <= MaxAttempt
                               /\ LastTurn = 0 \/ LastTurn \in Answered
TicketIsNext == Redrivable => ticket.target = LastTurn + 1 /\ LastTurn \in Answered
IssuerIsLast == \A t \in Issuing : SameTicket(t) \/ num[t] = LastTurn
FirstIsFirst == Unstarted # {} => LastTurn = 0
Order ==
  /\ AnswersAreOld /\ QuestionIsLast /\ OwnerIsDue /\ TicketIsNext /\ IssuerIsLast
  /\ FirstIsFirst

\* No turn is started and no question answered.
Steady ==
  /\ turns' = turns /\ Answered' = Answered
  /\ \A w \in Workers : pc'[w] \in InTurn => pc[w] \in InTurn

\* Moreover nobody comes to hold the token.
Quiet ==
  /\ turns' = turns
  /\ \A a \in Attempts : /\ inter'[a].by = inter[a].by
                         /\ inter'[a].state = "pending" => inter[a].state = "pending"
  /\ \A w \in Workers :
       /\ pc'[w] \in InTurn => pc[w] \in InTurn /\ num'[w] = num[w]
       /\ pc'[w] \in BeforeTurn => pc[w] \in BeforeTurn /\ num'[w] = num[w]
       /\ pc'[w] \in {"new", "ticket"} /\ tid'[w] = 0 => w \in Unstarted
  /\ Redrivable' => Redrivable /\ ticket'.target = ticket.target
  /\ \A t \in Resumers :
       pc'[t] = "issue" => /\ pc[t] = "issue" /\ num'[t] = num[t]
                           /\ SameTicket(t) => SameTicket(t)'

-----------------------------------------------------------------------------
(* The steps of TurnTaking *)

LEMMA SteadyStutters == ASSUME Steady PROVE [Turns!Next]_(Turns!vars)
<1>1. LastTurn' = LastTurn
  BY DEF Steady, LastTurn
<1> DEFINE Live == \E w \in Workers : pc[w] \in InTurn
<1>2. Live' => Live
  BY DEF Steady
<1>3. CASE Live' <=> Live
  <2>1. (\E w \in Workers : pc[w] \in InTurn)' = (\E w \in Workers : pc[w] \in InTurn)
    BY <1>3
  <2> QED BY <1>1, <2>1 DEF Steady, Turns!vars, LastTurn, Answered
<1>4. CASE Live /\ ~Live'
  <2>1. (\E w \in Workers : pc[w] \in InTurn)' = FALSE
    BY <1>4
  <2>2. Turns!EndTurn
    BY <1>1, <1>4, <2>1 DEF Steady, Turns!EndTurn, LastTurn, Answered
  <2> QED BY <2>2 DEF Turns!Next
<1> QED BY <1>2, <1>3, <1>4

LEMMA QuietIsSteady == ASSUME Quiet PROVE Steady
  BY DEF Quiet, Steady, Answered

LEMMA QuietKeepsOrder == ASSUME Order, Quiet PROVE Order'
<1>1. LastTurn' = LastTurn
  BY DEF Quiet, LastTurn
<1>2. Answered' = Answered /\ Pending' \subseteq Pending
  BY DEF Quiet, Answered, Pending
<1>3. Unstarted' # {} => Unstarted # {}
  BY DEF Quiet, Unstarted
<1>4. AnswersAreOld' /\ QuestionIsLast' /\ TicketIsNext' /\ FirstIsFirst'
  BY <1>1, <1>2, <1>3
     DEF Order, Quiet, AnswersAreOld, QuestionIsLast, TicketIsNext, FirstIsFirst
<1>5. OwnerIsDue'
  BY <1>1, <1>2 DEF Order, Quiet, OwnerIsDue
<1>6. IssuerIsLast'
  BY <1>1 DEF Order, Quiet, IssuerIsLast, Issuing
<1> QED BY <1>4, <1>5, <1>6 DEF Order

\* One task moves, and the tickets stay as they are.
LEMMA MoveIsQuiet ==
  ASSUME TypeOK, NEW t \in Tasks, NEW s, s # "issue", pc' = [pc EXCEPT ![t] = s],
         t \in Workers => /\ s \in InTurn => pc[t] \in InTurn
                          /\ s \in BeforeTurn => pc[t] \in BeforeTurn
                          /\ s \in {"new", "ticket"} => pc[t] \in {"new", "ticket"},
         \A a \in Attempts : /\ inter'[a].by = inter[a].by
                             /\ inter'[a].state = "pending" => inter[a].state = "pending",
         UNCHANGED <<turns, ticket, num, tid>>
  PROVE  Quiet
<1>1. pc'[t] = s /\ \A u \in Tasks : u # t => pc'[u] = pc[u]
  BY DEF TypeOK
<1>2. \A u \in Workers \cup Resumers : u \in Tasks
  BY Disjoint
<1>3. \A w \in Workers :
        /\ pc'[w] \in InTurn => pc[w] \in InTurn
        /\ pc'[w] \in BeforeTurn => pc[w] \in BeforeTurn
        /\ pc'[w] \in {"new", "ticket"} => pc[w] \in {"new", "ticket"}
  BY <1>1, <1>2
<1>4. \A u \in Resumers : pc'[u] = "issue" => pc[u] = "issue"
  BY <1>1, <1>2
<1>5. /\ Redrivable' => Redrivable /\ ticket'.target = ticket.target
      /\ \A u \in Resumers : SameTicket(u) => SameTicket(u)'
  BY DEF Redrivable, SameTicket
<1> QED BY <1>3, <1>4, <1>5 DEF Quiet, Unstarted

-----------------------------------------------------------------------------
(* Quiet steps *)

LEMMA WorkerQuiet ==
  ASSUME TypeOK, NEW w \in Workers,
         \/ Admit(w) \/ RejectRun(w) \/ AuditFails(w) \/ AdvancePhase(w) \/ CheckCancel(w)
         \/ Prepare(w) \/ EngineExit(w) \/ RepairRound(w) \/ TurnFailed(w) \/ TurnSucceeded(w)
         \/ FinishWaiting(w) \/ FinishRequeued(w)
         \/ StartTicket(w) /\ UNCHANGED ticket /\ pc' = [pc EXCEPT ![w] = "done"]
  PROVE  Quiet
<1>0. w \in Tasks
  BY Disjoint
<1>1. ASSUME NEW s, s # "issue", pc' = [pc EXCEPT ![w] = s],
             s \in InTurn => pc[w] \in InTurn,
             s \in BeforeTurn => pc[w] \in BeforeTurn,
             s \in {"new", "ticket"} => pc[w] \in {"new", "ticket"},
             UNCHANGED <<turns, inter, ticket, num, tid>>
      PROVE  Quiet
  BY <1>0, <1>1, MoveIsQuiet
<1>2. CASE Admit(w) \/ RejectRun(w) \/ AuditFails(w)
  BY <1>1, <1>2 DEF Admit, RejectRun, AuditFails, At, Goto, InTurn, BeforeTurn, Owning, data
<1>3. CASE AdvancePhase(w)
  BY <1>1, <1>3 DEF AdvancePhase, At, Goto, InTurn, BeforeTurn, Owning, data
<1>4. CASE CheckCancel(w)
  BY <1>1, <1>4 DEF CheckCancel, At, Finish, GotoOwing, Goto, InTurn, BeforeTurn, Owning, data
<1>5. CASE Prepare(w)
  <2> DEFINE i == num[w] - 1
  <2>1. /\ pc[w] = "prepare" /\ UNCHANGED <<turns, ticket, num, tid>>
        /\ \/ pc' = [pc EXCEPT ![w] = "recheck"]
           \/ pc' = [pc EXCEPT ![w] = "done"]
        /\ \/ inter' = inter
           \/ inter' = [inter EXCEPT ![i] = [inter[i] EXCEPT !.state = Consumed(inter[i].state)]]
    BY <1>5 DEF Prepare, At, Finish, GotoOwing, Goto
  <2>2. \A a \in Attempts : /\ inter'[a].by = inter[a].by
                            /\ inter'[a].state = "pending" => inter[a].state = "pending"
    <3> TAKE a \in Attempts
    <3> HIDE DEF i
    <3>1. CASE inter' = inter \/ a # i
      BY <2>1, <3>1 DEF TypeOK
    <3>2. CASE inter' = [inter EXCEPT ![i] = [inter[i] EXCEPT !.state = Consumed(inter[i].state)]]
               /\ a = i
      <4>1. inter'[a] = [inter[a] EXCEPT !.state = Consumed(inter[a].state)]
        BY <3>2 DEF TypeOK
      <4>2. inter'[a].by = inter[a].by /\ inter'[a].state = Consumed(inter[a].state)
        BY <4>1 DEF TypeOK
      <4> QED BY <4>2 DEF Consumed
    <3> QED BY <2>1, <3>1, <3>2
  <2>3. CASE pc' = [pc EXCEPT ![w] = "recheck"]
    BY <1>0, <2>1, <2>2, <2>3, MoveIsQuiet DEF InTurn, BeforeTurn, Owning
  <2>4. CASE pc' = [pc EXCEPT ![w] = "done"]
    BY <1>0, <2>1, <2>2, <2>4, MoveIsQuiet DEF InTurn, BeforeTurn, Owning
  <2> QED BY <2>1, <2>3, <2>4
<1>6. CASE EngineExit(w)
  BY <1>1, <1>6 DEF EngineExit, At, Goto, InTurn, BeforeTurn, Owning
<1>7. CASE RepairRound(w)
  BY <1>1, <1>7 DEF RepairRound, At, Goto, InTurn, BeforeTurn, Owning, data
<1>8. CASE TurnFailed(w) \/ TurnSucceeded(w)
  BY <1>1, <1>8
     DEF TurnFailed, TurnSucceeded, At, Finish, GotoOwing, Goto, InTurn, BeforeTurn, Owning, data
<1>9. CASE FinishWaiting(w)
  <2>1. \A u \in Workers \cup Resumers : pc'[u] \in {"done", "armed", pc[u]}
    BY <1>9, Disjoint DEF FinishWaiting
  <2>2. UNCHANGED <<turns, inter, ticket, num, tid>>
    BY <1>9 DEF FinishWaiting, data
  <2> QED BY <2>1, <2>2
          DEF Quiet, InTurn, BeforeTurn, Owning, Unstarted, Redrivable, SameTicket
<1>10. CASE FinishRequeued(w)
  <2> DEFINE t == <<"timer", num[w]>>
  <2>1. /\ pc' = [pc EXCEPT ![w] = "done", ![t] = "decide"] /\ num' = [num EXCEPT ![t] = num[w]]
        /\ UNCHANGED <<turns, inter, ticket, tid>>
    BY <1>10 DEF FinishRequeued, data
  <2>2. t \notin Workers
    BY Kinds
  <2> HIDE DEF t
  <2>3. \A v \in Workers : pc'[v] \in {"done", pc[v]} /\ num'[v] = num[v]
    BY <2>1, <2>2, Disjoint DEF TypeOK
  <2>4. \A u \in Resumers : pc'[u] \in {"done", "decide"} \/ (pc'[u] = pc[u] /\ num'[u] = num[u])
    BY <2>1, Disjoint DEF TypeOK
  <2> QED BY <2>1, <2>3, <2>4
          DEF Quiet, InTurn, BeforeTurn, Owning, Unstarted, Redrivable, SameTicket
<1>11. CASE StartTicket(w) /\ UNCHANGED ticket /\ pc' = [pc EXCEPT ![w] = "done"]
  BY <1>1, <1>11 DEF StartTicket, InTurn, BeforeTurn, Owning
<1> QED BY <1>2, <1>3, <1>4, <1>5, <1>6, <1>7, <1>8, <1>9, <1>10, <1>11

\* A worker is started with the present ticket.
LEMMA StartQuiet ==
  ASSUME TypeOK, NEW n, Starts(n), turns' = turns PROVE Quiet
<1>1. n \in Tasks /\ pc'[n] = "ticket" /\ tid'[n] = ticket.id /\ ticket.id # 0
  BY Disjoint DEF Starts, TypeOK
<1>2. \A w \in Workers : w = n \/ (pc'[w] = pc[w] /\ num'[w] = num[w] /\ tid'[w] = tid[w])
  BY Disjoint DEF Starts, TypeOK
<1>3. \A t \in Resumers : (pc'[t] = pc[t] \/ pc'[t] = "done") /\ num'[t] = num[t]
  BY Disjoint DEF Starts, TypeOK
<1>4. \A w \in Workers :
        /\ pc'[w] \in InTurn => pc[w] \in InTurn /\ num'[w] = num[w]
        /\ pc'[w] \in BeforeTurn => pc[w] \in BeforeTurn /\ num'[w] = num[w]
        /\ pc'[w] \in {"new", "ticket"} /\ tid'[w] = 0 => w \in Unstarted
  BY <1>1, <1>2 DEF InTurn, BeforeTurn, Owning, Unstarted
<1>5. Redrivable' => Redrivable /\ ticket'.target = ticket.target
  BY DEF Starts, Redrivable
<1>6. \A t \in Resumers : SameTicket(t) => SameTicket(t)'
  BY <1>3 DEF Starts, SameTicket
<1> QED BY <1>3, <1>4, <1>5, <1>6 DEF Quiet, Starts

LEMMA OtherQuiet ==
  ASSUME TypeOK, Token, NEW t \in Tasks \ Workers, Step(t) \/ Arrival(t), ~Write(t),
         t \in Resumers => ~SubmitReply(t) /\ ~IssueTicket(t)
  PROVE  Quiet
<1>1. ASSUME NEW s, s # "issue", pc' = [pc EXCEPT ![t] = s],
             UNCHANGED <<turns, inter, ticket, num, tid>>
      PROVE  Quiet
  BY <1>1, MoveIsQuiet
<1>2. CASE TimerFires(t)
  <2>1. \E s \in {"look", "done"} : pc' = [pc EXCEPT ![t] = s]
    BY <1>2 DEF TimerFires, Goto
  <2>2. UNCHANGED <<turns, inter, ticket, num, tid>>
    BY <1>2 DEF TimerFires, data
  <2> QED BY <1>1, <2>1, <2>2
<1>3. CASE Arrival(t)
  <2>1. \E s \in {"look", "redrive", "flag", "flag_kill"} : pc' = [pc EXCEPT ![t] = s]
    BY <1>3 DEF Arrival, ReplyArrives, PollReadsQueued, CancelArrives, Goto
  <2>2. UNCHANGED <<turns, inter, ticket, num, tid>>
    BY <1>3 DEF Arrival, ReplyArrives, PollReadsQueued, CancelArrives, data
  <2> QED BY <1>1, <2>1, <2>2
<1>4. CASE LookUpPending(t)
  <2>1. CASE pc' = [pc EXCEPT ![t] = "done"] /\ UNCHANGED num
    BY <1>1, <1>4, <2>1 DEF LookUpPending, data
  <2>2. CASE pc' = [pc EXCEPT ![t] = "decide"] /\ num' = [num EXCEPT ![t] = Max(Pending)]
    <3>1. \A u \in Tasks : u # t => pc'[u] = pc[u] /\ num'[u] = num[u]
      BY <2>2 DEF TypeOK
    <3>2. pc'[t] = "decide"
      BY <2>2 DEF TypeOK
    <3>3. \A w \in Workers : pc'[w] = pc[w] /\ num'[w] = num[w]
      BY <3>1, Disjoint
    <3>4. \A u \in Resumers : pc'[u] = "decide" \/ (pc'[u] = pc[u] /\ num'[u] = num[u])
      BY <3>1, <3>2, Disjoint
    <3>5. UNCHANGED <<turns, inter, ticket, tid>>
      BY <1>4 DEF LookUpPending, data
    <3> QED BY <3>3, <3>4, <3>5 DEF Quiet, Unstarted, Redrivable, SameTicket
  <2> QED BY <1>4, <2>1, <2>2 DEF LookUpPending, Goto
<1>5. CASE t \in Resumers /\ DispatchTicket(t)
  <2>1. CASE ticket.id = tid[t] /\ ticket.state = "issued"
    <3> DEFINE n == NewWorker
    <3>1. n \in Workers /\ pc[n] = "idle" /\ n \in Tasks /\ n # t
      BY NewWorkerIsIdle, Disjoint
    <3>2. /\ pc[t] = "dispatch" /\ UNCHANGED <<turns, flagged, inter>>
          /\ ticket' = [ticket EXCEPT !.state = "dispatched"]
          /\ num' = [num EXCEPT ![n] = num[t] + 1] /\ tid' = [tid EXCEPT ![n] = tid[t]]
          /\ pc' = [pc EXCEPT ![t] = "done", ![n] = "ticket"]
      BY <1>5, <2>1 DEF DispatchTicket, At, Spawn
    <3>3. ticket.id > 0 /\ num[t] + 1 = ticket.target
      BY <1>5, <2>1, <3>2 DEF Token, Core, Tickets
    <3> HIDE DEF n
    <3>4. pc'[n] = "ticket" /\ pc'[t] = "done" /\ \A u \in Tasks : u # n /\ u # t => pc'[u] = pc[u]
      BY <3>1, <3>2 DEF TypeOK
    <3>5. /\ ticket'.id = ticket.id /\ ticket'.by = ticket.by /\ ticket'.target = ticket.target
          /\ ticket'.state = "dispatched"
      BY <3>2 DEF TypeOK
    <3>6. Starts(n)
      BY <2>1, <3>1, <3>2, <3>3, <3>4, <3>5 DEF Starts
    <3> QED BY <3>2, <3>6, StartQuiet
  <2>2. CASE ~(ticket.id = tid[t] /\ ticket.state = "issued")
    BY <1>1, <1>5, <2>2 DEF DispatchTicket, Goto
  <2> QED BY <2>1, <2>2
<1>6. CASE Redrive(t)
  <2>1. CASE Redrivable
    <3> DEFINE n == NewWorker
    <3>1. n \in Workers /\ pc[n] = "idle" /\ n \in Tasks /\ n # t
      BY NewWorkerIsIdle, Disjoint
    <3>2. /\ pc[t] = "redrive" /\ UNCHANGED <<turns, flagged, inter, ticket>>
          /\ num' = [num EXCEPT ![n] = ticket.target] /\ tid' = [tid EXCEPT ![n] = ticket.id]
          /\ pc' = [pc EXCEPT ![t] = "done", ![n] = "ticket"]
      BY <1>6, <2>1 DEF Redrive, At, Spawn, data
    <3>3. ticket.id > 0
      BY <2>1 DEF Token, Core, Tickets, Redrivable, TypeOK
    <3> HIDE DEF n
    <3>4. pc'[n] = "ticket" /\ pc'[t] = "done" /\ \A u \in Tasks : u # n /\ u # t => pc'[u] = pc[u]
      BY <3>1, <3>2 DEF TypeOK
    <3>5. Starts(n)
      BY <3>1, <3>2, <3>3, <3>4 DEF Starts
    <3> QED BY <3>2, <3>5, StartQuiet
  <2>2. CASE ~Redrivable
    BY <1>1, <1>6, <2>2 DEF Redrive, Goto, data
  <2> QED BY <2>1, <2>2
<1>7. CASE SetCancelRequested(t) \/ ProjectCanceled(t)
  <2>1. \E s \in {"project", "kill", "done"} : pc' = [pc EXCEPT ![t] = s]
    BY <1>7 DEF SetCancelRequested, ProjectCanceled, Finish, GotoOwing, Goto
  <2>2. UNCHANGED <<turns, inter, ticket, num, tid>>
    BY <1>7 DEF SetCancelRequested, ProjectCanceled, data
  <2> QED BY <1>1, <2>1, <2>2
<1>8. CASE t \in Cancellers /\ Kill(t)
  <2>1. \A w \in Workers : \/ pc'[w] = pc[w]
                           \/ pc[w] = "engine" /\ pc'[w] = "ended"
                           \/ pc[w] = "repair" /\ pc'[w] = "killed"
    BY <1>8, Disjoint DEF Kill
  <2>2. \A u \in Resumers : pc'[u] = pc[u]
    BY <1>8, Disjoint DEF Kill
  <2>3. UNCHANGED <<turns, inter, ticket, num, tid>>
    BY <1>8 DEF Kill, data
  <2> QED BY <2>1, <2>2, <2>3
          DEF Quiet, InTurn, BeforeTurn, Owning, Unstarted, Redrivable, SameTicket
<1> QED BY <1>2, <1>3, <1>4, <1>5, <1>6, <1>7, <1>8, Disjoint DEF Step, Resumers

LEMMA ServerQuiet ==
  ASSUME TypeOK, Token, Crash \/ Restart \/ ClearBindings PROVE Quiet
<1>1. CASE Crash
  <2>1. \A t \in Tasks : pc'[t] \in {"idle", "done"}
    BY <1>1 DEF Crash
  <2>2. UNCHANGED <<turns, inter, ticket, num, tid>>
    BY <1>1 DEF Crash, data
  <2> QED BY <2>1, <2>2, Disjoint DEF Quiet, InTurn, BeforeTurn, Owning, Redrivable
<1>2. CASE ClearBindings
  <2>1. pc' = [pc EXCEPT ![recovery] = "idle"] /\ UNCHANGED <<turns, ticket, num, tid>>
    BY <1>2 DEF ClearBindings, Goto
  <2>2. \A a \in Attempts : /\ inter'[a].by = inter[a].by
                            /\ inter'[a].state = "pending" => inter[a].state = "pending"
    <3> TAKE a \in Attempts
    <3>1. inter'[a] = IF a \in Pending THEN [inter[a] EXCEPT !.state = "consumed"] ELSE inter[a]
      BY <1>2 DEF ClearBindings
    <3>2. CASE a \in Pending
      BY <3>1, <3>2 DEF TypeOK, Pending
    <3>3. CASE a \notin Pending
      BY <3>1, <3>3
    <3> QED BY <3>2, <3>3
  <2> QED BY <2>1, <2>2, MoveIsQuiet, Disjoint
<1>3. CASE Restart
  <2>1. UNCHANGED <<flagged, inter, ticket, turns>>
    BY <1>3 DEF Restart, data
  <2>2. CASE UNCHANGED <<pc, num, tid>>
    BY <2>1, <2>2 DEF Quiet, Unstarted, Redrivable, SameTicket
  <2>3. CASE RedriveTicket /\ Spawn(ticket.target, ticket.id) /\ Goto(NewWorker, "ticket")
    <3> DEFINE n == NewWorker
    <3>1. n \in Workers /\ pc[n] = "idle" /\ n \in Tasks
      BY NewWorkerIsIdle, Disjoint
    <3>2. /\ num' = [num EXCEPT ![n] = ticket.target] /\ tid' = [tid EXCEPT ![n] = ticket.id]
          /\ pc' = [pc EXCEPT ![n] = "ticket"]
      BY <2>3 DEF Goto, Spawn
    <3>3. ticket.id > 0
      BY <2>3 DEF RedriveTicket, Token, Core, Tickets, Redrivable, TypeOK
    <3> HIDE DEF n
    <3>4. pc'[n] = "ticket" /\ \A u \in Tasks : u # n => pc'[u] = pc[u]
      BY <3>1, <3>2 DEF TypeOK
    <3>5. Starts(n)
      BY <2>1, <3>1, <3>2, <3>3, <3>4 DEF Starts
    <3> QED BY <2>1, <3>5, StartQuiet
  <2>4. CASE pc' = [pc EXCEPT ![recovery] = "clear"] /\ UNCHANGED <<num, tid>>
    BY <2>1, <2>4, MoveIsQuiet, Disjoint
  <2> QED BY <1>3, <2>2, <2>3, <2>4 DEF Restart, GotoOwing, Goto
<1> QED BY <1>1, <1>2, <1>3

-----------------------------------------------------------------------------
(* Steps that pass the token on *)

\* The attempt that starts is the one that is due.
LEMMA JobIsDue ==
  ASSUME TypeOK, Token, Order, NEW w \in Workers, StartTicket(w),
         pc' = [pc EXCEPT ![w] = "claim"],
         \/ tid[w] = 0 /\ ticket' = ticket
         \/ /\ tid[w] # 0 /\ tid[w] = ticket.id /\ Redrivable
            /\ ticket' = [ticket EXCEPT !.state = "started"]
  PROVE  Order' /\ Steady
<1>1. pc[w] = "ticket" /\ w \in Tasks /\ UNCHANGED <<inter, num, tid, turns>>
  BY Disjoint DEF StartTicket, At
<1>2. pc'[w] = "claim" /\ \A u \in Tasks : u # w => pc'[u] = pc[u]
  BY <1>1 DEF TypeOK
<1>3. /\ num[w] = LastTurn + 1 /\ num[w] <= MaxAttempt /\ (LastTurn = 0 \/ LastTurn \in Answered)
      /\ ~Redrivable' /\ ticket'.by = ticket.by /\ ticket'.target = ticket.target
  <2>1. CASE tid[w] = 0 /\ ticket' = ticket
    <3>1. w \in Unstarted
      BY <1>1, <2>1 DEF Unstarted
    <3>2. num[w] = 1 /\ ticket.id = 0 /\ LastTurn = 0
      BY <3>1 DEF Token, Core, FirstJob, Order, FirstIsFirst
    <3>3. ~Redrivable'
      BY <2>1, <3>2 DEF Token, Core, Tickets, Redrivable
    <3> QED BY <2>1, <3>2, <3>3, Bounds
  <2>2. CASE tid[w] # 0 /\ tid[w] = ticket.id /\ Redrivable
             /\ ticket' = [ticket EXCEPT !.state = "started"]
    <3>1. ticket.id > 0
      BY <2>2 DEF TypeOK
    <3>2. num[w] = ticket.target /\ ticket.target \in 2..MaxAttempt
      BY <1>1, <2>2, <3>1 DEF Token, Core, Tickets
    <3>3. ticket.target = LastTurn + 1 /\ LastTurn \in Answered
      BY <2>2 DEF Order, TicketIsNext
    <3>4. ~Redrivable' /\ ticket'.by = ticket.by /\ ticket'.target = ticket.target
      BY <2>2 DEF Redrivable, TypeOK
    <3> QED BY <3>2, <3>3, <3>4, Bounds
  <2> QED BY <2>1, <2>2
<1>4. \A v \in Workers : v \in Tasks /\ (v # w => pc'[v] = pc[v])
  BY <1>2, Disjoint
<1>5. \A u \in Resumers : pc'[u] = pc[u]
  BY <1>2, <1>1, Disjoint
<1>6. LastTurn' = LastTurn /\ Answered' = Answered /\ Pending' = Pending
  BY <1>1 DEF LastTurn, Answered, Pending
<1>7. OwnerIsDue'
  <2> SUFFICES ASSUME NEW v \in Workers
               PROVE  /\ pc'[v] \in InTurn => num[v] = LastTurn /\ LastTurn \notin Answered
                      /\ pc'[v] \in BeforeTurn => /\ num[v] = LastTurn + 1 /\ num[v] <= MaxAttempt
                                                  /\ LastTurn = 0 \/ LastTurn \in Answered
    BY <1>1, <1>6 DEF OwnerIsDue
  <2>1. CASE v = w
    BY <1>2, <1>3, <2>1 DEF InTurn
  <2>2. CASE v # w
    BY <1>4, <2>2 DEF Order, OwnerIsDue
  <2> QED BY <2>1, <2>2
<1>8. IssuerIsLast'
  BY <1>1, <1>3, <1>5, <1>6 DEF Order, IssuerIsLast, Issuing, SameTicket
<1>9. FirstIsFirst'
  BY <1>1, <1>2, <1>4, <1>6 DEF Order, FirstIsFirst, Unstarted
<1>10. AnswersAreOld' /\ QuestionIsLast' /\ TicketIsNext'
  BY <1>3, <1>6 DEF Order, AnswersAreOld, QuestionIsLast, TicketIsNext
<1>11. Steady
  BY <1>1, <1>2, <1>4, <1>6 DEF Steady, InTurn
<1> QED BY <1>7, <1>8, <1>9, <1>10, <1>11 DEF Order

\* The engine of the attempt that is due is started.
LEMMA TurnStarts ==
  ASSUME TypeOK, Token, Order, NEW w \in Workers, Launch(w)
  PROVE  Order' /\ Turns!StartTurn
<1>1. /\ pc[w] = "launch" /\ w \in Tasks /\ UNCHANGED <<inter, ticket, num, tid>>
      /\ turns' = Append(turns, num[w]) /\ pc' = [pc EXCEPT ![w] = "engine"]
  BY Disjoint DEF Launch, At, Goto, data
<1>2. pc'[w] = "engine" /\ \A u \in Tasks : u # w => pc'[u] = pc[u]
  BY <1>1 DEF TypeOK
<1>3. \A v \in Workers : v \in Tasks /\ (v # w => pc'[v] = pc[v])
  BY <1>2, Disjoint
<1>4. \A u \in Resumers : pc'[u] = pc[u]
  BY <1>1, <1>2, Disjoint
<1>5. w \in Owners /\ pc[w] \in BeforeTurn
  BY <1>1 DEF Owners, Owning, BeforeTurn, InTurn
<1>6. /\ num[w] = LastTurn + 1 /\ num[w] <= MaxAttempt /\ (LastTurn = 0 \/ LastTurn \in Answered)
      /\ \A v \in Workers : v # w => pc[v] \notin Owning
      /\ Pending = {} /\ ~Redrivable /\ \A u \in Issuing : SameTicket(u)
      /\ Unstarted = {} /\ num[w] >= 1
  BY <1>5 DEF Order, OwnerIsDue, Token, Core, OwnerAlone, FirstJob, Owners
<1>7. num[w] \in Nat /\ turns \in Seq(Nat)
  BY <1>1 DEF TypeOK
<1>8. LastTurn' = num[w]
  BY <1>1, <1>7 DEF LastTurn, Last
<1>9. Answered' = Answered /\ Pending' = {} /\ ~Redrivable'
  BY <1>1, <1>6 DEF Answered, Pending, Redrivable
<1>10. LastTurn \in Nat
  BY <1>7 DEF LastTurn, Last
<1>11. num[w] \notin Answered /\ \A a \in Answered : a <= num[w]
  BY <1>6, <1>10 DEF Order, AnswersAreOld, Answered, Attempts
<1>12. OwnerIsDue'
  <2> SUFFICES ASSUME NEW v \in Workers
               PROVE  /\ pc'[v] \in InTurn => num'[v] = LastTurn' /\ LastTurn' \notin Answered'
                      /\ pc'[v] \notin BeforeTurn
    BY DEF OwnerIsDue
  <2>1. CASE v = w
    BY <1>1, <1>2, <1>8, <1>9, <1>11, <2>1 DEF InTurn, BeforeTurn
  <2>2. CASE v # w
    BY <1>3, <1>6, <2>2 DEF InTurn, BeforeTurn, Owning
  <2> QED BY <2>1, <2>2
<1>13. AnswersAreOld' /\ QuestionIsLast' /\ TicketIsNext'
  BY <1>8, <1>9, <1>11 DEF AnswersAreOld, QuestionIsLast, TicketIsNext
<1>14. IssuerIsLast'
  BY <1>1, <1>4, <1>6 DEF IssuerIsLast, Issuing, SameTicket
<1>15. FirstIsFirst'
  BY <1>1, <1>2, <1>3, <1>6 DEF FirstIsFirst, Unstarted
<1>16. ~(\E v \in Workers : pc[v] \in InTurn)
  BY <1>1, <1>6 DEF InTurn, Owning
<1>17. (\E v \in Workers : pc[v] \in InTurn)' = TRUE
  BY <1>2 DEF InTurn
<1>18. LastTurn' = LastTurn + 1 /\ LastTurn < MaxAttempt
  BY <1>6, <1>8, <1>10, Bounds
<1>19. Turns!StartTurn
  BY <1>6, <1>9, <1>16, <1>17, <1>18 DEF Turns!StartTurn, LastTurn, Answered
<1> QED BY <1>12, <1>13, <1>14, <1>15, <1>19 DEF Order

\* The question is that of the turn just taken.
LEMMA QuestionIsDue ==
  ASSUME TypeOK, Token, Order, NEW w \in Workers, TurnAsks(w) PROVE Order' /\ Steady
<1> DEFINE a == num[w]
<1>1. /\ pc[w] = "resolve" /\ w \in Tasks /\ a < MaxAttempt - Fewer
      /\ inter' = [inter EXCEPT ![a] = [state |-> "pending", by |-> "none"]]
      /\ UNCHANGED <<turns, ticket, num, tid>>
      /\ \/ pc' = [pc EXCEPT ![w] = "arm"]
         \/ pc' = [pc EXCEPT ![w] = "done"]
         \/ pc' = [pc EXCEPT ![w] = "autoresume"]
  BY Disjoint DEF TurnAsks, At, Finish, GotoOwing, Goto
<1>2. /\ pc'[w] \in {"arm", "done", "autoresume"} /\ \A u \in Tasks : u # w => pc'[u] = pc[u]
  BY <1>1 DEF TypeOK
<1>3. w \in Owners
  BY <1>1 DEF Owners, Owning
<1>4. /\ \A v \in Workers : v # w => pc[v] \notin Owning
      /\ Pending = {} /\ ~Redrivable /\ \A u \in Issuing : SameTicket(u)
      /\ Unstarted = {} /\ a >= 1
  BY <1>3 DEF Token, Core, OwnerAlone, FirstJob, Owners
<1>5. a = LastTurn /\ LastTurn \notin Answered
  BY <1>1 DEF Order, OwnerIsDue, InTurn
<1>6. a \in Attempts
  BY <1>1, <1>4, Bounds DEF Fewer, Attempts, TypeOK
<1>7. /\ inter'[a].state = "pending" /\ inter'[a].by = "none"
      /\ \A b \in Attempts : b # a => inter'[b] = inter[b]
  BY <1>1, <1>6 DEF TypeOK
<1>8. Pending' = {a} /\ Answered' = Answered /\ LastTurn' = LastTurn
  BY <1>1, <1>4, <1>5, <1>6, <1>7 DEF Pending, Answered, LastTurn
<1>9. \A v \in Workers : v \in Tasks /\ (v # w => pc'[v] = pc[v])
  BY <1>2, Disjoint
<1>10. \A u \in Resumers : pc'[u] = pc[u]
  BY <1>1, <1>2, Disjoint
<1>11. \A v \in Workers : pc'[v] \notin Owning
  BY <1>2, <1>4, <1>9 DEF Owning
<1>12. ~Redrivable' /\ Unstarted' = {}
  BY <1>1, <1>2, <1>4, <1>9 DEF Redrivable, Unstarted
<1>13. OwnerIsDue' /\ FirstIsFirst' /\ TicketIsNext'
  BY <1>11, <1>12 DEF OwnerIsDue, FirstIsFirst, TicketIsNext, InTurn, BeforeTurn, Owning
<1>14. AnswersAreOld' /\ QuestionIsLast'
  BY <1>5, <1>8 DEF Order, AnswersAreOld, QuestionIsLast
<1>15. IssuerIsLast'
  BY <1>1, <1>4, <1>10 DEF IssuerIsLast, Issuing, SameTicket
<1>16. Steady
  BY <1>1, <1>8, <1>11 DEF Steady, InTurn, Owning
<1> QED BY <1>13, <1>14, <1>15, <1>16 DEF Order

\* An answer is one to the question of the last turn.
LEMMA AnswerIsDue ==
  ASSUME TypeOK, Token, Order, NEW t \in Resumers, SubmitReply(t)
  PROVE  Order' /\ (Steady \/ Turns!Answer)
<1> DEFINE i == num[t]
<1>1. /\ pc[t] = "decide" /\ t \in Tasks /\ t \notin Workers
      /\ UNCHANGED <<turns, ticket, num, tid>>
  BY Disjoint DEF SubmitReply, At
<1>2. t \in Deciding /\ t \in Minded
  BY <1>1 DEF Deciding, Minded
<1>3. /\ i \in Attempts /\ inter[i].state # "absent" /\ \A u \in Minded : num[u] = i
  BY <1>2 DEF Token, Core, OneMind
<1>4. CASE pc' = [pc EXCEPT ![t] = "done"] /\ UNCHANGED inter
  <2>1. Quiet
    BY <1>1, <1>4, MoveIsQuiet
  <2> QED BY <2>1, QuietKeepsOrder, QuietIsSteady
<1>5. ASSUME pc' = [pc EXCEPT ![t] = "issue"]
      PROVE  /\ \A v \in Workers : pc'[v] = pc[v]
             /\ \A u \in Issuing' : u = t \/ u \in Issuing
             /\ LastTurn' = LastTurn /\ \A u \in Resumers : SameTicket(u)' <=> SameTicket(u)
             /\ Unstarted' = Unstarted /\ (Redrivable' <=> Redrivable)
  <2>1. \A u \in Tasks : u # t => pc'[u] = pc[u]
    BY <1>5 DEF TypeOK
  <2>2. \A v \in Workers : pc'[v] = pc[v]
    BY <1>1, <2>1, Disjoint
  <2>3. \A u \in Issuing' : u = t \/ u \in Issuing
    BY <2>1, Disjoint DEF Issuing
  <2> QED BY <1>1, <2>2, <2>3 DEF LastTurn, SameTicket, Unstarted, Redrivable
<1>6. CASE /\ pc' = [pc EXCEPT ![t] = "issue"] /\ i \in Pending
           /\ inter' = [inter EXCEPT ![i] = [state |-> "answered", by |-> t[1]]]
  <2>1. /\ \A v \in Workers : pc'[v] = pc[v]
        /\ \A u \in Issuing' : u = t \/ u \in Issuing
        /\ LastTurn' = LastTurn /\ Unstarted' = Unstarted /\ (Redrivable' <=> Redrivable)
    BY <1>5, <1>6
  <2>2. /\ i = LastTurn /\ i \notin Answered /\ \A b \in Pending : b = i
        /\ Issuing = {} /\ Owners = {} /\ ~Redrivable
    BY <1>3, <1>6 DEF Order, QuestionIsLast, Token, Core, OneQuestion, OwnerAlone, TicketAlone
  <2>3. t[1] # "none"
    BY Causes
  <2>4. inter'[i].by = t[1] /\ inter'[i].state = "answered"
        /\ \A b \in Attempts : b # i => inter'[b] = inter[b]
    BY <1>3, <1>6 DEF TypeOK
  <2>5. Answered' = Answered \cup {i} /\ Pending' = {}
    BY <1>3, <2>2, <2>3, <2>4 DEF Answered, Pending
  <2>6. \A v \in Workers : pc'[v] \notin Owning /\ pc[v] \notin Owning
    BY <2>1, <2>2 DEF Owners
  <2>7. LastTurn >= 1 /\ LastTurn <= LastTurn
    BY <1>3, <2>2 DEF Attempts
  <2>8. AnswersAreOld' /\ QuestionIsLast'
    BY <2>1, <2>2, <2>5, <2>7 DEF Order, AnswersAreOld, QuestionIsLast
  <2>9. OwnerIsDue' /\ TicketIsNext' /\ FirstIsFirst'
    BY <2>1, <2>2, <2>6
       DEF Order, OwnerIsDue, TicketIsNext, FirstIsFirst, InTurn, BeforeTurn, Owning
  <2>10. IssuerIsLast'
    BY <1>1, <2>1, <2>2 DEF IssuerIsLast
  <2>11. (\E v \in Workers : pc[v] \in InTurn) = FALSE /\ (\E v \in Workers : pc[v] \in InTurn)' = FALSE
    BY <2>6 DEF InTurn, Owning
  <2>12. LastTurn > 0 /\ LastTurn \notin Answered
    BY <1>3, <2>2 DEF Attempts
  <2>13. Turns!Answer
    BY <2>1, <2>2, <2>5, <2>11, <2>12 DEF Turns!Answer, LastTurn, Answered
  <2> QED BY <2>8, <2>9, <2>10, <2>13 DEF Order
<1>7. CASE /\ pc' = [pc EXCEPT ![t] = "issue"] /\ i \notin Pending
           /\ t[1] = "timer" /\ inter[i].by = "timer" /\ UNCHANGED inter
  <2>1. /\ \A v \in Workers : pc'[v] = pc[v]
        /\ \A u \in Issuing' : u = t \/ u \in Issuing
        /\ LastTurn' = LastTurn /\ \A u \in Resumers : SameTicket(u)' <=> SameTicket(u)
        /\ Unstarted' = Unstarted /\ (Redrivable' <=> Redrivable)
    BY <1>5, <1>7
  <2>2. Answered' = Answered /\ Pending' = Pending
    BY <1>7 DEF Answered, Pending
  <2>3. SameTicket(t) \/ num[t] = LastTurn
    <3>1. CASE Issuing = {}
      <4>1. inter[i].state # "pending"
        BY <1>3, <1>7 DEF Pending
      <4>2. ticket.by = inter[i].by /\ ticket.target = i + 1
        BY <1>2, <3>1, <4>1 DEF Token, Core, OneMind
      <4> QED BY <1>7, <4>2 DEF SameTicket
    <3>2. ASSUME NEW u \in Issuing PROVE SameTicket(t) \/ num[t] = LastTurn
      <4>1. num[u] = i
        BY <1>3 DEF Minded
      <4>2. inter[num[u]].by = u[1]
        BY DEF Token, Core, OneMind
      <4>3. u[1] = t[1]
        BY <1>7, <4>1, <4>2
      <4>4. SameTicket(u) => SameTicket(t)
        BY <4>1, <4>3 DEF SameTicket
      <4> QED BY <4>1, <4>4 DEF Order, IssuerIsLast
    <3> QED BY <3>1, <3>2
  <2>4. IssuerIsLast'
    <3> SUFFICES ASSUME NEW u \in Issuing' PROVE SameTicket(u)' \/ num'[u] = LastTurn'
      BY DEF IssuerIsLast
    <3>1. u \in Resumers
      BY DEF Issuing
    <3>2. SameTicket(u) \/ num[u] = LastTurn
      BY <2>1, <2>3 DEF Order, IssuerIsLast
    <3> QED BY <1>1, <2>1, <3>1, <3>2
  <2>5. OwnerIsDue' /\ TicketIsNext' /\ FirstIsFirst' /\ AnswersAreOld' /\ QuestionIsLast'
    BY <1>1, <2>1, <2>2
       DEF Order, OwnerIsDue, TicketIsNext, FirstIsFirst, AnswersAreOld, QuestionIsLast
  <2>6. Steady
    BY <1>1, <2>1, <2>2 DEF Steady
  <2> QED BY <2>4, <2>5, <2>6 DEF Order
<1> QED BY <1>3, <1>4, <1>6, <1>7 DEF SubmitReply, GotoOwing, Goto, First, Pending

\* The ticket is for the turn after the one that asked.
LEMMA TicketIsDue ==
  ASSUME TypeOK, Token, Order, NEW t \in Resumers, IssueTicket(t) PROVE Order' /\ Steady
<1> DEFINE i == num[t]
<1>1. /\ pc[t] = "issue" /\ t \in Tasks /\ t \notin Workers
      /\ pc' = [pc EXCEPT ![t] = "dispatch"]
      /\ tid' = [tid EXCEPT ![t] = ticket'.id]
      /\ UNCHANGED <<turns, inter, num>>
  BY Disjoint DEF IssueTicket, At, GotoOwing, Goto
<1>2. t \in Issuing /\ t \in Minded
  BY <1>1 DEF Issuing, Minded
<1>3. /\ i \in Attempts /\ inter[i].by = t[1] /\ \A u \in Issuing : num[u] = i /\ u[1] = t[1]
  <2>1. i \in Attempts /\ \A u \in Issuing : num[u] = i
    BY <1>2 DEF Token, Core, OneMind, Minded
  <2>2. \A u \in Issuing : inter[num[u]].by = u[1]
    BY DEF Token, Core, OneMind
  <2> QED BY <1>2, <2>1, <2>2
<1>4. \A u \in Tasks : u # t => pc'[u] = pc[u] /\ tid'[u] = tid[u]
  BY <1>1 DEF TypeOK
<1>5. \A v \in Workers : pc'[v] = pc[v] /\ tid'[v] = tid[v]
  BY <1>1, <1>4, Disjoint
<1>6. Issuing' \subseteq Issuing
  BY <1>1, <1>4, Disjoint DEF Issuing
<1>7. /\ LastTurn' = LastTurn /\ Answered' = Answered /\ Pending' = Pending
      /\ Unstarted' = Unstarted
  BY <1>1, <1>5 DEF LastTurn, Answered, Pending, Unstarted
<1>8. ticket'.by = t[1] /\ ticket'.target = i + 1
  BY DEF IssueTicket, SameTicket
<1>9. TicketIsNext'
  <2>1. CASE SameTicket(t)
    <3>1. ticket' = ticket
      BY <2>1 DEF IssueTicket
    <3> QED BY <1>7, <3>1 DEF Order, TicketIsNext, Redrivable
  <2>2. CASE ~SameTicket(t)
    <3>1. i = LastTurn
      BY <1>2, <2>2 DEF Order, IssuerIsLast
    <3>2. i \in Answered
      BY <1>3, Causes DEF Answered
    <3> QED BY <1>7, <1>8, <3>1, <3>2 DEF TicketIsNext
  <2> QED BY <2>1, <2>2
<1>10. IssuerIsLast'
  BY <1>1, <1>3, <1>6, <1>8 DEF IssuerIsLast, SameTicket
<1>11. OwnerIsDue' /\ FirstIsFirst' /\ AnswersAreOld' /\ QuestionIsLast'
  BY <1>1, <1>5, <1>7 DEF Order, OwnerIsDue, FirstIsFirst, AnswersAreOld, QuestionIsLast
<1>12. Steady
  BY <1>1, <1>5, <1>7 DEF Steady
<1> QED BY <1>9, <1>10, <1>11, <1>12 DEF Order

-----------------------------------------------------------------------------
(* The theorem about the turns *)

LEMMA OrderStep ==
  ASSUME TypeOK, Token, Order, [Next]_vars
  PROVE  Order' /\ [Turns!Next]_(Turns!vars)
<1>1. ASSUME Quiet PROVE Order' /\ [Turns!Next]_(Turns!vars)
  BY <1>1, QuietKeepsOrder, QuietIsSteady, SteadyStutters
<1>2. ASSUME NEW w \in Workers, WorkerStep(w) \/ RejectRun(w) \/ AuditFails(w)
      PROVE  Order' /\ [Turns!Next]_(Turns!vars)
  <2>1. CASE StartTicket(w)
    <3>1. \/ UNCHANGED ticket /\ pc' = [pc EXCEPT ![w] = "done"]
          \/ /\ pc' = [pc EXCEPT ![w] = "claim"]
             /\ \/ tid[w] = 0 /\ ticket' = ticket
                \/ /\ tid[w] # 0 /\ tid[w] = ticket.id /\ Redrivable
                   /\ ticket' = [ticket EXCEPT !.state = "started"]
      BY <2>1 DEF StartTicket, Goto
    <3> QED BY <1>1, <2>1, <3>1, WorkerQuiet, JobIsDue, SteadyStutters
  <2>2. CASE Launch(w)
    BY <2>2, TurnStarts DEF Turns!Next
  <2>3. CASE TurnAsks(w)
    BY <2>3, QuestionIsDue, SteadyStutters
  <2>4. CASE \/ Admit(w) \/ RejectRun(w) \/ AuditFails(w) \/ AdvancePhase(w) \/ CheckCancel(w)
             \/ Prepare(w) \/ EngineExit(w) \/ RepairRound(w) \/ TurnFailed(w) \/ TurnSucceeded(w)
             \/ FinishWaiting(w) \/ FinishRequeued(w)
    BY <1>1, <2>4, WorkerQuiet
  <2> QED BY <1>2, <2>1, <2>2, <2>3, <2>4 DEF WorkerStep
<1>3. ASSUME NEW t \in Tasks, Write(t) PROVE Quiet
  BY <1>3 DEF Write, data, Quiet, Unstarted, Redrivable, SameTicket
<1>4. ASSUME NEW t \in Tasks, Step(t) \/ Arrival(t) PROVE Order' /\ [Turns!Next]_(Turns!vars)
  <2>1. CASE Write(t)
    BY <1>1, <1>3, <2>1
  <2>2. CASE t \in Workers /\ ~Write(t)
    <3>1. WorkerStep(t) \/ RejectRun(t) \/ AuditFails(t)
      BY <1>4, <2>2, Disjoint, Arrivals DEF Step, Resumers
    <3> QED BY <1>2, <2>2, <3>1
  <2>3. CASE t \in Resumers /\ SubmitReply(t)
    BY <2>3, AnswerIsDue, SteadyStutters DEF Turns!Next
  <2>4. CASE t \in Resumers /\ IssueTicket(t)
    BY <2>4, TicketIsDue, SteadyStutters
  <2>5. CASE t \notin Workers /\ ~Write(t) /\ (t \in Resumers => ~SubmitReply(t) /\ ~IssueTicket(t))
    BY <1>1, <1>4, <2>5, OtherQuiet
  <2> QED BY <2>1, <2>2, <2>3, <2>4, <2>5
<1>5. CASE Crash \/ Restart \/ ClearBindings
  BY <1>1, <1>5, ServerQuiet
<1>6. CASE UNCHANGED vars
  <2>1. Quiet
    BY <1>6 DEF vars, Quiet, Unstarted, Redrivable, SameTicket
  <2> QED BY <1>1, <2>1
<1> QED BY <1>4, <1>5, <1>6 DEF Next

LEMMA OrderInitially == Init => Order /\ Turns!Init
<1> SUFFICES ASSUME Init PROVE Order /\ Turns!Init
  OBVIOUS
<1>1. LastTurn = 0 /\ \A a \in Attempts : inter[a].state = "absent" /\ inter[a].by = "none"
  BY DEF Init, LastTurn
<1>2. Answered = {} /\ Pending = {} /\ ~Redrivable
  BY <1>1 DEF Answered, Pending, Redrivable, Init
<1>3. \A t \in Workers \cup Resumers : pc[t] \in {"idle", "new"}
  BY Disjoint DEF Init
<1>4. Order
  BY <1>1, <1>2, <1>3
     DEF Order, AnswersAreOld, QuestionIsLast, OwnerIsDue, TicketIsNext, IssuerIsLast,
         FirstIsFirst, InTurn, BeforeTurn, Owning, Issuing
<1>5. (\E w \in Workers : pc[w] \in InTurn) = FALSE
  BY <1>3 DEF InTurn
<1>6. Turns!Init
  BY <1>1, <1>2, <1>5 DEF Turns!Init, LastTurn, Answered
<1> QED BY <1>4, <1>6

\* Engine turns are taken one at a time, in the order of their attempts, each after
\* the question of the one before has been answered: across replies, timeouts,
\* readers that redrive, cancels, crashes and restarts.
THEOREM TurnsAreTakenInOrder == Spec => ImplementsTurnTaking
<1>1. Init => TypeOK /\ Token /\ Order /\ Turns!Init
  BY Initially, OrderInitially
<1>2. TypeOK /\ Token /\ Order /\ [Next]_vars
        => (TypeOK /\ Token /\ Order)' /\ [Turns!Next]_(Turns!vars)
  BY Inductive, OrderStep
<1> QED BY <1>1, <1>2, PTL DEF Spec, ImplementsTurnTaking, Turns!Spec
=============================================================================
