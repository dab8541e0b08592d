---------------------------- MODULE RunLifecycle ----------------------------
(***************************************************************************)
(* One interactive run, from the moment its request has been created to a  *)
(* terminal status: run_job and the services it calls, the client replies  *)
(* and reply timeouts that resume it, the redrive of its resume ticket by  *)
(* a client that polls it, its cancellation, and the recovery after a      *)
(* restart of the server.                                                  *)
(*                                                                         *)
(* All of these are tasks of one asyncio loop.  Their state is spread over *)
(* stores written one after the other with no transaction around them: a   *)
(* task owes the writes of a projection (todo) and performs them one by    *)
(* one, other tasks running in between.  Every other action is the code    *)
(* between two suspension points; adjacent reads that no other task can    *)
(* tell apart are taken together.  The login branch (waiting_auth) is not  *)
(* modelled, nor the projection table, which no step modelled here reads.  *)
(***************************************************************************)
EXTENDS Integers, Sequences, FiniteSets, SequencesExt, FiniteSetsExt

CONSTANTS
  Conversations,\* how the run may converse, a subset of ConversationKinds
  Faults,       \* what may fail, a subset of FaultKinds
  Situations,   \* what a run may meet, a subset of SituationKinds
  MaxAttempt,   \* bound: the engine asks nothing in this attempt
  MaxRepairs,   \* MAX_REPAIR_ROUNDS
  Replies,      \* bound: replies submitted by clients
  Polls,        \* bound: reads of the run detail by clients
  Cancels,      \* bound: cancel requests by clients
  MaxCrashes    \* bound: crashes of the server

\* Waiting for replies; the same with interactive_auto_reply; or no session at
\* all, which the effective runtime policy turns into automatic replies at once.
ConversationKinds == {"session", "session_timeout", "oneshot"}
FaultKinds == {"queue_full", "audit", "bundle"}
\* What is tried on a run, beside replies and reply timeouts: nothing; answers
\* at any moment (a reply while the attempt that asked still writes its waiting
\* projection a second time, the timeouts of two attempts at once); cancels,
\* faults and redriving readers; or crashes and redriving readers.
SituationKinds == {"calm", "eager", "cancel", "crash"}

ASSUME InputsAssumption ==
  /\ Conversations \subseteq ConversationKinds /\ Faults \subseteq FaultKinds
  /\ Situations \subseteq SituationKinds
ASSUME BoundsAssumption ==
  MaxAttempt \in Nat \ {0} /\ {MaxRepairs, Replies, Polls, Cancels, MaxCrashes} \subseteq Nat

Attempts == 1..MaxAttempt
\* Every resumption and every redrive starts a run_job of its own: these are
\* more than there can be: NewWorker finds one.
Workers == {"worker"} \X (1..(MaxAttempt + Polls + MaxCrashes + 1))
Timers == {"timer"} \X Attempts      \* the timer armed by an attempt
Clients == {"reply"} \X (1..Replies)
Pollers == {"poll"} \X (1..Polls)
Cancellers == {"cancel"} \X (1..Cancels)
recovery == <<"recovery", 1>>
Tasks == Workers \cup Timers \cup Clients \cup Pollers \cup Cancellers
           \cup {recovery}

Terminal == {"succeeded", "failed", "canceled"}
Statuses == {"queued", "running", "waiting_user"} \cup Terminal

VARIABLES
  conversation, \* of this run, fixed when it is created
  situation,    \* of this behaviour, fixed at its start
  store,     \* the stores that hold a status: run_state ("state"),
             \* runs.status ("row") and the file result.json ("result")
  flagged,   \* runs.cancel_requested
  inter,     \* request_interactions: state and answerer, by interaction_id,
             \* which is the number of the attempt that asked
  ticket,    \* the row of request_resume_tickets
  handle,    \* whether an engine session handle is stored
  mode,      \* of the server: "up", "down" or "recovering"
  crashes,
  turns,     \* history: attempts whose engine process was started, in order
  pc,        \* where a task is
  todo,      \* the store writes a task has begun and not yet performed
  num,       \* worker: its attempt; resumer: the interaction in hand
  tid,       \* the resume ticket a task holds, 0 for none
  round      \* repair rounds of a worker's turn

vars == <<conversation, situation, store, flagged, inter, ticket, handle, mode,
          crashes, turns, pc, todo, num, tid, round>>
data == <<flagged, inter, ticket, handle>>
server == <<conversation, situation, mode, crashes>>
steady == <<server, round>>

Session == conversation # "oneshot"
AutoReply == conversation # "session"
Eager == situation = "eager"
CanFail(fault) == situation = "cancel" /\ fault \in Faults
\* Bound: when a cancel is tried there is one question and one reply less.
Fewer == IF situation = "cancel" THEN 1 ELSE 0
CanRedrive == situation \in {"cancel", "crash"}

Init ==
  /\ conversation \in Conversations
  /\ situation \in Situations
  /\ store = [state |-> "queued", row |-> "queued", result |-> "none"]
  /\ flagged = FALSE
  /\ inter = [a \in Attempts |-> [state |-> "absent", by |-> "none"]]
  /\ ticket = [id |-> 0, by |-> "none", target |-> 0, state |-> "none"]
  /\ handle = FALSE
  /\ mode = "up"
  /\ crashes = 0
  /\ turns = <<>>
  /\ pc = [t \in Tasks |-> IF t = <<"worker", 1>> THEN "new" ELSE "idle"]
  /\ todo = [t \in Tasks |-> <<>>]
  /\ num = [t \in Tasks |-> IF t = <<"worker", 1>> THEN 1 ELSE 0]
  /\ tid = [t \in Tasks |-> 0]
  /\ round = [w \in Workers |-> 0]

-----------------------------------------------------------------------------
(* Store writes *)

Put(where, status) == [to |-> where, status |-> status]
\* Mutant: the row is left out.
ProjectionOfState(status) == <<Put("state", status)>>
NonTerminalProjection(status) == <<Put("state", status), Put("row", status)>>
\* Mutant: no result file is written.
ProjectionWithoutResult(status) == NonTerminalProjection(status)
TerminalProjection(status) ==
  NonTerminalProjection(status) \o <<Put("result", status)>>

\* The next write a task owes.
Write(t) ==
  /\ todo[t] # <<>>
  /\ store' = [store EXCEPT ![Head(todo[t]).to] = Head(todo[t]).status]
  /\ todo' = [todo EXCEPT ![t] = Tail(@)]
  /\ UNCHANGED <<data, steady, turns, pc, num, tid>>

At(t, step) == pc[t] = step /\ todo[t] = <<>>
Goto(t, step) == pc' = [pc EXCEPT ![t] = step]
GotoOwing(t, step, writes) == Goto(t, step) /\ todo' = [todo EXCEPT ![t] = writes]

\* run_job ends with the finalizer's terminal projection and row update.
Finish(w, status) ==
  GotoOwing(w, "done", TerminalProjection(status) \o <<Put("row", status)>>)

Pending == {a \in Attempts : inter[a].state = "pending"}
\* Mutants: only a ticket not dispatched yet; a started one too.
RedrivableIfIssued == ticket.state = "issued"
RedrivableIfAny == ticket.state # "none"
Redrivable == ticket.state \in {"issued", "dispatched"}

\* run_job(target attempt, ticket) is scheduled as a new task.
Spawned == {w \in Workers : pc[w] # "idle"}
NewWorker == CHOOSE w \in Workers : w \notin Spawned
Spawn(attempt, id) ==
  /\ num' = [num EXCEPT ![NewWorker] = attempt]
  /\ tid' = [tid EXCEPT ![NewWorker] = id]

-----------------------------------------------------------------------------
(* run_job *)

Admit(w) ==
  /\ At(w, "new")
  /\ Goto(w, "ticket")
  /\ UNCHANGED <<store, data, steady, turns, todo, num, tid>>

\* admit_or_reject refuses after the queued state was initialized.
RejectRun(w) ==
  /\ CanFail("queue_full")
  /\ At(w, "new")
  /\ Goto(w, "done")
  /\ UNCHANGED <<store, data, steady, turns, todo, num, tid>>

\* With a slot: mark_resume_ticket_started, if the job has a ticket.
StartTicket(w) ==
  /\ At(w, "ticket")
  /\ \/ /\ tid[w] = 0
        /\ Goto(w, "claim")
        /\ UNCHANGED ticket
     \/ /\ tid[w] # 0 /\ tid[w] = ticket.id /\ Redrivable
        /\ ticket' = [ticket EXCEPT !.state = "started"]
        /\ Goto(w, "claim")
     \/ /\ tid[w] # 0 /\ ~(tid[w] = ticket.id /\ Redrivable)
        /\ Goto(w, "done")
        /\ UNCHANGED ticket
  /\ UNCHANGED <<store, flagged, inter, handle, steady, turns, todo, num, tid>>

\* advance_dispatch_phase reads the whole envelope, its status included, and
\* writes it back with another phase; a worker does so twice.
AdvancePhase(w) ==
  /\ \/ At(w, "claim") /\ Goto(w, "materialize")
     \/ At(w, "materialize") /\ Goto(w, "check")
  /\ todo' = [todo EXCEPT ![w] = <<Put("state", store.state)>>]
  /\ UNCHANGED <<store, data, steady, turns, num, tid>>

\* Creating the audit files raises outside the handlers of run_job.
AuditFails(w) ==
  /\ CanFail("audit")
  /\ At(w, "check")
  /\ Goto(w, "done")
  /\ UNCHANGED <<store, data, steady, turns, todo, num, tid>>

\* Mutant: there is no second check.
NoRecheck(w) == TRUE
PassesRecheck(w) == ~flagged

\* A cancel request is looked for three times: before the attempt runs,
\* before its engine is started and when the engine has ended.
CheckCancel(w) ==
  /\ \/ At(w, "check") /\ ~flagged
        /\ GotoOwing(w, "prepare", NonTerminalProjection("running"))
     \/ At(w, "recheck") /\ PassesRecheck(w) /\ Goto(w, "launch") /\ UNCHANGED todo
     \/ At(w, "ended") /\ ~flagged /\ Goto(w, "resolve") /\ UNCHANGED todo
     \/ /\ \E step \in {"check", "recheck", "ended"} : At(w, step)
        /\ flagged
        /\ Finish(w, "canceled")
  /\ UNCHANGED <<store, data, steady, turns, num, tid>>

\* Mutant: the reply is read and not consumed.
Unconsumed(state) == state
Consumed(state) == IF state = "answered" THEN "consumed" ELSE state

\* The reply is consumed and the session handle read, in session mode.
Prepare(w) ==
  /\ At(w, "prepare")
  /\ IF tid[w] # 0 /\ Session
       THEN /\ inter' = [inter EXCEPT ![num[w] - 1].state = Consumed(@)]
            /\ IF handle THEN Goto(w, "recheck") /\ UNCHANGED todo
                         ELSE Finish(w, "failed")
       ELSE Goto(w, "recheck") /\ UNCHANGED <<inter, todo>>
  /\ UNCHANGED <<store, flagged, ticket, handle, steady, turns, num, tid>>

\* The engine process is spawned and registered: cancel can now find it.
Launch(w) ==
  /\ At(w, "launch")
  /\ turns' = Append(turns, num[w])
  /\ Goto(w, "engine")
  /\ UNCHANGED <<store, data, steady, todo, num, tid>>

\* A task waiting for something slow: a client, a slot, an engine, a delay.
AtRest(t) ==
  todo[t] = <<>> /\ pc[t] \in {"idle", "new", "ticket", "engine", "repair", "armed", "done"}

\* TIMING: an engine turn outlasts the steps of the tasks it overlaps with,
\* those of a cancel excepted.
EngineExit(w) ==
  /\ \/ /\ At(w, "engine")
        /\ handle' \in {handle, TRUE}  \* the engine may report a session
        /\ Goto(w, "ended")
     \/ At(w, "repair") /\ Goto(w, "resolve") /\ UNCHANGED handle
  /\ \A t \in Tasks \ ({w} \cup Cancellers) : AtRest(t)
  /\ UNCHANGED <<store, flagged, inter, ticket, steady, turns, todo, num, tid>>

\* converge: what was printed does not satisfy the contract, and the engine is
\* started again in the same session.  Nothing asks for a cancel, and the next
\* round follows one whose process was terminated.
MayRepair(w) == handle /\ round[w] < MaxRepairs
RepairRound(w) ==
  /\ At(w, "resolve") \/ At(w, "killed")
  /\ MayRepair(w)
  /\ round' = [round EXCEPT ![w] = @ + 1]
  /\ Goto(w, "repair")
  /\ UNCHANGED <<store, data, server, turns, todo, num, tid>>

Converged(w) == round' = [round EXCEPT ![w] = 0] /\ UNCHANGED server

\* The outcome of a turn: it fails, as one does whose last process was
\* terminated ...
TurnFailed(w) ==
  /\ At(w, "resolve") \/ At(w, "killed")
  /\ Finish(w, "failed")
  /\ Converged(w)
  /\ UNCHANGED <<store, data, turns, num, tid>>

\* ... or succeeds: the bundles are built after the terminal writes, and a
\* failure to build them is written as another outcome ...
TurnSucceeded(w) ==
  /\ \/ /\ At(w, "resolve")
        /\ GotoOwing(w, "bundle", TerminalProjection("succeeded")
                                    \o <<Put("row", "succeeded")>>)
     \/ At(w, "bundle") /\ Goto(w, "done") /\ UNCHANGED todo
     \/ CanFail("bundle") /\ At(w, "bundle") /\ Finish(w, "failed")
  /\ Converged(w)
  /\ UNCHANGED <<store, data, turns, num, tid>>

\* ... or it asks.  The question is stored, then the waiting projection is
\* written if there is a session handle to come back to.  A run that cannot
\* wait is put back in the queue to be answered automatically.
TurnAsks(w) ==
  LET a == num[w]
      Asked == inter' = [inter EXCEPT ![a] = [state |-> "pending", by |-> "none"]]
  IN /\ At(w, "resolve")
     /\ a < MaxAttempt - Fewer
     /\ \/ /\ Session /\ handle
           /\ Asked
           /\ GotoOwing(w, "arm", NonTerminalProjection("waiting_user"))
        \/ Session /\ ~handle /\ Asked /\ Finish(w, "failed")
        \/ /\ ~Session
           /\ Asked
           /\ GotoOwing(w, "autoresume",
                        NonTerminalProjection("queued") \o <<Put("row", "queued")>>)
     /\ Converged(w)
     /\ UNCHANGED <<store, flagged, ticket, handle, turns, num, tid>>

\* Mutant: a timer is armed for the first question only.
ArmsFirstTimer(w, t) == AutoReply /\ num[w] = 1 /\ t = <<"timer", num[w]>>
ArmsTimer(w, t) == AutoReply /\ t = <<"timer", num[w]>>

\* The timer task is created, then the finalizer writes the waiting
\* projection a second time and the row once more.
FinishWaiting(w) ==
  /\ At(w, "arm")
  /\ pc' = [t \in Tasks |-> CASE t = w -> "done"
                              [] ArmsTimer(w, t) -> "armed"
                              [] OTHER -> pc[t]]
  /\ todo' = [todo EXCEPT ![w] = NonTerminalProjection("waiting_user")
                                   \o <<Put("row", "waiting_user")>>]
  /\ UNCHANGED <<store, data, steady, turns, num, tid>>

\* A task is created to resume with an automatic decision.
FinishRequeued(w) ==
  LET t == <<"timer", num[w]>>
  IN /\ At(w, "autoresume")
     /\ pc' = [pc EXCEPT ![w] = "done", ![t] = "decide"]
     /\ num' = [num EXCEPT ![t] = num[w]]
     /\ UNCHANGED <<store, data, steady, turns, todo, tid>>

-----------------------------------------------------------------------------
(* Resumption by a reply or by the reply timeout *)

\* TIMING: the delay, a second at least, outlasts the writes of the attempt
\* that created the timer.
TimerFires(t) ==
  /\ At(t, "armed")
  /\ \A u \in Workers \cup (Timers \ {t}) :
       AtRest(u) \/ (Eager /\ (u \in Workers => num[u] # t[2]))
  /\ Goto(t, IF store.state = "waiting_user" THEN "look" ELSE "done")
  /\ UNCHANGED <<store, data, steady, turns, todo, num, tid>>

\* A reply is refused unless the run is waiting.
ReplyArrives(t) ==
  /\ t \in Clients /\ mode = "up"
  /\ t[2] <= Replies - Fewer
  /\ At(t, "idle")
  /\ Eager \/ \A w \in Workers : AtRest(w)
  /\ store.state = "waiting_user"
  /\ Goto(t, "look")
  /\ UNCHANGED <<store, data, steady, turns, todo, num, tid>>

\* get_pending_interaction: the latest pending one.
LookUpPending(t) ==
  /\ At(t, "look")
  /\ IF Pending = {}
       THEN Goto(t, "done") /\ UNCHANGED num
       ELSE Goto(t, "decide") /\ num' = [num EXCEPT ![t] = Max(Pending)]
  /\ UNCHANGED <<store, data, steady, turns, todo, tid>>

\* Mutant: an answer not consumed yet is replaced.
FirstUnlessConsumed(i) == inter[i].state \in {"pending", "answered"}
First(i) == inter[i].state = "pending"

\* submit_interaction_reply: one answerer wins.  Every timer uses the same
\* idempotency key and payload for an interaction and goes on either way.
SubmitReply(t) ==
  LET i == num[t]
      by == t[1]
      repeated == by = "timer" /\ ~First(i) /\ inter[i].by = "timer"
  IN /\ At(t, "decide")
     /\ inter' = IF First(i)
                   THEN [inter EXCEPT ![i] = [state |-> "answered", by |-> by]]
                   ELSE inter
     /\ IF First(i) \/ repeated
          THEN GotoOwing(t, "issue",
                         IF by = "timer"
                           THEN <<Put("row", "queued")>>
                           ELSE NonTerminalProjection("queued")
                                  \o <<Put("row", "queued")>>)
          ELSE Goto(t, "done") /\ UNCHANGED todo
     /\ UNCHANGED <<store, flagged, ticket, handle, steady, turns, num, tid>>

\* Mutant: every resumption gets a new ticket.
NeverSameTicket(t) == FALSE
SameTicket(t) == ticket.by = t[1] /\ ticket.target = num[t] + 1

\* issue_resume_ticket returns the present ticket if it is for the same
\* cause and attempts and replaces it otherwise.
IssueTicket(t) ==
  LET new == [id |-> ticket.id + 1, by |-> t[1], target |-> num[t] + 1,
              state |-> "issued"]
  IN /\ At(t, "issue")
     /\ ticket' = IF SameTicket(t) THEN ticket ELSE new
     /\ tid' = [tid EXCEPT ![t] = ticket'.id]
     /\ GotoOwing(t, "dispatch", NonTerminalProjection("queued"))
     /\ UNCHANGED <<store, flagged, inter, handle, steady, turns, num>>

\* mark_resume_ticket_dispatched decides who starts run_job.
DispatchTicket(t) ==
  /\ At(t, "dispatch")
  /\ IF ticket.id = tid[t] /\ ticket.state = "issued"
       THEN /\ ticket' = [ticket EXCEPT !.state = "dispatched"]
            /\ Spawn(num[t] + 1, tid[t])
            /\ pc' = [pc EXCEPT ![t] = "done", ![NewWorker] = "ticket"]
       ELSE Goto(t, "done") /\ UNCHANGED <<ticket, num, tid>>
  /\ UNCHANGED <<store, flagged, inter, handle, steady, turns, todo>>

-----------------------------------------------------------------------------
(* Redrive by a reader of the run detail *)

PollReadsQueued(t) ==
  /\ t \in Pollers /\ mode = "up" /\ CanRedrive
  /\ At(t, "idle")
  /\ store.state = "queued"
  /\ Goto(t, "redrive")
  /\ UNCHANGED <<store, data, steady, turns, todo, num, tid>>

Redrive(t) ==
  /\ At(t, "redrive")
  /\ IF Redrivable
       THEN /\ Spawn(ticket.target, ticket.id)
            /\ pc' = [pc EXCEPT ![t] = "done", ![NewWorker] = "ticket"]
       ELSE Goto(t, "done") /\ UNCHANGED <<num, tid>>
  /\ UNCHANGED <<store, data, steady, turns, todo>>

-----------------------------------------------------------------------------
(* Cancellation *)

\* The status is read once: it decides whether the process is terminated.
CancelArrives(t) ==
  /\ t \in Cancellers /\ mode = "up" /\ situation = "cancel"
  /\ At(t, "idle")
  /\ store.state \notin Terminal
  /\ Goto(t, IF store.state = "running" THEN "flag_kill" ELSE "flag")
  /\ UNCHANGED <<store, data, steady, turns, todo, num, tid>>

SetCancelRequested(t) ==
  /\ \/ At(t, "flag") /\ Goto(t, "project")
     \/ At(t, "flag_kill") /\ Goto(t, "kill")
  /\ flagged' = TRUE
  /\ UNCHANGED <<store, inter, ticket, handle, steady, turns, todo, num, tid>>

\* cancel_run_process terminates the process registered now, if any.
Kill(t) ==
  /\ At(t, "kill")
  /\ pc' = [u \in Tasks |-> CASE u = t -> "project"
                              [] u \in Workers /\ pc[u] = "engine" -> "ended"
                              [] u \in Workers /\ pc[u] = "repair" -> "killed"
                              [] OTHER -> pc[u]]
  /\ UNCHANGED <<store, data, steady, turns, todo, num, tid>>

\* The canceled projection is written whatever the run has become.
ProjectCanceled(t) ==
  /\ At(t, "project")
  /\ Finish(t, "canceled")
  /\ UNCHANGED <<store, data, steady, turns, num, tid>>

-----------------------------------------------------------------------------
(* Crash and restart *)

\* Every task is lost, with the writes it owed; the stores remain.
Crash ==
  /\ situation = "crash" /\ crashes < MaxCrashes
  /\ mode # "down"
  /\ crashes' = crashes + 1
  /\ mode' = "down"
  /\ pc' = [t \in Tasks |-> IF pc[t] = "idle" THEN "idle" ELSE "done"]
  /\ todo' = [t \in Tasks |-> <<>>]
  /\ UNCHANGED <<conversation, situation, store, data, turns, num, tid, round>>

\* recover_single_incomplete_run goes by the row alone.
\* Mutant: the question is not looked for.
PreserveIfHandle == store.row = "waiting_user" /\ handle
PreserveWaiting == store.row = "waiting_user" /\ Pending # {} /\ handle
RedriveTicket == store.row = "queued" /\ Redrivable

Restart ==
  /\ mode = "down"
  /\ \/ /\ store.row \in Terminal \/ PreserveWaiting
        /\ mode' = "up"
        /\ UNCHANGED <<pc, todo, num, tid>>
     \/ /\ RedriveTicket
        /\ mode' = "up"
        /\ Spawn(ticket.target, ticket.id)
        /\ Goto(NewWorker, "ticket")
        /\ UNCHANGED todo
     \/ /\ store.row \notin Terminal
        /\ ~PreserveWaiting /\ ~RedriveTicket
        /\ mode' = "recovering"
        /\ GotoOwing(recovery, "clear",
                     TerminalProjection("failed") \o <<Put("row", "failed")>>)
        /\ UNCHANGED <<num, tid>>
  /\ UNCHANGED <<conversation, situation, store, data, crashes, turns, round>>

\* The end of mark_restart_reconciled_failed.
ClearBindings ==
  /\ At(recovery, "clear")
  /\ inter' = [a \in Attempts |-> IF a \in Pending
                                    THEN [inter[a] EXCEPT !.state = "consumed"]
                                    ELSE inter[a]]
  /\ handle' = FALSE
  /\ mode' = "up"
  /\ Goto(recovery, "idle")
  /\ UNCHANGED <<conversation, situation, store, flagged, ticket, crashes, turns,
                 todo, num, tid, round>>

-----------------------------------------------------------------------------
WorkerStep(w) ==
  \/ Admit(w) \/ StartTicket(w) \/ AdvancePhase(w) \/ CheckCancel(w)
  \/ Prepare(w) \/ Launch(w) \/ EngineExit(w) \/ RepairRound(w) \/ TurnFailed(w)
  \/ TurnSucceeded(w) \/ TurnAsks(w) \/ FinishWaiting(w) \/ FinishRequeued(w)
Step(t) ==
  \/ Write(t)
  \/ t \in Workers /\ (WorkerStep(t) \/ RejectRun(t) \/ AuditFails(t))
  \/ t \in Timers /\ TimerFires(t)
  \/ t \in Timers \cup Clients /\ (LookUpPending(t) \/ SubmitReply(t)
                                     \/ IssueTicket(t) \/ DispatchTicket(t))
  \/ t \in Pollers /\ Redrive(t)
  \/ t \in Cancellers /\ (SetCancelRequested(t) \/ Kill(t) \/ ProjectCanceled(t))
Arrival(t) == ReplyArrives(t) \/ PollReadsQueued(t) \/ CancelArrives(t)

Next ==
  \/ \E t \in Tasks : Step(t) \/ Arrival(t)
  \/ Crash \/ Restart \/ ClearBindings

Spec == Init /\ [][Next]_vars

\* The loop runs every task it has, a job gets a slot, an engine process is
\* bounded by a hard timeout, and the server is restarted after a crash.
\* Nothing is assumed of clients.
Fairness ==
  /\ \A t \in Tasks : WF_vars(Step(t))
  /\ WF_vars(Restart)
  /\ WF_vars(ClearBindings)
FairSpec == Spec /\ Fairness

-----------------------------------------------------------------------------
(* Properties *)

\* Where a task can be, and what it can owe.
Steps ==
  {"idle", "new", "ticket", "claim", "materialize", "check", "prepare", "recheck", "launch",
   "engine", "ended", "resolve", "repair", "killed", "bundle", "arm", "autoresume",
   "armed", "look", "decide", "issue", "dispatch", "redrive",
   "flag", "flag_kill", "kill", "project", "clear", "done"}
Writes == [to : {"state", "row"}, status : Statuses] \cup [to : {"result"}, status : Terminal]

\* The values the code gives to the stores, the tickets and the tasks.
TypeOK ==
  /\ conversation \in Conversations /\ situation \in Situations
  /\ store \in [state : Statuses, row : Statuses, result : Terminal \cup {"none"}]
  /\ flagged \in BOOLEAN /\ handle \in BOOLEAN
  /\ inter \in [Attempts -> [state : {"absent", "pending", "answered", "consumed"},
                             by : {"none", "timer", "reply"}]]
  /\ ticket \in [id : Nat, by : {"none", "timer", "reply"}, target : Nat,
                 state : {"none", "issued", "dispatched", "started"}]
  /\ mode \in {"up", "down", "recovering"} /\ crashes \in 0..MaxCrashes
  /\ turns \in Seq(Nat)
  /\ pc \in [Tasks -> Steps] /\ todo \in [Tasks -> Seq(Writes)]
  /\ num \in [Tasks -> Nat] /\ tid \in [Tasks -> Nat]
  /\ round \in [Workers -> 0..MaxRepairs]

\* Nothing is under way and the server is up.
Quiescent == mode = "up" /\ \A t \in Tasks : todo[t] = <<>>
                                               /\ pc[t] \in {"idle", "done"}

\* "Single resume winner": two jobs are never both between having started
\* their ticket and having resolved their turn.
SingleOwner ==
  Cardinality({w \in Workers :
                 pc[w] \in {"claim", "materialize", "check", "prepare", "recheck",
                            "launch", "engine", "ended", "resolve", "repair",
                            "killed"}}) <= 1

\* Engine turns are taken as the resume protocol promises.
InTurn == {"engine", "ended", "resolve", "repair", "killed"}
Turns == INSTANCE TurnTaking
           WITH last <- IF turns = <<>> THEN 0 ELSE Last(turns),
                live <- \E w \in Workers : pc[w] \in InTurn,
                answered <- {a \in Attempts : inter[a].by # "none"}
ImplementsTurnTaking == Turns!Spec

\* The status in run_state only moves as the statechart allows.
Statechart == INSTANCE SessionStatechart
                WITH status <- IF situation = "calm" /\ Session THEN store.state ELSE "queued"
ImplementsStatechart == Statechart!Spec

\* When nothing is under way the three stores of the status tell one story.
StoresAgreeAtRest ==
  Quiescent /\ situation \in {"calm", "eager"} =>
    /\ store.row = store.state
    /\ store.result = IF store.state \in Terminal THEN store.state ELSE "none"

\* A run at rest in waiting_user can be resumed: its question is open and its
\* session can be reopened.
WaitingIsAnswerable ==
  Quiescent /\ store.state = "waiting_user" => Pending # {} /\ handle

\* An engine that is running while nothing else happens is reported: readers
\* and cancel go by the status.
LiveTurnIsRunning ==
  situation = "calm" /\ (\A t \in Tasks : AtRest(t)) =>
    \A w \in Workers :
      pc[w] \in {"engine", "repair"} =>
        store.state = "running" /\ store.row = "running"

\* From the moment a cancel is recorded the run takes no further engine turn and
\* no repair round, unless a job was just then past its last check before its
\* engine is started, or past its last check of all: no job gets there any more.
PastLastCheck == {"launch", "resolve", "repair", "killed"}
CancelStopsFurtherTurns ==
  [][flagged /\ (\A w \in Workers : pc[w] \notin PastLastCheck)
       => turns' = turns /\ \A w \in Workers : pc'[w] \notin PastLastCheck]_vars

\* "running ... the system sends the CLI process a signal to terminate, and the
\* run finally enters canceled": so does a run whose process, of whichever
\* round, has ended after the cancel was recorded.
TerminatedRunEndsCanceled ==
  flagged /\ (\E w \in Workers : pc[w] \in {"ended", "killed"})
    ~> [](store.state = "canceled")

\* A run that is queued or running gets to a terminal status or waits, whenever
\* the server crashes.
RunSettles ==
  situation = "crash" /\ store.state \in {"queued", "running"}
    ~> store.state \in Terminal \cup {"waiting_user"}

\* An accepted answer reaches an attempt, or the run ends without it.
AnswerDelivered ==
  \A a \in Attempts : inter[a].state = "answered"
                        ~> inter[a].state = "consumed" \/ store.state \in Terminal

\* With automatic replies a waiting run goes on by itself.
WaitingResumes ==
  situation = "calm" /\ AutoReply /\ store.state = "waiting_user" ~> store.state # "waiting_user"

=============================================================================
