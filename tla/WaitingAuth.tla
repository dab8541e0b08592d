----------------------------- MODULE WaitingAuth -----------------------------
(***************************************************************************)
(* A run whose engine asks for a login (services/orchestration/            *)
(* run_auth_orchestration_service.py and the auth tables of the run        *)
(* store): the attempt that posts a login or a choice of methods, the      *)
(* callbacks, polls and submissions that end the login, the resume ticket  *)
(* they compete for, and the attempt that follows.                         *)
(*                                                                         *)
(* All of these are coroutines of one loop; an action is the code between  *)
(* two awaits that another coroutine can tell apart.  A login session is   *)
(* seen through its snapshot only (AuthSessions models the sessions).  A    *)
(* projection writes the run state and the runs row as one (RunLifecycle   *)
(* models their order); the two differ where only the row is written.      *)
(***************************************************************************)
EXTENDS Integers, FiniteSets

CONSTANTS
  RunLogins,  \* session ids of logins this run starts
  UserLogins, \* session ids of logins people start in the UI, for no run
  Polls,      \* bound: concurrent reads of the run's status, or of its login's
  Clients,    \* bound: concurrent submissions
  LastLogin,  \* bound: the last attempt whose engine asks for a login
  LastShared, \* bound: the same, once a login of no run is about
  MaxTicket,  \* bound: resume tickets
  MaxCrashes, \* bound: crashes of the server
  Eager,      \* a login may end while a task still writes that the run waits
  Hasty,      \* a client chooses or imports while a login or submission goes on
  Stale,      \* a completion clears what another has still to read
  None

ASSUME BoundsAssumption ==
  /\ LastLogin \in Nat \ {0} /\ LastShared \in 0..LastLogin
  /\ Polls \in Nat /\ Clients \in Nat /\ MaxTicket \in Nat /\ MaxCrashes \in Nat
ASSUME NoneAssumption ==
  /\ None \notin RunLogins \cup UserLogins
  /\ None \notin [session : RunLogins \cup UserLogins, source : 1..LastLogin]

VARIABLES
  status,     \* in request_run_state: what readers and submissions go by
  row,        \* runs.status: what a restart goes by
  canceled,   \* runs.cancel_requested
  login,      \* status in the session's snapshot
  late,       \* sessions past their expires_at
  owned,      \* sessions that a row of auth_sessions ties to this request
  pending,    \* request_auth_sessions.pending_auth_json
  context,    \* source_attempt in auth_resume_context_json, or 0
  choice,     \* source_attempt in pending_auth_method_selection, or 0
  ticket,     \* the row of request_resume_tickets
  task,       \* the coroutines
  turns,      \* history: how often an attempt's engine was run
  givenUp,    \* history: the last login or choice posted was given up by a poll
  mode,       \* of the server: "up" or "down"
  crashes

statuses == <<status, row>>
sessions == <<login, late, owned>>
waiting == <<pending, context, choice, givenUp>>
fixed == <<canceled, mode, crashes>>
vars == <<statuses, fixed, sessions, waiting, ticket, task, turns>>

Logins == RunLogins \cup UserLogins
PendingAuth == [session : Logins, source : 1..LastLogin]
Attempts == 1..(LastLogin + 1)
Jobs == {"job"} \X (0..MaxTicket)          \* run_job, by the ticket it resumes
Pollers == {"poll"} \X (1..Polls)
Submitters == {"submit"} \X (1..Clients)
Callbacks == {"callback"} \X Logins
canceler == <<"cancel", 1>>
Tasks == Jobs \cup Pollers \cup Submitters \cup Callbacks \cup {canceler}
Terminal == {"succeeded", "failed", "canceled"}

TaskAt(pc, t, a) == [pc |-> pc, session |-> None, ticket |-> t, source |-> a]

Init ==
  /\ status = "queued" /\ row = "queued" /\ canceled = FALSE
  /\ \E open \in SUBSET UserLogins :
       login = [s \in Logins |-> IF s \in open THEN "live" ELSE "unused"]
  /\ late = {} /\ owned = {}
  /\ pending = None /\ context = 0 /\ choice = 0 /\ givenUp = FALSE
  /\ ticket = [id |-> 0, source |-> 0, state |-> "none"]
  /\ task = [k \in Tasks |-> IF k = <<"job", 0>> THEN TaskAt("new", 0, 1)
                                              ELSE TaskAt("idle", 0, 0)]
  /\ turns = [a \in Attempts |-> 0]
  /\ mode = "up" /\ crashes = 0

\* write_non_terminal_projection, write_terminal_projection
Project(s) == status' = s /\ row' = s

At(k, pc) == task[k].pc = pc
Goto(k, pc) == task' = [task EXCEPT ![k].pc = pc]
AtRest(k) == task[k].pc \in {"idle", "turn", "done"}
\* TIMING: a login takes longer to end, or to expire, than the writes of the
\* task that posts it, and a person longer to submit.
Posting(k) ==
  \/ task[k].pc \in {"ask", "persist", "post", "finalize", "repost"}
  \/ At(k, "read") /\ login[task[k].session] = "failed"
PeopleAct == Eager \/ \A k \in Tasks : ~Posting(k)
\* TIMING: a completion has read the attempt of the login it found before
\* another one clears it.
Reading == \E k \in Tasks : task[k].pc \in {"look", "input", "read"}
Clearing == \E k \in Tasks : At(k, "clear")
\* _resolve_source_attempt
SourceAttempt(fallback) ==
  CASE pending # None -> pending.source
    [] pending = None /\ fallback # 0 -> fallback
    [] pending = None /\ fallback = 0 -> 1

-----------------------------------------------------------------------------
(* run_job, as far as the login goes *)

\* mark_resume_ticket_started, the cancel check and the running projection.
JobStarts(j) ==
  LET t == task[j].ticket
      mine == ticket.id = t /\ ticket.state \in {"issued", "dispatched"}
  IN /\ At(j, "new")
     /\ \/ /\ t = 0 \/ mine
           /\ ticket' = IF t = 0 THEN ticket ELSE [ticket EXCEPT !.state = "started"]
           /\ \/ /\ ~canceled
                 /\ Project("running")
                 /\ turns' = [turns EXCEPT ![task[j].source] = @ + 1]
                 /\ Goto(j, "turn")
              \/ canceled /\ Project("canceled") /\ Goto(j, "done") /\ UNCHANGED turns
        \/ /\ t # 0 /\ ~mine
           /\ Goto(j, "done")
           /\ UNCHANGED <<statuses, ticket, turns>>
     /\ UNCHANGED <<fixed, sessions, waiting>>

\* TIMING: an engine turn outlasts the steps of the coroutines it overlaps
\* with, those of a cancel excepted.
TurnOver(j) ==
  /\ At(j, "turn")
  /\ \A k \in Tasks \ {canceler} : AtRest(k)

JobEnds(j) ==
  /\ TurnOver(j)
  /\ \E s \in {"succeeded", "failed"} : Project(IF canceled THEN "canceled" ELSE s)
  /\ Goto(j, "done")
  /\ UNCHANGED <<fixed, sessions, waiting, ticket, turns>>

\* Bound: the attempts whose engine asks for a login.
LastToAsk == IF \E s \in UserLogins : login[s] # "unused" THEN LastShared ELSE LastLogin
\* The engine asked for a login: create_pending_auth.
JobAsks(j) ==
  /\ TurnOver(j) /\ task[j].source <= LastToAsk /\ ~canceled
  /\ Goto(j, "ask")
  /\ UNCHANGED <<statuses, fixed, sessions, waiting, ticket, turns>>

-----------------------------------------------------------------------------
(* Posting a login or a choice, for an attempt (job) or a chosen method *)

LiveLogins == {s \in Logins : login[s] = "live"}

\* start_session, or an import, which needs no session of the engine.
StartLogin(k) ==
  /\ At(k, "ask")
  /\ \E s \in RunLogins, kind \in {"live", "import"} :
       /\ login[s] = "unused"
       /\ kind = "live" => LiveLogins = {}
       /\ login' = [login EXCEPT ![s] = kind]
       /\ owned' = owned \cup {s}
       /\ task' = [task EXCEPT ![k].pc = "persist", ![k].session = s]
  /\ UNCHANGED <<statuses, fixed, late, waiting, ticket, turns>>

\* start_session finds the engine busy with a login of this run or of no run.
RecoverLogin(k) ==
  /\ At(k, "ask")
  /\ \E s \in LiveLogins \ late :
       task' = [task EXCEPT ![k].pc = "persist", ![k].session = s]
  /\ UNCHANGED <<statuses, fixed, sessions, waiting, ticket, turns>>

\* Several methods, or an engine that is busy with something else.
OfferChoice(k) ==
  /\ At(k, "ask")
  /\ pending' = None /\ context' = 0 /\ givenUp' = FALSE
  /\ choice' = task[k].source
  /\ Goto(k, "post")
  /\ UNCHANGED <<statuses, fixed, sessions, ticket, turns>>

\* set_pending_auth, with its resume context.
SetPending(k) ==
  /\ pending' = [session |-> task[k].session, source |-> task[k].source]
  /\ context' = task[k].source /\ givenUp' = FALSE

\* _persist_pending_auth
Persist(k) ==
  /\ At(k, "persist")
  /\ choice' = 0
  /\ SetPending(k)
  /\ owned' = owned \cup {task[k].session}
  /\ Goto(k, "post")
  /\ UNCHANGED <<statuses, fixed, login, late, ticket, turns>>

\* The waiting projection of a job or a submission; an attempt writes it again
\* as its outcome.
Post(k) ==
  /\ \/ At(k, "post") /\ Goto(k, IF k \in Jobs THEN "finalize" ELSE "idle")
     \/ At(k, "finalize") /\ Goto(k, "done")
  /\ Project("waiting_auth")
  /\ UNCHANGED <<fixed, sessions, waiting, ticket, turns>>

-----------------------------------------------------------------------------
(* How logins end *)

\* Bound: a login of no run stays open until a run takes it over.
MayEnd(s) == login[s] = "live" /\ s \notin late /\ s \in owned /\ PeopleAct

\* complete_callback, which calls _dispatch_engine_callback_completion.
CallbackArrives(s) ==
  /\ MayEnd(s)
  /\ login' \in {[login EXCEPT ![s] = r] : r \in {"succeeded", "failed"}}
  /\ task' = [task EXCEPT ![<<"callback", s>>].pc = "read",
                          ![<<"callback", s>>].session = s]
  /\ UNCHANGED <<statuses, fixed, late, owned, waiting, ticket, turns>>

\* The engine's own process ends the login; nothing is dispatched.
LoginEnds(s) ==
  /\ MayEnd(s)
  /\ login' \in {[login EXCEPT ![s] = r] : r \in {"succeeded", "failed"}}
  /\ UNCHANGED <<statuses, fixed, late, owned, waiting, ticket, task, turns>>

Expires(s) ==
  /\ login[s] \notin {"unused", "import"} /\ s \notin late /\ s \in owned
  /\ PeopleAct
  /\ late' = late \cup {s}
  /\ UNCHANGED <<statuses, fixed, login, owned, waiting, ticket, task, turns>>

-----------------------------------------------------------------------------
(* reconcile_waiting_auth: a poll is a read of the run's status while it    *)
(* waits, or a client's read of its login, whatever the run is.  They       *)
(* differ in the update_status they bring, which shows in FailLogin.        *)

PollArrives(k) ==
  /\ mode = "up" /\ k \in Pollers /\ At(k, "idle")
  /\ pending # None /\ (Stale \/ ~Clearing)
  /\ task' = [task EXCEPT ![k].pc = "look", ![k].session = pending.session]
  /\ UNCHANGED <<statuses, fixed, sessions, waiting, ticket, turns>>

\* _snapshot_timed_out
TimedOut(s, l) == s \in late

\* Mutants: a login that is late has failed even if it has succeeded; one that
\* has succeeded is left to its callback.
LateFirst(s, l) ==
  CASE TimedOut(s, l) -> "fail"
    [] ~TimedOut(s, l) /\ l = "succeeded" -> "read"
    [] ~TimedOut(s, l) /\ l # "succeeded" -> "idle"
LeftToCallback(s, l) ==
  IF l # "succeeded" /\ TimedOut(s, l) THEN "fail" ELSE "idle"
\* What a poll makes of the session it finds.
Reconciled(s, l) ==
  CASE l = "succeeded" -> "read"
    [] l # "succeeded" /\ TimedOut(s, l) -> "fail"
    [] l # "succeeded" /\ ~TimedOut(s, l) -> "idle"

\* get_session, which expires a live session that is late.
PollLooks(k) ==
  LET s == task[k].session
      l == IF login[s] = "live" /\ s \in late THEN "expired" ELSE login[s]
  IN /\ At(k, "look")
     /\ login' = [login EXCEPT ![s] = l]
     /\ Goto(k, Reconciled(s, l))
     /\ UNCHANGED <<statuses, fixed, late, owned, waiting, ticket, turns>>

\* _fail_waiting_auth_session.  The update_status of a status read raises, and
\* nothing more is written; that of a client does nothing, and the row is.
FailLogin(k) ==
  /\ \/ /\ At(k, "fail")
        /\ pending' = None /\ context' = 0 /\ choice' = 0 /\ givenUp' = TRUE
        /\ Goto(k, "idle") \/ Goto(k, "failed")
        /\ UNCHANGED row
     \/ /\ At(k, "failed")
        /\ row' = "failed"
        /\ Goto(k, "idle")
        /\ UNCHANGED waiting
  /\ UNCHANGED <<status, fixed, sessions, ticket, turns>>

-----------------------------------------------------------------------------
(* handle_callback_completion, _complete_waiting_auth_success *)

\* The attempt the login is for is read, whatever the pending session is.
ReadSource(k) ==
  /\ At(k, "read")
  /\ task' = [task EXCEPT
       ![k].pc = IF login[task[k].session] = "succeeded" THEN "issue" ELSE "repost",
       ![k].source = SourceAttempt(context)]
  /\ UNCHANGED <<statuses, fixed, sessions, waiting, ticket, turns>>

\* Mutant: every completion has a ticket of its own.
NeverSameTicket(a) == FALSE
SameTicket(a) == ticket.id # 0 /\ ticket.source = a

\* issue_resume_ticket: another source replaces the ticket there is.
IssueTicket(k) ==
  LET a == task[k].source
      t == IF SameTicket(a) THEN ticket
           ELSE [id |-> ticket.id + 1, source |-> a, state |-> "issued"]
  IN /\ At(k, "issue")
     /\ t.id <= MaxTicket
     /\ ticket' = t
     /\ task' = [task EXCEPT ![k].pc = "dispatch", ![k].ticket = t.id]
     /\ UNCHANGED <<statuses, fixed, sessions, waiting, turns>>

\* Mutant: a ticket that is dispatched already is won again.
WonAgain(k) ==
  /\ At(k, "dispatch")
  /\ IF ticket.id = task[k].ticket
       THEN ticket' = [ticket EXCEPT !.state = "dispatched"] /\ Goto(k, "clear")
       ELSE Goto(k, "idle") /\ UNCHANGED ticket
  /\ UNCHANGED <<statuses, fixed, sessions, waiting, turns>>
\* mark_resume_ticket_dispatched: one completion wins the ticket.
DispatchTicket(k) ==
  /\ At(k, "dispatch")
  /\ IF ticket.id = task[k].ticket /\ ticket.state = "issued"
       THEN ticket' = [ticket EXCEPT !.state = "dispatched"] /\ Goto(k, "clear")
       ELSE Goto(k, "idle") /\ UNCHANGED ticket
  /\ UNCHANGED <<statuses, fixed, sessions, waiting, turns>>

ClearPending(k) ==
  /\ \/ At(k, "clear") /\ Goto(k, "forget") /\ pending' = None /\ choice' = 0
        /\ (Stale \/ ~Reading)
        /\ UNCHANGED context
     \/ At(k, "forget") /\ Goto(k, "queue") /\ context' = 0 /\ UNCHANGED <<pending, choice>>
  /\ UNCHANGED <<statuses, givenUp, fixed, sessions, ticket, turns>>

\* The queued projection, then the task of run_job for the next attempt.
Resume(k) ==
  LET j == <<"job", task[k].ticket>>
  IN /\ \/ At(k, "queue") /\ Goto(k, "schedule") /\ Project("queued")
        \/ /\ At(k, "schedule")
           /\ task' = [task EXCEPT ![k].pc = "idle",
                         ![j] = TaskAt("new", task[k].ticket, task[k].source + 1)]
           /\ UNCHANGED statuses
     /\ UNCHANGED <<fixed, sessions, waiting, ticket, turns>>

\* A callback that did not succeed: its update_status raises before a status is
\* written.
RepostCallback(k) ==
  /\ k \in Callbacks /\ At(k, "repost")
  /\ SetPending(k)
  /\ Goto(k, "idle")
  /\ UNCHANGED <<statuses, fixed, sessions, choice, ticket, turns>>

\* An input that leaves the login open, or that the engine refuses.
RepostInput(k) ==
  /\ k \in Submitters /\ At(k, "repost")
  /\ SetPending(k)
  /\ Goto(k, "post")
  /\ UNCHANGED <<statuses, fixed, sessions, choice, ticket, turns>>

-----------------------------------------------------------------------------
(* Submissions by clients: accepted when the run is waiting_auth *)

\* submit_auth_input: the pending session and its attempt ...
InputArrives(k) ==
  /\ mode = "up" /\ k \in Submitters /\ At(k, "idle")
  /\ PeopleAct /\ status = "waiting_auth"
  /\ pending # None /\ (Stale \/ ~Clearing)
  /\ task' = [task EXCEPT ![k].pc = "input", ![k].session = pending.session,
                          ![k].source = pending.source]
  /\ UNCHANGED <<statuses, fixed, sessions, waiting, ticket, turns>>

\* ... then the session; one that has ended refuses, and is completed when it
\* has succeeded.
Input(k) ==
  LET s == task[k].session
  IN /\ At(k, "input")
     /\ \/ /\ login[s] = "live" /\ s \notin late
           /\ \/ Goto(k, "repost") /\ UNCHANGED login
              \/ login' = [login EXCEPT ![s] = "failed"] /\ Goto(k, "repost")
              \/ login' = [login EXCEPT ![s] = "succeeded"] /\ Goto(k, "issue")
        \/ /\ login[s] = "live" /\ s \in late
           /\ login' = [login EXCEPT ![s] = "expired"]
           /\ Goto(k, "idle")
        \/ /\ login[s] # "live"
           /\ Goto(k, IF login[s] = "succeeded" THEN "read" ELSE "idle")
           /\ UNCHANGED login
     /\ UNCHANGED <<statuses, fixed, late, owned, waiting, ticket, turns>>

\* Nothing else is under way that would answer the run.
Free == ~Hasty => /\ LiveLogins \cap owned = {}
                  /\ \A k \in Submitters : AtRest(k)
                  /\ pending # None => login[pending.session] = "import"

\* submit_auth_import, whatever login is pending.
ImportArrives(k) ==
  /\ mode = "up" /\ k \in Submitters /\ At(k, "idle")
  /\ PeopleAct /\ status = "waiting_auth" /\ (pending # None \/ choice # 0)
  /\ Free
  /\ task' = [task EXCEPT ![k].pc = "issue", ![k].source = SourceAttempt(choice)]
  /\ UNCHANGED <<statuses, fixed, sessions, waiting, ticket, turns>>

\* select_auth_method; with a login pending and no choice it changes nothing.
SelectArrives(k) ==
  /\ mode = "up" /\ k \in Submitters /\ At(k, "idle")
  /\ PeopleAct /\ status = "waiting_auth" /\ choice # 0
  /\ Free
  /\ task' = [task EXCEPT ![k].pc = "ask", ![k].source = SourceAttempt(choice)]
  /\ UNCHANGED <<statuses, fixed, sessions, waiting, ticket, turns>>

-----------------------------------------------------------------------------
(* cancel_run *)

CancelArrives ==
  /\ mode = "up" /\ At(canceler, "idle") /\ ~canceled
  /\ status \notin Terminal
  /\ canceled' = TRUE
  /\ Goto(canceler, "logins")
  /\ UNCHANGED <<statuses, mode, crashes, sessions, waiting, ticket, turns>>

\* cancel_request_auth_sessions, then the canceled projection.
Cancel ==
  /\ \/ /\ At(canceler, "logins") /\ Goto(canceler, "clear_logins")
        /\ login' = [s \in Logins |-> IF login[s] = "live" /\ s \in owned
                                    THEN "canceled" ELSE login[s]]
        /\ UNCHANGED <<statuses, waiting>>
     \/ /\ At(canceler, "clear_logins") /\ Goto(canceler, "cancel")
        /\ pending' = None /\ context' = 0 /\ choice' = 0 /\ UNCHANGED givenUp
        /\ UNCHANGED <<statuses, login>>
     \/ /\ At(canceler, "cancel") /\ Goto(canceler, "done")
        /\ Project("canceled")
        /\ UNCHANGED <<login, waiting>>
  /\ UNCHANGED <<fixed, late, owned, ticket, turns>>

-----------------------------------------------------------------------------
(* Crash and restart *)

\* Coroutines and login sessions are lost.  A session that no row refers to is
\* as one that never was.
Crash ==
  /\ mode = "up" /\ crashes < MaxCrashes
  /\ mode' = "down" /\ crashes' = crashes + 1
  /\ LET known == {s \in Logins : pending # None /\ pending.session = s}
     IN /\ login' = [s \in Logins |-> IF s \in known THEN "lost" ELSE "unused"]
        /\ late' = late \cap known
        /\ owned' = owned \cap known
  /\ task' = [k \in Tasks |-> TaskAt(
       IF k \in Jobs \cup {canceler} /\ ~At(k, "idle") THEN "done" ELSE "idle", 0, 0)]
  /\ UNCHANGED <<statuses, canceled, waiting, ticket, turns>>

\* Mutant: a run that waits is kept as it is.
PreservedWaiting == row = "waiting_auth"
\* recover_single_incomplete_run: a pending login cannot go on without its
\* session, a choice can; a queued run goes on by its ticket.
Preserved ==
  /\ row = "waiting_auth" /\ choice # 0
  /\ pending # None => pending.session \notin late
Redriven == row = "queued" /\ ticket.state \in {"issued", "dispatched"}

Restart ==
  LET j == <<"job", ticket.id>>
  IN /\ mode = "down" /\ mode' = "up"
     /\ \/ /\ row \in Terminal \/ Preserved
           /\ UNCHANGED <<statuses, waiting, task>>
        \/ /\ Redriven
           /\ task' = [task EXCEPT ![j] = TaskAt("new", ticket.id, ticket.source + 1)]
           /\ UNCHANGED <<statuses, waiting>>
        \/ /\ row \notin Terminal /\ ~Preserved /\ ~Redriven
           /\ Project("failed")
           /\ pending' = None /\ context' = 0 /\ choice' = 0 /\ UNCHANGED givenUp
           /\ UNCHANGED task
     /\ UNCHANGED <<canceled, sessions, ticket, turns, crashes>>

-----------------------------------------------------------------------------
PostStep(k) == StartLogin(k) \/ RecoverLogin(k) \/ OfferChoice(k) \/ Persist(k) \/ Post(k)
CompleteStep(k) ==
  \/ ReadSource(k) \/ IssueTicket(k) \/ DispatchTicket(k) \/ ClearPending(k)
  \/ Resume(k) \/ RepostCallback(k) \/ RepostInput(k)
\* What a coroutine does once it has begun.
Proceed(k) == PostStep(k) \/ CompleteStep(k) \/ PollLooks(k) \/ FailLogin(k) \/ Input(k)
Job(j) == JobStarts(j) \/ JobEnds(j) \/ JobAsks(j)
Submit(k) == InputArrives(k) \/ ImportArrives(k) \/ SelectArrives(k)

Next ==
  \/ \E j \in Jobs : Job(j)
  \/ \E k \in Tasks : Proceed(k)
  \/ \E k \in Pollers : PollArrives(k)
  \/ \E k \in Submitters : Submit(k)
  \/ \E s \in Logins : CallbackArrives(s) \/ LoginEnds(s) \/ Expires(s)
  \/ CancelArrives \/ Cancel
  \/ Crash \/ Restart

Spec == Init /\ [][Next]_vars
\* Coroutines go on and engines end; someone keeps looking at the run; every
\* session reaches its expires_at.
FairSpec ==
  /\ Spec
  /\ \A k \in Tasks \ {canceler} : WF_vars(~AtRest(k) /\ Proceed(k))
  /\ \A j \in Jobs : WF_vars(JobStarts(j)) /\ WF_vars(JobEnds(j))
  /\ \A k \in Pollers : WF_vars(PollArrives(k))
  /\ \A s \in Logins : WF_vars(Expires(s))
  /\ WF_vars(Cancel) /\ WF_vars(Restart)

-----------------------------------------------------------------------------
LoginStatus ==
  {"unused", "live", "import", "succeeded", "failed", "expired", "canceled", "lost"}
TicketState == {"none", "issued", "dispatched", "started"}
TaskPc ==
  {"idle", "done", "new", "turn", "ask", "persist", "post", "finalize", "look", "read",
   "repost", "input", "fail", "failed", "issue", "dispatch", "clear", "forget", "queue",
   "schedule", "logins", "clear_logins", "cancel"}

TaskRecord == [pc : TaskPc, session : Logins \cup {None},
               ticket : 0..MaxTicket, source : 0..(LastLogin + 1)]
\* A task that goes by a session has one, and a task that goes by an attempt
\* has one whose engine could have asked.
TaskOK(k, r) ==
  /\ r.pc \in {"persist", "look", "input", "read", "repost"} => r.session \in Logins
  /\ r.pc \in {"new", "turn", "ask", "persist", "repost", "input", "issue", "dispatch",
              "clear", "forget", "queue", "schedule"} => r.source # 0
  /\ r.source <= LastLogin \/ (k \in Jobs /\ r.pc \in {"done", "new", "turn"})

\* The values of the variables, and what a task knows in its place.
TypeOK ==
  /\ status \in {"queued", "running", "waiting_auth"} \cup Terminal
  /\ row \in {"queued", "running", "waiting_auth"} \cup Terminal
  /\ canceled \in BOOLEAN /\ givenUp \in BOOLEAN
  /\ login \in [Logins -> LoginStatus] /\ late \subseteq Logins /\ owned \subseteq Logins
  /\ pending \in PendingAuth \cup {None}
  /\ context \in 0..LastLogin /\ choice \in 0..LastLogin
  /\ ticket \in [id : 0..MaxTicket, source : 0..LastLogin, state : TicketState]
  /\ task \in [Tasks -> TaskRecord] /\ \A k \in Tasks : TaskOK(k, task[k])
  /\ turns \in [Attempts -> Nat]
  /\ mode \in {"up", "down"} /\ crashes \in 0..MaxCrashes

\* However many callbacks, polls and submissions complete a login, the attempt
\* that follows it is run once.
OneTurnPerAttempt == \A a \in Attempts : turns[a] <= 1

\* A run that says it waits for a login, with nothing going on and after a
\* restart too, has something a client can act on or that can time out, unless
\* it was canceled or a poll has given its login up: that leaves it waiting for
\* nothing (FailLogin).
WaitingIsActionable ==
  (status = "waiting_auth" /\ ~canceled /\ mode = "up" /\ \A k \in Tasks : AtRest(k))
    => pending # None \/ choice # 0 \/ givenUp

\* The row alone may say that a run has failed while the run state has it
\* waiting.  No such run goes on: no completion resumes what a poll has failed.
FailedRowIsOver ==
  (row \in Terminal /\ status \notin Terminal /\ ~canceled) =>
    /\ status = "waiting_auth" /\ pending = None /\ choice = 0
    /\ \A k \in Tasks : task[k].pc \notin
         {"new", "turn", "issue", "dispatch", "clear", "forget", "queue", "schedule"}

\* The status moves as the statechart allows, until the run is canceled.
Statechart == INSTANCE SessionStatechart
                WITH status <- IF canceled THEN "canceled" ELSE status
ImplementsStatechart == Statechart!Spec

\* A ticket that a crash has taken from the coroutine that won it, before the
\* run was put back in the queue: nobody can win it any more.
Spent(a) ==
  /\ ticket.source = a /\ ticket.state = "dispatched"
  /\ \A k \in Tasks : task[k].pc \in {"clear", "forget", "queue", "schedule", "new"}
                         => task[k].ticket # ticket.id

WaitsWithSuccess(a) ==
  pending # None /\ pending.source = a /\ login[pending.session] = "succeeded"
GoesOn(a) == turns[a + 1] > 0 \/ status \in Terminal

\* A login that has succeeded while its run waits for it resumes the run, or
\* the run is over, also after a restart, unless the ticket is spent.
LoginResumes ==
  \A a \in 1..LastLogin : WaitsWithSuccess(a) /\ ~Spent(a) ~> GoesOn(a)
=============================================================================
