------------------------- MODULE WaitingAuth_proofs -------------------------
(***************************************************************************)
(* Theorems about WaitingAuth: the types of its variables, for every       *)
(* schedule, and under Orderly that an attempt is run once, that a waiting *)
(* run can be acted on or was given up, that a run whose row has failed    *)
(* does not go on, and that the status moves along the statechart.         *)
(* The inductive invariant is about a run that is not canceled; a run that *)
(* is starts no turn any more.                                             *)
(***************************************************************************)
EXTENDS WaitingAuth, TLAPS

LEMMA TaskKinds ==
  /\ Jobs \subseteq Tasks /\ Pollers \subseteq Tasks /\ Submitters \subseteq Tasks
  /\ Callbacks \subseteq Tasks /\ canceler \in Tasks
  BY DEF Tasks

-----------------------------------------------------------------------------
(* What a task and its record become *)

LEMMA Going ==
  ASSUME TypeOK, NEW k \in Tasks, NEW p \in TaskPc, Goto(k, p)
  PROVE  /\ task' \in [Tasks -> TaskRecord]
         /\ task'[k].pc = p /\ task'[k].session = task[k].session
         /\ task'[k].ticket = task[k].ticket /\ task'[k].source = task[k].source
         /\ \A l \in Tasks \ {k} : task'[l] = task[l]
  BY DEF Goto, TypeOK, TaskRecord

LEMMA GoingIsOK ==
  ASSUME TypeOK, NEW k \in Tasks, NEW p \in TaskPc, Goto(k, p),
         p \in {"persist", "look", "input", "read", "repost"} => task[k].session \in Logins,
         p \in {"new", "turn", "ask", "persist", "repost", "input", "issue", "dispatch",
                "clear", "forget", "queue", "schedule"} => task[k].source # 0,
         task[k].source <= LastLogin \/ (k \in Jobs /\ p \in {"done", "new", "turn"})
  PROVE  task' \in [Tasks -> TaskRecord] /\ \A l \in Tasks : TaskOK(l, task'[l])
<1>1. TaskOK(k, task'[k])
  BY Going DEF TypeOK, TaskOK, TaskRecord
<1> QED BY <1>1, Going DEF TypeOK

LEMMA Arriving ==
  ASSUME TypeOK, NEW k \in Tasks, NEW p \in TaskPc, NEW s \in Logins,
         task' = [task EXCEPT ![k].pc = p, ![k].session = s]
  PROVE  /\ task' \in [Tasks -> TaskRecord]
         /\ task'[k].pc = p /\ task'[k].session = s
         /\ task'[k].ticket = task[k].ticket /\ task'[k].source = task[k].source
         /\ \A l \in Tasks \ {k} : task'[l] = task[l]
  BY DEF TypeOK, TaskRecord

LEMMA Sourcing ==
  ASSUME TypeOK, NEW k \in Tasks, NEW p \in TaskPc, NEW a \in 0..(LastLogin + 1),
         task' = [task EXCEPT ![k].pc = p, ![k].source = a]
  PROVE  /\ task' \in [Tasks -> TaskRecord]
         /\ task'[k].pc = p /\ task'[k].session = task[k].session
         /\ task'[k].ticket = task[k].ticket /\ task'[k].source = a
         /\ \A l \in Tasks \ {k} : task'[l] = task[l]
  BY DEF TypeOK, TaskRecord

LEMMA Submitting ==
  ASSUME TypeOK, NEW k \in Tasks, NEW p \in TaskPc, NEW s \in Logins, NEW a \in 0..(LastLogin + 1),
         task' = [task EXCEPT ![k].pc = p, ![k].session = s, ![k].source = a]
  PROVE  /\ task' \in [Tasks -> TaskRecord]
         /\ task'[k].pc = p /\ task'[k].session = s
         /\ task'[k].ticket = task[k].ticket /\ task'[k].source = a
         /\ \A l \in Tasks \ {k} : task'[l] = task[l]
  BY DEF TypeOK, TaskRecord

\* A change of one task keeps the form of all when it keeps that of the one.
LEMMA OneChanges ==
  ASSUME TypeOK, NEW k \in Tasks, task' \in [Tasks -> TaskRecord], TaskOK(k, task'[k]),
         \A l \in Tasks \ {k} : task'[l] = task[l]
  PROVE  task' \in [Tasks -> TaskRecord] /\ \A l \in Tasks : TaskOK(l, task'[l])
  BY DEF TypeOK

LEMMA Ticketing ==
  ASSUME TypeOK, NEW k \in Tasks, NEW p \in TaskPc, NEW t \in 0..MaxTicket,
         task' = [task EXCEPT ![k].pc = p, ![k].ticket = t]
  PROVE  /\ task' \in [Tasks -> TaskRecord]
         /\ task'[k].pc = p /\ task'[k].session = task[k].session
         /\ task'[k].ticket = t /\ task'[k].source = task[k].source
         /\ \A l \in Tasks \ {k} : task'[l] = task[l]
  BY DEF TypeOK, TaskRecord

-----------------------------------------------------------------------------
LEMMA TypeInit == ASSUME Init PROVE TypeOK
<1> USE BoundsAssumption
<1>1. TaskAt("idle", 0, 0) \in TaskRecord /\ \A k \in Tasks : TaskOK(k, TaskAt("idle", 0, 0))
  BY DEF TaskAt, TaskRecord, TaskPc, TaskOK
<1>2. TaskAt("new", 0, 1) \in TaskRecord /\ \A k \in Tasks : TaskOK(k, TaskAt("new", 0, 1))
  BY DEF TaskAt, TaskRecord, TaskPc, TaskOK
<1>4. task \in [Tasks -> TaskRecord] /\ \A k \in Tasks : TaskOK(k, task[k])
  BY <1>1, <1>2 DEF Init
<1>5. login \in [Logins -> LoginStatus]
  BY DEF Init, LoginStatus
<1>6. turns \in [Attempts -> Nat]
  BY DEF Init
<1>7. ticket \in [id : 0..MaxTicket, source : 0..LastLogin, state : TicketState]
  BY DEF Init, TicketState
<1>8. /\ late \subseteq Logins /\ owned \subseteq Logins /\ pending \in PendingAuth \cup {None}
      /\ context \in 0..LastLogin /\ choice \in 0..LastLogin
  BY DEF Init
<1>9. /\ status \in {"queued", "running", "waiting_auth"} \cup Terminal
      /\ mode \in {"up", "down"} /\ crashes \in 0..MaxCrashes
  BY DEF Init
<1>10. canceled \in BOOLEAN /\ givenUp \in BOOLEAN
  BY DEF Init
<1>11. row \in {"queued", "running", "waiting_auth"} \cup Terminal
  BY DEF Init
<1> QED BY <1>4, <1>5, <1>6, <1>7, <1>8, <1>9, <1>10, <1>11 DEF TypeOK

LEMMA TypeJobStarts == ASSUME TypeOK, NEW j \in Jobs, JobStarts(j) PROVE TypeOK'
<1> USE BoundsAssumption DEF At, statuses, fixed, sessions, waiting, Project
<1>1. j \in Tasks /\ task[j].source \in Attempts
  BY TaskKinds DEF JobStarts, TypeOK, TaskRecord, TaskOK, Attempts
<1>2. task' \in [Tasks -> TaskRecord] /\ \A l \in Tasks : TaskOK(l, task'[l])
  BY <1>1, GoingIsOK DEF JobStarts, TypeOK, TaskPc, TaskOK
<1>3. ticket' \in [id : 0..MaxTicket, source : 0..LastLogin, state : TicketState]
  BY DEF JobStarts, TypeOK, TicketState
<1>4. turns' \in [Attempts -> Nat]
  BY <1>1 DEF JobStarts, TypeOK
<1> QED BY <1>2, <1>3, <1>4 DEF JobStarts, TypeOK, Terminal

LEMMA TypeJob == ASSUME TypeOK, NEW j \in Jobs, JobEnds(j) \/ JobAsks(j) PROVE TypeOK'
<1> USE BoundsAssumption DEF At, statuses, fixed, sessions, waiting, Project, TurnOver
<1>1. j \in Tasks
  BY TaskKinds
<1>2. CASE JobEnds(j)
  <2>1. task' \in [Tasks -> TaskRecord] /\ \A l \in Tasks : TaskOK(l, task'[l])
    BY <1>1, <1>2, GoingIsOK DEF JobEnds, TypeOK, TaskPc, TaskOK
  <2> QED BY <1>2, <2>1 DEF JobEnds, TypeOK, Terminal
<1>3. CASE JobAsks(j)
  <2>1. task[j].source \in 1..LastLogin
    BY <1>1, <1>3 DEF JobAsks, TypeOK, TaskRecord, TaskOK, LastToAsk
  <2>2. task' \in [Tasks -> TaskRecord] /\ \A l \in Tasks : TaskOK(l, task'[l])
    BY <1>1, <1>3, <2>1, GoingIsOK DEF JobAsks, TypeOK, TaskPc, TaskOK
  <2> QED BY <1>3, <2>2 DEF JobAsks, TypeOK
<1> QED BY <1>2, <1>3

LEMMA TypeStartLogin == ASSUME TypeOK, NEW k \in Tasks, StartLogin(k) \/ RecoverLogin(k) PROVE TypeOK'
<1> USE BoundsAssumption DEF At, statuses, fixed, sessions, waiting, Project
<1>1. PICK s \in Logins : task' = [task EXCEPT ![k].pc = "persist", ![k].session = s]
  BY DEF StartLogin, RecoverLogin, LiveLogins, Logins
<1>2. task' \in [Tasks -> TaskRecord] /\ \A l \in Tasks : TaskOK(l, task'[l])
  <2>1. task[k].source \in 1..LastLogin
    BY BoundsAssumption DEF StartLogin, RecoverLogin, TypeOK, TaskOK, TaskRecord
  <2>2. TaskOK(k, task'[k])
    <3>1. task'[k].pc = "persist" /\ task'[k].session = s /\ task'[k].source = task[k].source
      BY <1>1, Arriving DEF TaskPc
    <3> QED BY <2>1, <3>1 DEF TaskOK
  <2> QED BY <1>1, <2>2, Arriving, OneChanges DEF TaskPc
<1>3. login' \in [Logins -> LoginStatus] /\ owned' \subseteq Logins
  BY DEF StartLogin, RecoverLogin, TypeOK, LoginStatus, Logins
<1> QED BY <1>2, <1>3 DEF StartLogin, RecoverLogin, TypeOK

LEMMA TypeOfferChoice == ASSUME TypeOK, NEW k \in Tasks, OfferChoice(k) PROVE TypeOK'
<1> USE BoundsAssumption DEF At, statuses, fixed, sessions, waiting, Project
<1>1. task' \in [Tasks -> TaskRecord] /\ \A l \in Tasks : TaskOK(l, task'[l])
  BY GoingIsOK DEF OfferChoice, TypeOK, TaskPc, TaskOK
<1>2. choice' \in 0..LastLogin
  BY DEF OfferChoice, TypeOK, TaskRecord, TaskOK
<1>3. givenUp' \in BOOLEAN
  BY DEF OfferChoice
<1> QED BY <1>1, <1>2, <1>3 DEF OfferChoice, TypeOK

LEMMA TypePersist == ASSUME TypeOK, NEW k \in Tasks, Persist(k) \/ RepostCallback(k) \/ RepostInput(k) PROVE TypeOK'
<1> USE BoundsAssumption DEF At, statuses, fixed, sessions, waiting, Project, SetPending
<1>1. task[k].session \in Logins /\ task[k].source \in 1..LastLogin
  BY DEF Persist, RepostCallback, RepostInput, TypeOK, TaskRecord, TaskOK
<1>2. task' \in [Tasks -> TaskRecord] /\ \A l \in Tasks : TaskOK(l, task'[l])
  BY <1>1, GoingIsOK DEF Persist, RepostCallback, RepostInput, TypeOK, TaskPc, TaskOK
<1>3. pending' \in PendingAuth /\ context' \in 0..LastLogin
  BY <1>1 DEF Persist, RepostCallback, RepostInput, PendingAuth
<1>4. givenUp' \in BOOLEAN
  BY DEF Persist, RepostCallback, RepostInput
<1> QED BY <1>1, <1>2, <1>3, <1>4 DEF Persist, RepostCallback, RepostInput, TypeOK

LEMMA TypePost == ASSUME TypeOK, NEW k \in Tasks, Post(k) PROVE TypeOK'
<1> USE BoundsAssumption DEF At, statuses, fixed, sessions, waiting, Project
<1>1. task' \in [Tasks -> TaskRecord] /\ \A l \in Tasks : TaskOK(l, task'[l])
  BY GoingIsOK DEF Post, TypeOK, TaskPc, TaskOK
<1> QED BY <1>1 DEF Post, TypeOK

LEMMA TypeLogin ==
  ASSUME TypeOK, NEW s \in Logins, CallbackArrives(s) \/ LoginEnds(s) \/ Expires(s)
  PROVE  TypeOK'
<1> USE BoundsAssumption DEF At, statuses, fixed, sessions, waiting, Project
<1>1. login' \in [Logins -> LoginStatus]
  BY DEF CallbackArrives, LoginEnds, Expires, TypeOK, LoginStatus
<1>2. CASE CallbackArrives(s)
  <2>1. <<"callback", s>> \in Tasks
    BY DEF Tasks, Callbacks
  <2>0. task[<<"callback", s>>].source <= LastLogin
    BY <1>2, <2>1 DEF TypeOK, TaskOK, TaskRecord, Jobs
  <2>2. task' \in [Tasks -> TaskRecord] /\ \A l \in Tasks : TaskOK(l, task'[l])
    <3>1. TaskOK(<<"callback", s>>, task'[<<"callback", s>>])
      <4> DEFINE k == <<"callback", s>>
      <4>1. task'[k].pc = "read" /\ task'[k].session = s /\ task'[k].source = task[k].source
        BY <1>2, <2>1, Arriving DEF CallbackArrives, TaskPc
      <4> QED BY <2>0, <4>1 DEF TaskOK
    <3> QED BY <1>2, <2>1, <3>1, Arriving, OneChanges DEF CallbackArrives, TaskPc
  <2> QED BY <1>1, <1>2, <2>2 DEF CallbackArrives, TypeOK
<1>3. CASE LoginEnds(s) \/ Expires(s)
  BY <1>1, <1>3 DEF LoginEnds, Expires, TypeOK
<1> QED BY <1>2, <1>3

LEMMA TypePollArrives == ASSUME TypeOK, NEW k \in Pollers, PollArrives(k) PROVE TypeOK'
<1> USE BoundsAssumption, NoneAssumption DEF At, statuses, fixed, sessions, waiting,
       Project
<1>1. k \in Tasks /\ pending.session \in Logins
  BY TaskKinds DEF PollArrives, TypeOK, PendingAuth
<1>2. task' \in [Tasks -> TaskRecord] /\ \A l \in Tasks : TaskOK(l, task'[l])
  <2>1. TaskOK(k, task'[k])
    <3>0. task' = [task EXCEPT ![k].pc = "look", ![k].session = pending.session]
      BY DEF PollArrives
    <3>1. /\ task'[k].pc = "look" /\ task'[k].session = pending.session
          /\ task'[k].source = task[k].source
      BY <1>1, <3>0, Arriving DEF TaskPc
    <3>2. task[k].source <= LastLogin
      BY <1>1 DEF TypeOK, TaskOK, Jobs, Pollers
    <3> QED BY <1>1, <3>1, <3>2 DEF TaskOK
  <2> QED BY <1>1, <2>1, Arriving, OneChanges DEF PollArrives, TaskPc
<1> QED BY <1>2 DEF PollArrives, TypeOK

LEMMA TypePollLooks == ASSUME TypeOK, NEW k \in Tasks, PollLooks(k) PROVE TypeOK'
<1> USE BoundsAssumption DEF At, statuses, fixed, sessions, waiting, Project
<1> DEFINE s == task[k].session
           l0 == IF login[s] = "live" /\ s \in late THEN "expired" ELSE login[s]
<1>1. s \in Logins /\ task[k].source <= LastLogin
  BY DEF PollLooks, TypeOK, TaskOK
<1>2. Reconciled(s, l0) \in {"read", "fail", "idle"}
  BY DEF Reconciled
<1>3. task' \in [Tasks -> TaskRecord] /\ \A l \in Tasks : TaskOK(l, task'[l])
  BY <1>1, <1>2, GoingIsOK DEF PollLooks, TypeOK, TaskPc
<1>4. login' \in [Logins -> LoginStatus]
  BY <1>1 DEF PollLooks, TypeOK, LoginStatus
<1> QED BY <1>3, <1>4 DEF PollLooks, TypeOK

LEMMA TypeFailLogin == ASSUME TypeOK, NEW k \in Tasks, FailLogin(k) PROVE TypeOK'
<1> USE BoundsAssumption DEF At, statuses, fixed, sessions, waiting, Project
<1>1. task' \in [Tasks -> TaskRecord] /\ \A l \in Tasks : TaskOK(l, task'[l])
  BY GoingIsOK DEF FailLogin, TypeOK, TaskPc, TaskOK
<1>2. givenUp' \in BOOLEAN
  <2>1. givenUp' = TRUE \/ givenUp' = givenUp
    BY DEF FailLogin
  <2> QED BY <2>1 DEF TypeOK
<1>3. row' \in {"queued", "running", "waiting_auth"} \cup Terminal
  BY DEF FailLogin, TypeOK, Terminal
<1>4. /\ pending' \in PendingAuth \cup {None}
      /\ context' \in 0..LastLogin /\ choice' \in 0..LastLogin
  BY DEF FailLogin, TypeOK
<1> QED BY <1>1, <1>2, <1>3, <1>4 DEF FailLogin, TypeOK

LEMMA SourceIsAttempt ==
  ASSUME TypeOK, NEW f \in 0..LastLogin
  PROVE  SourceAttempt(f) \in 1..LastLogin
  BY BoundsAssumption DEF SourceAttempt, TypeOK, PendingAuth

LEMMA TypeReadSource == ASSUME TypeOK, NEW k \in Tasks, ReadSource(k) PROVE TypeOK'
<1> USE BoundsAssumption DEF At, statuses, fixed, sessions, waiting, Project
<1>1. SourceAttempt(context) \in 1..LastLogin /\ task[k].session \in Logins
  BY SourceIsAttempt DEF ReadSource, TypeOK, TaskOK
<1>2. task' \in [Tasks -> TaskRecord] /\ \A l \in Tasks : TaskOK(l, task'[l])
  <2>1. SourceAttempt(context) \in 0..(LastLogin + 1)
    BY <1>1
  <2>2. PICK p \in {"issue", "repost"} :
          task' = [task EXCEPT ![k].pc = p, ![k].source = SourceAttempt(context)]
    BY DEF ReadSource
  <2>3. TaskOK(k, task'[k])
    <3>1. /\ task'[k].pc = p /\ task'[k].session = task[k].session
          /\ task'[k].source = SourceAttempt(context)
      BY <2>1, <2>2, Sourcing DEF TaskPc
    <3> QED BY <1>1, <3>1 DEF TaskOK
  <2> QED BY <2>1, <2>2, <2>3, Sourcing, OneChanges DEF TaskPc
<1> QED BY <1>2 DEF ReadSource, TypeOK

LEMMA TypeIssueTicket == ASSUME TypeOK, NEW k \in Tasks, IssueTicket(k) PROVE TypeOK'
<1> USE BoundsAssumption DEF At, statuses, fixed, sessions, waiting, Project
<1>1. task[k].source \in 1..LastLogin
  BY DEF IssueTicket, TypeOK, TaskOK, TaskRecord
<1>2. ticket' \in [id : 0..MaxTicket, source : 0..LastLogin, state : TicketState]
  BY <1>1 DEF IssueTicket, TypeOK, TicketState
<1>3. task' = [task EXCEPT ![k].pc = "dispatch", ![k].ticket = ticket'.id]
  BY DEF IssueTicket
<1>4. task' \in [Tasks -> TaskRecord] /\ \A l \in Tasks : TaskOK(l, task'[l])
  <2>1. TaskOK(k, task'[k])
    <3>1. task'[k].pc = "dispatch" /\ task'[k].source = task[k].source
      BY <1>2, <1>3, Ticketing DEF TaskPc
    <3> QED BY <1>1, <3>1 DEF TaskOK
  <2> QED BY <1>2, <1>3, <2>1, Ticketing, OneChanges DEF TaskPc
<1> QED BY <1>2, <1>4 DEF IssueTicket, TypeOK

LEMMA TypeDispatchTicket == ASSUME TypeOK, NEW k \in Tasks, DispatchTicket(k) PROVE TypeOK'
<1> USE BoundsAssumption DEF At, statuses, fixed, sessions, waiting, Project
<1>1. ticket' \in [id : 0..MaxTicket, source : 0..LastLogin, state : TicketState]
  BY DEF DispatchTicket, TypeOK, TicketState
<1>2. task' \in [Tasks -> TaskRecord] /\ \A l \in Tasks : TaskOK(l, task'[l])
  BY GoingIsOK DEF DispatchTicket, TypeOK, TaskPc, TaskOK
<1> QED BY <1>1, <1>2 DEF DispatchTicket, TypeOK

LEMMA TypeClearPending == ASSUME TypeOK, NEW k \in Tasks, ClearPending(k) PROVE TypeOK'
<1> USE BoundsAssumption DEF At, statuses, fixed, sessions, waiting, Project
<1>1. task' \in [Tasks -> TaskRecord] /\ \A l \in Tasks : TaskOK(l, task'[l])
  BY GoingIsOK DEF ClearPending, TypeOK, TaskPc, TaskOK
<1> QED BY <1>1 DEF ClearPending, TypeOK

LEMMA TypeResume == ASSUME TypeOK, NEW k \in Tasks, Resume(k) PROVE TypeOK'
<1> USE BoundsAssumption DEF At, statuses, fixed, sessions, waiting, Project
<1>1. task' \in [Tasks -> TaskRecord] /\ \A l \in Tasks : TaskOK(l, task'[l])
  <2>1. CASE At(k, "queue")
    BY <2>1, GoingIsOK DEF Resume, TypeOK, TaskPc, TaskOK
  <2>2. CASE At(k, "schedule")
    <3> DEFINE j == <<"job", task[k].ticket>>
               r == TaskAt("new", task[k].ticket, task[k].source + 1)
    <3>1. task[k].ticket \in 0..MaxTicket /\ task[k].source \in 0..LastLogin
      BY <2>2 DEF TypeOK, TaskOK, TaskRecord
    <3>2. r \in TaskRecord /\ TaskOK(j, r)
      BY <3>1 DEF TaskAt, TaskRecord, TaskPc, TaskOK, Jobs
    <3>3. j \in Tasks
      BY <3>1 DEF Tasks, Jobs
    <3>4. task' = [task EXCEPT ![k].pc = "idle", ![j] = r]
      BY <2>2 DEF Resume
    <3> HIDE DEF r, j
    <3> DEFINE mid == [task EXCEPT ![k].pc = "idle"]
    <3>5. mid \in [Tasks -> TaskRecord] /\ \A l \in Tasks : TaskOK(l, mid[l])
      BY <3>1 DEF TypeOK, TaskOK, TaskRecord, TaskPc
    <3>6. task' = [mid EXCEPT ![j] = r]
      BY <3>4
    <3> HIDE DEF mid
    <3> QED BY <3>2, <3>3, <3>5, <3>6
  <2> QED BY <2>1, <2>2 DEF Resume
<1> QED BY <1>1 DEF Resume, TypeOK

LEMMA TypeInputArrives == ASSUME TypeOK, NEW k \in Submitters, InputArrives(k) PROVE TypeOK'
<1> USE BoundsAssumption, NoneAssumption DEF At, statuses, fixed, sessions, waiting,
       Project
<1>1. k \in Tasks /\ pending.session \in Logins /\ pending.source \in 1..LastLogin
  BY TaskKinds DEF InputArrives, TypeOK, PendingAuth
<1>2. task' \in [Tasks -> TaskRecord] /\ \A l \in Tasks : TaskOK(l, task'[l])
  <2>1. pending.source \in 0..(LastLogin + 1)
    BY <1>1
  <2>2. TaskOK(k, task'[k])
    <3>0. task' = [task EXCEPT ![k].pc = "input", ![k].session = pending.session,
                               ![k].source = pending.source]
      BY DEF InputArrives
    <3>1. /\ task'[k].pc = "input" /\ task'[k].session = pending.session
          /\ task'[k].source = pending.source
      <4> DEFINE s == pending.session
                 a == pending.source
      <4>1. s \in Logins /\ a \in 0..(LastLogin + 1) /\ "input" \in TaskPc
        BY <1>1, <2>1 DEF TaskPc
      <4>2. task' = [task EXCEPT ![k].pc = "input", ![k].session = s, ![k].source = a]
        BY <3>0
      <4> HIDE DEF s, a
      <4>3. task'[k].pc = "input" /\ task'[k].session = s /\ task'[k].source = a
        BY <1>1, <4>1, <4>2 DEF TypeOK, TaskRecord
      <4> QED BY <4>3 DEF s, a
    <3> QED BY <1>1, <3>1 DEF TaskOK
  <2> QED BY <1>1, <2>1, <2>2, Submitting, OneChanges DEF InputArrives, TaskPc
<1> QED BY <1>2 DEF InputArrives, TypeOK

LEMMA TypeInput == ASSUME TypeOK, NEW k \in Tasks, Input(k) PROVE TypeOK'
<1> USE BoundsAssumption DEF At, statuses, fixed, sessions, waiting, Project
<1>1. login' \in [Logins -> LoginStatus]
  BY DEF Input, TypeOK, LoginStatus
<1>2. task[k].session \in Logins /\ task[k].source <= LastLogin /\ task[k].source # 0
  BY DEF Input, TypeOK, TaskOK
<1>3. PICK p \in {"repost", "issue", "idle", "read"} : Goto(k, p)
  BY DEF Input
<1>4. task' \in [Tasks -> TaskRecord] /\ \A l \in Tasks : TaskOK(l, task'[l])
  BY <1>2, <1>3, GoingIsOK DEF TaskPc
<1> QED BY <1>1, <1>4 DEF Input, TypeOK

LEMMA TypeImportArrives ==
  ASSUME TypeOK, NEW k \in Submitters, ImportArrives(k) \/ SelectArrives(k) PROVE TypeOK'
<1> USE BoundsAssumption DEF At, statuses, fixed, sessions, waiting, Project
<1>1. k \in Tasks /\ SourceAttempt(choice) \in 1..LastLogin
  BY TaskKinds, SourceIsAttempt DEF TypeOK
<1>2. PICK p \in {"issue", "ask"} :
        task' = [task EXCEPT ![k].pc = p, ![k].source = SourceAttempt(choice)]
  BY DEF ImportArrives, SelectArrives
<1>3. task' \in [Tasks -> TaskRecord] /\ \A l \in Tasks : TaskOK(l, task'[l])
  <2>1. SourceAttempt(choice) \in 0..(LastLogin + 1)
    BY <1>1
  <2>2. TaskOK(k, task'[k])
    <3>1. task'[k].pc = p /\ task'[k].source = SourceAttempt(choice)
      BY <1>1, <1>2, <2>1, Sourcing DEF TaskPc
    <3> QED BY <1>1, <3>1 DEF TaskOK
  <2> QED BY <1>1, <1>2, <2>1, <2>2, Sourcing, OneChanges DEF TaskPc
<1> QED BY <1>3 DEF ImportArrives, SelectArrives, TypeOK

LEMMA TypeCancelArrives == ASSUME TypeOK, CancelArrives PROVE TypeOK'
<1> USE BoundsAssumption DEF At, statuses, fixed, sessions, waiting, Project
<1>1. task' \in [Tasks -> TaskRecord] /\ \A l \in Tasks : TaskOK(l, task'[l])
  <2>1. canceler \in Tasks /\ "logins" \in TaskPc /\ task[canceler].source <= LastLogin
    BY TaskKinds DEF CancelArrives, TypeOK, TaskOK, TaskPc
  <2> QED BY <2>1, GoingIsOK DEF CancelArrives
<1> QED BY <1>1 DEF CancelArrives, TypeOK

LEMMA TypeCancel == ASSUME TypeOK, Cancel PROVE TypeOK'
<1> USE BoundsAssumption DEF At, statuses, fixed, sessions, waiting, Project
<1>1. task' \in [Tasks -> TaskRecord] /\ \A l \in Tasks : TaskOK(l, task'[l])
  BY TaskKinds DEF Cancel, TypeOK, TaskPc, TaskOK, TaskRecord, Goto
<1>2. login' \in [Logins -> LoginStatus]
  BY DEF Cancel, TypeOK, LoginStatus
<1> QED BY <1>1, <1>2 DEF Cancel, TypeOK, Terminal

LEMMA TypeCrash == ASSUME TypeOK, Crash PROVE TypeOK'
<1> USE BoundsAssumption DEF At, statuses, fixed, sessions, waiting, Project
<1>1. \A p \in {"done", "idle"} : TaskAt(p, 0, 0) \in TaskRecord /\ \A k \in Tasks : TaskOK(k, TaskAt(p, 0, 0))
  BY DEF TaskAt, TaskRecord, TaskPc, TaskOK
<1>2. task' \in [Tasks -> TaskRecord] /\ \A l \in Tasks : TaskOK(l, task'[l])
  BY <1>1 DEF Crash
<1>3. login' \in [Logins -> LoginStatus] /\ late' \subseteq Logins /\ owned' \subseteq Logins
  BY DEF Crash, LoginStatus, TypeOK
<1> QED BY <1>2, <1>3 DEF Crash, TypeOK

LEMMA TypeRestart == ASSUME TypeOK, Restart PROVE TypeOK'
<1> USE BoundsAssumption DEF At, statuses, fixed, sessions, waiting, Project
<1> DEFINE j == <<"job", ticket.id>>
           r == TaskAt("new", ticket.id, ticket.source + 1)
<1>1. j \in Tasks
  BY DEF TypeOK, Tasks, Jobs
<1>2. r \in TaskRecord /\ TaskOK(j, r)
  BY DEF TypeOK, TaskAt, TaskRecord, TaskPc, TaskOK, Jobs
<1>3. task' = task \/ task' = [task EXCEPT ![j] = r]
  BY DEF Restart
<1> HIDE DEF r, j
<1>4. task' \in [Tasks -> TaskRecord] /\ \A l \in Tasks : TaskOK(l, task'[l])
  BY <1>1, <1>2, <1>3 DEF TypeOK
<1> QED BY <1>4 DEF Restart, TypeOK, Terminal

LEMMA TypeStep == ASSUME TypeOK, [Next]_vars PROVE TypeOK'
<1>1. CASE Next
  <2>1. ASSUME NEW j \in Jobs, Job(j) PROVE TypeOK'
    BY <2>1, TypeJobStarts, TypeJob DEF Job
  <2>2. ASSUME NEW k \in Tasks, PostStep(k) PROVE TypeOK'
    BY <2>2, TypeStartLogin, TypeOfferChoice, TypePersist, TypePost DEF PostStep
  <2>3. ASSUME NEW k \in Tasks, CompleteStep(k) PROVE TypeOK'
    BY <2>3, TypeReadSource, TypeIssueTicket, TypeDispatchTicket, TypeClearPending,
       TypeResume,
       TypePersist DEF CompleteStep
  <2>4. ASSUME NEW k \in Tasks, Proceed(k) PROVE TypeOK'
    BY <2>2, <2>3, <2>4, TypePollLooks, TypeFailLogin, TypeInput DEF Proceed
  <2>5. ASSUME NEW k \in Submitters, Submit(k) PROVE TypeOK'
    BY <2>5, TypeInputArrives, TypeImportArrives DEF Submit
  <2> QED BY <1>1, <2>1, <2>4, <2>5, TypePollArrives, TypeLogin, TypeCancelArrives,
       TypeCancel,
             TypeCrash, TypeRestart DEF Next
<1>2. CASE UNCHANGED vars
  BY <1>2 DEF vars, statuses, fixed, sessions, waiting, Project, TypeOK
<1> QED BY <1>1, <1>2

\* Every variable keeps its type, whatever the clients, polls and logins do and
\* in whatever order: SourceAttempt is an attempt whose engine asked.
THEOREM TypeCorrect == Spec => []TypeOK
<1>1. TypeOK /\ [Next]_vars => TypeOK'
  BY TypeStep
<1> QED BY TypeInit, <1>1, PTL DEF Spec

-----------------------------------------------------------------------------
(* The inductive invariant, of a run that is not canceled                  *)

\* The schedules the theorems are about: a login does not end under the task
\* that posts it, no client chooses or imports while a login goes on, nobody
\* clears the login another completion has still to read, and one client at a
\* time submits.  TLC finds OneTurnPerAttempt violated without ~Stale,
\* WaitingIsActionable and FailedRowIsOver without any of the other three, and
\* ImplementsStatechart without ~Eager or with two clients.
Orderly == ~Eager /\ ~Hasty /\ ~Stale /\ Clients <= 1

\* What a task is about: a turn of the engine, the login or choice to post, a
\* login that it has found, the completion of a login, its end.
Active == {"new", "turn"}
Posters == {"ask", "persist", "post", "finalize"}
Hands == {"look", "input", "read", "repost", "fail"}
Past == {"forget", "queue", "schedule"}
Completing == {"issue", "dispatch", "clear"} \cup Past
Is(k, S) == task[k].pc \in S
JobIdle == \A j \in Tasks : ~Is(j, Active)
\* The attempt whose engine asked last.
Last == IF ticket.state \in {"none", "started"} THEN ticket.source + 1 ELSE ticket.source

\* Each kind of task is only in places of its own.
Kinds ==
  /\ At(canceler, "idle")
  /\ \A k \in Tasks :
       /\ ~Is(k, {"logins", "clear_logins", "cancel"})
       /\ Is(k, {"new", "turn", "finalize", "done"}) => k \in Jobs
       /\ Is(k, {"ask", "persist"}) => k \in Jobs \cup Submitters
       /\ At(k, "post") => k \in Jobs \cup Submitters
       /\ At(k, "repost") => k \in Submitters \cup Callbacks
       /\ At(k, "input") => k \in Submitters
       /\ Is(k, {"look", "fail", "failed"}) => k \in Pollers
       /\ Is(k, {"read"} \cup Completing) => k \in Pollers \cup Submitters \cup Callbacks
\* The ticket has a source once it exists; no attempt after the last one has
\* run; a queued run has nothing pending and its ticket is won.
TicketForm ==
  /\ ticket.state = "none" <=> ticket.id = 0
  /\ ticket.id = 0 <=> ticket.source = 0
  /\ \A b \in Attempts : b > Last => turns[b] = 0
  /\ status = "queued" => /\ pending = None /\ choice = 0
                          /\ ticket.state \in {"none", "dispatched"}
\* The attempt that runs, or is about to, is the one after the ticket's source.
\* It runs for the first time, while nothing is pending and at most losers of
\* the ticket are under way.
JobAlone == \A j \in Tasks : Is(j, Active) =>
  /\ pending = None /\ choice = 0
  /\ task[j].source = ticket.source + 1 /\ task[j].ticket = ticket.id
  /\ At(j, "new") => /\ status = "queued"
                     /\ \A b \in Attempts : b >= task[j].source => turns[b] = 0
  /\ At(j, "turn") => status = "running" /\ ticket.state \in {"none", "started"}
  /\ \A k \in Tasks \ {j} :
        \/ Is(k, {"idle", "done"})
        \/ Is(k, {"issue", "dispatch"}) /\ ticket.id # 0 /\ task[k].source = ticket.source
           /\ ticket.state # "issued"
\* Whoever starts a login does it alone, for the last attempt.
AskAlone == \A k \in Tasks : Is(k, {"ask", "persist"}) =>
  /\ pending = None
  /\ \A l \in Tasks \ {k} : Is(l, {"idle", "done"})
  /\ task[k].source = Last
  /\ IF k \in Jobs THEN status = "running" /\ choice = 0 ELSE status = "waiting_auth" /\ choice # 0
  /\ At(k, "persist") => login[task[k].session] \in {"live", "import"} /\ task[k].session \notin late
\* What is posted can be acted on until it is posted.
PostHolds == \A k \in Tasks : Is(k, {"post", "finalize", "repost"}) =>
  /\ \/ pending # None /\ login[pending.session] \in {"live", "import", "failed"} /\ pending.session \notin late
     \/ pending = None /\ choice # 0 /\ ~At(k, "repost")
  /\ \A l \in Tasks \ {k} : /\ Is(l, {"idle", "done", "look", "input"})
                            /\ At(l, "input") => login[task[l].session] # "live"
                            /\ k \in Jobs => Is(l, {"idle", "done", "look"})
  /\ status = IF k \in Jobs /\ At(k, "post") THEN "running" ELSE "waiting_auth"
\* A task that found a login found the pending one, or one that has timed out
\* and been cleared meanwhile.
HandsAgree == \A k \in Tasks : Is(k, Hands) =>
  /\ task[k].session \in Logins
  /\ pending # None => task[k].session = pending.session
  /\ pending = None => /\ Is(k, {"look", "input", "fail"})
                       /\ task[k].session \in late /\ login[task[k].session] # "succeeded"
                       /\ choice = 0
                       /\ status = "waiting_auth"
                       /\ \A l \in Tasks : Is(l, {"idle", "done", "look", "input", "fail", "failed"})
  /\ Is(k, {"input", "repost"}) => task[k].source = Last
  /\ At(k, "fail") => task[k].session \in late /\ login[task[k].session] \notin {"live", "succeeded", "import"}
  /\ At(k, "read") => \/ login[task[k].session] = "succeeded"
                      \/ /\ login[task[k].session] = "failed" /\ task[k].session \notin late
                         /\ k \in Callbacks
                         /\ \A l \in Tasks \ {k} : Is(l, {"idle", "done", "look", "input"})
  /\ At(k, "repost") => login[task[k].session] \in {"live", "failed"}
LateLogins == \A s \in late : login[s] \notin {"unused", "import"}
Dead == \A k \in Tasks : At(k, "failed") =>
  /\ pending = None /\ choice = 0 /\ status = "waiting_auth" /\ givenUp
  /\ \A l \in Tasks : Is(l, {"idle", "done", "look", "input", "fail", "failed"})
\* All completions are for the last attempt; only one has won its ticket, and the
\* others go no further than the ticket.
Complete == JobIdle => \A k \in Tasks : Is(k, Completing) =>
  /\ task[k].source = Last
  /\ \A l \in Tasks : Is(l, {"idle", "done", "look", "input", "read"} \cup Completing)
  /\ ~At(k, "issue") => /\ ticket.id # 0 /\ ticket.id = task[k].ticket
                        /\ task[k].source = ticket.source
                        /\ ticket.state \in {"issued", "dispatched"}
  /\ ~Is(k, {"issue", "dispatch"}) =>
       /\ ticket.state = "dispatched"
       /\ \A l \in Tasks \ {k} : Is(l, {"idle", "done", "look", "input", "read", "issue", "dispatch"})
       /\ \A l \in Tasks : Is(l, Completing) => task[l].source = ticket.source
  /\ Is(k, {"issue", "dispatch", "clear"}) /\ (\A l \in Tasks : ~Is(l, Past)) =>
       /\ status = "waiting_auth"
       /\ \/ pending # None /\ login[pending.session] = "succeeded"
          \/ pending # None /\ login[pending.session] = "import" /\ k \in Submitters
          \/ pending = None /\ choice # 0 /\ k \in Submitters
  /\ Is(k, Past) =>
       /\ pending = None /\ choice = 0
       /\ \A l \in Tasks \ {k} : Is(l, {"idle", "done", "issue", "dispatch"})
       /\ status = IF At(k, "schedule") THEN "queued" ELSE "waiting_auth"
Persisted ==
  /\ pending # None => /\ pending.source = Last /\ choice = 0
  /\ choice # 0 => choice = Last
  /\ (pending # None /\ mode = "up") =>
        \/ status = "waiting_auth"
        \/ \E k \in Tasks : At(k, "post")
\* A live login of the run is pending, or about to be.
Owned == \A s \in owned : login[s] = "live" =>
  \/ pending # None /\ pending.session = s
  \/ \E k \in Tasks : At(k, "persist") /\ task[k].session = s
Down == mode = "down" =>
  /\ \A k \in Tasks : Is(k, {"idle", "done"})
  /\ \A s \in Logins : login[s] \in {"unused", "lost"}
  /\ pending # None => status \notin Terminal
Actionable == status = "waiting_auth" /\ mode = "up" =>
  \/ pending # None \/ choice # 0 \/ givenUp
  \/ \E k \in Tasks : Is(k, {"forget", "queue"})
\* Only the row of a run that a poll has given up fails alone, and then nothing
\* goes on but further polls and inputs that find the login late.
RowHolds == row # status =>
  /\ row = "failed" /\ status = "waiting_auth" /\ givenUp
  /\ pending = None /\ choice = 0
  /\ \A k \in Tasks : Is(k, {"idle", "done", "look", "input", "fail", "failed"})
Core ==
  /\ Kinds /\ TicketForm /\ JobAlone /\ AskAlone /\ PostHolds /\ HandsAgree /\ LateLogins
  /\ Dead /\ Complete /\ Persisted /\ Owned /\ Down /\ Actionable /\ RowHolds

LEMMA Kindred ==
  /\ Jobs \cap Pollers = {} /\ Jobs \cap Submitters = {} /\ Jobs \cap Callbacks = {}
  /\ Pollers \cap Submitters = {} /\ Pollers \cap Callbacks = {} /\ Submitters \cap Callbacks = {}
  /\ canceler \notin Jobs \cup Pollers \cup Submitters \cup Callbacks
  BY DEF Jobs, Pollers, Submitters, Callbacks, canceler

LEMMA OneSubmitter == ASSUME Orderly, NEW k \in Submitters, NEW l \in Submitters PROVE k = l
  BY BoundsAssumption DEF Orderly, Submitters

LEMMA LivePending ==
  ASSUME TypeOK, Orderly, Core, PeopleAct, NEW s \in owned, login[s] = "live", s \notin late
  PROVE  /\ pending # None /\ pending.session = s
         /\ \A l \in Tasks : Is(l, {"idle", "done", "look", "input"})
<1> USE DEF Core, At, Is, Active, Posters, Hands, Completing, Past
<1>1. \A l \in Tasks : /\ ~Is(l, Posters \cup {"repost"})
                       /\ At(l, "read") => login[task[l].session] # "failed"
  BY DEF PeopleAct, Posting, Orderly
<1>2. pending # None /\ pending.session = s
  BY <1>1 DEF Owned
<1>3. JobIdle
  BY <1>2 DEF JobAlone, JobIdle
<1>4. \A l \in Tasks : ~Is(l, Completing)
  BY <1>2, <1>3 DEF Complete
<1>5. \A l \in Tasks : ~Is(l, {"repost", "fail", "failed", "read"})
  BY <1>1, <1>2 DEF HandsAgree, Dead
<1>6. \A l \in Tasks : task[l].pc \in TaskPc
  BY DEF TypeOK, TaskRecord
<1> QED BY <1>1, <1>2, <1>3, <1>4, <1>5, <1>6 DEF Kinds, JobIdle, TaskPc

LEMMA FailAlone ==
  ASSUME TypeOK, Core, NEW k \in Tasks, At(k, "fail")
  PROVE  /\ status = "waiting_auth"
         /\ \A l \in Tasks : Is(l, {"idle", "done", "look", "input", "fail", "failed"})
<1> USE DEF Core, At, Is, Active, Posters, Hands, Completing, Past
<1>1. CASE pending = None
  BY <1>1 DEF HandsAgree
<1>2. CASE pending # None
  <2>1. /\ task[k].session = pending.session /\ pending.session \in late
        /\ login[pending.session] \notin {"live", "succeeded", "import"}
    BY <1>2 DEF HandsAgree
  <2>2. \A l \in Tasks : ~Is(l, Posters \cup {"repost"})
    BY <1>2 DEF AskAlone, PostHolds
  <2>3. JobIdle
    BY <1>2 DEF JobAlone, JobIdle
  <2>4. \A l \in Tasks : ~Is(l, Completing)
    BY <1>2, <2>1, <2>3 DEF Complete
  <2>5. \A l \in Tasks : ~At(l, "read")
    BY <1>2, <2>1 DEF HandsAgree
  <2>6. \A l \in Tasks : task[l].pc \in TaskPc
    BY DEF TypeOK, TaskRecord
  <2>7. \A l \in Tasks : Is(l, {"idle", "done", "look", "input", "fail", "failed"})
    BY <2>2, <2>3, <2>4, <2>5, <2>6 DEF Kinds, JobIdle, TaskPc
  <2>8. mode = "up"
    BY DEF Down, TypeOK
  <2> QED BY <1>2, <2>2, <2>7, <2>8 DEF Persisted
<1> QED BY <1>1, <1>2

LEMMA ReadAlone ==
  ASSUME TypeOK, Core, NEW k \in Tasks, At(k, "read"), login[task[k].session] = "succeeded"
  PROVE  /\ status = "waiting_auth" /\ \A l \in Tasks : ~Is(l, Past)
         /\ \A l \in Tasks : Is(l, {"idle", "done", "look", "input", "read"} \cup Completing)
<1> USE DEF Core, At, Is, Active, Posters, Hands, Completing, Past
<1>1. pending # None /\ login[pending.session] = "succeeded"
  BY DEF HandsAgree
<1>2. \A l \in Tasks : ~Is(l, Posters \cup {"repost"})
  BY <1>1 DEF AskAlone, PostHolds
<1>3. JobIdle
  BY <1>1 DEF JobAlone, JobIdle
<1>4. \A l \in Tasks : ~Is(l, Past)
  BY <1>1, <1>3 DEF Complete
<1>5. \A l \in Tasks : ~Is(l, {"fail", "failed"})
  BY <1>1 DEF HandsAgree, Dead
<1>6. \A l \in Tasks : task[l].pc \in TaskPc
  BY DEF TypeOK, TaskRecord
<1>7. mode = "up"
  BY DEF Down, TypeOK
<1>8. \A l \in Tasks : Is(l, {"idle", "done", "look", "input", "read"} \cup Completing)
  BY <1>2, <1>3, <1>4, <1>5, <1>6 DEF Kinds, JobIdle, TaskPc
<1> QED BY <1>1, <1>2, <1>4, <1>7, <1>8 DEF Persisted

LEMMA LiveInput ==
  ASSUME TypeOK, Orderly, Core, NEW k \in Tasks, At(k, "input"), login[task[k].session] = "live",
         task[k].session \notin late
  PROVE  /\ pending # None /\ pending.session = task[k].session
         /\ \A l \in Tasks : Is(l, {"idle", "done", "look", "input"})
<1> USE DEF Core, At, Is, Active, Posters, Hands, Completing, Past
<1>1. pending # None /\ pending.session = task[k].session
  BY DEF HandsAgree
<1>2. \A l \in Tasks : ~Is(l, Posters \cup {"repost"})
  BY <1>1 DEF AskAlone, PostHolds
<1>3. JobIdle
  BY <1>1 DEF JobAlone, JobIdle
<1>4. \A l \in Tasks : ~Is(l, Completing)
  BY <1>1, <1>3 DEF Complete
<1>5. \A l \in Tasks : ~Is(l, {"fail", "failed", "read"})
  BY <1>1 DEF HandsAgree, Dead
<1>6. \A l \in Tasks : task[l].pc \in TaskPc
  BY DEF TypeOK, TaskRecord
<1> QED BY <1>1, <1>2, <1>3, <1>4, <1>5, <1>6 DEF Kinds, JobIdle, TaskPc

-----------------------------------------------------------------------------
(* Every step keeps it *)

LEMMA CoreJobStarts ==
  ASSUME TypeOK, Orderly, ~canceled, Core, NEW k \in Jobs, JobStarts(k)
  PROVE  Core'
<1> USE DEF Core, At, Is, Active, Posters, Hands, Completing, Past
<1>0. k \in Tasks
  BY TaskKinds
<1>1. /\ task[k].pc = "new" /\ task'[k].pc = "turn" /\ task'[k].session = task[k].session
      /\ task'[k].ticket = task[k].ticket /\ task'[k].source = task[k].source
      /\ \A l \in Tasks \ {k} : task'[l] = task[l]
      /\ status' = "running" /\ row' = "running" /\ turns' = [turns EXCEPT ![task[k].source] = @ + 1]
      /\ ticket.id # 0 => ticket.state = "dispatched" /\ ticket' = [ticket EXCEPT !.state = "started"]
      /\ ticket.id = 0 => ticket' = ticket
      /\ UNCHANGED <<login, late, owned, pending, choice, givenUp, mode>>
  BY <1>0, Going DEF JobStarts, statuses, fixed, sessions, waiting, Project, TaskPc,
       JobAlone, TicketForm, TypeOK
<1>2. /\ ticket'.id = ticket.id /\ ticket'.source = ticket.source
      /\ ticket'.state = IF ticket.id = 0 THEN "none" ELSE "started"
  BY <1>1 DEF TypeOK, TicketForm
<1>21. Kinds'
  BY <1>0, <1>1, <1>2, TaskKinds, Kindred DEF Kinds
<1>22. TicketForm'
  <2>1. task[k].source = ticket.source + 1 /\ task[k].source \in Int /\ ticket.source \in Int
    BY <1>0, <1>1 DEF JobAlone, TypeOK, TaskRecord
  <2>2. \A b \in Attempts : b > task[k].source => turns'[b] = 0
    <3> SUFFICES ASSUME NEW b \in Attempts, b > task[k].source PROVE turns'[b] = 0
      OBVIOUS
    <3>1. b # task[k].source /\ b >= task[k].source
      BY <2>1 DEF Attempts
    <3> QED BY <1>0, <1>1, <3>1 DEF JobAlone, TypeOK
  <2> QED BY <1>1, <1>2, <2>1, <2>2 DEF TicketForm, Last
<1>23. JobAlone'
  BY <1>0, <1>1, <1>2 DEF JobAlone
<1>24. AskAlone'
  BY <1>0, <1>1, <1>2 DEF AskAlone, Last
<1>25. PostHolds'
  BY <1>0, <1>1, <1>2 DEF PostHolds
<1>26. HandsAgree'
  BY <1>0, <1>1, <1>2 DEF HandsAgree, Last, JobAlone
<1>27. LateLogins'
  BY <1>0, <1>1, <1>2 DEF LateLogins
<1>28. Dead'
  BY <1>0, <1>1, <1>2 DEF Dead
<1>29. Complete'
  BY <1>0, <1>1, <1>2 DEF Complete, JobIdle, Last
<1>30. Persisted'
  BY <1>0, <1>1, <1>2 DEF Persisted, Last, JobAlone
<1>31. Owned'
  BY <1>0, <1>1, <1>2 DEF Owned
<1>32. Down'
  BY <1>0, <1>1, <1>2 DEF Down
<1>33. Actionable'
  BY <1>0, <1>1, <1>2 DEF Actionable
<1>34. RowHolds'
  BY <1>0, <1>1, <1>2 DEF RowHolds
<1> QED BY <1>21, <1>22, <1>23, <1>24, <1>25, <1>26, <1>27, <1>28, <1>29, <1>30, <1>31,
       <1>32, <1>33, <1>34

LEMMA CoreJobEnds ==
  ASSUME TypeOK, Orderly, ~canceled, Core, NEW k \in Jobs, JobEnds(k)
  PROVE  Core'
<1> USE DEF Core, At, Is, Active, Posters, Hands, Completing, Past
<1>0. k \in Tasks /\ \A l \in Tasks : Is(l, {"idle", "turn", "done"})
  BY TaskKinds DEF JobEnds, statuses, fixed, sessions, waiting, Project, TurnOver,
       AtRest, Kinds
<1>1. /\ task[k].pc = "turn" /\ task'[k].pc = "done" /\ task'[k].session = task[k].session
      /\ task'[k].ticket = task[k].ticket /\ task'[k].source = task[k].source
      /\ \A l \in Tasks \ {k} : task'[l] = task[l]
      /\ status' \in {"succeeded", "failed"} /\ row' = status'
      /\ UNCHANGED <<login, late, owned, pending, choice, givenUp, ticket, turns, mode>>
  BY <1>0, Going DEF JobEnds, statuses, fixed, sessions, waiting, Project, TurnOver,
       TaskPc
<1>21. Kinds'
  BY <1>0, <1>1, TaskKinds, Kindred DEF Kinds
<1>22. TicketForm'
  BY <1>0, <1>1 DEF TicketForm, Last
<1>23. JobAlone'
  BY <1>0, <1>1 DEF JobAlone
<1>24. AskAlone'
  BY <1>0, <1>1 DEF AskAlone, Last
<1>25. PostHolds'
  BY <1>0, <1>1 DEF PostHolds
<1>26. HandsAgree'
  BY <1>0, <1>1 DEF HandsAgree, Last
<1>27. LateLogins'
  BY <1>0, <1>1 DEF LateLogins
<1>28. Dead'
  BY <1>0, <1>1 DEF Dead
<1>29. Complete'
  BY <1>0, <1>1 DEF Complete, JobIdle, Last
<1>30. Persisted'
  BY <1>0, <1>1 DEF Persisted, Last, JobAlone
<1>31. Owned'
  BY <1>0, <1>1 DEF Owned
<1>32. Down'
  BY <1>0, <1>1 DEF Down
<1>33. Actionable'
  BY <1>0, <1>1 DEF Actionable
<1>34. RowHolds'
  BY <1>0, <1>1 DEF RowHolds
<1> QED BY <1>21, <1>22, <1>23, <1>24, <1>25, <1>26, <1>27, <1>28, <1>29, <1>30, <1>31,
       <1>32, <1>33, <1>34

LEMMA CoreJobAsks ==
  ASSUME TypeOK, Orderly, ~canceled, Core, NEW k \in Jobs, JobAsks(k)
  PROVE  Core'
<1> USE DEF Core, At, Is, Active, Posters, Hands, Completing, Past
<1>0. k \in Tasks /\ \A l \in Tasks : Is(l, {"idle", "turn", "done"})
  BY TaskKinds DEF JobAsks, statuses, fixed, sessions, waiting, Project, TurnOver,
       AtRest, Kinds
<1>1. /\ task[k].pc = "turn" /\ task'[k].pc = "ask" /\ task'[k].session = task[k].session
      /\ task'[k].ticket = task[k].ticket /\ task'[k].source = task[k].source
      /\ \A l \in Tasks \ {k} : task'[l] = task[l]
      /\ UNCHANGED <<status, row, login, late, owned, pending, choice, givenUp, ticket, turns, mode>>
  BY <1>0, Going DEF JobAsks, statuses, fixed, sessions, waiting, Project, TurnOver,
       TaskPc
<1>21. Kinds'
  BY <1>0, <1>1, TaskKinds, Kindred DEF Kinds
<1>22. TicketForm'
  BY <1>0, <1>1 DEF TicketForm, Last
<1>23. JobAlone'
  BY <1>0, <1>1 DEF JobAlone
<1>24. AskAlone'
  BY <1>0, <1>1 DEF AskAlone, Last, JobAlone
<1>25. PostHolds'
  BY <1>0, <1>1 DEF PostHolds
<1>26. HandsAgree'
  BY <1>0, <1>1 DEF HandsAgree, Last
<1>27. LateLogins'
  BY <1>0, <1>1 DEF LateLogins
<1>28. Dead'
  BY <1>0, <1>1 DEF Dead
<1>29. Complete'
  BY <1>0, <1>1 DEF Complete, JobIdle, Last
<1>30. Persisted'
  BY <1>0, <1>1 DEF Persisted, Last
<1>31. Owned'
  BY <1>0, <1>1 DEF Owned
<1>32. Down'
  BY <1>0, <1>1 DEF Down
<1>33. Actionable'
  BY <1>0, <1>1 DEF Actionable
<1>34. RowHolds'
  BY <1>0, <1>1 DEF RowHolds
<1> QED BY <1>21, <1>22, <1>23, <1>24, <1>25, <1>26, <1>27, <1>28, <1>29, <1>30, <1>31,
       <1>32, <1>33, <1>34

LEMMA CoreStartLogin ==
  ASSUME TypeOK, Orderly, ~canceled, Core, NEW k \in Tasks, StartLogin(k)
  PROVE  Core'
<1> USE DEF Core, At, Is, Active, Posters, Hands, Completing, Past
<1>0. PICK s \in Logins :
      /\ task' = [task EXCEPT ![k].pc = "persist", ![k].session = s]
      /\ login'[s] \in {"live", "import"} /\ \A r \in Logins \ {s} : login'[r] = login[r]
      /\ s \notin late /\ (owned' = owned \/ owned' = owned \cup {s})
  BY DEF StartLogin, statuses, fixed, sessions, waiting, Project, LiveLogins, Logins,
       LateLogins, TypeOK
<1>1. /\ task[k].pc = "ask" /\ task'[k].pc = "persist" /\ task'[k].session = s
      /\ task'[k].ticket = task[k].ticket /\ task'[k].source = task[k].source
      /\ \A l \in Tasks \ {k} : task'[l] = task[l]
      /\ UNCHANGED <<status, row, late, pending, choice, givenUp, ticket, turns, mode>>
  <2>1. /\ task[k].pc = "ask"
        /\ UNCHANGED <<status, row, late, pending, choice, givenUp, ticket, turns, mode>>
    BY DEF StartLogin, statuses, fixed, sessions, waiting, Project
  <2> QED BY <1>0, <2>1 DEF TypeOK, TaskRecord
<1>2. /\ s \in Logins /\ s \notin late /\ (owned' = owned \/ owned' = owned \cup {s})
      /\ login'[s] \in {"live", "import"} /\ \A r \in Logins \ {s} : login'[r] = login[r]
  BY <1>0
<1>21. Kinds'
  BY <1>1, <1>2, TaskKinds, Kindred DEF Kinds
<1>22. TicketForm'
  BY <1>1, <1>2 DEF TicketForm, Last
<1>23. JobAlone'
  BY <1>1, <1>2 DEF JobAlone
<1>24. AskAlone'
  BY <1>1, <1>2 DEF AskAlone, Last
<1>25. PostHolds'
  BY <1>1, <1>2 DEF PostHolds
<1>26. HandsAgree'
  BY <1>1, <1>2 DEF HandsAgree, Last, AskAlone
<1>27. LateLogins'
  BY <1>1, <1>2 DEF LateLogins, AskAlone, TypeOK, PendingAuth
<1>28. Dead'
  BY <1>1, <1>2 DEF Dead
<1>29. Complete'
  BY <1>1, <1>2 DEF Complete, JobIdle, Last
<1>30. Persisted'
  BY <1>1, <1>2 DEF Persisted, Last
<1>31. Owned'
  BY <1>1, <1>2 DEF Owned, AskAlone, TypeOK, PendingAuth
<1>32. Down'
  BY <1>1, <1>2 DEF Down
<1>33. Actionable'
  BY <1>1, <1>2 DEF Actionable
<1>34. RowHolds'
  BY <1>1, <1>2 DEF RowHolds
<1> QED BY <1>21, <1>22, <1>23, <1>24, <1>25, <1>26, <1>27, <1>28, <1>29, <1>30, <1>31,
       <1>32, <1>33, <1>34

LEMMA CoreRecoverLogin ==
  ASSUME TypeOK, Orderly, ~canceled, Core, NEW k \in Tasks, RecoverLogin(k)
  PROVE  Core'
<1> USE DEF Core, At, Is, Active, Posters, Hands, Completing, Past
<1>0. PICK s \in Logins :
      /\ task' = [task EXCEPT ![k].pc = "persist", ![k].session = s]
      /\ login'[s] \in {"live", "import"} /\ \A r \in Logins \ {s} : login'[r] = login[r]
      /\ s \notin late /\ (owned' = owned \/ owned' = owned \cup {s})
  BY DEF RecoverLogin, statuses, fixed, sessions, waiting, Project, LiveLogins, Logins,
       LateLogins, TypeOK,
       sessions
<1>1. /\ task[k].pc = "ask" /\ task'[k].pc = "persist" /\ task'[k].session = s
      /\ task'[k].ticket = task[k].ticket /\ task'[k].source = task[k].source
      /\ \A l \in Tasks \ {k} : task'[l] = task[l]
      /\ UNCHANGED <<status, row, late, pending, choice, givenUp, ticket, turns, mode>>
  <2>1. /\ task[k].pc = "ask"
        /\ UNCHANGED <<status, row, late, pending, choice, givenUp, ticket, turns, mode>>
    BY DEF RecoverLogin, statuses, fixed, sessions, waiting, Project
  <2> QED BY <1>0, <2>1 DEF TypeOK, TaskRecord
<1>2. /\ s \in Logins /\ s \notin late /\ (owned' = owned \/ owned' = owned \cup {s})
      /\ login'[s] \in {"live", "import"} /\ \A r \in Logins \ {s} : login'[r] = login[r]
  BY <1>0
<1>21. Kinds'
  BY <1>1, <1>2, TaskKinds, Kindred DEF Kinds
<1>22. TicketForm'
  BY <1>1, <1>2 DEF TicketForm, Last
<1>23. JobAlone'
  BY <1>1, <1>2 DEF JobAlone
<1>24. AskAlone'
  BY <1>1, <1>2 DEF AskAlone, Last
<1>25. PostHolds'
  BY <1>1, <1>2 DEF PostHolds
<1>26. HandsAgree'
  BY <1>1, <1>2 DEF HandsAgree, Last, AskAlone
<1>27. LateLogins'
  BY <1>1, <1>2 DEF LateLogins, AskAlone, TypeOK, PendingAuth
<1>28. Dead'
  BY <1>1, <1>2 DEF Dead
<1>29. Complete'
  BY <1>1, <1>2 DEF Complete, JobIdle, Last
<1>30. Persisted'
  BY <1>1, <1>2 DEF Persisted, Last
<1>31. Owned'
  BY <1>1, <1>2 DEF Owned, AskAlone, TypeOK, PendingAuth
<1>32. Down'
  BY <1>1, <1>2 DEF Down
<1>33. Actionable'
  BY <1>1, <1>2 DEF Actionable
<1>34. RowHolds'
  BY <1>1, <1>2 DEF RowHolds
<1> QED BY <1>21, <1>22, <1>23, <1>24, <1>25, <1>26, <1>27, <1>28, <1>29, <1>30, <1>31,
       <1>32, <1>33, <1>34

LEMMA CoreOfferChoice ==
  ASSUME TypeOK, Orderly, ~canceled, Core, NEW k \in Tasks, OfferChoice(k)
  PROVE  Core'
<1> USE DEF Core, At, Is, Active, Posters, Hands, Completing, Past
<1>1. /\ task[k].pc = "ask" /\ task'[k].pc = "post"
      /\ task'[k].session = task[k].session
      /\ task'[k].ticket = task[k].ticket /\ task'[k].source = task[k].source
      /\ \A l \in Tasks \ {k} : task'[l] = task[l]
      /\ pending' = None /\ choice' = task[k].source /\ choice' # 0
      /\ UNCHANGED <<status, row, login, late, owned, ticket, turns, mode>>
  BY Going DEF OfferChoice, statuses, fixed, sessions, waiting, Project, TaskPc,
       TypeOK, TaskOK
<1>21. Kinds'
  BY <1>1, TaskKinds, Kindred DEF Kinds
<1>22. TicketForm'
  BY <1>1 DEF TicketForm, Last, AskAlone
<1>23. JobAlone'
  BY <1>1 DEF JobAlone
<1>24. AskAlone'
  BY <1>1 DEF AskAlone, Last
<1>25. PostHolds'
  BY <1>1 DEF PostHolds, AskAlone
<1>26. HandsAgree'
  BY <1>1 DEF HandsAgree, Last, AskAlone
<1>27. LateLogins'
  BY <1>1 DEF LateLogins
<1>28. Dead'
  BY <1>1 DEF Dead
<1>29. Complete'
  BY <1>1 DEF Complete, JobIdle, Last
<1>30. Persisted'
  BY <1>1 DEF Persisted, Last, AskAlone
<1>31. Owned'
  BY <1>1 DEF Owned, AskAlone
<1>32. Down'
  BY <1>1 DEF Down
<1>33. Actionable'
  BY <1>1 DEF Actionable
<1>34. RowHolds'
  BY <1>1 DEF RowHolds
<1> QED BY <1>21, <1>22, <1>23, <1>24, <1>25, <1>26, <1>27, <1>28, <1>29, <1>30, <1>31,
       <1>32, <1>33, <1>34

LEMMA CorePersist ==
  ASSUME TypeOK, Orderly, ~canceled, Core, NEW k \in Tasks, Persist(k)
  PROVE  Core'
<1> USE DEF Core, At, Is, Active, Posters, Hands, Completing, Past
<1>1. /\ task[k].pc = "persist" /\ task'[k].pc = "post"
      /\ task'[k].session = task[k].session
      /\ task'[k].ticket = task[k].ticket /\ task'[k].source = task[k].source
      /\ \A l \in Tasks \ {k} : task'[l] = task[l]
      /\ choice' = 0 /\ owned' = owned \cup {task[k].session}
      /\ UNCHANGED <<status, row, login, late, ticket, turns, mode>>
  BY Going DEF Persist, statuses, fixed, sessions, waiting, Project, TaskPc
<1>2. /\ pending' # None /\ pending'.session = task[k].session /\ pending'.source = task[k].source
  BY NoneAssumption DEF Persist, statuses, fixed, sessions, waiting, Project,
       SetPending, TypeOK, TaskOK,
       TaskRecord, Logins
<1>21. Kinds'
  BY <1>1, <1>2, TaskKinds, Kindred DEF Kinds
<1>22. TicketForm'
  BY <1>1, <1>2 DEF TicketForm, Last, AskAlone
<1>23. JobAlone'
  BY <1>1, <1>2 DEF JobAlone
<1>24. AskAlone'
  BY <1>1, <1>2 DEF AskAlone, Last
<1>25. PostHolds'
  BY <1>1, <1>2 DEF PostHolds, AskAlone
<1>26. HandsAgree'
  BY <1>1, <1>2 DEF HandsAgree, Last, AskAlone
<1>27. LateLogins'
  BY <1>1, <1>2 DEF LateLogins
<1>28. Dead'
  BY <1>1, <1>2 DEF Dead
<1>29. Complete'
  BY <1>1, <1>2 DEF Complete, JobIdle, Last
<1>30. Persisted'
  BY <1>1, <1>2 DEF Persisted, Last, AskAlone
<1>31. Owned'
  BY <1>1, <1>2 DEF Owned, AskAlone
<1>32. Down'
  BY <1>1, <1>2 DEF Down
<1>33. Actionable'
  BY <1>1, <1>2 DEF Actionable
<1>34. RowHolds'
  BY <1>1, <1>2 DEF RowHolds
<1> QED BY <1>21, <1>22, <1>23, <1>24, <1>25, <1>26, <1>27, <1>28, <1>29, <1>30, <1>31,
       <1>32, <1>33, <1>34

LEMMA CorePost ==
  ASSUME TypeOK, Orderly, ~canceled, Core, NEW k \in Tasks, Post(k)
  PROVE  Core'
<1> USE DEF Core, At, Is, Active, Posters, Hands, Completing, Past
<1>1. /\ \/ task[k].pc = "post" /\ task'[k].pc = IF k \in Jobs THEN "finalize" ELSE "idle"
         \/ task[k].pc = "finalize" /\ task'[k].pc = "done"
      /\ task'[k].session = task[k].session
      /\ task'[k].ticket = task[k].ticket /\ task'[k].source = task[k].source
      /\ \A l \in Tasks \ {k} : task'[l] = task[l]
      /\ status' = "waiting_auth" /\ row' = "waiting_auth"
      /\ UNCHANGED <<login, late, owned, pending, choice, givenUp, ticket, turns, mode>>
  BY Going DEF Post, statuses, fixed, sessions, waiting, Project, TaskPc
<1>21. Kinds'
  BY <1>1, TaskKinds, Kindred DEF Kinds
<1>22. TicketForm'
  BY <1>1 DEF TicketForm, Last
<1>23. JobAlone'
  BY <1>1 DEF JobAlone
<1>24. AskAlone'
  BY <1>1 DEF AskAlone, Last
<1>25. PostHolds'
  BY <1>1 DEF PostHolds
<1>26. HandsAgree'
  BY <1>1 DEF HandsAgree, Last
<1>27. LateLogins'
  BY <1>1 DEF LateLogins
<1>28. Dead'
  BY <1>1 DEF Dead
<1>29. Complete'
  BY <1>1 DEF Complete, JobIdle, Last
<1>30. Persisted'
  BY <1>1 DEF Persisted, Last
<1>31. Owned'
  BY <1>1 DEF Owned
<1>32. Down'
  BY <1>1 DEF Down
<1>33. Actionable'
  BY <1>1 DEF Actionable, PostHolds
<1>34. RowHolds'
  BY <1>1 DEF RowHolds
<1> QED BY <1>21, <1>22, <1>23, <1>24, <1>25, <1>26, <1>27, <1>28, <1>29, <1>30, <1>31,
       <1>32, <1>33, <1>34

LEMMA CoreCallbackArrives ==
  ASSUME TypeOK, Orderly, ~canceled, Core, NEW s \in Logins, CallbackArrives(s)
  PROVE  Core'
<1> USE DEF Core, At, Is, Active, Posters, Hands, Completing, Past
<1> DEFINE k == <<"callback", s>>
<1>0. k \in Tasks /\ k \in Callbacks
  BY DEF Callbacks, Tasks
<1>1. /\ task'[k].pc = "read" /\ task'[k].session = s
      /\ task'[k].ticket = task[k].ticket /\ task'[k].source = task[k].source
      /\ \A l \in Tasks \ {k} : task'[l] = task[l]
      /\ UNCHANGED <<status, row, late, owned, pending, choice, givenUp, ticket, turns, mode>>
  <2>1. /\ task' = [task EXCEPT ![k].pc = "read", ![k].session = s]
        /\ UNCHANGED <<status, row, late, owned, pending, choice, givenUp, ticket, turns, mode>>
    BY DEF CallbackArrives, statuses, fixed, sessions, waiting, Project
  <2> HIDE DEF k
  <2> QED BY <1>0, <2>1, Arriving DEF TaskPc
<1> HIDE DEF k
<1>2. /\ pending # None /\ pending.session = s /\ login[s] = "live" /\ s \notin late
      /\ \A l \in Tasks : Is(l, {"idle", "done", "look", "input"})
      /\ login'[s] \in {"succeeded", "failed"}
      /\ \A r \in Logins \ {s} : login'[r] = login[r]
  BY LivePending DEF CallbackArrives, statuses, fixed, sessions, waiting, Project,
       MayEnd, TypeOK
<1>21. Kinds'
  BY <1>0, <1>1, <1>2, TaskKinds, Kindred DEF Kinds
<1>22. TicketForm'
  BY <1>0, <1>1, <1>2 DEF TicketForm, Last
<1>23. JobAlone'
  BY <1>0, <1>1, <1>2 DEF JobAlone
<1>24. AskAlone'
  BY <1>0, <1>1, <1>2 DEF AskAlone, Last
<1>25. PostHolds'
  BY <1>0, <1>1, <1>2 DEF PostHolds
<1>26. HandsAgree'
  BY <1>0, <1>1, <1>2 DEF HandsAgree, Last
<1>27. LateLogins'
  BY <1>0, <1>1, <1>2 DEF LateLogins, HandsAgree, TypeOK, PendingAuth
<1>28. Dead'
  BY <1>0, <1>1, <1>2 DEF Dead
<1>29. Complete'
  BY <1>0, <1>1, <1>2 DEF Complete, JobIdle, Last
<1>30. Persisted'
  BY <1>0, <1>1, <1>2 DEF Persisted, Last
<1>31. Owned'
  BY <1>0, <1>1, <1>2 DEF Owned, HandsAgree, TypeOK, PendingAuth
<1>32. Down'
  BY <1>0, <1>1, <1>2 DEF Down
<1>33. Actionable'
  BY <1>0, <1>1, <1>2 DEF Actionable
<1>34. RowHolds'
  BY <1>0, <1>1, <1>2 DEF RowHolds
<1> QED BY <1>21, <1>22, <1>23, <1>24, <1>25, <1>26, <1>27, <1>28, <1>29, <1>30, <1>31,
       <1>32, <1>33, <1>34

LEMMA CoreLoginEnds ==
  ASSUME TypeOK, Orderly, ~canceled, Core, NEW s \in Logins, LoginEnds(s)
  PROVE  Core'
<1> USE DEF Core, At, Is, Active, Posters, Hands, Completing, Past
<1>1. /\ pending # None /\ pending.session = s /\ login[s] = "live" /\ s \notin late
      /\ \A l \in Tasks : Is(l, {"idle", "done", "look", "input"})
      /\ login'[s] \in {"succeeded", "failed"}
      /\ \A r \in Logins \ {s} : login'[r] = login[r]
      /\ UNCHANGED <<status, row, late, owned, pending, choice, givenUp, ticket, task, turns, mode>>
  BY LivePending DEF LoginEnds, statuses, fixed, sessions, waiting, Project, MayEnd,
       TypeOK
<1>21. Kinds'
  BY <1>1 DEF Kinds
<1>22. TicketForm'
  BY <1>1 DEF TicketForm, Last
<1>23. JobAlone'
  BY <1>1 DEF JobAlone
<1>24. AskAlone'
  BY <1>1 DEF AskAlone, Last
<1>25. PostHolds'
  BY <1>1 DEF PostHolds
<1>26. HandsAgree'
  BY <1>1 DEF HandsAgree, Last
<1>27. LateLogins'
  BY <1>1 DEF LateLogins, HandsAgree, TypeOK, PendingAuth
<1>28. Dead'
  BY <1>1 DEF Dead
<1>29. Complete'
  BY <1>1 DEF Complete, JobIdle, Last
<1>30. Persisted'
  BY <1>1 DEF Persisted, Last
<1>31. Owned'
  BY <1>1 DEF Owned, HandsAgree, TypeOK, PendingAuth
<1>32. Down'
  BY <1>1 DEF Down
<1>33. Actionable'
  BY <1>1 DEF Actionable
<1>34. RowHolds'
  BY <1>1 DEF RowHolds
<1> QED BY <1>21, <1>22, <1>23, <1>24, <1>25, <1>26, <1>27, <1>28, <1>29, <1>30, <1>31,
       <1>32, <1>33, <1>34

LEMMA CoreExpires ==
  ASSUME TypeOK, Orderly, ~canceled, Core, NEW s \in Logins, Expires(s)
  PROVE  Core'
<1> USE DEF Core, At, Is, Active, Posters, Hands, Completing, Past
<1>1. /\ late' = late \cup {s} /\ login[s] \notin {"unused", "import"}
      /\ UNCHANGED <<status, row, login, owned, pending, choice, givenUp, ticket, task, turns, mode>>
  BY DEF Expires, statuses, fixed, sessions, waiting, Project
<1>2. \A l \in Tasks : /\ ~Is(l, {"ask", "persist", "post", "finalize", "repost"})
                       /\ At(l, "read") => login[task[l].session] # "failed"
  BY DEF Expires, statuses, fixed, sessions, waiting, Project, PeopleAct, Posting, Orderly
<1>21. Kinds'
  BY <1>1, <1>2 DEF Kinds
<1>22. TicketForm'
  BY <1>1, <1>2 DEF TicketForm, Last
<1>23. JobAlone'
  BY <1>1, <1>2 DEF JobAlone
<1>24. AskAlone'
  BY <1>1, <1>2 DEF AskAlone
<1>25. PostHolds'
  BY <1>1, <1>2 DEF PostHolds
<1>26. HandsAgree'
  BY <1>1, <1>2 DEF HandsAgree, Last
<1>27. LateLogins'
  BY <1>1, <1>2 DEF LateLogins
<1>28. Dead'
  BY <1>1, <1>2 DEF Dead
<1>29. Complete'
  BY <1>1, <1>2 DEF Complete, JobIdle, Last
<1>30. Persisted'
  BY <1>1, <1>2 DEF Persisted, Last
<1>31. Owned'
  BY <1>1, <1>2 DEF Owned
<1>32. Down'
  BY <1>1, <1>2 DEF Down
<1>33. Actionable'
  BY <1>1, <1>2 DEF Actionable
<1>34. RowHolds'
  BY <1>1, <1>2 DEF RowHolds
<1> QED BY <1>21, <1>22, <1>23, <1>24, <1>25, <1>26, <1>27, <1>28, <1>29, <1>30, <1>31,
       <1>32, <1>33, <1>34

LEMMA CorePollArrives ==
  ASSUME TypeOK, Orderly, ~canceled, Core, NEW k \in Pollers, PollArrives(k)
  PROVE  Core'
<1> USE DEF Core, At, Is, Active, Posters, Hands, Completing, Past
<1>0. k \in Tasks /\ pending.session \in Logins
  BY TaskKinds, BoundsAssumption, NoneAssumption DEF PollArrives, statuses, fixed,
       sessions, waiting, Project,
       TypeOK, PendingAuth
<1>1. /\ task'[k].pc = "look" /\ task'[k].session = pending.session
      /\ task'[k].ticket = task[k].ticket /\ task'[k].source = task[k].source
      /\ \A l \in Tasks \ {k} : task'[l] = task[l]
  <2>1. task' = [task EXCEPT ![k].pc = "look", ![k].session = pending.session]
    BY DEF PollArrives, statuses, fixed, sessions, waiting, Project
  <2> QED BY <1>0, <2>1, Arriving DEF TaskPc
<1>2. /\ task[k].pc = "idle" /\ mode = "up" /\ pending # None /\ \A l \in Tasks : ~At(l, "clear")
      /\ UNCHANGED <<status, row, login, late, owned, pending, choice, givenUp, ticket, turns, mode>>
  BY DEF PollArrives, statuses, fixed, sessions, waiting, Project, Clearing, Orderly
<1>21. Kinds'
  BY <1>0, <1>1, <1>2, TaskKinds, Kindred DEF Kinds
<1>22. TicketForm'
  BY <1>0, <1>1, <1>2 DEF TicketForm, Last
<1>23. JobAlone'
  BY <1>0, <1>1, <1>2 DEF JobAlone
<1>24. AskAlone'
  BY <1>0, <1>1, <1>2 DEF AskAlone, Last
<1>25. PostHolds'
  BY <1>0, <1>1, <1>2 DEF PostHolds
<1>26. HandsAgree'
  BY <1>0, <1>1, <1>2 DEF HandsAgree, Last
<1>27. LateLogins'
  BY <1>0, <1>1, <1>2 DEF LateLogins
<1>28. Dead'
  BY <1>0, <1>1, <1>2 DEF Dead
<1>29. Complete'
  BY <1>0, <1>1, <1>2 DEF Complete, JobIdle, Last
<1>30. Persisted'
  BY <1>0, <1>1, <1>2 DEF Persisted, Last
<1>31. Owned'
  BY <1>0, <1>1, <1>2 DEF Owned
<1>32. Down'
  BY <1>0, <1>1, <1>2 DEF Down
<1>33. Actionable'
  BY <1>0, <1>1, <1>2 DEF Actionable
<1>34. RowHolds'
  BY <1>0, <1>1, <1>2 DEF RowHolds
<1> QED BY <1>21, <1>22, <1>23, <1>24, <1>25, <1>26, <1>27, <1>28, <1>29, <1>30, <1>31,
       <1>32, <1>33, <1>34

LEMMA CorePollLooks ==
  ASSUME TypeOK, Orderly, ~canceled, Core, NEW k \in Tasks, PollLooks(k)
  PROVE  Core'
<1> USE DEF Core, At, Is, Active, Posters, Hands, Completing, Past
<1> DEFINE s == task[k].session
           e == IF login[s] = "live" /\ s \in late THEN "expired" ELSE login[s]
<1>0. /\ task[k].pc = "look" /\ s \in Logins /\ login'[s] = e /\ \A r \in Logins \ {s} : login'[r] = login[r]
      /\ UNCHANGED <<status, row, late, owned, pending, choice, givenUp, ticket, turns, mode>>
  BY DEF PollLooks, statuses, fixed, sessions, waiting, Project, TypeOK, TaskOK
<1>2. Reconciled(s, e) = IF e = "succeeded" THEN "read" ELSE IF s \in late THEN "fail" ELSE "idle"
  BY DEF Reconciled, TimedOut
<1>1. /\ task'[k].pc = IF e = "succeeded" THEN "read" ELSE IF s \in late THEN "fail" ELSE "idle"
      /\ task'[k].session = task[k].session
      /\ task'[k].ticket = task[k].ticket /\ task'[k].source = task[k].source
      /\ \A l \in Tasks \ {k} : task'[l] = task[l]
  BY <1>2, Going DEF PollLooks, statuses, fixed, sessions, waiting, Project, TaskPc
<1>21. Kinds'
  BY <1>0, <1>1, TaskKinds, Kindred DEF Kinds
<1>22. TicketForm'
  BY <1>0, <1>1 DEF TicketForm, Last
<1>23. JobAlone'
  BY <1>0, <1>1 DEF JobAlone
<1>24. AskAlone'
  BY <1>0, <1>1 DEF AskAlone, Last
<1>25. PostHolds'
  BY <1>0, <1>1 DEF PostHolds, HandsAgree, LateLogins
<1>26. HandsAgree'
  BY <1>0, <1>1 DEF HandsAgree, Last, LateLogins, JobAlone, AskAlone, PostHolds, JobIdle,
       Complete
<1>27. LateLogins'
  BY <1>0, <1>1 DEF LateLogins, HandsAgree, TypeOK, PendingAuth
<1>28. Dead'
  BY <1>0, <1>1 DEF Dead, HandsAgree, LateLogins
<1>29. Complete'
  BY <1>0, <1>1 DEF Complete, JobIdle, Last, HandsAgree, LateLogins
<1>30. Persisted'
  BY <1>0, <1>1 DEF Persisted, Last
<1>31. Owned'
  BY <1>0, <1>1 DEF Owned, HandsAgree, LateLogins, TypeOK, PendingAuth
<1>32. Down'
  BY <1>0, <1>1 DEF Down
<1>33. Actionable'
  BY <1>0, <1>1 DEF Actionable
<1>34. RowHolds'
  BY <1>0, <1>1 DEF RowHolds, HandsAgree, LateLogins
<1> QED BY <1>21, <1>22, <1>23, <1>24, <1>25, <1>26, <1>27, <1>28, <1>29, <1>30, <1>31,
       <1>32, <1>33, <1>34

LEMMA CoreFailLogin ==
  ASSUME TypeOK, Orderly, ~canceled, Core, NEW k \in Tasks, FailLogin(k)
  PROVE  Core'
<1> USE DEF Core, At, Is, Active, Posters, Hands, Completing, Past
<1>1. /\ \/ /\ task[k].pc = "fail" /\ task'[k].pc \in {"idle", "failed"}
            /\ pending' = None /\ choice' = 0 /\ givenUp' /\ row' = row
         \/ /\ task[k].pc = "failed" /\ task'[k].pc = "idle"
            /\ row' = "failed" /\ UNCHANGED <<pending, choice, givenUp>>
      /\ task'[k].session = task[k].session
      /\ task'[k].ticket = task[k].ticket /\ task'[k].source = task[k].source
      /\ \A l \in Tasks \ {k} : task'[l] = task[l]
      /\ UNCHANGED <<status, login, late, owned, ticket, turns, mode>>
  BY Going DEF FailLogin, statuses, fixed, sessions, waiting, Project, TaskPc
<1>2. task[k].pc = "fail" => /\ status = "waiting_auth"
                          /\ \A l \in Tasks : Is(l, {"idle", "done", "look", "input", "fail", "failed"})
  BY FailAlone
<1>21. Kinds'
  BY <1>1, <1>2, TaskKinds, Kindred DEF Kinds
<1>22. TicketForm'
  BY <1>1, <1>2 DEF TicketForm, Last
<1>23. JobAlone'
  BY <1>1, <1>2 DEF JobAlone
<1>24. AskAlone'
  BY <1>1, <1>2 DEF AskAlone, Last
<1>25. PostHolds'
  BY <1>1, <1>2 DEF PostHolds
<1>26. HandsAgree'
  BY <1>1, <1>2 DEF HandsAgree, Dead, Last
<1>27. LateLogins'
  BY <1>1, <1>2 DEF LateLogins
<1>28. Dead'
  BY <1>1, <1>2 DEF Dead
<1>29. Complete'
  BY <1>1, <1>2 DEF Complete, JobIdle, Last
<1>30. Persisted'
  BY <1>1, <1>2 DEF Persisted, Last, HandsAgree, Dead
<1>31. Owned'
  BY <1>1, <1>2 DEF Owned, HandsAgree, Dead
<1>32. Down'
  BY <1>1, <1>2 DEF Down
<1>33. Actionable'
  BY <1>1, <1>2 DEF Actionable, Dead
<1>34. RowHolds'
  BY <1>1, <1>2 DEF RowHolds, Dead
<1> QED BY <1>21, <1>22, <1>23, <1>24, <1>25, <1>26, <1>27, <1>28, <1>29, <1>30, <1>31,
       <1>32, <1>33, <1>34

LEMMA CoreReadSource ==
  ASSUME TypeOK, Orderly, ~canceled, Core, NEW k \in Tasks, ReadSource(k)
  PROVE  Core'
<1> USE DEF Core, At, Is, Active, Posters, Hands, Completing, Past
<1>0. /\ task[k].pc = "read" /\ pending # None /\ SourceAttempt(context) = pending.source /\ pending.source \in 0..(LastLogin + 1)
      /\ UNCHANGED <<status, row, login, late, owned, pending, choice, givenUp, ticket, turns, mode>>
  BY BoundsAssumption DEF ReadSource, statuses, fixed, sessions, waiting, Project,
       HandsAgree, SourceAttempt,
       TypeOK, PendingAuth
<1>1. /\ task'[k].pc = IF login[task[k].session] = "succeeded" THEN "issue" ELSE "repost"
      /\ task'[k].session = task[k].session
      /\ task'[k].ticket = task[k].ticket /\ task'[k].source = pending.source
      /\ \A l \in Tasks \ {k} : task'[l] = task[l]
  <2>1. PICK p \in {"issue", "repost"} :
          /\ task' = [task EXCEPT ![k].pc = p, ![k].source = pending.source]
          /\ p = IF login[task[k].session] = "succeeded" THEN "issue" ELSE "repost"
    <3> DEFINE p == IF login[task[k].session] = "succeeded" THEN "issue" ELSE "repost"
    <3> WITNESS p \in {"issue", "repost"}
    <3> QED BY <1>0 DEF ReadSource, statuses, fixed, sessions, waiting, Project
  <2> QED BY <1>0, <2>1 DEF TypeOK, TaskRecord
<1>2. pending.source = Last /\ task[k].session = pending.session
  BY <1>0 DEF Persisted, HandsAgree
<1>3. IF login[task[k].session] = "succeeded"
      THEN /\ status = "waiting_auth" /\ \A l \in Tasks : ~Is(l, Past)
           /\ \A l \in Tasks : Is(l, {"idle", "done", "look", "input", "read"} \cup Completing)
      ELSE \A l \in Tasks \ {k} : Is(l, {"idle", "done", "look", "input"})
  BY <1>0, ReadAlone DEF HandsAgree
<1>21. Kinds'
  BY <1>0, <1>1, TaskKinds, Kindred DEF Kinds, HandsAgree, Persisted
<1>22. TicketForm'
  BY <1>0, <1>1 DEF TicketForm, Last
<1>23. JobAlone'
  BY <1>0, <1>1 DEF JobAlone
<1>24. AskAlone'
  BY <1>0, <1>1 DEF AskAlone, Last
<1>25. PostHolds'
  BY <1>0, <1>1, TaskKinds, Kindred DEF Kinds, TicketForm, JobAlone, AskAlone, PostHolds,
       HandsAgree, LateLogins, Dead, Complete, Persisted, Owned, Down, Actionable, JobIdle,
       Last, TypeOK, PendingAuth
<1>26. HandsAgree'
  BY <1>0, <1>1 DEF HandsAgree, Last, Persisted
<1>27. LateLogins'
  BY <1>0, <1>1 DEF LateLogins
<1>28. Dead'
  BY <1>0, <1>1 DEF Dead
<1>29. Complete'
  BY <1>0, <1>1, <1>2, <1>3 DEF Complete, JobIdle, Last
<1>30. Persisted'
  BY <1>0, <1>1 DEF Persisted, Last
<1>31. Owned'
  BY <1>0, <1>1 DEF Owned
<1>32. Down'
  BY <1>0, <1>1 DEF Down
<1>33. Actionable'
  BY <1>0, <1>1 DEF Actionable
<1>34. RowHolds'
  BY <1>0, <1>1 DEF RowHolds
<1> QED BY <1>21, <1>22, <1>23, <1>24, <1>25, <1>26, <1>27, <1>28, <1>29, <1>30, <1>31,
       <1>32, <1>33, <1>34

LEMMA CoreIssueTicket ==
  ASSUME TypeOK, Orderly, ~canceled, Core, NEW k \in Tasks, IssueTicket(k)
  PROVE  Core'
<1> USE DEF Core, At, Is, Active, Posters, Hands, Completing, Past
<1>0. /\ ticket' = IF ticket.id # 0 /\ ticket.source = task[k].source THEN ticket
                    ELSE [id |-> ticket.id + 1, source |-> task[k].source, state |-> "issued"]
      /\ ticket'.id \in 0..MaxTicket /\ task[k].pc = "issue"
      /\ UNCHANGED <<status, row, login, late, owned, pending, choice, givenUp, turns, mode>>
  BY DEF IssueTicket, statuses, fixed, sessions, waiting, Project, SameTicket, TypeOK
<1>1. /\ task'[k].pc = "dispatch" /\ task'[k].session = task[k].session
      /\ task'[k].ticket = ticket'.id /\ task'[k].source = task[k].source
      /\ \A l \in Tasks \ {k} : task'[l] = task[l]
  <2>1. task' = [task EXCEPT ![k].pc = "dispatch", ![k].ticket = ticket'.id]
    BY DEF IssueTicket, statuses, fixed, sessions, waiting, Project
  <2> QED BY <1>0, <2>1 DEF TypeOK, TaskRecord
<1>21. Kinds'
  BY <1>0, <1>1, TaskKinds, Kindred DEF Kinds
<1>22. TicketForm'
  BY <1>0, <1>1 DEF TicketForm, Last, Complete, JobAlone, JobIdle, TypeOK, PendingAuth
<1>23. JobAlone'
  BY <1>0, <1>1 DEF JobAlone
<1>24. AskAlone'
  BY <1>0, <1>1 DEF AskAlone, Last
<1>25. PostHolds'
  BY <1>0, <1>1 DEF PostHolds
<1>26. HandsAgree'
  BY <1>0, <1>1 DEF HandsAgree, Last, Complete, JobAlone, JobIdle
<1>27. LateLogins'
  BY <1>0, <1>1 DEF LateLogins
<1>28. Dead'
  BY <1>0, <1>1 DEF Dead
<1>29. Complete'
  <2>1. CASE ticket' = ticket
    <3>1. /\ ticket.id # 0 /\ ticket.source = task[k].source /\ Last' = Last
          /\ JobIdle' => JobIdle
      BY <1>0, <1>1, <2>1 DEF JobIdle, Last, TypeOK
    <3>2. JobIdle => ticket.state \in {"issued", "dispatched"}
      BY <1>0, <3>1 DEF Complete, Last, TypeOK, TicketState
    <3> QED BY <1>0, <1>1, <2>1, <3>1, <3>2 DEF Complete
  <2>2. CASE ticket' # ticket
    <3>1. /\ ticket'.id = ticket.id + 1 /\ ticket'.source = task[k].source /\ ticket'.state = "issued"
          /\ ~(ticket.id # 0 /\ ticket.source = task[k].source)
      BY <1>0, <2>2
    <3>2. JobIdle
      BY <1>0, <3>1 DEF JobIdle, JobAlone
    <3>3. task[k].source = Last /\ ticket.state \notin {"issued", "dispatched"}
      BY <1>0, <3>1, <3>2 DEF Complete, Last, TicketForm
    <3>4. ticket'.id # 0 /\ Last' = Last
      BY <1>0, <3>1, <3>3 DEF Last, TypeOK
    <3>5. \A l \in Tasks : Is(l, Completing) => At(l, "issue")
      BY <3>2, <3>3 DEF Complete
    <3>6. \A l \in Tasks : ~Is(l, Past) /\ ~Is(l, Past)'
      BY <1>1, <3>5
    <3> QED BY <1>0, <1>1, <3>1, <3>2, <3>3, <3>4, <3>5, <3>6 DEF Complete
  <2> QED BY <2>1, <2>2
<1>30. Persisted'
  BY <1>0, <1>1 DEF Persisted, Last, Complete, JobAlone, JobIdle
<1>31. Owned'
  BY <1>0, <1>1 DEF Owned
<1>32. Down'
  BY <1>0, <1>1 DEF Down
<1>33. Actionable'
  BY <1>0, <1>1 DEF Actionable
<1>34. RowHolds'
  BY <1>0, <1>1 DEF RowHolds
<1> QED BY <1>21, <1>22, <1>23, <1>24, <1>25, <1>26, <1>27, <1>28, <1>29, <1>30, <1>31,
       <1>32, <1>33, <1>34

LEMMA CoreDispatchTicket ==
  ASSUME TypeOK, Orderly, ~canceled, Core, NEW k \in Tasks, DispatchTicket(k)
  PROVE  Core'
<1> USE DEF Core, At, Is, Active, Posters, Hands, Completing, Past
<1>1. /\ task[k].pc = "dispatch"
      /\ task'[k].pc = IF ticket.id = task[k].ticket /\ ticket.state = "issued" THEN "clear" ELSE "idle"
      /\ task'[k].session = task[k].session
      /\ task'[k].ticket = task[k].ticket /\ task'[k].source = task[k].source
      /\ \A l \in Tasks \ {k} : task'[l] = task[l]
      /\ UNCHANGED <<status, row, login, late, owned, pending, choice, givenUp, turns, mode>>
  BY Going DEF DispatchTicket, statuses, fixed, sessions, waiting, Project, TaskPc
<1>2. /\ ticket'.id = ticket.id /\ ticket'.source = ticket.source
      /\ ticket'.state = IF ticket.id = task[k].ticket /\ ticket.state = "issued" THEN "dispatched" ELSE ticket.state
  BY DEF DispatchTicket, statuses, fixed, sessions, waiting, Project, TypeOK
<1>21. Kinds'
  BY <1>1, <1>2, TaskKinds, Kindred DEF Kinds
<1>22. TicketForm'
  BY <1>1, <1>2 DEF TicketForm, Last
<1>23. JobAlone'
  BY <1>1, <1>2 DEF JobAlone
<1>24. AskAlone'
  BY <1>1, <1>2 DEF AskAlone, Last
<1>25. PostHolds'
  BY <1>1, <1>2 DEF PostHolds
<1>26. HandsAgree'
  BY <1>1, <1>2 DEF HandsAgree, Last
<1>27. LateLogins'
  BY <1>1, <1>2 DEF LateLogins
<1>28. Dead'
  BY <1>1, <1>2 DEF Dead
<1>29. Complete'
  BY <1>1, <1>2 DEF Complete, JobIdle, Last
<1>30. Persisted'
  BY <1>1, <1>2 DEF Persisted, Last
<1>31. Owned'
  BY <1>1, <1>2 DEF Owned
<1>32. Down'
  BY <1>1, <1>2 DEF Down
<1>33. Actionable'
  BY <1>1, <1>2 DEF Actionable
<1>34. RowHolds'
  BY <1>1, <1>2 DEF RowHolds
<1> QED BY <1>21, <1>22, <1>23, <1>24, <1>25, <1>26, <1>27, <1>28, <1>29, <1>30, <1>31,
       <1>32, <1>33, <1>34

LEMMA CoreClearPending ==
  ASSUME TypeOK, Orderly, ~canceled, Core, NEW k \in Tasks, ClearPending(k)
  PROVE  Core'
<1> USE DEF Core, At, Is, Active, Posters, Hands, Completing, Past
<1>1. /\ \/ /\ task[k].pc = "clear" /\ task'[k].pc = "forget"
            /\ pending' = None /\ choice' = 0 /\ givenUp' = givenUp
            /\ \A l \in Tasks : ~Is(l, {"look", "input", "read"})
         \/ /\ task[k].pc = "forget" /\ task'[k].pc = "queue"
            /\ UNCHANGED <<pending, choice, givenUp>>
      /\ task'[k].session = task[k].session
      /\ task'[k].ticket = task[k].ticket /\ task'[k].source = task[k].source
      /\ \A l \in Tasks \ {k} : task'[l] = task[l]
      /\ UNCHANGED <<status, row, login, late, owned, ticket, turns, mode>>
  BY Going DEF ClearPending, statuses, fixed, sessions, waiting, Project, TaskPc,
       Reading, Orderly
<1>21. Kinds'
  BY <1>1, TaskKinds, Kindred DEF Kinds
<1>22. TicketForm'
  BY <1>1 DEF TicketForm, Last
<1>23. JobAlone'
  BY <1>1 DEF JobAlone
<1>24. AskAlone'
  BY <1>1 DEF AskAlone, Last
<1>25. PostHolds'
  BY <1>1 DEF PostHolds
<1>26. HandsAgree'
  BY <1>1 DEF HandsAgree, Last, Complete, JobAlone, JobIdle
<1>27. LateLogins'
  BY <1>1 DEF LateLogins
<1>28. Dead'
  BY <1>1 DEF Dead
<1>29. Complete'
  BY <1>1 DEF Complete, JobIdle, Last
<1>30. Persisted'
  BY <1>1 DEF Persisted, Last
<1>31. Owned'
  BY <1>1 DEF Owned, Complete, JobAlone, JobIdle
<1>32. Down'
  BY <1>1 DEF Down
<1>33. Actionable'
  BY <1>1 DEF Actionable
<1>34. RowHolds'
  BY <1>1 DEF RowHolds
<1> QED BY <1>21, <1>22, <1>23, <1>24, <1>25, <1>26, <1>27, <1>28, <1>29, <1>30, <1>31,
       <1>32, <1>33, <1>34

LEMMA CoreResumeQueue ==
  ASSUME TypeOK, Orderly, ~canceled, Core, NEW k \in Tasks, Resume(k), At(k, "queue")
  PROVE  Core'
<1> USE DEF Core, At, Is, Active, Posters, Hands, Completing, Past
<1>1. /\ task[k].pc = "queue" /\ task'[k].pc = "schedule" /\ task'[k].session = task[k].session
      /\ task'[k].ticket = task[k].ticket /\ task'[k].source = task[k].source
      /\ \A l \in Tasks \ {k} : task'[l] = task[l]
      /\ status' = "queued" /\ row' = "queued"
      /\ UNCHANGED <<login, late, owned, pending, choice, givenUp, ticket, turns, mode>>
  BY Going DEF Resume, statuses, fixed, sessions, waiting, Project, TaskPc
<1>21. Kinds'
  BY <1>1, TaskKinds, Kindred DEF Kinds
<1>22. TicketForm'
  BY <1>1 DEF TicketForm, Last, Complete, JobAlone, JobIdle
<1>23. JobAlone'
  BY <1>1 DEF JobAlone
<1>24. AskAlone'
  BY <1>1 DEF AskAlone, Last
<1>25. PostHolds'
  BY <1>1 DEF PostHolds
<1>26. HandsAgree'
  BY <1>1 DEF HandsAgree, Last
<1>27. LateLogins'
  BY <1>1 DEF LateLogins
<1>28. Dead'
  BY <1>1 DEF Dead
<1>29. Complete'
  BY <1>1 DEF Complete, JobIdle, Last
<1>30. Persisted'
  BY <1>1 DEF Persisted, Last, Complete, JobAlone, JobIdle
<1>31. Owned'
  BY <1>1 DEF Owned
<1>32. Down'
  BY <1>1 DEF Down
<1>33. Actionable'
  BY <1>1 DEF Actionable
<1>34. RowHolds'
  BY <1>1 DEF RowHolds
<1> QED BY <1>21, <1>22, <1>23, <1>24, <1>25, <1>26, <1>27, <1>28, <1>29, <1>30, <1>31,
       <1>32, <1>33, <1>34

LEMMA CoreResumeSchedule ==
  ASSUME TypeOK, Orderly, ~canceled, Core, NEW k \in Tasks, Resume(k), At(k, "schedule")
  PROVE  Core'
<1> USE DEF Core, At, Is, Active, Posters, Hands, Completing, Past
<1>0. /\ k \notin Jobs /\ task[k].ticket = ticket.id /\ task[k].source = ticket.source
      /\ JobIdle /\ ticket.id # 0 /\ ticket.state = "dispatched" /\ pending = None /\ choice = 0
      /\ status = "queued" /\ \A l \in Tasks \ {k} : Is(l, {"idle", "done", "issue", "dispatch"})
  <2>1. k \notin Jobs
    BY Kindred DEF Kinds
  <2>2. JobIdle
    BY DEF JobIdle, JobAlone
  <2> QED BY <2>1, <2>2 DEF Complete
<1>2. PICK j \in Jobs :
      /\ j \in Tasks /\ task' = [task EXCEPT ![k].pc = "idle", ![j] = TaskAt("new", ticket.id, ticket.source + 1)]
      /\ UNCHANGED <<status, row, login, late, owned, pending, choice, givenUp, ticket, turns, mode>>
  BY <1>0 DEF Resume, statuses, fixed, sessions, waiting, Project, Jobs, Tasks, TypeOK
<1>1. /\ task'[k].pc = "idle" /\ task'[j].pc = "new" /\ task'[j].ticket = ticket.id
      /\ task'[j].source = ticket.source + 1
      /\ \A l \in Tasks \ {k, j} : task'[l] = task[l]
  BY <1>0, <1>2 DEF TaskAt, TypeOK, TaskRecord
<1>3. /\ j \in Jobs /\ j \in Tasks
      /\ UNCHANGED <<status, row, login, late, owned, pending, choice, givenUp, ticket, turns, mode>>
  BY <1>2
<1>4. /\ \A b \in Attempts : b >= ticket.source + 1 => turns[b] = 0
      /\ \A l \in Tasks \ {k} : Is(l, {"issue", "dispatch"}) => task[l].source = ticket.source
  <2>1. \A b \in Attempts : b >= ticket.source + 1 => b > ticket.source
    BY DEF Attempts, TypeOK
  <2> QED BY <1>0, <2>1 DEF TicketForm, Last, Complete
<1>21. Kinds'
  BY <1>0, <1>1, <1>3, TaskKinds, Kindred DEF Kinds
<1>22. TicketForm'
  BY <1>0, <1>1, <1>3 DEF TicketForm, Last
<1>23. JobAlone'
  BY <1>0, <1>1, <1>3, <1>4 DEF JobAlone
<1>24. AskAlone'
  BY <1>0, <1>1, <1>3 DEF AskAlone, Last
<1>25. PostHolds'
  BY <1>0, <1>1, <1>3 DEF PostHolds
<1>26. HandsAgree'
  BY <1>0, <1>1, <1>3 DEF HandsAgree, Last
<1>27. LateLogins'
  BY <1>0, <1>1, <1>3 DEF LateLogins
<1>28. Dead'
  BY <1>0, <1>1, <1>3 DEF Dead
<1>29. Complete'
  BY <1>0, <1>1, <1>3 DEF Complete, JobIdle, Last
<1>30. Persisted'
  BY <1>0, <1>1, <1>3 DEF Persisted, Last
<1>31. Owned'
  BY <1>0, <1>1, <1>3 DEF Owned
<1>32. Down'
  BY <1>0, <1>1, <1>3 DEF Down
<1>33. Actionable'
  BY <1>0, <1>1, <1>3 DEF Actionable
<1>34. RowHolds'
  BY <1>0, <1>1, <1>3 DEF RowHolds
<1> QED BY <1>21, <1>22, <1>23, <1>24, <1>25, <1>26, <1>27, <1>28, <1>29, <1>30, <1>31,
       <1>32, <1>33, <1>34

LEMMA CoreRepostCallback ==
  ASSUME TypeOK, Orderly, ~canceled, Core, NEW k \in Tasks, RepostCallback(k)
  PROVE  Core'
<1> USE DEF Core, At, Is, Active, Posters, Hands, Completing, Past
<1>1. /\ k \in Callbacks /\ task[k].pc = "repost" /\ task'[k].pc = "idle"
      /\ task'[k].session = task[k].session
      /\ task'[k].ticket = task[k].ticket /\ task'[k].source = task[k].source
      /\ \A l \in Tasks \ {k} : task'[l] = task[l]
      /\ UNCHANGED <<status, row, login, late, owned, choice, ticket, turns, mode>>
  BY Going DEF RepostCallback, statuses, fixed, sessions, waiting, Project, TaskPc
<1>2. /\ pending' # None /\ pending'.session = task[k].session /\ pending'.source = task[k].source
  BY NoneAssumption DEF RepostCallback, statuses, fixed, sessions, waiting, Project,
       SetPending, TypeOK, TaskOK,
       TaskRecord, Logins
<1>3. /\ pending # None /\ pending'.session = pending.session
  BY <1>1, <1>2 DEF PostHolds, HandsAgree
<1>21. Kinds'
  BY <1>1, <1>2, <1>3, TaskKinds, Kindred DEF Kinds
<1>22. TicketForm'
  BY <1>1, <1>2, <1>3 DEF TicketForm, Last
<1>23. JobAlone'
  BY <1>1, <1>2, <1>3 DEF JobAlone
<1>24. AskAlone'
  BY <1>1, <1>2, <1>3 DEF AskAlone, Last
<1>25. PostHolds'
  BY <1>1, <1>2, <1>3, TaskKinds, Kindred DEF PostHolds, Kinds
<1>26. HandsAgree'
  BY <1>1, <1>2, <1>3 DEF HandsAgree, Last
<1>27. LateLogins'
  BY <1>1, <1>2, <1>3 DEF LateLogins
<1>28. Dead'
  BY <1>1, <1>2, <1>3 DEF Dead
<1>29. Complete'
  BY <1>1, <1>2, <1>3 DEF Complete, JobIdle, Last
<1>30. Persisted'
  BY <1>1, <1>2, <1>3 DEF Persisted, Last, PostHolds, HandsAgree
<1>31. Owned'
  BY <1>1, <1>2, <1>3 DEF Owned
<1>32. Down'
  BY <1>1, <1>2, <1>3 DEF Down
<1>33. Actionable'
  BY <1>1, <1>2, <1>3 DEF Actionable
<1>34. RowHolds'
  BY <1>1, <1>2, <1>3 DEF RowHolds
<1> QED BY <1>21, <1>22, <1>23, <1>24, <1>25, <1>26, <1>27, <1>28, <1>29, <1>30, <1>31,
       <1>32, <1>33, <1>34

LEMMA CoreRepostInput ==
  ASSUME TypeOK, Orderly, ~canceled, Core, NEW k \in Tasks, RepostInput(k)
  PROVE  Core'
<1> USE DEF Core, At, Is, Active, Posters, Hands, Completing, Past
<1>1. /\ k \in Submitters /\ task[k].pc = "repost" /\ task'[k].pc = "post"
      /\ task'[k].session = task[k].session
      /\ task'[k].ticket = task[k].ticket /\ task'[k].source = task[k].source
      /\ \A l \in Tasks \ {k} : task'[l] = task[l]
      /\ UNCHANGED <<status, row, login, late, owned, choice, ticket, turns, mode>>
  BY Going DEF RepostInput, statuses, fixed, sessions, waiting, Project, TaskPc
<1>2. /\ pending' # None /\ pending'.session = task[k].session /\ pending'.source = task[k].source
  BY NoneAssumption DEF RepostInput, statuses, fixed, sessions, waiting, Project,
       SetPending, TypeOK, TaskOK,
       TaskRecord, Logins
<1>3. /\ pending # None /\ pending'.session = pending.session
  BY <1>1, <1>2 DEF PostHolds, HandsAgree
<1>21. Kinds'
  BY <1>1, <1>2, <1>3, TaskKinds, Kindred DEF Kinds
<1>22. TicketForm'
  BY <1>1, <1>2, <1>3 DEF TicketForm, Last
<1>23. JobAlone'
  BY <1>1, <1>2, <1>3 DEF JobAlone
<1>24. AskAlone'
  BY <1>1, <1>2, <1>3 DEF AskAlone, Last
<1>25. PostHolds'
  BY <1>1, <1>2, <1>3, TaskKinds, Kindred DEF PostHolds, Kinds
<1>26. HandsAgree'
  BY <1>1, <1>2, <1>3 DEF HandsAgree, Last
<1>27. LateLogins'
  BY <1>1, <1>2, <1>3 DEF LateLogins
<1>28. Dead'
  BY <1>1, <1>2, <1>3 DEF Dead
<1>29. Complete'
  BY <1>1, <1>2, <1>3 DEF Complete, JobIdle, Last
<1>30. Persisted'
  BY <1>1, <1>2, <1>3 DEF Persisted, Last, PostHolds, HandsAgree
<1>31. Owned'
  BY <1>1, <1>2, <1>3 DEF Owned
<1>32. Down'
  BY <1>1, <1>2, <1>3 DEF Down
<1>33. Actionable'
  BY <1>1, <1>2, <1>3 DEF Actionable
<1>34. RowHolds'
  BY <1>1, <1>2, <1>3 DEF RowHolds
<1> QED BY <1>21, <1>22, <1>23, <1>24, <1>25, <1>26, <1>27, <1>28, <1>29, <1>30, <1>31,
       <1>32, <1>33, <1>34

LEMMA CoreInputArrives ==
  ASSUME TypeOK, Orderly, ~canceled, Core, NEW k \in Submitters, InputArrives(k)
  PROVE  Core'
<1> USE DEF Core, At, Is, Active, Posters, Hands, Completing, Past
<1>0. k \in Tasks /\ pending.session \in Logins /\ pending.source \in 0..(LastLogin + 1)
  BY TaskKinds, BoundsAssumption, NoneAssumption DEF InputArrives, statuses, fixed,
       sessions, waiting, Project,
       TypeOK, PendingAuth
<1>1. /\ task'[k].pc = "input" /\ task'[k].session = pending.session
      /\ task'[k].ticket = task[k].ticket /\ task'[k].source = pending.source
      /\ \A l \in Tasks \ {k} : task'[l] = task[l]
  <2>1. task' = [task EXCEPT ![k].pc = "input", ![k].session = pending.session,
                             ![k].source = pending.source]
    BY DEF InputArrives, statuses, fixed, sessions, waiting, Project
  <2> QED BY <1>0, <2>1 DEF TypeOK, TaskRecord
<1>2. \A l \in Tasks : /\ ~Is(l, {"ask", "persist", "post", "finalize", "repost"})
                       /\ At(l, "read") => login[task[l].session] # "failed"
  BY DEF InputArrives, statuses, fixed, sessions, waiting, Project, PeopleAct, Posting,
       Orderly
<1>3. /\ task[k].pc = "idle" /\ mode = "up" /\ pending # None /\ status = "waiting_auth"
      /\ \A l \in Tasks : ~At(l, "clear")
      /\ UNCHANGED <<status, row, login, late, owned, pending, choice, givenUp, ticket, turns, mode>>
  BY DEF InputArrives, statuses, fixed, sessions, waiting, Project, Clearing, Orderly
<1>21. Kinds'
  BY <1>0, <1>1, <1>2, <1>3, TaskKinds, Kindred DEF Kinds
<1>22. TicketForm'
  BY <1>0, <1>1, <1>2, <1>3 DEF TicketForm, Last
<1>23. JobAlone'
  BY <1>0, <1>1, <1>2, <1>3 DEF JobAlone
<1>24. AskAlone'
  BY <1>0, <1>1, <1>2, <1>3 DEF AskAlone, Last
<1>25. PostHolds'
  BY <1>1, <1>2, <1>3 DEF PostHolds
<1>26. HandsAgree'
  BY <1>0, <1>1, <1>2, <1>3 DEF HandsAgree, Last, Persisted
<1>27. LateLogins'
  BY <1>0, <1>1, <1>2, <1>3 DEF LateLogins
<1>28. Dead'
  BY <1>0, <1>1, <1>2, <1>3 DEF Dead
<1>29. Complete'
  BY <1>0, <1>1, <1>2, <1>3 DEF Complete, JobIdle, Last
<1>30. Persisted'
  BY <1>0, <1>1, <1>2, <1>3 DEF Persisted, Last
<1>31. Owned'
  BY <1>0, <1>1, <1>2, <1>3 DEF Owned
<1>32. Down'
  BY <1>0, <1>1, <1>2, <1>3 DEF Down
<1>33. Actionable'
  BY <1>0, <1>1, <1>2, <1>3 DEF Actionable
<1>34. RowHolds'
  BY <1>0, <1>1, <1>2, <1>3 DEF RowHolds
<1> QED BY <1>21, <1>22, <1>23, <1>24, <1>25, <1>26, <1>27, <1>28, <1>29, <1>30, <1>31,
       <1>32, <1>33, <1>34

LEMMA CoreInput ==
  ASSUME TypeOK, Orderly, ~canceled, Core, NEW k \in Tasks, Input(k)
  PROVE  Core'
<1> USE DEF Core, At, Is, Active, Posters, Hands, Completing, Past
<1> DEFINE s == task[k].session
<1>0. /\ task[k].pc = "input" /\ s \in Logins /\ \A r \in Logins \ {s} : login'[r] = login[r]
      /\ UNCHANGED <<status, row, late, owned, pending, choice, givenUp, ticket, turns, mode>>
  BY DEF Input, statuses, fixed, sessions, waiting, Project, TypeOK, TaskOK
<1>1. PICK p \in {"repost", "issue", "idle", "read"} :
      /\ task'[k].pc = p /\ task'[k].session = task[k].session
      /\ task'[k].ticket = task[k].ticket /\ task'[k].source = task[k].source
      /\ \A l \in Tasks \ {k} : task'[l] = task[l]
      /\ \/ /\ login[s] = "live" /\ s \notin late
            /\ \/ p = "repost" /\ login'[s] \in {"live", "failed"}
               \/ p = "issue" /\ login'[s] = "succeeded"
         \/ login[s] = "live" /\ s \in late /\ login'[s] = "expired" /\ p = "idle"
         \/ login[s] # "live" /\ login'[s] = login[s] /\ p = IF login[s] = "succeeded" THEN "read" ELSE "idle"
  <2>1. PICK p \in {"repost", "issue", "idle", "read"} :
      /\ Goto(k, p)
      /\ \/ /\ login[s] = "live" /\ s \notin late
            /\ \/ p = "repost" /\ login'[s] \in {"live", "failed"}
               \/ p = "issue" /\ login'[s] = "succeeded"
         \/ login[s] = "live" /\ s \in late /\ login'[s] = "expired" /\ p = "idle"
         \/ login[s] # "live" /\ login'[s] = login[s] /\ p = IF login[s] = "succeeded" THEN "read" ELSE "idle"
    BY <1>0 DEF Input, statuses, fixed, sessions, waiting, Project, TypeOK
  <2> QED BY <2>1, Going DEF TaskPc
<1>2. \A l \in Tasks \ {k} : ~At(l, "input")
  BY <1>0, OneSubmitter DEF Kinds
<1>3. login[s] = "live" /\ s \notin late =>
      /\ pending # None /\ pending.session = s
      /\ \A l \in Tasks : Is(l, {"idle", "done", "look", "input"})
  BY <1>0, LiveInput
<1>21. Kinds'
  BY <1>0, <1>1, <1>2, <1>3, TaskKinds, Kindred DEF Kinds
<1>22. TicketForm'
  BY <1>0, <1>1, <1>2, <1>3 DEF TicketForm, Last
<1>23. JobAlone'
  BY <1>0, <1>1, <1>2, <1>3 DEF JobAlone
<1>24. AskAlone'
  BY <1>0, <1>1, <1>2, <1>3 DEF AskAlone, Last
<1>25. PostHolds'
  BY <1>0, <1>1, <1>2, <1>3, TaskKinds, Kindred DEF Kinds, TicketForm, JobAlone, AskAlone,
       PostHolds, HandsAgree, LateLogins, Dead, Complete, Persisted, Owned, Down, Actionable,
       JobIdle, Last, TypeOK, PendingAuth
<1>26. HandsAgree'
  BY <1>0, <1>1, <1>2, <1>3, TaskKinds, Kindred DEF HandsAgree, Last, LateLogins,
       JobAlone,
       AskAlone, PostHolds, Dead, Complete, JobIdle, Persisted, Kinds
<1>27. LateLogins'
  BY <1>0, <1>1, <1>2, <1>3, TaskKinds, Kindred DEF Kinds, TicketForm, JobAlone, AskAlone,
       PostHolds, HandsAgree, LateLogins, Dead, Complete, Persisted, Owned, Down, Actionable,
       JobIdle, Last, TypeOK, PendingAuth
<1>28. Dead'
  BY <1>0, <1>1, <1>2, <1>3 DEF Dead, HandsAgree, LateLogins
<1>29. Complete'
  BY <1>0, <1>1, <1>2, <1>3, TaskKinds, Kindred DEF Kinds, TicketForm, JobAlone, AskAlone,
       PostHolds, HandsAgree, LateLogins, Dead, Complete, Persisted, Owned, Down, Actionable,
       JobIdle, Last, TypeOK, PendingAuth
<1>30. Persisted'
  BY <1>0, <1>1, <1>2, <1>3 DEF Persisted, Last
<1>31. Owned'
  BY <1>0, <1>1, <1>2, <1>3, TaskKinds, Kindred DEF Kinds, TicketForm, JobAlone, AskAlone,
       PostHolds, HandsAgree, LateLogins, Dead, Complete, Persisted, Owned, Down, Actionable,
       JobIdle, Last, TypeOK, PendingAuth
<1>32. Down'
  BY <1>0, <1>1, <1>2, <1>3 DEF Down
<1>33. Actionable'
  BY <1>0, <1>1, <1>2, <1>3 DEF Actionable
<1>34. RowHolds'
  BY <1>0, <1>1, <1>2, <1>3 DEF RowHolds, HandsAgree
<1> QED BY <1>21, <1>22, <1>23, <1>24, <1>25, <1>26, <1>27, <1>28, <1>29, <1>30, <1>31,
       <1>32, <1>33, <1>34

LEMMA CoreImportArrives ==
  ASSUME TypeOK, Orderly, ~canceled, Core, NEW k \in Submitters, ImportArrives(k)
  PROVE  Core'
<1> USE DEF Core, At, Is, Active, Posters, Hands, Completing, Past
<1>0. k \in Tasks /\ SourceAttempt(choice) = Last /\ Last \in 0..(LastLogin + 1)
  <2>1. k \in Tasks /\ (pending # None \/ choice # 0)
    BY TaskKinds DEF ImportArrives, statuses, fixed, sessions, waiting, Project
  <2>2. SourceAttempt(choice) = Last
    BY <2>1 DEF SourceAttempt, Persisted
  <2>3. SourceAttempt(choice) \in 0..(LastLogin + 1)
    BY SourceIsAttempt, BoundsAssumption DEF TypeOK
  <2> QED BY <2>1, <2>2, <2>3
<1>1. /\ task'[k].pc = "issue" /\ task'[k].session = task[k].session
      /\ task'[k].ticket = task[k].ticket /\ task'[k].source = Last
      /\ \A l \in Tasks \ {k} : task'[l] = task[l]
  <2>1. task' = [task EXCEPT ![k].pc = "issue", ![k].source = Last]
    BY <1>0 DEF ImportArrives, statuses, fixed, sessions, waiting, Project
  <2> QED BY <1>0, <2>1 DEF TypeOK, TaskRecord
<1>2. \A l \in Tasks : /\ ~Is(l, {"ask", "persist", "post", "finalize", "repost"})
                       /\ At(l, "read") => login[task[l].session] # "failed"
  BY DEF ImportArrives, statuses, fixed, sessions, waiting, Project, PeopleAct,
       Posting, Orderly
<1>3. \A l \in Submitters : l = k
  BY OneSubmitter
<1>4. /\ task[k].pc = "idle" /\ mode = "up" /\ status = "waiting_auth" /\ (pending # None \/ choice # 0)
      /\ pending # None => login[pending.session] = "import"
      /\ UNCHANGED <<status, row, login, late, owned, pending, choice, givenUp, ticket, turns, mode>>
  BY DEF ImportArrives, statuses, fixed, sessions, waiting, Project, Free, Orderly
<1>5. JobIdle /\ (pending = None => choice # 0)
  BY <1>4 DEF JobIdle, JobAlone
<1>6. \A l \in Tasks : ~Is(l, {"fail", "failed"} \cup Past)
  BY <1>4, <1>5 DEF HandsAgree, Dead, Complete, LateLogins
<1>8. /\ Last' = Last
      /\ \A l \in Tasks : Is(l, {"idle", "done", "look", "input", "read"} \cup Completing)
  <2>1. \A l \in Tasks : task[l].pc \in TaskPc
    BY DEF TypeOK, TaskRecord
  <2> QED BY <1>2, <1>4, <1>5, <1>6, <2>1 DEF Kinds, JobIdle, TaskPc, Last
<1>21. Kinds'
  BY <1>0, <1>1, <1>2, <1>3, <1>4, <1>5, <1>6, TaskKinds, Kindred DEF Kinds
<1>22. TicketForm'
  BY <1>0, <1>1, <1>2, <1>3, <1>4, <1>5, <1>6 DEF TicketForm, Last
<1>23. JobAlone'
  BY <1>0, <1>1, <1>2, <1>3, <1>4, <1>5, <1>6 DEF JobAlone
<1>24. AskAlone'
  BY <1>0, <1>1, <1>2, <1>3, <1>4, <1>5, <1>6, TaskKinds, Kindred DEF AskAlone, Last,
       Kinds
<1>25. PostHolds'
  BY <1>1, <1>2, <1>4 DEF PostHolds
<1>26. HandsAgree'
  BY <1>0, <1>1, <1>2, <1>3, <1>4, <1>5, <1>6 DEF HandsAgree, Last
<1>27. LateLogins'
  BY <1>0, <1>1, <1>2, <1>3, <1>4, <1>5, <1>6 DEF LateLogins
<1>28. Dead'
  BY <1>0, <1>1, <1>2, <1>3, <1>4, <1>5, <1>6 DEF Dead
<1>29. Complete'
  BY <1>1, <1>4, <1>5, <1>6, <1>8 DEF Complete, Last
<1>30. Persisted'
  BY <1>0, <1>1, <1>2, <1>3, <1>4, <1>5, <1>6 DEF Persisted, Last
<1>31. Owned'
  BY <1>1, <1>4 DEF Owned
<1>32. Down'
  BY <1>1, <1>4 DEF Down
<1>33. Actionable'
  BY <1>0, <1>1, <1>2, <1>3, <1>4, <1>5, <1>6 DEF Actionable
<1>34. RowHolds'
  BY <1>0, <1>1, <1>2, <1>3, <1>4, <1>5, <1>6 DEF RowHolds
<1> QED BY <1>21, <1>22, <1>23, <1>24, <1>25, <1>26, <1>27, <1>28, <1>29, <1>30, <1>31,
       <1>32, <1>33, <1>34

LEMMA CoreSelectArrives ==
  ASSUME TypeOK, Orderly, ~canceled, Core, NEW k \in Submitters, SelectArrives(k)
  PROVE  Core'
<1> USE DEF Core, At, Is, Active, Posters, Hands, Completing, Past
<1>0. k \in Tasks /\ SourceAttempt(choice) = Last /\ Last \in 0..(LastLogin + 1)
  <2>1. k \in Tasks /\ (pending # None \/ choice # 0)
    BY TaskKinds DEF SelectArrives, statuses, fixed, sessions, waiting, Project
  <2>2. SourceAttempt(choice) = Last
    BY <2>1 DEF SourceAttempt, Persisted
  <2>3. SourceAttempt(choice) \in 0..(LastLogin + 1)
    BY SourceIsAttempt, BoundsAssumption DEF TypeOK
  <2> QED BY <2>1, <2>2, <2>3
<1>1. /\ task'[k].pc = "ask" /\ task'[k].session = task[k].session
      /\ task'[k].ticket = task[k].ticket /\ task'[k].source = Last
      /\ \A l \in Tasks \ {k} : task'[l] = task[l]
  <2>1. task' = [task EXCEPT ![k].pc = "ask", ![k].source = Last]
    BY <1>0 DEF SelectArrives, statuses, fixed, sessions, waiting, Project
  <2> QED BY <1>0, <2>1 DEF TypeOK, TaskRecord
<1>2. \A l \in Tasks : /\ ~Is(l, {"ask", "persist", "post", "finalize", "repost"})
                       /\ At(l, "read") => login[task[l].session] # "failed"
  BY DEF SelectArrives, statuses, fixed, sessions, waiting, Project, PeopleAct,
       Posting, Orderly
<1>3. \A l \in Submitters : l = k
  BY OneSubmitter
<1>4. /\ task[k].pc = "idle" /\ mode = "up" /\ status = "waiting_auth" /\ choice # 0
      /\ pending # None => login[pending.session] = "import"
      /\ UNCHANGED <<status, row, login, late, owned, pending, choice, givenUp, ticket, turns, mode>>
  BY DEF SelectArrives, statuses, fixed, sessions, waiting, Project, Free, Orderly
<1>5. JobIdle /\ (pending = None => choice # 0)
  BY <1>4 DEF JobIdle, JobAlone
<1>6. \A l \in Tasks : ~Is(l, {"fail", "failed"} \cup Past)
  BY <1>4, <1>5 DEF HandsAgree, Dead, Complete, LateLogins
<1>7. /\ pending = None /\ k \notin Jobs /\ \A l \in Tasks \ {k} : Is(l, {"idle", "done"})
  <2>1. pending = None
    BY <1>4 DEF Persisted
  <2>2. \A l \in Tasks : ~Is(l, Hands)
    BY <1>4, <2>1 DEF HandsAgree
  <2>3. \A l \in Tasks \ {k} : ~Is(l, Completing)
    BY <1>3, <1>5, <1>6, <2>1 DEF Complete
  <2>4. \A l \in Tasks : task[l].pc \in TaskPc
    BY DEF TypeOK, TaskRecord
  <2> QED BY <1>2, <1>5, <1>6, <2>1, <2>2, <2>3, <2>4, Kindred DEF Kinds, JobIdle, TaskPc
<1>21. Kinds'
  BY <1>0, <1>1, <1>2, <1>3, <1>4, <1>5, <1>6, TaskKinds, Kindred DEF Kinds
<1>22. TicketForm'
  BY <1>0, <1>1, <1>2, <1>3, <1>4, <1>5, <1>6 DEF TicketForm, Last
<1>23. JobAlone'
  BY <1>0, <1>1, <1>2, <1>3, <1>4, <1>5, <1>6 DEF JobAlone
<1>24. AskAlone'
  BY <1>1, <1>4, <1>7 DEF AskAlone, Last
<1>25. PostHolds'
  BY <1>1, <1>2, <1>4 DEF PostHolds
<1>26. HandsAgree'
  BY <1>0, <1>1, <1>2, <1>3, <1>4, <1>5, <1>6 DEF HandsAgree, Last
<1>27. LateLogins'
  BY <1>0, <1>1, <1>2, <1>3, <1>4, <1>5, <1>6 DEF LateLogins
<1>28. Dead'
  BY <1>0, <1>1, <1>2, <1>3, <1>4, <1>5, <1>6 DEF Dead
<1>29. Complete'
  BY <1>0, <1>1, <1>2, <1>3, <1>4, <1>5, <1>6 DEF Complete, JobIdle, Last
<1>30. Persisted'
  BY <1>0, <1>1, <1>2, <1>3, <1>4, <1>5, <1>6 DEF Persisted, Last
<1>31. Owned'
  BY <1>0, <1>1, <1>2, <1>3, <1>4, <1>5, <1>6 DEF Owned
<1>32. Down'
  BY <1>0, <1>1, <1>2, <1>3, <1>4, <1>5, <1>6 DEF Down
<1>33. Actionable'
  BY <1>0, <1>1, <1>2, <1>3, <1>4, <1>5, <1>6 DEF Actionable
<1>34. RowHolds'
  BY <1>0, <1>1, <1>2, <1>3, <1>4, <1>5, <1>6 DEF RowHolds
<1> QED BY <1>21, <1>22, <1>23, <1>24, <1>25, <1>26, <1>27, <1>28, <1>29, <1>30, <1>31,
       <1>32, <1>33, <1>34

LEMMA CoreCrash ==
  ASSUME TypeOK, Orderly, ~canceled, Core, Crash
  PROVE  Core'
<1> USE DEF Core, At, Is, Active, Posters, Hands, Completing, Past
<1>1. /\ \A l \in Tasks : /\ task'[l].pc \in {"idle", "done"}
                          /\ l \notin Jobs \cup {canceler} => task'[l].pc = "idle"
      /\ task'[canceler].pc = "idle"
  BY TaskKinds DEF Crash, statuses, fixed, sessions, waiting, Project, TaskAt, Kinds
<1>2. /\ \A s \in Logins : login'[s] \in {"lost", "unused"}
      /\ \A s \in late' : login'[s] = "lost"
      /\ owned' \subseteq Logins /\ mode' = "down"
      /\ UNCHANGED <<status, row, pending, choice, givenUp, ticket, turns>>
  BY DEF Crash, statuses, fixed, sessions, waiting, Project, TypeOK
<1>21. Kinds'
  BY <1>1, <1>2 DEF Kinds
<1>22. TicketForm'
  BY <1>1, <1>2 DEF TicketForm, Last
<1>23. JobAlone'
  BY <1>1, <1>2 DEF JobAlone
<1>24. AskAlone'
  BY <1>1, <1>2 DEF AskAlone, Last
<1>25. PostHolds'
  BY <1>1, <1>2 DEF PostHolds
<1>26. HandsAgree'
  BY <1>1, <1>2 DEF HandsAgree, Last
<1>27. LateLogins'
  BY <1>1, <1>2 DEF LateLogins
<1>28. Dead'
  BY <1>1, <1>2 DEF Dead
<1>29. Complete'
  BY <1>1, <1>2 DEF Complete, JobIdle, Last
<1>30. Persisted'
  BY <1>1, <1>2 DEF Persisted, Last
<1>31. Owned'
  BY <1>1, <1>2 DEF Owned
<1>32. Down'
  <2>1. mode = "up"
    BY DEF Crash
  <2>2. pending # None => status \notin Terminal
    BY <2>1 DEF Persisted, PostHolds, Terminal
  <2> QED BY <1>1, <1>2, <2>2 DEF Down
<1>33. Actionable'
  BY <1>1, <1>2 DEF Actionable
<1>34. RowHolds'
  BY <1>1, <1>2 DEF RowHolds
<1> QED BY <1>21, <1>22, <1>23, <1>24, <1>25, <1>26, <1>27, <1>28, <1>29, <1>30, <1>31,
       <1>32, <1>33, <1>34

LEMMA CoreRestart ==
  ASSUME TypeOK, Orderly, ~canceled, Core, Restart
  PROVE  Core'
<1> USE DEF Core, At, Is, Active, Posters, Hands, Completing, Past
<1>0. /\ mode = "down" /\ mode' = "up" /\ \A l \in Tasks : Is(l, {"idle", "done"})
      /\ \A s \in Logins : login[s] \in {"unused", "lost"}
      /\ UNCHANGED <<login, late, owned, ticket, turns>>
  BY DEF Restart, statuses, fixed, sessions, waiting, Project, Down
<1>1. PICK j \in Jobs :
      /\ j \in Tasks
      /\ \/ /\ UNCHANGED <<task, status, row, pending, choice, givenUp>>
            /\ row # "waiting_auth" \/ choice # 0
            /\ row # "waiting_auth" => row \in Terminal
         \/ /\ row = "queued" /\ ticket.state \in {"issued", "dispatched"}
            /\ UNCHANGED <<status, row, pending, choice, givenUp>>
            /\ task' = [task EXCEPT ![j] = TaskAt("new", ticket.id, ticket.source + 1)]
         \/ /\ task' = task /\ status' = "failed" /\ row' = "failed" /\ pending' = None /\ choice' = 0
  <2> DEFINE j == <<"job", ticket.id>>
  <2>1. j \in Jobs /\ j \in Tasks
    BY DEF Jobs, Tasks, TypeOK
  <2>2. CASE Preserved /\ UNCHANGED <<statuses, waiting, task>>
    BY <2>1, <2>2 DEF Preserved, statuses, waiting
  <2>3. CASE row \in Terminal /\ UNCHANGED <<statuses, waiting, task>>
    BY <2>1, <2>3 DEF Terminal, statuses, waiting
  <2>4. CASE Redriven /\ task' = [task EXCEPT ![j] = TaskAt("new", ticket.id, ticket.source + 1)]
             /\ UNCHANGED <<statuses, waiting>>
    BY <2>1, <2>4 DEF Redriven, statuses, waiting
  <2>5. CASE status' = "failed" /\ row' = "failed" /\ pending' = None /\ choice' = 0 /\ UNCHANGED task
    BY <2>1, <2>5
  <2> QED BY <2>2, <2>3, <2>4, <2>5 DEF Restart, Project
<1>2. \/ /\ UNCHANGED <<task, status, row, pending, choice, givenUp>>
         /\ row # "waiting_auth" \/ choice # 0
         /\ row # "waiting_auth" => row \in Terminal
      \/ /\ status = "queued" /\ row = "queued"
         /\ ticket.state = "dispatched" /\ ticket.id # 0 /\ pending = None /\ choice = 0
         /\ UNCHANGED <<status, row, pending, choice, givenUp>>
         /\ task'[j].pc = "new" /\ task'[j].ticket = ticket.id /\ task'[j].source = ticket.source + 1
         /\ \A l \in Tasks \ {j} : task'[l] = task[l]
      \/ /\ task' = task /\ status' = "failed" /\ row' = "failed" /\ pending' = None /\ choice' = 0
  <2>1. row = "queued" => status = "queued"
    BY DEF RowHolds
  <2> QED BY <1>1, <2>1 DEF TaskAt, TypeOK, TaskRecord, TicketForm
<1>3. j \in Jobs /\ j \in Tasks
  BY <1>1
<1>21. Kinds'
  BY <1>0, <1>2, <1>3, TaskKinds, Kindred DEF Kinds
<1>22. TicketForm'
  BY <1>0, <1>2, <1>3 DEF TicketForm, Last
<1>23. JobAlone'
  <2>1. \A l \in Tasks : ~Is(l, Active)
    BY <1>0
  <2>2. CASE task' = task
    BY <2>1, <2>2 DEF JobAlone
  <2>3. CASE task' # task
    <3>1. \A b \in Attempts : b >= ticket.source + 1 => b > ticket.source
      BY DEF Attempts, TypeOK
    <3>2. \A b \in Attempts : b >= ticket.source + 1 => turns[b] = 0
      BY <1>2, <2>3, <3>1 DEF TicketForm, Last
    <3> QED BY <1>0, <1>2, <1>3, <2>3, <3>2 DEF JobAlone
  <2> QED BY <2>2, <2>3
<1>24. AskAlone'
  BY <1>0, <1>2, <1>3 DEF AskAlone, Last
<1>25. PostHolds'
  BY <1>0, <1>2, <1>3 DEF PostHolds
<1>26. HandsAgree'
  BY <1>0, <1>2, <1>3 DEF HandsAgree, Last
<1>27. LateLogins'
  BY <1>0, <1>2, <1>3 DEF LateLogins
<1>28. Dead'
  BY <1>0, <1>2, <1>3 DEF Dead
<1>29. Complete'
  BY <1>0, <1>2, <1>3 DEF Complete, JobIdle, Last
<1>30. Persisted'
  <2>1. Last' = Last
    BY <1>0 DEF Last
  <2>2. \/ pending' = pending /\ choice' = choice
        \/ pending' = None /\ choice' = 0
    BY <1>2
  <2>3. CASE pending' = None /\ choice' = 0
    BY <2>3 DEF Persisted
  <2>4. CASE pending' = pending /\ choice' = choice
    <3>1. pending # None => status = "waiting_auth" /\ status' = "waiting_auth"
      BY <1>0, <1>2, <2>4 DEF Down, RowHolds, Terminal
    <3> QED BY <2>1, <2>4, <3>1 DEF Persisted
  <2> QED BY <2>2, <2>3, <2>4
<1>31. Owned'
  BY <1>0, <1>2, <1>3 DEF Owned, Down, TicketForm, TypeOK, PendingAuth
<1>32. Down'
  BY <1>0, <1>2, <1>3 DEF Down
<1>33. Actionable'
  BY <1>0, <1>2, <1>3 DEF Actionable, RowHolds, Terminal
<1>34. RowHolds'
  BY <1>0, <1>2, <1>3 DEF RowHolds
<1> QED BY <1>21, <1>22, <1>23, <1>24, <1>25, <1>26, <1>27, <1>28, <1>29, <1>30, <1>31,
       <1>32, <1>33, <1>34

LEMMA CoreInit == Init => Core
<1> SUFFICES ASSUME Init PROVE Core
  OBVIOUS
<1> USE DEF Core, At, Is, Active, Posters, Hands, Completing, Past
<1>1. /\ status = "queued" /\ row = "queued" /\ pending = None /\ choice = 0 /\ late = {} /\ owned = {}
      /\ ticket.id = 0 /\ ticket.source = 0 /\ ticket.state = "none" /\ mode = "up"
      /\ \A a \in Attempts : turns[a] = 0
  BY DEF Init
<1>2. <<"job", 0>> \in Jobs
  BY BoundsAssumption DEF Jobs
<1>3. \A k \in Tasks : IF k = <<"job", 0>>
        THEN task[k].pc = "new" /\ task[k].ticket = 0 /\ task[k].source = 1
        ELSE task[k].pc = "idle"
  BY DEF Init, TaskAt
<1>4. Kinds
  BY <1>2, <1>3, TaskKinds, Kindred DEF Kinds
<1>5. TicketForm /\ JobAlone
  BY <1>1, <1>3 DEF TicketForm, JobAlone
<1>6. AskAlone /\ PostHolds /\ HandsAgree /\ Dead /\ Complete
  BY <1>3 DEF AskAlone, PostHolds, HandsAgree, Dead, Complete
<1>7. LateLogins /\ Persisted /\ Owned /\ Down /\ Actionable /\ RowHolds
  BY <1>1 DEF LateLogins, Persisted, Owned, Down, Actionable, RowHolds
<1> QED BY <1>4, <1>5, <1>6, <1>7

LEMMA CoreStep ==
  ASSUME TypeOK, Orderly, ~canceled => Core, [Next]_vars
  PROVE  ~canceled' => Core'
<1> SUFFICES ASSUME ~canceled' PROVE Core'
  OBVIOUS
<1>0. canceled' = canceled \/ canceled' = TRUE
  BY DEF Next, vars, fixed, Job, JobStarts, JobEnds, JobAsks, Proceed, PostStep,
       StartLogin,
         RecoverLogin, OfferChoice, Persist, Post, CompleteStep, ReadSource, IssueTicket,
         DispatchTicket, ClearPending, Resume, RepostCallback, RepostInput, PollLooks, FailLogin,
         Input, PollArrives, Submit, InputArrives, ImportArrives, SelectArrives, CallbackArrives, LoginEnds,
       Expires,
         CancelArrives, Cancel, Crash, Restart
<1>1. ~canceled /\ Core
  BY <1>0
<1>2. CASE Next
  <2>1. ASSUME NEW j \in Jobs, Job(j) PROVE Core'
    BY <1>1, <2>1, CoreJobStarts, CoreJobEnds, CoreJobAsks DEF Job
  <2>2. ASSUME NEW k \in Tasks, PostStep(k) PROVE Core'
    BY <1>1, <2>2, CoreStartLogin, CoreRecoverLogin, CoreOfferChoice, CorePersist,
       CorePost
       DEF PostStep
  <2>3. ASSUME NEW k \in Tasks, Resume(k) PROVE Core'
    BY <1>1, <2>3, CoreResumeQueue, CoreResumeSchedule DEF Resume
  <2>4. ASSUME NEW k \in Tasks, CompleteStep(k) PROVE Core'
    BY <1>1, <2>3, <2>4, CoreReadSource, CoreIssueTicket, CoreDispatchTicket,
       CoreClearPending,
       CoreRepostCallback, CoreRepostInput DEF CompleteStep
  <2>5. ASSUME NEW k \in Tasks, Proceed(k) PROVE Core'
    BY <1>1, <2>2, <2>4, <2>5, CorePollLooks, CoreFailLogin, CoreInput DEF Proceed
  <2>6. ASSUME NEW k \in Submitters, Submit(k) PROVE Core'
    BY <1>1, <2>6, CoreInputArrives, CoreImportArrives, CoreSelectArrives DEF Submit
  <2>7. ~CancelArrives /\ ~Cancel
    BY <1>1 DEF CancelArrives, Cancel, Core, Kinds, At
  <2> QED BY <1>1, <1>2, <2>1, <2>5, <2>6, <2>7, CorePollArrives, CoreCallbackArrives,
             CoreLoginEnds, CoreExpires, CoreCrash, CoreRestart DEF Next
<1>3. CASE UNCHANGED vars
  BY <1>1, <1>3 DEF vars, statuses, fixed, sessions, waiting, Project, Core, Kinds,
       TicketForm, JobAlone, AskAlone,
     PostHolds, HandsAgree, LateLogins, Dead, JobIdle, Complete, Persisted, Owned, Down,
     Actionable, RowHolds, At, Is, Last
<1> QED BY <1>2, <1>3

-----------------------------------------------------------------------------
(* The theorems *)

IInv == TypeOK /\ OneTurnPerAttempt /\ (~canceled => Core)

LEMMA OneTurnStep ==
  ASSUME TypeOK, OneTurnPerAttempt, ~canceled => Core, [Next]_vars
  PROVE  OneTurnPerAttempt'
<1>1. ASSUME NEW j \in Jobs, JobStarts(j) PROVE OneTurnPerAttempt'
  <2>1. CASE turns' = turns
    BY <2>1 DEF OneTurnPerAttempt
  <2>2. CASE turns' # turns
    <3>1. /\ At(j, "new") /\ ~canceled /\ turns' = [turns EXCEPT ![task[j].source] = @ + 1]
      BY <1>1, <2>2 DEF JobStarts
    <3>2. \A b \in Attempts : b >= task[j].source => turns[b] = 0
      BY <3>1, TaskKinds DEF Core, JobAlone, Is, Active, At
    <3>3. \A b \in Attempts : b = task[j].source => turns[b] = 0
      BY <3>2 DEF Attempts
    <3> QED BY <3>1, <3>3 DEF OneTurnPerAttempt, TypeOK
  <2> QED BY <2>1, <2>2
<1>2. (\A j \in Jobs : ~JobStarts(j)) => turns' = turns
  BY DEF Next, vars, fixed, Job, JobEnds, JobAsks, Proceed, PostStep, StartLogin,
         RecoverLogin, OfferChoice, Persist, Post, CompleteStep, ReadSource, IssueTicket,
         DispatchTicket, ClearPending, Resume, RepostCallback, RepostInput, PollLooks, FailLogin,
         Input, PollArrives, Submit, InputArrives, ImportArrives, SelectArrives, CallbackArrives, LoginEnds,
       Expires,
         CancelArrives, Cancel, Crash, Restart
<1> QED BY <1>1, <1>2 DEF OneTurnPerAttempt

LEMMA Inductive == Orderly => (Spec => []IInv)
<1> SUFFICES ASSUME Orderly PROVE Spec => []IInv
  OBVIOUS
<1>1. Init => IInv
  <2>1. Init => \A a \in Attempts : turns[a] = 0
    BY DEF Init
  <2> QED BY <2>1, TypeInit, CoreInit DEF IInv, OneTurnPerAttempt
<1>2. IInv /\ [Next]_vars => IInv'
  BY TypeStep, CoreStep, OneTurnStep DEF IInv
<1> QED BY <1>1, <1>2, PTL DEF Spec

\* However many callbacks, polls, submissions and restarts complete the login
\* of an attempt (reconcile_waiting_auth, handle_callback_completion,
\* submit_auth_input, select_auth_method, recovery), and whether or not the run
\* is canceled meanwhile, the attempt that follows is run once.
THEOREM OneTurn == Orderly => (Spec => []OneTurnPerAttempt)
<1>1. IInv => OneTurnPerAttempt
  BY DEF IInv
<1> QED BY <1>1, Inductive, PTL

\* A run that says it waits for a login, with nothing going on, has a pending
\* login or a choice that a client can act on, after a restart too, unless a
\* poll has given its login up (_fail_waiting_auth_session,
\* _complete_waiting_auth_success, recover_single_incomplete_run).
THEOREM Actable == Orderly => (Spec => []WaitingIsActionable)
<1>1. IInv => WaitingIsActionable
  BY DEF IInv, Core, Actionable, WaitingIsActionable, AtRest, Is
<1> QED BY <1>1, Inductive, PTL

\* What a poll has failed, by its row, no completion resumes, whichever other
\* polls, callbacks and submissions found the same login
\* (run_auth_orchestration_service.py:1228).
THEOREM FailedIsOver == Orderly => (Spec => []FailedRowIsOver)
<1>1. IInv => FailedRowIsOver
  BY DEF IInv, Core, RowHolds, FailedRowIsOver, Is
<1> QED BY <1>1, Inductive, PTL

LEMMA StatechartStep ==
  ASSUME IInv, Orderly, [Next]_vars
  PROVE  [Statechart!Next]_(IF canceled THEN "canceled" ELSE status)
<1> DEFINE Moves == [Statechart!Next]_(IF canceled THEN "canceled" ELSE status)
<1> SUFFICES Moves
  OBVIOUS
<1> USE DEF Statechart!Next, Statechart!Transitions, IInv, Core, At, Is, Active,
       Posters, Hands,
        Completing, Past, fixed, statuses, Project, Terminal
<1>1. CASE Next
  <2>1. ASSUME NEW j \in Jobs, Job(j) PROVE Moves
    BY <2>1, TaskKinds DEF Job, JobStarts, JobEnds, JobAsks, TurnOver, JobAlone
  <2>2. ASSUME NEW k \in Tasks, Post(k) PROVE Moves
    BY <2>2 DEF Post, PostHolds
  <2>3. ASSUME NEW k \in Tasks, FailLogin(k) PROVE Moves
    BY <2>3 DEF FailLogin
  <2>4. ASSUME NEW k \in Tasks, Resume(k) PROVE Moves
    <3>1. CASE canceled \/ At(k, "schedule")
      BY <2>4, <3>1 DEF Resume
    <3>2. CASE ~canceled /\ At(k, "queue")
      <4>1. JobIdle
        BY <2>4, <3>2 DEF JobIdle, JobAlone
      <4>2. status = "waiting_auth"
        BY <2>4, <3>2, <4>1 DEF Complete
      <4> QED BY <2>4, <3>2, <4>2 DEF Resume
    <3> QED BY <2>4, <3>1, <3>2 DEF Resume
  <2>5. ASSUME NEW k \in Tasks, Proceed(k), ~Post(k), ~FailLogin(k), ~Resume(k) PROVE Moves
    BY <2>5 DEF Proceed, PostStep, StartLogin, RecoverLogin, OfferChoice, Persist,
       CompleteStep,
                ReadSource, IssueTicket, DispatchTicket, ClearPending, RepostCallback, RepostInput,
                PollLooks, Input
  <2>6. ASSUME NEW k \in Submitters, Submit(k) PROVE Moves
    BY <2>6 DEF Submit, InputArrives, ImportArrives, SelectArrives
  <2>7. ASSUME NEW k \in Pollers, PollArrives(k) PROVE Moves
    BY <2>7 DEF PollArrives
  <2>8. ASSUME NEW l \in Logins, CallbackArrives(l) \/ LoginEnds(l) \/ Expires(l) PROVE Moves
    BY <2>8 DEF CallbackArrives, LoginEnds, Expires
  <2>9. ASSUME CancelArrives \/ Cancel PROVE Moves
    <3>1. CASE CancelArrives
      BY <3>1 DEF CancelArrives, TypeOK
    <3>2. CASE Cancel
      BY <3>2 DEF Cancel, Kinds
    <3> QED BY <2>9, <3>1, <3>2
  <2>10. ASSUME Crash \/ Restart PROVE Moves
    BY <2>10 DEF Crash, Restart, RowHolds, TypeOK
  <2> HIDE DEF Moves, IInv, Core, At, Is, fixed, statuses, Project
  <2>11. ASSUME NEW k \in Tasks, Proceed(k) PROVE Moves
    BY <2>2, <2>3, <2>4, <2>5, <2>11
  <2> QED BY <1>1, <2>1, <2>6, <2>7, <2>8, <2>9, <2>10, <2>11 DEF Next
<1>2. CASE UNCHANGED vars
  BY <1>2 DEF vars
<1> QED BY <1>1, <1>2

\* The status of the run, as its stores show it, moves along TRANSITIONS of
\* runtime/session/statechart.py until the run is canceled: each step of the
\* orchestration of a login is a step of the statechart or leaves the status.
THEOREM RefinesStatechart == Orderly => (Spec => ImplementsStatechart)
<1> SUFFICES ASSUME Orderly PROVE Spec => ImplementsStatechart
  OBVIOUS
<1>1. Init => Statechart!Init
  BY DEF Init, Statechart!Init
<1>2. IInv /\ [Next]_vars => [Statechart!Next]_(IF canceled THEN "canceled" ELSE status)
  BY StatechartStep
<1> QED BY <1>1, <1>2, Inductive, PTL DEF Spec, ImplementsStatechart, Statechart!Spec
=============================================================================
