------------------------- MODULE RunLifecycle_stores -------------------------
(***************************************************************************)
(* What RunLifecycle leaves in the stores of a run that meets no cancel,   *)
(* no fault and no crash, and what its status says meanwhile, for every    *)
(* way to converse and any bounds; then, that a session which meets them   *)
(* all never waits for an answer nobody can give; and last, that one which *)
(* meets crashes leaves a row and a run state that agree.                  *)
(***************************************************************************)
EXTENDS RunLifecycle_proofs

\* The writes under way, and whether they leave status s in the stores F.
Owed == UNION {Range(todo[t]) : t \in Tasks}
Settling(s, F) ==
  /\ \A x \in Owed : x.status = s
  /\ \A f \in F : store[f] = s \/ \E x \in Owed : x.to = f
NoResult == store.result = "none" /\ \A x \in Owed : x.to # "result"

Undisturbed == situation \in {"calm", "eager"}
Plain ==
  /\ mode = "up" /\ ~flagged
  /\ \A t \in Tasks \ (Workers \cup Resumers) : pc[t] = "idle" /\ todo[t] = <<>>
  /\ \A w \in Workers : pc[w] # "killed"
  /\ Session => Requeuing = {}

\* A ticket not yet started is in the hands of a task.
Carried ==
  Redrivable =>
    IF ticket.state = "issued"
      THEN \E t \in Resumers : pc[t] = "dispatch" /\ tid[t] = ticket.id
      ELSE \E w \in Workers : pc[w] = "ticket" /\ tid[w] = ticket.id
\* In a session without a handle nobody has ever been asked.
NeverAsked ==
  Session /\ ~handle =>
    /\ \A t \in Resumers : pc[t] = "idle"
    /\ \A w \in Workers : pc[w] # "arm"
    /\ ticket.id = 0
    /\ store.state # "waiting_user" /\ \A x \in Owed : x.status # "waiting_user"
\* A turn is resolved when nothing else is under way.
Sole == (\E w \in Workers : pc[w] \in {"ended", "resolve"}) => Owed = {}
AskerFirst ==
  /\ \A w \in Workers : Asking(w) => \A t \in Resumers : pc[t] # "dispatch"
  /\ \A w \in Closing : num[w] \in Attempts => pc[<<"timer", num[w]>>] # "dispatch"

(***************************************************************************)
(* The run moves on: it has a job, or an answer that will become one.      *)
(* Until then it waits, or it is over.                                     *)
(***************************************************************************)
Moving ==
  Unstarted # {} \/ Owners # {} \/ Redrivable \/ \E t \in Issuing : ~SameTicket(t)
Waiting ==
  /\ Pending # {}
  /\ IF Session THEN handle /\ Settling("waiting_user", {"state", "row"})
                ELSE Requeuing \cup Deciding # {}
Over ==
  /\ \E s \in Terminal : Settling(s, {"state", "row", "result"})
  /\ Minded = {} /\ \A w \in Workers : pc[w] # "arm"
  /\ Pending = {} \/ (Session /\ ~handle)
Phase == IF Moving THEN NoResult ELSE (NoResult /\ Waiting) \/ Over
Story == Plain /\ Carried /\ NeverAsked /\ Sole /\ AskerFirst /\ Phase

-----------------------------------------------------------------------------
(* The writes under way *)

LEMMA Concatenated ==
  ASSUME NEW p \in Seq(Writes), NEW q \in Seq(Writes)
  PROVE  Range(p \o q) = Range(p) \cup Range(q)
  BY RangeConcatenation

LEMMA OwedMore ==
  ASSUME TypeOK, NEW t \in Tasks, NEW writes, todo[t] = <<>>,
         todo' = [todo EXCEPT ![t] = writes]
  PROVE  Owed' = Owed \cup Range(writes)
<1>1. todo'[t] = writes /\ \A u \in Tasks : u # t => todo'[u] = todo[u]
  BY DEF TypeOK
<1>2. Range(todo[t]) = {}
  BY DEF Range
<1> QED BY <1>1, <1>2 DEF Owed

\* A write performed is no longer owed, and no other.
LEMMA HeadWritten ==
  ASSUME TypeOK, NEW t \in Tasks, Write(t)
  PROVE  \E h : /\ h = Head(todo[t]) /\ h \in Writes /\ h \in Owed
                /\ h \in Range(todo[t]) /\ Range(todo'[t]) \subseteq Range(todo[t])
                /\ store' = [store EXCEPT ![h.to] = h.status]
                /\ Owed' \subseteq Owed /\ Owed \subseteq Owed' \cup {h}
<1> DEFINE h == Head(todo[t])
<1>1. todo[t] \in Seq(Writes) /\ todo[t] # <<>>
  BY DEF Write, TypeOK
<1>2. h \in Writes /\ Range(todo[t]) = {h} \cup Range(Tail(todo[t]))
  <2>1. h \in Writes /\ Tail(todo[t]) \in Seq(Writes) /\ todo[t] = <<h>> \o Tail(todo[t])
    BY <1>1
  <2>2. <<h>> \in Seq(Writes) /\ Range(<<h>>) = {h}
    BY <2>1 DEF Range
  <2> HIDE DEF h
  <2>3. Range(<<h>> \o Tail(todo[t])) = Range(<<h>>) \cup Range(Tail(todo[t]))
    BY <2>1, <2>2, Concatenated
  <2> QED BY <2>1, <2>2, <2>3
<1>3. todo'[t] = Tail(todo[t]) /\ \A u \in Tasks : u # t => todo'[u] = todo[u]
  BY DEF Write, TypeOK
<1>4. store' = [store EXCEPT ![h.to] = h.status] /\ h = Head(todo[t])
  BY DEF Write
<1> HIDE DEF h
<1>5. h \in Owed /\ Owed' \subseteq Owed /\ Owed \subseteq Owed' \cup {h}
  BY <1>2, <1>3 DEF Owed
<1> QED BY <1>2, <1>3, <1>4, <1>5

LEMMA WritePerformed ==
  ASSUME TypeOK, NEW t \in Tasks, Write(t)
  PROVE  \E h \in Owed : /\ h \in Writes /\ store' = [store EXCEPT ![h.to] = h.status]
                         /\ Owed' \subseteq Owed /\ Owed \subseteq Owed' \cup {h}
  BY HeadWritten

LEMMA ProjectionRanges ==
  /\ \A s : Range(<<Put("row", s)>>) = {Put("row", s)}
  /\ \A s : Range(<<Put("state", s)>>) = {Put("state", s)}
  /\ \A s : Range(NonTerminalProjection(s)) = {Put("state", s), Put("row", s)}
  /\ \A s \in Statuses : Range(NonTerminalProjection(s) \o <<Put("row", s)>>)
                           = {Put("state", s), Put("row", s)}
  /\ \A s \in Terminal : Range(TerminalProjection(s) \o <<Put("row", s)>>)
                           = {Put("state", s), Put("row", s), Put("result", s)}
<1>1. \A x : Range(<<x>>) = {x}
  BY DEF Range
<1>2. \A s : Range(NonTerminalProjection(s)) = {Put("state", s), Put("row", s)}
  <2> TAKE s
  <2> DEFINE p == NonTerminalProjection(s)
  <2>1. DOMAIN p = {1, 2} /\ p[1] = Put("state", s) /\ p[2] = Put("row", s)
    BY DEF NonTerminalProjection
  <2> HIDE DEF p
  <2>2. Range(p) = {Put("state", s), Put("row", s)}
    BY <2>1 DEF Range
  <2> QED BY <2>2 DEF p
<1>3. \A s \in Statuses : Range(NonTerminalProjection(s) \o <<Put("row", s)>>)
                            = {Put("state", s), Put("row", s)}
  <2> TAKE s \in Statuses
  <2>1. NonTerminalProjection(s) \in Seq(Writes) /\ <<Put("row", s)>> \in Seq(Writes)
    BY ProjectionType DEF Todo
  <2>2. Range(NonTerminalProjection(s) \o <<Put("row", s)>>)
          = Range(NonTerminalProjection(s)) \cup Range(<<Put("row", s)>>)
    BY <2>1, Concatenated
  <2> QED BY <1>1, <1>2, <2>2
<1>4. \A s \in Terminal : Range(TerminalProjection(s) \o <<Put("row", s)>>)
                           = {Put("state", s), Put("row", s), Put("result", s)}
  <2> TAKE s \in Terminal
  <2>1. /\ NonTerminalProjection(s) \in Seq(Writes) /\ <<Put("row", s)>> \in Seq(Writes)
        /\ <<Put("result", s)>> \in Seq(Writes) /\ TerminalProjection(s) \in Seq(Writes)
    BY ProjectionType DEF Put, Writes, Statuses, Terminal, Todo
  <2>2. Range(TerminalProjection(s))
          = Range(NonTerminalProjection(s)) \cup Range(<<Put("result", s)>>)
    BY <2>1, Concatenated DEF TerminalProjection
  <2>3. Range(TerminalProjection(s) \o <<Put("row", s)>>)
          = Range(TerminalProjection(s)) \cup Range(<<Put("row", s)>>)
    BY <2>1, Concatenated
  <2> QED BY <1>1, <1>2, <2>2, <2>3
<1> QED BY <1>1, <1>2, <1>3, <1>4

LEMMA PutIs == \A f, s : Put(f, s).to = f /\ Put(f, s).status = s
  BY DEF Put

\* Performing a write changes nothing of the story.
LEMMA WriteKeepsStory ==
  ASSUME TypeOK, Story, NEW t \in Tasks, Write(t) PROVE Story'
<1>1. PICK h \in Owed : /\ h \in Writes /\ store' = [store EXCEPT ![h.to] = h.status]
                        /\ Owed' \subseteq Owed /\ Owed \subseteq Owed' \cup {h}
  BY WritePerformed
<1>2. UNCHANGED <<data, steady, turns, pc, num, tid>>
  BY DEF Write
<1>3. /\ h.to \in {"state", "row", "result"}
      /\ store'[h.to] = h.status
      /\ \A f \in {"state", "row", "result"} : f # h.to => store'[f] = store[f]
  <2>1. h.to \in {"state", "row", "result"}
    BY <1>1 DEF Writes
  <2>2. store \in [state : Statuses, row : Statuses, result : Terminal \cup {"none"}]
    BY DEF TypeOK
  <2> QED BY <1>1, <2>1, <2>2
<1>4. ASSUME NEW s, NEW F \in SUBSET {"state", "row", "result"}, Settling(s, F)
      PROVE  Settling(s, F)'
  BY <1>1, <1>3, <1>4 DEF Settling
<1>5. NoResult => NoResult'
  BY <1>1, <1>3 DEF NoResult
<1>6. Plain' /\ Carried' /\ AskerFirst'
  <2>1. t \in Workers \cup Resumers /\ \A u \in Tasks : u # t => todo'[u] = todo[u]
    BY DEF Write, Story, Plain, TypeOK
  <2> QED BY <1>2, <2>1 DEF Story, Plain, Carried, AskerFirst, data, steady, server, Session,
                            Redrivable, Requeuing, Asking, Closing
<1>7. NeverAsked'
  BY <1>1, <1>2, <1>3 DEF Story, NeverAsked, Session, data, steady, server
<1>8. Sole'
  BY <1>1, <1>2 DEF Story, Sole
<1>9. Phase'
  <2>1. /\ Moving' = Moving /\ Pending' = Pending /\ Minded' = Minded /\ handle' = handle
        /\ Requeuing' = Requeuing /\ Deciding' = Deciding /\ Session' = Session
    BY <1>2 DEF Moving, Pending, Minded, Requeuing, Deciding, Issuing, Session, Unstarted,
                Owners, Redrivable, SameTicket, data, steady, server
  <2>2. Waiting => Waiting'
    BY <1>4, <2>1 DEF Waiting
  <2>3. Over => Over'
    BY <1>2, <1>4, <2>1 DEF Over
  <2> QED BY <1>5, <2>1, <2>2, <2>3 DEF Story, Phase
<1> QED BY <1>6, <1>7, <1>8, <1>9 DEF Story

-----------------------------------------------------------------------------
(* The steps of run_job *)

\* A worker moves, with new writes W to perform.
LEMMA WorkerMove ==
  ASSUME TypeOK, Story, NEW w \in Workers, NEW s, NEW W,
         pc' = [pc EXCEPT ![w] = s], s \notin {"killed", "ended"},
         \A t \in Tasks : t # w => todo'[t] = todo[t],
         s = "resolve" => pc[w] = "ended" /\ W = {},
         s = "arm" => Asking(w) /\ handle,
         s = "autoresume" => Asking(w) /\ ~Session,
         Owed' = Owed \cup W,
         W = {} \/ \A v \in Workers : v # w => pc[v] \notin {"ended", "resolve"},
         Session /\ ~handle => \A x \in W : x.status # "waiting_user",
         ticket'.id = ticket.id,
         UNCHANGED <<conversation, store, flagged, handle, mode, num>>
  PROVE  Plain' /\ NeverAsked' /\ Sole' /\ AskerFirst'
<1>1. pc'[w] = s /\ \A t \in Tasks : t # w => pc'[t] = pc[t]
  BY Disjoint DEF TypeOK
<1>2. \A t \in Workers : t \in Tasks /\ t \notin Resumers
  BY Disjoint
<1>3. \A t \in Resumers : t \in Tasks /\ pc'[t] = pc[t]
  BY <1>1, <1>2, Disjoint
<1>4. Session' = Session
  BY DEF Session
<1>5. Plain'
  <2>1. \A t \in Tasks \ (Workers \cup Resumers) : pc'[t] = "idle" /\ todo'[t] = <<>>
    BY <1>1 DEF Story, Plain
  <2>2. \A v \in Workers : pc'[v] # "killed"
    BY <1>1, <1>2 DEF Story, Plain
  <2>3. Session => Requeuing' = {}
    BY <1>1, <1>2 DEF Story, Plain, Requeuing
  <2> QED BY <1>4, <2>1, <2>2, <2>3 DEF Story, Plain
<1>6. NeverAsked'
  BY <1>1, <1>2, <1>3, <1>4 DEF Story, NeverAsked
<1>7. Sole'
  BY <1>1, <1>2 DEF Story, Sole
<1>8. \A v \in Workers : (Asking(v)' => Asking(v)) /\ (v \in Closing' => v \in Closing \/ Asking(v))
  BY <1>1, <1>2 DEF Story, Plain, Asking, Closing
<1>9. \A v \in Workers : Asking(v) => \A t \in Resumers : pc[t] # "dispatch"
  BY DEF Story, AskerFirst
<1>10. ASSUME NEW v \in Closing', num[v] \in Attempts
       PROVE  pc'[<<"timer", num[v]>>] # "dispatch"
  <2>1. v \in Workers /\ <<"timer", num[v]>> \in Resumers
    BY <1>10, Disjoint DEF Closing, Timers
  <2>2. pc'[<<"timer", num[v]>>] = pc[<<"timer", num[v]>>]
    BY <1>3, <2>1
  <2>3. CASE v \in Closing
    BY <1>10, <2>2, <2>3 DEF Story, AskerFirst
  <2>4. CASE Asking(v)
    BY <1>9, <2>1, <2>2, <2>4
  <2> QED BY <1>8, <1>10, <2>1, <2>3, <2>4 DEF Closing, Asking
<1>11. AskerFirst'
  <2>1. \A v \in Workers : Asking(v)' => \A t \in Resumers : pc'[t] # "dispatch"
    BY <1>3, <1>8, <1>9 DEF Asking
  <2>2. num' = num
    OBVIOUS
  <2> QED BY <1>10, <2>1, <2>2 DEF AskerFirst
<1> QED BY <1>5, <1>6, <1>7, <1>11

\* The run moves on and is not yet resolved.
LEMMA MovingOn ==
  ASSUME Story, Moving, Moving', NEW W, Owed' = Owed \cup W, \A x \in W : x.to # "result",
         UNCHANGED store
  PROVE  Phase'
  BY DEF Story, Phase, NoResult

LEMMA OwnerIsMoving ==
  ASSUME TypeOK, Token, Story, NEW w \in Owners
  PROVE  /\ w \in Workers /\ Moving /\ NoResult
         /\ \A v \in Workers : pc[v] \in Owning => v = w
         /\ Pending = {} /\ ~Redrivable /\ Unstarted = {}
         /\ \A t \in Issuing : SameTicket(t)
         /\ Session /\ ~handle => tid[w] = 0
<1>1. w \in Workers /\ Moving /\ NoResult
  BY DEF Owners, Moving, Story, Phase
<1>2. \A v \in Workers : pc[v] \in Owning => v = w
  BY DEF Owners, Token, Core, OwnerAlone
<1>3. Pending = {} /\ ~Redrivable /\ Unstarted = {} /\ \A t \in Issuing : SameTicket(t)
  BY DEF Token, Core, OwnerAlone, FirstJob
<1>4. Session /\ ~handle => tid[w] = 0
  <2>1. w \in Tasks /\ tid[w] \in Nat /\ tid[w] <= ticket.id
    BY <1>1, Disjoint DEF Token, Core, Tickets, TypeOK
  <2> QED BY <2>1 DEF Story, NeverAsked
<1> QED BY <1>1, <1>2, <1>3, <1>4

\* An attempt goes on.
LEMMA OwnerGoesOn ==
  ASSUME TypeOK, Token, Story, NEW w \in Owners, NEW s \in Owning, NEW W,
         pc' = [pc EXCEPT ![w] = s], s \notin {"killed", "ended"},
         \A t \in Tasks : t # w => todo'[t] = todo[t],
         s = "resolve" => pc[w] = "ended" /\ W = {},
         Owed' = Owed \cup W, \A x \in W : x.to # "result",
         Session /\ ~handle => \A x \in W : x.status # "waiting_user",
         UNCHANGED <<conversation, store, flagged, ticket, handle, mode, num>>
  PROVE  Story'
<1>1. /\ w \in Workers /\ Moving /\ ~Redrivable
      /\ \A v \in Workers : v # w => pc[v] \notin {"ended", "resolve"}
  BY OwnerIsMoving DEF Owning
<1>2. s \notin {"arm", "autoresume"}
  BY DEF Owning
<1>3. Plain' /\ NeverAsked' /\ Sole' /\ AskerFirst'
  BY <1>1, <1>2, WorkerMove
<1>4. Carried'
  BY <1>1 DEF Carried, Redrivable
<1>5. w \in Owners'
  BY <1>1, Disjoint DEF Owners, TypeOK
<1>6. Phase'
  BY <1>1, <1>5, MovingOn DEF Moving
<1> QED BY <1>3, <1>4, <1>6 DEF Story

LEMMA OwedSame == todo' = todo => Owed' = Owed \cup {}
  BY DEF Owed

LEMMA AttemptGoesOn ==
  ASSUME TypeOK, Token, Undisturbed, Story, NEW w \in Workers,
         AdvancePhase(w) \/ CheckCancel(w) \/ Prepare(w) \/ Launch(w) \/ RepairRound(w)
  PROVE  Story'
<1>0. w \in Tasks /\ ~flagged /\ pc[w] # "killed"
  BY Disjoint DEF Story, Plain
<1> DEFINE Kept == UNCHANGED <<conversation, store, flagged, ticket, handle, mode, num>>
<1>a. ASSUME w \in Owners, NEW s \in Owning, pc' = [pc EXCEPT ![w] = s], todo' = todo, Kept,
             s \notin {"killed", "ended"}, s = "resolve" => pc[w] = "ended"
      PROVE  Story'
  <2> DEFINE W == {}
  <2>1. Owed' = Owed \cup W /\ \A x \in W : FALSE
    BY <1>a, OwedSame
  <2> HIDE DEF W
  <2>2. W = {} /\ \A x \in W : x.to # "result" /\ x.status # "waiting_user"
    BY <2>1
  <2> QED BY <1>a, <2>1, <2>2, OwnerGoesOn
<1>b. ASSUME w \in Owners, NEW s \in Owning, pc' = [pc EXCEPT ![w] = s], Kept,
             NEW writes, todo' = [todo EXCEPT ![w] = writes],
             s \notin {"killed", "ended", "resolve"},
             NEW W, Owed' = Owed \cup W, \A x \in W : x.to # "result",
             Session /\ ~handle => \A x \in W : x.status # "waiting_user"
      PROVE  Story'
  <2>1. \A t \in Tasks : t # w => todo'[t] = todo[t]
    BY <1>b DEF TypeOK
  <2> QED BY <1>b, <2>1, OwnerGoesOn
<1>1. CASE AdvancePhase(w)
  <2> DEFINE s == IF pc[w] = "claim" THEN "materialize" ELSE "check"
             x == store.state
  <2>1. /\ pc[w] \in {"claim", "materialize"} /\ todo[w] = <<>>
        /\ pc' = [pc EXCEPT ![w] = s]
        /\ todo' = [todo EXCEPT ![w] = <<Put("state", x)>>]
        /\ Kept
    BY <1>1 DEF AdvancePhase, At, Goto, data, steady, server
  <2>2. w \in Owners /\ s \in Owning /\ s \in {"materialize", "check"}
    BY <2>1 DEF Owners, Owning
  <2>3. Owed' = Owed \cup {Put("state", x)}
    BY <1>0, <2>1, OwedMore, ProjectionRanges
  <2>4. Session /\ ~handle => x # "waiting_user"
    BY DEF Story, NeverAsked
  <2> HIDE DEF s, x
  <2> DEFINE W == {Put("state", x)}
  <2>5. Owed' = Owed \cup W /\ \A y \in W : y.to # "result" /\ y.status = x
    BY <2>3, PutIs
  <2> HIDE DEF Kept, W
  <2> QED BY <1>b, <2>1, <2>2, <2>3, <2>4, <2>5
<1>2. CASE CheckCancel(w)
  <2>1. /\ todo[w] = <<>> /\ Kept
        /\ \/ /\ pc[w] = "check" /\ pc' = [pc EXCEPT ![w] = "prepare"]
              /\ todo' = [todo EXCEPT ![w] = NonTerminalProjection("running")]
           \/ pc[w] = "recheck" /\ pc' = [pc EXCEPT ![w] = "launch"] /\ todo' = todo
           \/ pc[w] = "ended" /\ pc' = [pc EXCEPT ![w] = "resolve"] /\ todo' = todo
    BY <1>0, <1>2 DEF CheckCancel, At, GotoOwing, Goto, data, steady, server
  <2>2. w \in Owners
    BY <2>1 DEF Owners, Owning
  <2>3. CASE pc[w] = "check" /\ pc' = [pc EXCEPT ![w] = "prepare"]
             /\ todo' = [todo EXCEPT ![w] = NonTerminalProjection("running")]
    <3>1. Owed' = Owed \cup {Put("state", "running"), Put("row", "running")}
      BY <1>0, <2>1, <2>3, OwedMore, ProjectionRanges
    <3> DEFINE W == {Put("state", "running"), Put("row", "running")}
    <3>2. \A y \in W : y.to # "result" /\ y.status # "waiting_user"
      BY PutIs
    <3>3. Owed' = Owed \cup W
      BY <3>1
    <3> HIDE DEF W, Kept
    <3> QED BY <1>b, <2>1, <2>2, <2>3, <3>2, <3>3 DEF Owning
  <2>4. CASE pc[w] = "recheck" /\ pc' = [pc EXCEPT ![w] = "launch"] /\ todo' = todo
    BY <2>1, <2>2, <2>4, <1>a DEF Owning
  <2>5. CASE pc[w] = "ended" /\ pc' = [pc EXCEPT ![w] = "resolve"] /\ todo' = todo
    BY <2>1, <2>2, <2>5, <1>a DEF Owning
  <2> QED BY <2>1, <2>3, <2>4, <2>5
<1>3. CASE Prepare(w)
  <2>1. pc[w] = "prepare" /\ Kept
    BY <1>3 DEF Prepare, At, steady, server
  <2>2. w \in Owners
    BY <2>1 DEF Owners, Owning
  <2>3. pc' = [pc EXCEPT ![w] = "recheck"] /\ todo' = todo
    <3>1. Session /\ ~handle => tid[w] = 0
      BY <2>2, OwnerIsMoving
    <3> QED BY <1>3, <3>1 DEF Prepare, Goto
  <2> QED BY <2>1, <2>2, <2>3, <1>a DEF Owning
<1>4. CASE Launch(w)
  <2>1. /\ pc[w] = "launch" /\ pc' = [pc EXCEPT ![w] = "engine"] /\ todo' = todo
        /\ Kept
    BY <1>4 DEF Launch, At, Goto, data, steady, server
  <2>2. w \in Owners
    BY <2>1 DEF Owners, Owning
  <2> QED BY <2>1, <2>2, <1>a DEF Owning
<1>5. CASE RepairRound(w)
  <2>1. /\ pc[w] = "resolve" /\ pc' = [pc EXCEPT ![w] = "repair"] /\ todo' = todo
        /\ Kept
    BY <1>0, <1>5 DEF RepairRound, At, Goto, data, server
  <2>2. w \in Owners
    BY <2>1 DEF Owners, Owning
  <2> QED BY <2>1, <2>2, <1>a DEF Owning
<1> QED BY <1>1, <1>2, <1>3, <1>4, <1>5

\* A job that is admitted, or starts its ticket, or finds it started.
LEMMA JobGoesOn ==
  ASSUME TypeOK, Token, Undisturbed, Story, NEW w \in Workers, Admit(w) \/ StartTicket(w)
  PROVE  Story'
<1> DEFINE s == pc'[w]
<1>1. /\ pc[w] \in {"new", "ticket"} /\ pc' = [pc EXCEPT ![w] = s]
      /\ s \in {"ticket", "claim", "done"}
      /\ UNCHANGED <<conversation, store, flagged, inter, handle, mode, todo, num, tid>>
  <2>1. w \in Tasks
    BY Disjoint
  <2> QED BY <2>1 DEF Admit, StartTicket, At, Goto, data, steady, server, TypeOK
<1>2. /\ s = "ticket" => pc[w] = "new" /\ UNCHANGED ticket
      /\ s = "claim" => \/ pc[w] = "ticket" /\ tid[w] = 0 /\ UNCHANGED ticket
                        \/ Redrivable /\ ticket' = [ticket EXCEPT !.state = "started"]
      /\ s = "done" => /\ pc[w] = "ticket" /\ tid[w] # 0 /\ UNCHANGED ticket
                       /\ ~(tid[w] = ticket.id /\ Redrivable)
  <2>1. w \in Tasks
    BY Disjoint
  <2>2. CASE Admit(w)
    BY <2>1, <2>2 DEF Admit, At, Goto, TypeOK, data
  <2>3. CASE StartTicket(w)
    BY <2>1, <2>3 DEF StartTicket, At, Goto, TypeOK
  <2> QED BY <2>2, <2>3
<1>3. s \in {"ticket", "claim", "done"} /\ pc'[w] = s
  BY <1>1
<1> HIDE DEF s
<1>4. w \in Tasks /\ \A t \in Tasks : t # w => pc'[t] = pc[t]
  BY <1>1, Disjoint DEF TypeOK
<1>5. Plain' /\ NeverAsked' /\ Sole' /\ AskerFirst'
  <2> DEFINE W == {}
  <2>1. Owed' = Owed \cup W /\ W = {}
    BY <1>1, OwedSame
  <2>2. ticket'.id = ticket.id
    BY <1>2, <1>3 DEF TypeOK
  <2> HIDE DEF W
  <2> QED BY <1>1, <1>3, <2>1, <2>2, WorkerMove
<1>6. CASE s = "claim"
  <2>1. Moving
    BY <1>1, <1>2, <1>6 DEF Moving, Unstarted
  <2>2. Moving'
    BY <1>3, <1>6 DEF Moving, Owners, Owning
  <2>3. ~Redrivable'
    <3>1. CASE pc[w] = "ticket" /\ tid[w] = 0 /\ UNCHANGED ticket
      <4>1. w \in Unstarted
        BY <3>1 DEF Unstarted
      <4>2. ticket.id = 0
        BY <4>1 DEF Token, Core, FirstJob
      <4> QED BY <3>1, <4>2 DEF Token, Core, Tickets, Redrivable
    <3>2. CASE ticket' = [ticket EXCEPT !.state = "started"]
      BY <3>2 DEF TypeOK, Redrivable
    <3> QED BY <1>2, <1>6, <3>1, <3>2
  <2>4. Phase'
    BY <1>1, <2>1, <2>2 DEF Story, Phase, NoResult, Owed
  <2> QED BY <1>5, <2>3, <2>4 DEF Story, Carried
<1>7. CASE s # "claim"
  <2>1. ticket' = ticket /\ (Redrivable' <=> Redrivable)
    BY <1>2, <1>3, <1>7 DEF Redrivable
  <2>2. Carried'
    <3>1. \A t \in Resumers : pc'[t] = pc[t]
      BY <1>4, Disjoint
    <3>2. \A v \in Workers : pc[v] = "ticket" /\ Redrivable /\ tid[v] = ticket.id => pc'[v] = "ticket"
      BY <1>1, <1>2, <1>3, <1>4, <1>7, Disjoint
    <3> QED BY <1>1, <2>1, <3>1, <3>2 DEF Story, Carried, Redrivable
  <2>3. Unstarted' = Unstarted
    BY <1>1, <1>2, <1>3, <1>4, <1>7, Disjoint DEF Unstarted
  <2>4. Owners' = Owners /\ \A v \in Workers : pc'[v] = "arm" <=> pc[v] = "arm"
    BY <1>1, <1>3, <1>4, <1>7, Disjoint DEF Owners, Owning
  <2>5. Issuing' = Issuing /\ Deciding' = Deciding /\ Requeuing' = Requeuing
    BY <1>1, <1>3, <1>4, Disjoint DEF Issuing, Deciding, Requeuing
  <2>6. Moving' <=> Moving
    BY <1>1, <2>1, <2>3, <2>4, <2>5 DEF Moving, SameTicket
  <2>7. Phase'
    BY <1>1, <2>1, <2>4, <2>5, <2>6
       DEF Story, Phase, NoResult, Waiting, Over, Settling, Owed, Session, Pending, Minded
  <2> QED BY <1>5, <2>2, <2>7 DEF Story
<1> QED BY <1>6, <1>7

\* The engine exits when nothing else is under way.
LEMMA EngineExitsAlone ==
  ASSUME TypeOK, Token, Undisturbed, Story, NEW w \in Workers, EngineExit(w)
  PROVE  Story'
<1>1. /\ pc[w] \in {"engine", "repair"} /\ w \in Tasks /\ todo[w] = <<>>
      /\ handle => handle'
      /\ UNCHANGED <<conversation, store, flagged, inter, ticket, mode, todo, num, tid>>
      /\ \A t \in Tasks \ ({w} \cup Cancellers) : AtRest(t)
      /\ pc' = [pc EXCEPT ![w] = "ended"] \/ pc' = [pc EXCEPT ![w] = "resolve"]
  <2>1. handle => handle'
    BY DEF EngineExit
  <2> QED BY <2>1, Disjoint DEF EngineExit, At, Goto, steady, server
<1>2. pc'[w] \in {"ended", "resolve"} /\ \A t \in Tasks : t # w => pc'[t] = pc[t]
  BY <1>1 DEF TypeOK
<1>3. w \in Owners /\ w \in Owners'
  BY <1>1, <1>2 DEF Owners, Owning
<1>4. Moving /\ Moving' /\ ~Redrivable'
  BY <1>1, <1>3, OwnerIsMoving DEF Moving, Redrivable
<1>5. Owed' = Owed /\ Session' = Session
  BY <1>1 DEF Owed, Session
<1>6. \A t \in Resumers : t \in Tasks /\ pc'[t] = pc[t] /\ pc[t] # "dispatch"
  BY <1>1, <1>2, Disjoint DEF AtRest
<1>7. \A v \in Workers : v \in Tasks /\ (v # w => pc'[v] = pc[v])
  BY <1>2, Disjoint
<1>8. Plain'
  <2>1. \A t \in Tasks \ (Workers \cup Resumers) : pc'[t] = "idle" /\ todo'[t] = <<>>
    BY <1>1, <1>2 DEF Story, Plain
  <2>2. (\A v \in Workers : pc'[v] # "killed") /\ (Session => Requeuing' = {})
    BY <1>2, <1>7 DEF Story, Plain, Requeuing
  <2> QED BY <1>1, <1>5, <2>1, <2>2 DEF Story, Plain
<1>9. NeverAsked'
  BY <1>1, <1>2, <1>5, <1>6, <1>7 DEF Story, NeverAsked
<1>10. Sole'
  <2>1. \A t \in Tasks : todo[t] = <<>>
    <3> TAKE t \in Tasks
    <3>1. CASE t \in Cancellers
      <4>1. t \notin Workers \cup Resumers
        BY <3>1, Disjoint
      <4> QED BY <4>1 DEF Story, Plain
    <3> QED BY <1>1, <3>1 DEF AtRest
  <2>2. Owed = {}
    BY <2>1 DEF Owed, Range
  <2> QED BY <1>5, <2>2 DEF Sole
<1>11. AskerFirst'
  <2>1. ASSUME NEW v \in Closing', num'[v] \in Attempts PROVE pc'[<<"timer", num'[v]>>] # "dispatch"
    <3>1. <<"timer", num'[v]>> \in Resumers
      BY <2>1, Disjoint DEF Timers
    <3> QED BY <1>6, <3>1
  <2> QED BY <1>6, <2>1 DEF AskerFirst
<1>12. Carried' /\ Phase'
  BY <1>1, <1>4, <1>5 DEF Story, Carried, Phase, NoResult
<1> QED BY <1>8, <1>9, <1>10, <1>11, <1>12 DEF Story

-----------------------------------------------------------------------------
(* The end of a turn *)

\* The token is with nobody who will start a job.
LEMMA TurnResolved ==
  ASSUME TypeOK, Token, Story, NEW w \in Workers, pc[w] = "resolve",
         NEW s \in {"done", "bundle", "arm", "autoresume"}, pc' = [pc EXCEPT ![w] = s],
         UNCHANGED <<ticket, num, tid>>
  PROVE  /\ ~Moving' /\ ~Redrivable' /\ Owed = {} /\ NoResult /\ Pending = {}
         /\ w \in Tasks /\ pc'[w] = s /\ \A t \in Tasks : t # w => pc'[t] = pc[t]
         /\ \A v \in Workers : v # w => pc[v] \notin {"ended", "resolve", "arm"}
         /\ Deciding' = {} /\ Issuing' = {} /\ Requeuing' \subseteq {w}
         /\ s # "autoresume" => Requeuing' = {}
<1>1. w \in Owners /\ w \in Tasks /\ Asking(w)
  BY Disjoint DEF Owners, Owning, Asking
<1>2. /\ NoResult /\ Pending = {} /\ ~Redrivable /\ Unstarted = {}
      /\ \A v \in Workers : pc[v] \in Owning => v = w
  BY <1>1, OwnerIsMoving
<1>3. Owed = {}
  BY DEF Story, Sole
<1>4. Minded = {} /\ \A v \in Workers : pc[v] = "arm" => v = w
  BY <1>1 DEF Token, Core, AskerAlone, Closing
<1>5. pc'[w] = s /\ \A t \in Tasks : t # w => pc'[t] = pc[t]
  BY <1>1 DEF TypeOK
<1>6. \A v \in Workers : v \in Tasks /\ (v # w => pc'[v] = pc[v])
  BY <1>5, Disjoint
<1>7. \A t \in Resumers : pc'[t] = pc[t]
  BY <1>1, <1>5, Disjoint
<1>8. Deciding' = {} /\ Issuing' = {}
  BY <1>4, <1>7 DEF Minded, Deciding, Issuing
<1>9. Requeuing' \subseteq {w} /\ (s # "autoresume" => Requeuing' = {})
  BY <1>4, <1>5, <1>6 DEF Minded, Requeuing
<1>10. Unstarted' = {}
  BY <1>2, <1>5, <1>6 DEF Unstarted
<1>11. Owners' = {}
  BY <1>2, <1>5, <1>6 DEF Owners, Owning
<1>12. ~Redrivable'
  BY <1>2 DEF Redrivable
<1>13. ~Moving'
  BY <1>8, <1>10, <1>11, <1>12 DEF Moving
<1>14. \A v \in Workers : v # w => pc[v] \notin {"ended", "resolve", "arm"}
  BY <1>2, <1>4 DEF Owning
<1> QED BY <1>1, <1>2, <1>3, <1>5, <1>8, <1>9, <1>12, <1>13, <1>14

LEMMA RunIsOver ==
  ASSUME TypeOK, Token, Story, NEW w \in Workers, pc[w] = "resolve",
         NEW s \in {"done", "bundle"}, pc' = [pc EXCEPT ![w] = s], todo[w] = <<>>,
         NEW status \in Terminal,
         todo' = [todo EXCEPT ![w] = TerminalProjection(status) \o <<Put("row", status)>>],
         Pending' = {} \/ (Session /\ ~handle),
         UNCHANGED <<conversation, store, flagged, handle, mode, ticket, num, tid>>
  PROVE  Story'
<1> DEFINE W == {Put("state", status), Put("row", status), Put("result", status)}
<1>1. /\ ~Moving' /\ ~Redrivable' /\ Owed = {} /\ w \in Tasks /\ pc'[w] = s
      /\ \A t \in Tasks : t # w => pc'[t] = pc[t]
      /\ \A v \in Workers : v # w => pc[v] \notin {"ended", "resolve", "arm"}
      /\ Deciding' = {} /\ Issuing' = {} /\ Requeuing' = {}
  BY TurnResolved
<1>2. Owed' = Owed \cup W
  BY <1>1, OwedMore, ProjectionRanges
<1>3. /\ \A x \in W : x.status = status /\ x.status # "waiting_user"
      /\ \A f \in {"state", "row", "result"} : \E x \in W : x.to = f
  BY PutIs DEF Terminal
<1>4. \A t \in Tasks : t # w => todo'[t] = todo[t]
  BY DEF TypeOK
<1> HIDE DEF W
<1>5. Plain' /\ NeverAsked' /\ Sole' /\ AskerFirst'
  BY <1>1, <1>2, <1>3, <1>4, WorkerMove
<1>6. Settling(status, {"state", "row", "result"})'
  BY <1>1, <1>2, <1>3 DEF Settling
<1>7. \A v \in Workers : pc'[v] # "arm"
  BY <1>1, Disjoint
<1>8. Session' = Session
  BY DEF Session
<1>9. Over'
  BY <1>1, <1>6, <1>7, <1>8 DEF Over, Minded
<1>10. Carried' /\ Phase'
  BY <1>1, <1>9 DEF Carried, Phase
<1> QED BY <1>5, <1>10 DEF Story

LEMMA TurnEnds ==
  ASSUME TypeOK, Token, Undisturbed, Story, NEW w \in Workers,
         TurnFailed(w) \/ (TurnSucceeded(w) /\ pc[w] = "resolve")
  PROVE  Story'
<1>1. Pending = {} /\ pc[w] = "resolve"
  <2>1. pc[w] = "resolve"
    BY DEF TurnFailed, At, Story, Plain
  <2>2. w \in Owners
    BY <2>1 DEF Owners, Owning
  <2> QED BY <2>1, <2>2, OwnerIsMoving
<1>2. /\ todo[w] = <<>>
      /\ UNCHANGED <<conversation, store, flagged, inter, handle, mode, ticket, num, tid>>
  BY DEF TurnFailed, TurnSucceeded, At, Converged, data, server
<1>3. Pending' = {}
  BY <1>1, <1>2 DEF Pending
<1>4. CASE TurnFailed(w)
  <2>1. /\ pc' = [pc EXCEPT ![w] = "done"]
        /\ todo' = [todo EXCEPT ![w] = TerminalProjection("failed") \o <<Put("row", "failed")>>]
    BY <1>4 DEF TurnFailed, Finish, GotoOwing, Goto
  <2>2. "failed" \in Terminal
    BY DEF Terminal
  <2> QED BY <1>1, <1>2, <1>3, <2>1, <2>2, RunIsOver
<1>5. CASE TurnSucceeded(w)
  <2>1. /\ pc' = [pc EXCEPT ![w] = "bundle"]
        /\ todo' = [todo EXCEPT ![w] = TerminalProjection("succeeded") \o <<Put("row", "succeeded")>>]
    BY <1>1, <1>5 DEF TurnSucceeded, At, GotoOwing, Goto
  <2>2. "succeeded" \in Terminal
    BY DEF Terminal
  <2> QED BY <1>1, <1>2, <1>3, <2>1, <2>2, RunIsOver
<1> QED BY <1>4, <1>5

\* The run asks: it waits, is put back in the queue, or cannot do either.
LEMMA TurnEndsAsking ==
  ASSUME TypeOK, Token, Undisturbed, Story, NEW w \in Workers, TurnAsks(w)
  PROVE  Story'
<1> DEFINE a == num[w]
<1>1. /\ pc[w] = "resolve" /\ todo[w] = <<>> /\ a < MaxAttempt - Fewer
      /\ inter' = [inter EXCEPT ![a] = [state |-> "pending", by |-> "none"]]
      /\ UNCHANGED <<conversation, store, flagged, handle, mode, ticket, num, tid>>
      /\ \/ /\ Session /\ handle /\ pc' = [pc EXCEPT ![w] = "arm"]
            /\ todo' = [todo EXCEPT ![w] = NonTerminalProjection("waiting_user")]
         \/ /\ Session /\ ~handle /\ pc' = [pc EXCEPT ![w] = "done"]
            /\ todo' = [todo EXCEPT ![w] = TerminalProjection("failed") \o <<Put("row", "failed")>>]
         \/ /\ ~Session /\ pc' = [pc EXCEPT ![w] = "autoresume"]
            /\ todo' = [todo EXCEPT ![w] = NonTerminalProjection("queued") \o <<Put("row", "queued")>>]
  BY DEF TurnAsks, At, Finish, GotoOwing, Goto, Converged, server
<1>2. a \in Attempts
  <2>1. w \in Owners
    BY <1>1 DEF Owners, Owning
  <2>2. a >= 1 /\ a \in Nat
    BY <2>1, Disjoint DEF Token, Core, OwnerAlone, TypeOK
  <2> QED BY <1>1, <2>2, Bounds DEF Attempts, Fewer
<1>3. Pending' # {}
  BY <1>1, <1>2 DEF Pending, TypeOK
<1>4. Session' = Session /\ Asking(w) /\ w \in Tasks /\ \A t \in Tasks : t # w => todo'[t] = todo[t]
  BY <1>1, Disjoint DEF Session, Asking, Story, Plain, TypeOK
<1>5. CASE /\ Session /\ handle /\ pc' = [pc EXCEPT ![w] = "arm"]
           /\ todo' = [todo EXCEPT ![w] = NonTerminalProjection("waiting_user")]
  <2> DEFINE W == {Put("state", "waiting_user"), Put("row", "waiting_user")}
  <2>1. /\ ~Moving' /\ ~Redrivable' /\ Owed = {} /\ NoResult
        /\ \A v \in Workers : v # w => pc[v] \notin {"ended", "resolve", "arm"}
    BY <1>1, <1>5, TurnResolved
  <2>2. Owed' = Owed \cup W
    BY <1>1, <1>4, <1>5, OwedMore, ProjectionRanges
  <2>3. /\ \A x \in W : x.status = "waiting_user" /\ x.to # "result"
        /\ \A f \in {"state", "row"} : \E x \in W : x.to = f
    BY PutIs
  <2> HIDE DEF W
  <2>4. Plain' /\ NeverAsked' /\ Sole' /\ AskerFirst'
    BY <1>1, <1>4, <1>5, <2>1, <2>2, <2>3, WorkerMove
  <2>5. Settling("waiting_user", {"state", "row"})'
    BY <2>1, <2>2, <2>3 DEF Settling
  <2>6. NoResult'
    BY <1>1, <2>1, <2>2, <2>3 DEF NoResult
  <2>7. Waiting'
    BY <1>1, <1>3, <1>4, <1>5, <2>5 DEF Waiting
  <2> QED BY <2>1, <2>4, <2>6, <2>7 DEF Story, Carried, Phase
<1>6. CASE /\ Session /\ ~handle /\ pc' = [pc EXCEPT ![w] = "done"]
           /\ todo' = [todo EXCEPT ![w] = TerminalProjection("failed") \o <<Put("row", "failed")>>]
  <2>1. "failed" \in Terminal
    BY DEF Terminal
  <2> QED BY <1>1, <1>6, <2>1, RunIsOver
<1>7. CASE /\ ~Session /\ pc' = [pc EXCEPT ![w] = "autoresume"]
           /\ todo' = [todo EXCEPT ![w] = NonTerminalProjection("queued") \o <<Put("row", "queued")>>]
  <2> DEFINE W == {Put("state", "queued"), Put("row", "queued")}
  <2>1. /\ ~Moving' /\ ~Redrivable' /\ Owed = {} /\ NoResult /\ pc'[w] = "autoresume"
        /\ \A v \in Workers : v # w => pc[v] \notin {"ended", "resolve", "arm"}
    BY <1>1, <1>7, TurnResolved
  <2>2. Owed' = Owed \cup W
    <3>1. "queued" \in Statuses
      BY DEF Statuses
    <3> QED BY <1>1, <1>4, <1>7, <3>1, OwedMore, ProjectionRanges
  <2>3. \A x \in W : x.status # "waiting_user" /\ x.to # "result"
    BY PutIs
  <2> HIDE DEF W
  <2>4. Plain' /\ NeverAsked' /\ Sole' /\ AskerFirst'
    BY <1>1, <1>4, <1>7, <2>1, <2>2, <2>3, WorkerMove
  <2>5. NoResult'
    BY <1>1, <2>1, <2>2, <2>3 DEF NoResult
  <2>6. w \in Requeuing'
    BY <2>1 DEF Requeuing
  <2>7. Waiting'
    BY <1>3, <1>4, <1>7, <2>6 DEF Waiting
  <2> QED BY <2>1, <2>4, <2>5, <2>7 DEF Story, Carried, Phase
<1> QED BY <1>1, <1>5, <1>6, <1>7

-----------------------------------------------------------------------------
(* The steps of those who resume the run *)

\* Nobody comes to hold the token, or lets it go.
LEMMA PhaseKept ==
  ASSUME Story, Moving' <=> Moving, Owed' = Owed, Pending' = Pending,
         Requeuing \cup Deciding # {} => Requeuing' \cup Deciding' # {},
         Minded = {} => Minded' = {},
         (\A w \in Workers : pc[w] # "arm") => \A w \in Workers : pc'[w] # "arm",
         UNCHANGED <<conversation, store, handle>>
  PROVE  Phase'
<1>1. Session' = Session
  BY DEF Session
<1>2. \A s, F : Settling(s, F) => Settling(s, F)'
  BY DEF Settling
<1>3. NoResult' = NoResult
  BY DEF NoResult
<1>4. Waiting => Waiting'
  BY <1>1, <1>2 DEF Waiting
<1>5. Over => Over'
  BY <1>1, <1>2 DEF Over
<1> QED BY <1>3, <1>4, <1>5 DEF Story, Phase

\* A worker that has built its bundles is done.
LEMMA BundlesBuilt ==
  ASSUME TypeOK, Token, Undisturbed, Story, NEW w \in Workers,
         TurnSucceeded(w), pc[w] = "bundle"
  PROVE  Story'
<1>1. /\ pc' = [pc EXCEPT ![w] = "done"]
      /\ UNCHANGED <<conversation, store, flagged, inter, handle, mode, ticket, todo, num, tid>>
  BY DEF TurnSucceeded, At, Goto, CanFail, Undisturbed, Converged, data, server
<1>2. w \in Tasks /\ pc'[w] = "done" /\ \A t \in Tasks : t # w => pc'[t] = pc[t]
  BY <1>1, Disjoint DEF TypeOK
<1>3. \A v \in Workers : v \in Tasks /\ (v # w => pc'[v] = pc[v])
  BY <1>2, Disjoint
<1>4. \A t \in Resumers : pc'[t] = pc[t]
  BY <1>2, Disjoint
<1>5. /\ Unstarted' = Unstarted /\ Owners' = Owners /\ Requeuing' = Requeuing
      /\ Issuing' = Issuing /\ Deciding' = Deciding
  BY <1>1, <1>2, <1>3, <1>4 DEF Unstarted, Owners, Owning, Requeuing, Issuing, Deciding
<1>6. Moving' <=> Moving
  BY <1>1, <1>5 DEF Moving, Redrivable, SameTicket
<1>7. Phase'
  BY <1>1, <1>2, <1>3, <1>5, <1>6, PhaseKept DEF Owed, Pending, Minded
<1>8. Carried'
  BY <1>1, <1>2 DEF Story, Carried, Redrivable
<1>9. Plain' /\ NeverAsked' /\ Sole' /\ AskerFirst'
  <2> DEFINE W == {}
  <2>1. Owed' = Owed \cup W /\ W = {}
    BY <1>1, OwedSame
  <2> HIDE DEF W
  <2> QED BY <1>1, <2>1, WorkerMove
<1> QED BY <1>7, <1>8, <1>9 DEF Story

\* Who resumes a session has a handle to come back to.
LEMMA HandleToResume ==
  ASSUME Story, NEW t \in Resumers, pc[t] # "idle" \/ store.state = "waiting_user"
  PROVE  Session => handle
  BY DEF Story, NeverAsked

LEMMA ResumerMove ==
  ASSUME TypeOK, Story, NEW t \in Resumers, NEW s, NEW W,
         pc' = [pc EXCEPT ![t] = s], Session => handle,
         \A u \in Tasks : u # t => todo'[u] = todo[u] /\ tid'[u] = tid[u],
         \A w \in Workers : num'[w] = num[w],
         s = "dispatch" => \A w \in Closing : /\ ~Asking(w)
                                              /\ num[w] \in Attempts => t # <<"timer", num[w]>>,
         Owed' = Owed \cup W,
         W = {} \/ \A v \in Workers : pc[v] \notin {"ended", "resolve"},
         UNCHANGED <<conversation, store, flagged, handle, mode>>
  PROVE  /\ Plain' /\ NeverAsked' /\ Sole' /\ AskerFirst'
         /\ t \in Tasks /\ pc'[t] = s /\ \A u \in Tasks : u # t => pc'[u] = pc[u]
         /\ \A w \in Workers : pc'[w] = pc[w]
         /\ Unstarted' = Unstarted /\ Owners' = Owners /\ Requeuing' = Requeuing
<1>1. t \in Tasks /\ pc'[t] = s /\ \A u \in Tasks : u # t => pc'[u] = pc[u]
  BY Disjoint DEF TypeOK
<1>2. \A w \in Workers : w \in Tasks /\ w # t /\ pc'[w] = pc[w]
  BY <1>1, Disjoint
<1>3. Unstarted' = Unstarted /\ Owners' = Owners /\ Requeuing' = Requeuing
  BY <1>2 DEF Unstarted, Owners, Requeuing
<1>4. Session' = Session
  BY DEF Session
<1>5. Plain'
  <2>1. \A u \in Tasks \ (Workers \cup Resumers) : pc'[u] = "idle" /\ todo'[u] = <<>>
    BY <1>1 DEF Story, Plain
  <2> QED BY <1>2, <1>3, <1>4, <2>1 DEF Story, Plain
<1>6. NeverAsked'
  BY <1>4 DEF NeverAsked
<1>7. Sole'
  BY <1>2 DEF Story, Sole
<1>8. Closing' = Closing /\ \A w \in Workers : Asking(w)' = Asking(w)
  BY <1>2 DEF Closing, Asking
<1>9. \A w \in Workers : Asking(w) => w \in Closing
  BY DEF Closing
<1>10. \A w \in Closing : w \in Workers
  BY DEF Closing
<1>11. \A w \in Workers : Asking(w) => \A u \in Resumers : pc'[u] # "dispatch"
  <2> SUFFICES ASSUME NEW w \in Workers, Asking(w), NEW u \in Resumers PROVE pc'[u] # "dispatch"
    OBVIOUS
  <2>1. u \in Tasks /\ pc[u] # "dispatch"
    BY Disjoint DEF Story, AskerFirst
  <2> QED BY <1>1, <1>9, <2>1
<1>12. \A w \in Closing : num[w] \in Attempts => pc'[<<"timer", num[w]>>] # "dispatch"
  <2> SUFFICES ASSUME NEW w \in Closing, num[w] \in Attempts
               PROVE  pc'[<<"timer", num[w]>>] # "dispatch"
    OBVIOUS
  <2>1. <<"timer", num[w]>> \in Tasks /\ pc[<<"timer", num[w]>>] # "dispatch"
    BY Disjoint DEF Story, AskerFirst, Timers
  <2> QED BY <1>1, <2>1
<1>13. AskerFirst'
  BY <1>8, <1>10, <1>11, <1>12 DEF AskerFirst, Asking
<1> QED BY <1>1, <1>2, <1>3, <1>5, <1>6, <1>7, <1>13

\* A timer fires, a client replies: they look for the question ...
LEMMA ResumerLooks ==
  ASSUME TypeOK, Token, Undisturbed, Story, NEW t \in Resumers,
         TimerFires(t) \/ ReplyArrives(t) \/ LookUpPending(t)
  PROVE  Story'
<1> DEFINE s == pc'[t]
<1>1. /\ pc[t] \in {"armed", "idle", "look"} /\ pc' = [pc EXCEPT ![t] = s]
      /\ s \in {"look", "done", "decide"}
      /\ UNCHANGED <<conversation, store, flagged, inter, ticket, handle, mode, todo, tid>>
      /\ pc[t] = "idle" => store.state = "waiting_user"
      /\ s = "decide" => Pending # {}
      /\ \A u \in Tasks : u # t => num'[u] = num[u]
  <2>1. t \in Tasks
    BY Disjoint
  <2> QED BY <2>1 DEF TimerFires, ReplyArrives, LookUpPending, At, Goto, data, steady, server, TypeOK
<1>2. Session => handle
  BY <1>1, HandleToResume
<1>3. s \in {"look", "done", "decide"} /\ pc'[t] = s
  BY <1>1
<1> HIDE DEF s
<1>4. Owed' = Owed /\ Pending' = Pending
  BY <1>1 DEF Owed, Pending
<1>5. /\ Plain' /\ NeverAsked' /\ Sole' /\ AskerFirst'
      /\ t \in Tasks /\ \A u \in Tasks : u # t => pc'[u] = pc[u]
      /\ \A w \in Workers : pc'[w] = pc[w]
      /\ Unstarted' = Unstarted /\ Owners' = Owners /\ Requeuing' = Requeuing
  <2> DEFINE W == {}
  <2>1. Owed' = Owed \cup W /\ W = {}
    BY <1>4
  <2>2. \A w \in Workers : num'[w] = num[w]
    BY <1>1, Disjoint
  <2> HIDE DEF W
  <2> QED BY <1>1, <1>2, <1>3, <2>1, <2>2, ResumerMove
<1>6. Carried'
  BY <1>1, <1>3, <1>5 DEF Story, Carried, Redrivable
<1>7. \A u \in Resumers : u \in Tasks /\ (u # t => pc'[u] = pc[u])
  BY <1>5, Disjoint
<1>8. Issuing' = Issuing /\ t \notin Issuing
  BY <1>1, <1>3, <1>7 DEF Issuing
<1>9. \A u \in Issuing : num'[u] = num[u]
  BY <1>1, <1>7, <1>8 DEF Issuing
<1>10. Moving' <=> Moving
  BY <1>1, <1>5, <1>8, <1>9 DEF Moving, Redrivable, SameTicket
<1>11. CASE s # "decide"
  <2>1. Deciding' = Deciding
    BY <1>1, <1>3, <1>7, <1>11 DEF Deciding
  <2>2. Phase'
    BY <1>1, <1>4, <1>5, <1>8, <1>10, <2>1, PhaseKept DEF Minded
  <2> QED BY <1>5, <1>6, <2>2 DEF Story
<1>12. CASE s = "decide"
  <2>1. t \in Deciding'
    BY <1>3, <1>12 DEF Deciding
  <2>2. ~Over
    BY <1>1, <1>2, <1>12 DEF Over
  <2>3. NoResult'
    BY <1>1, <1>4, <2>2 DEF Story, Phase, NoResult
  <2>4. ~Moving => Waiting'
    BY <1>1, <1>4, <2>1, <2>2 DEF Story, Phase, Waiting, Settling, Session
  <2> QED BY <1>5, <1>6, <1>10, <2>3, <2>4 DEF Story, Phase
<1> QED BY <1>11, <1>12

\* ... whoever has it in hand finds the run waiting or moving on ...
LEMMA MindedIsBefore ==
  ASSUME Story, Minded # {} PROVE NoResult /\ (Moving \/ Waiting)
  BY DEF Story, Phase, Over

LEMMA NobodyAsks ==
  ASSUME Token, Story, Minded # {}
  PROVE  \A w \in Workers : ~Asking(w) /\ pc[w] \notin {"ended", "resolve"}
  BY DEF Token, Core, AskerAlone, Asking, Story, Plain

\* ... answer it ...
LEMMA ReplySubmitted ==
  ASSUME TypeOK, Token, Undisturbed, Story, NEW t \in Resumers, SubmitReply(t)
  PROVE  Story'
<1> DEFINE i == num[t]
<1>1. /\ pc[t] = "decide" /\ todo[t] = <<>> /\ t \in Tasks
      /\ UNCHANGED <<conversation, store, flagged, ticket, handle, mode, num, tid>>
  BY Disjoint DEF SubmitReply, At, steady, server
<1>2. t \in Deciding /\ t \in Minded
  BY <1>1 DEF Deciding, Minded
<1>3. NoResult /\ (Moving \/ Waiting)
  BY <1>2, MindedIsBefore
<1>4. \A w \in Workers : ~Asking(w) /\ pc[w] \notin {"ended", "resolve"}
  BY <1>2, NobodyAsks
<1>5. Session => handle
  BY <1>1, HandleToResume
<1>6. i \in Attempts /\ i \in Nat
  BY <1>1, <1>2 DEF Token, Core, OneMind, TypeOK
<1>7. \A a \in Pending : a = i
  BY <1>2 DEF Token, Core, OneQuestion
<1>8. Moving <=> ~First(i)
  <2>1. First(i) => ~Moving
    <3> SUFFICES ASSUME First(i) PROVE ~Moving
      OBVIOUS
    <3>1. i \in Pending
      BY <1>6 DEF First, Pending
    <3>2. Issuing = {}
      BY <3>1 DEF Token, Core, OneQuestion
    <3>3. Owners = {} /\ Unstarted = {} /\ ~Redrivable
      BY <3>1 DEF Token, Core, OwnerAlone, FirstJob, TicketAlone
    <3> QED BY <3>2, <3>3 DEF Moving
  <2>2. Waiting => First(i)
    BY <1>7 DEF Waiting, Pending, First
  <2> QED BY <1>3, <2>1, <2>2
<1> DEFINE s == pc'[t]
           Puts == {Put("state", "queued"), Put("row", "queued")}
<1>9. /\ pc' = [pc EXCEPT ![t] = s] /\ \A u \in Tasks : u # t => todo'[u] = todo[u]
      /\ First(i) => inter' = [inter EXCEPT ![i] = [state |-> "answered", by |-> t[1]]]
      /\ \/ /\ s = "issue" /\ \E W \in SUBSET Puts : Owed' = Owed \cup W
            /\ First(i) \/ (t[1] = "timer" /\ inter[i].by = "timer")
         \/ s = "done" /\ ~First(i) /\ Owed' = Owed
  <2>1. /\ pc' = [pc EXCEPT ![t] = "issue"]
        /\ \/ todo' = [todo EXCEPT ![t] = <<Put("row", "queued")>>]
           \/ todo' = [todo EXCEPT ![t] = NonTerminalProjection("queued") \o <<Put("row", "queued")>>]
        /\ First(i) \/ (t[1] = "timer" /\ inter[i].by = "timer")
        => /\ s = "issue" /\ pc' = [pc EXCEPT ![t] = s]
           /\ \A u \in Tasks : u # t => todo'[u] = todo[u]
           /\ \E W \in SUBSET Puts : Owed' = Owed \cup W
    <3> SUFFICES ASSUME /\ pc' = [pc EXCEPT ![t] = "issue"]
                        /\ \/ todo' = [todo EXCEPT ![t] = <<Put("row", "queued")>>]
                           \/ todo' = [todo EXCEPT ![t] = NonTerminalProjection("queued") \o <<Put("row", "queued")>>]
                 PROVE  /\ s = "issue" /\ pc' = [pc EXCEPT ![t] = s]
                        /\ \A u \in Tasks : u # t => todo'[u] = todo[u]
                        /\ \E W \in SUBSET Puts : Owed' = Owed \cup W
      OBVIOUS
    <3>1. s = "issue"
      BY <1>1 DEF TypeOK
    <3>2. \A u \in Tasks : u # t => todo'[u] = todo[u]
      BY DEF TypeOK
    <3>3. "queued" \in Statuses
      BY DEF Statuses
    <3>4. CASE todo' = [todo EXCEPT ![t] = <<Put("row", "queued")>>]
      <4>1. Owed' = Owed \cup {Put("row", "queued")}
        BY <1>1, <3>4, OwedMore, ProjectionRanges
      <4> QED BY <3>1, <3>2, <4>1
    <3>5. CASE todo' = [todo EXCEPT ![t] = NonTerminalProjection("queued") \o <<Put("row", "queued")>>]
      <4>1. Owed' = Owed \cup Puts
        BY <1>1, <3>3, <3>5, OwedMore, ProjectionRanges
      <4> QED BY <3>1, <3>2, <4>1
    <3> QED BY <3>4, <3>5
  <2>2. CASE First(i) \/ (t[1] = "timer" /\ inter[i].by = "timer" /\ ~First(i))
    <3>1. /\ pc' = [pc EXCEPT ![t] = "issue"]
          /\ \/ todo' = [todo EXCEPT ![t] = <<Put("row", "queued")>>]
             \/ todo' = [todo EXCEPT ![t] = NonTerminalProjection("queued") \o <<Put("row", "queued")>>]
          /\ First(i) => inter' = [inter EXCEPT ![i] = [state |-> "answered", by |-> t[1]]]
      BY <2>2 DEF SubmitReply, GotoOwing, Goto
    <3> QED BY <2>1, <2>2, <3>1
  <2>3. CASE ~First(i) /\ ~(t[1] = "timer" /\ inter[i].by = "timer")
    <3>1. pc' = [pc EXCEPT ![t] = "done"] /\ todo' = todo
      BY <2>3 DEF SubmitReply, Goto
    <3>2. s = "done" /\ Owed' = Owed
      BY <1>1, <3>1 DEF Owed, TypeOK
    <3> QED BY <2>3, <3>1, <3>2
  <2> QED BY <2>2, <2>3
<1>10. \A x \in Puts : x.to # "result"
  BY PutIs
<1>11. s \in {"issue", "done"} /\ pc'[t] = s
  BY <1>9
<1>12. PICK W \in SUBSET Puts : Owed' = Owed \cup W
  <2>1. {} \in SUBSET Puts /\ Owed = Owed \cup {}
    OBVIOUS
  <2> HIDE DEF Puts
  <2> QED BY <1>9, <2>1
<1> HIDE DEF s, Puts
<1>13. /\ Plain' /\ NeverAsked' /\ Sole' /\ AskerFirst'
       /\ \A u \in Tasks : u # t => pc'[u] = pc[u]
       /\ \A w \in Workers : pc'[w] = pc[w]
       /\ Unstarted' = Unstarted /\ Owners' = Owners
  <2>1. \A u \in Tasks : u # t => todo'[u] = todo[u] /\ tid'[u] = tid[u]
    BY <1>1, <1>9
  <2>2. s # "dispatch" /\ pc' = [pc EXCEPT ![t] = s] /\ \A w \in Workers : num'[w] = num[w]
    BY <1>1, <1>9, <1>11
  <2> QED BY <1>1, <1>4, <1>5, <1>12, <2>1, <2>2, ResumerMove
<1>14. Carried'
  <2>1. \A u \in Resumers : pc[u] = "dispatch" => pc'[u] = "dispatch"
    BY <1>1, <1>13, Disjoint
  <2> QED BY <1>1, <1>13, <2>1 DEF Story, Carried, Redrivable
<1>15. NoResult'
  BY <1>1, <1>3, <1>10, <1>12 DEF NoResult
<1>16. Moving'
  <2>1. CASE First(i)
    <3>1. s = "issue"
      BY <1>9, <2>1
    <3>2. t \in Issuing'
      BY <1>11, <3>1 DEF Issuing
    <3>3. i \in Pending
      BY <1>6, <2>1 DEF First, Pending
    <3>4. ticket.target <= i /\ ticket.target \in Nat
      BY <3>3 DEF Token, Core, OneQuestion, TypeOK
    <3>5. ~SameTicket(t)'
      BY <1>1, <1>6, <3>4 DEF SameTicket
    <3> QED BY <3>2, <3>5 DEF Moving
  <2>2. CASE ~First(i)
    <3>1. \A u \in Resumers : pc[u] = "issue" => pc'[u] = "issue"
      BY <1>1, <1>13, Disjoint
    <3>2. Issuing \subseteq Issuing' /\ \A u : SameTicket(u)' = SameTicket(u)
      BY <1>1, <3>1 DEF Issuing, SameTicket
    <3> QED BY <1>1, <1>8, <1>13, <2>2, <3>2 DEF Moving, Redrivable
  <2> QED BY <2>1, <2>2
<1> QED BY <1>13, <1>14, <1>15, <1>16 DEF Story, Phase

\* ... and exchange the answer for a ticket.
LEMMA TicketTaken ==
  ASSUME TypeOK, Token, Undisturbed, Story, NEW t \in Resumers, IssueTicket(t)
  PROVE  Story'
<1>1. /\ pc[t] = "issue" /\ todo[t] = <<>> /\ t \in Tasks
      /\ UNCHANGED <<conversation, store, flagged, inter, handle, mode, num>>
      /\ ticket' = (IF SameTicket(t) THEN ticket
                      ELSE [id |-> ticket.id + 1, by |-> t[1], target |-> num[t] + 1,
                            state |-> "issued"])
      /\ tid' = [tid EXCEPT ![t] = ticket'.id]
      /\ pc' = [pc EXCEPT ![t] = "dispatch"]
      /\ todo' = [todo EXCEPT ![t] = NonTerminalProjection("queued")]
  BY Disjoint DEF IssueTicket, At, GotoOwing, Goto, steady, server
<1>2. t \in Issuing /\ t \in Minded
  BY <1>1 DEF Issuing, Minded
<1>3. NoResult /\ (Moving \/ Waiting)
  BY <1>2, MindedIsBefore
<1>4. \A w \in Workers : ~Asking(w) /\ pc[w] \notin {"ended", "resolve"}
  BY <1>2, NobodyAsks
<1>5. Session => handle
  BY <1>1, HandleToResume
<1>6. Moving
  BY <1>2, <1>3 DEF Waiting, Token, Core, OneQuestion
<1> DEFINE W == {Put("state", "queued"), Put("row", "queued")}
<1>7. Owed' = Owed \cup W
  BY <1>1, OwedMore, ProjectionRanges
<1>8. \A x \in W : x.to # "result"
  BY PutIs
<1> HIDE DEF W
<1>9. /\ Plain' /\ NeverAsked' /\ Sole' /\ AskerFirst'
      /\ pc'[t] = "dispatch" /\ \A u \in Tasks : u # t => pc'[u] = pc[u]
      /\ \A w \in Workers : pc'[w] = pc[w]
      /\ Unstarted' = Unstarted /\ Owners' = Owners
  <2>1. \A u \in Tasks : u # t => todo'[u] = todo[u] /\ tid'[u] = tid[u]
    BY <1>1 DEF TypeOK
  <2>2. \A w \in Closing : ~Asking(w) /\ (num[w] \in Attempts => t # <<"timer", num[w]>>)
    BY <1>1, <1>4 DEF Token, Core, AskerAlone, Closing
  <2>3. \A w \in Workers : num'[w] = num[w]
    BY <1>1
  <2> QED BY <1>1, <1>4, <1>5, <1>7, <2>1, <2>2, <2>3, ResumerMove
<1>10. CASE SameTicket(t)
  <2>1. ticket' = ticket /\ \A u \in Resumers : SameTicket(u)' = SameTicket(u)
    BY <1>1, <1>10 DEF SameTicket
  <2>2. \A u \in Resumers : u \in Tasks /\ (u # t => pc'[u] = pc[u] /\ tid'[u] = tid[u])
    BY <1>1, <1>9, Disjoint DEF TypeOK
  <2>3. Carried'
    <3>1. \A w \in Workers : tid'[w] = tid[w]
      BY <1>1, Disjoint DEF TypeOK
    <3> QED BY <1>1, <1>9, <2>1, <2>2, <3>1 DEF Story, Carried, Redrivable
  <2>4. \A u \in Issuing : ~SameTicket(u) => u \in Issuing'
    BY <1>10, <2>2 DEF Issuing
  <2>5. Moving'
    BY <1>6, <1>9, <2>1, <2>4 DEF Moving, Redrivable, Issuing
  <2> QED BY <1>1, <1>3, <1>7, <1>8, <1>9, <2>3, <2>5 DEF Story, Phase, NoResult
<1>11. CASE ~SameTicket(t)
  <2>1. ticket'.state = "issued" /\ tid'[t] = ticket'.id
    BY <1>1, <1>11 DEF TypeOK
  <2>2. Carried' /\ Moving'
    BY <1>9, <2>1 DEF Carried, Moving, Redrivable
  <2> QED BY <1>1, <1>3, <1>7, <1>8, <1>9, <2>2 DEF Story, Phase, NoResult
<1> QED BY <1>10, <1>11

\* The job it starts has the ticket now.
LEMMA TicketDispatched ==
  ASSUME TypeOK, Token, Undisturbed, Story, NEW t \in Resumers, DispatchTicket(t)
  PROVE  Story'
<1>1. /\ pc[t] = "dispatch" /\ todo[t] = <<>> /\ t \in Tasks
      /\ UNCHANGED <<conversation, store, flagged, inter, handle, mode, todo>>
  BY Disjoint DEF DispatchTicket, At, steady, server
<1>2. Session => handle
  BY <1>1, HandleToResume
<1>3. Owed' = Owed /\ Pending' = Pending
  BY <1>1 DEF Owed, Pending
<1>4. CASE ticket.id = tid[t] /\ ticket.state = "issued"
  <2> DEFINE w == NewWorker
  <2>1. w \in Workers /\ pc[w] = "idle" /\ w \in Tasks /\ w # t /\ w \notin Resumers
    BY <1>1, NewWorkerIsIdle, Disjoint
  <2>2. /\ ticket' = [ticket EXCEPT !.state = "dispatched"]
        /\ num' = [num EXCEPT ![w] = num[t] + 1] /\ tid' = [tid EXCEPT ![w] = tid[t]]
        /\ pc' = [pc EXCEPT ![t] = "done", ![w] = "ticket"]
    BY <1>4 DEF DispatchTicket, Spawn
  <2> HIDE DEF w
  <2>3. /\ pc'[t] = "done" /\ pc'[w] = "ticket" /\ tid'[w] = ticket.id
        /\ \A u \in Tasks : u \notin {t, w} => pc'[u] = pc[u]
        /\ \A u \in Tasks : u # w => num'[u] = num[u] /\ tid'[u] = tid[u]
    BY <1>1, <1>4, <2>1, <2>2 DEF TypeOK
  <2>4. /\ ticket'.state = "dispatched" /\ ticket'.id = ticket.id
        /\ Redrivable /\ Redrivable' /\ Moving /\ Moving'
    BY <1>4, <2>2 DEF TypeOK, Redrivable, Moving
  <2>5. \A v \in Workers : v \in Tasks /\ v # t /\ (v # w => pc'[v] = pc[v] /\ num'[v] = num[v])
    BY <2>3, Disjoint
  <2>6. \A u \in Resumers : u \in Tasks /\ (u # t => pc'[u] = pc[u])
    BY <2>1, <2>3, Disjoint
  <2>7. Plain'
    <3>1. \A u \in Tasks \ (Workers \cup Resumers) : pc'[u] = "idle" /\ todo'[u] = <<>>
      BY <1>1, <2>1, <2>3 DEF Story, Plain
    <3>2. \A v \in Workers : pc'[v] # "killed"
      BY <2>3, <2>5 DEF Story, Plain
    <3>3. Session' = Session /\ Requeuing' = Requeuing
      BY <1>1, <2>1, <2>3, <2>5 DEF Session, Requeuing
    <3> QED BY <1>1, <3>1, <3>2, <3>3 DEF Story, Plain
  <2>8. NeverAsked'
    BY <1>1, <1>2 DEF NeverAsked, Session
  <2>9. Sole'
    BY <1>3, <2>1, <2>3, <2>5 DEF Story, Sole
  <2>10. Closing' = Closing /\ \A v \in Closing : v # w /\ num'[v] = num[v]
    BY <1>1, <2>1, <2>3, <2>5 DEF Closing, Asking
  <2>11. AskerFirst'
    <3>1. ASSUME NEW v \in Workers, Asking(v)', NEW u \in Resumers PROVE pc'[u] # "dispatch"
      <4>1. Asking(v)
        BY <1>1, <2>3, <2>5, <3>1 DEF Asking
      <4> QED BY <2>3, <2>6, <4>1 DEF Story, AskerFirst
    <3>2. ASSUME NEW v \in Closing, num[v] \in Attempts PROVE pc'[<<"timer", num[v]>>] # "dispatch"
      <4>1. <<"timer", num[v]>> \in Resumers
        BY <3>2, Disjoint DEF Timers
      <4> QED BY <2>3, <2>6, <3>2, <4>1 DEF Story, AskerFirst
    <3> QED BY <2>10, <3>1, <3>2 DEF AskerFirst
  <2>12. Carried'
    BY <2>1, <2>3, <2>4 DEF Carried
  <2>13. NoResult'
    BY <1>1, <1>3, <2>4 DEF Story, Phase, NoResult
  <2> QED BY <2>4, <2>7, <2>8, <2>9, <2>11, <2>12, <2>13 DEF Story, Phase
<1>5. CASE ~(ticket.id = tid[t] /\ ticket.state = "issued")
  <2>1. pc' = [pc EXCEPT ![t] = "done"] /\ UNCHANGED <<ticket, num, tid>>
    BY <1>5 DEF DispatchTicket, Goto
  <2>2. /\ Plain' /\ NeverAsked' /\ Sole' /\ AskerFirst'
        /\ pc'[t] = "done" /\ \A u \in Tasks : u # t => pc'[u] = pc[u]
        /\ \A w \in Workers : pc'[w] = pc[w]
        /\ Unstarted' = Unstarted /\ Owners' = Owners /\ Requeuing' = Requeuing
    <3> DEFINE W == {}
    <3>1. Owed' = Owed \cup W /\ W = {}
      BY <1>3
    <3> HIDE DEF W
    <3> QED BY <1>1, <1>2, <2>1, <3>1, ResumerMove
  <2>3. \A u \in Resumers : u \in Tasks /\ (u # t => pc'[u] = pc[u])
    BY <2>2, Disjoint
  <2>4. Carried'
    BY <1>5, <2>1, <2>2, <2>3 DEF Story, Carried, Redrivable
  <2>5. Issuing' = Issuing /\ Deciding' = Deciding
    BY <1>1, <2>2, <2>3 DEF Issuing, Deciding
  <2>6. Moving' <=> Moving
    BY <2>1, <2>2, <2>5 DEF Moving, Redrivable, SameTicket
  <2>7. Phase'
    BY <1>1, <1>3, <2>2, <2>5, <2>6, PhaseKept DEF Minded
  <2> QED BY <2>2, <2>4, <2>7 DEF Story
<1> QED BY <1>4, <1>5

\* A worker that has asked lets go, and a timer takes over: it was at none of the
\* steps of a resumption.
LEMMA TimerTakesTurn ==
  ASSUME TypeOK, Story, NEW w \in Workers, pc[w] \in {"arm", "autoresume"},
         NEW t \in Tasks, t = <<"timer", num[w]>>, w \in Closing,
         pc[t] \notin {"look", "decide", "issue"}, NEW s \in {"armed", "decide", pc[t]},
         pc'[w] = "done", pc'[t] = s, \A u \in Tasks : u \notin {w, t} => pc'[u] = pc[u],
         \A u \in Tasks : u # w => todo'[u] = todo[u] /\ (u # t => num'[u] = num[u]),
         NEW W, Owed' = Owed \cup W,
         W = {} \/ \A v \in Workers : pc[v] \notin {"ended", "resolve"}, Session => handle,
         UNCHANGED <<conversation, store, flagged, ticket, handle, mode, tid>>
  PROVE  Plain' /\ Carried' /\ NeverAsked' /\ Sole' /\ AskerFirst'
<1>1. t \in Timers /\ t \in Resumers /\ t \notin Workers /\ num[w] \in Attempts
  <2>1. t \in Timers
    BY Kinds DEF Tasks
  <2> QED BY <2>1, Kinds, Disjoint
<1>2. pc[t] # "dispatch"
  BY <1>1 DEF Story, AskerFirst
<1>3. \A v \in Workers : v \in Tasks /\ v # t /\ (v # w => pc'[v] = pc[v] /\ num'[v] = num[v])
  BY <1>1, Disjoint
<1>4. \A u \in Resumers : u \in Tasks /\ (u # t => pc'[u] = pc[u])
  BY <1>1, Disjoint
<1>5. Plain'
  <2>1. \A u \in Tasks \ (Workers \cup Resumers) : pc'[u] = "idle" /\ todo'[u] = <<>>
    BY <1>1 DEF Story, Plain
  <2>2. \A v \in Workers : pc'[v] # "killed"
    BY <1>3 DEF Story, Plain
  <2>3. Session' = Session /\ Requeuing' \subseteq Requeuing
    BY <1>3 DEF Session, Requeuing
  <2> QED BY <2>1, <2>2, <2>3 DEF Story, Plain
<1>6. Carried'
  <2>1. \A u \in Resumers : pc[u] = "dispatch" => pc'[u] = "dispatch"
    BY <1>2, <1>4
  <2>2. \A v \in Workers : pc[v] = "ticket" => pc'[v] = "ticket"
    BY <1>3
  <2> QED BY <2>1, <2>2 DEF Story, Carried, Redrivable
<1>7. NeverAsked'
  BY DEF NeverAsked, Session
<1>8. Sole'
  BY <1>3 DEF Story, Sole
<1>9. AskerFirst'
  <2>1. \A v \in Workers : Asking(v)' => Asking(v)
    BY <1>3 DEF Asking
  <2>2. \A v \in Closing' : v \in Closing /\ v \in Workers /\ v # w
    BY <1>3, <2>1 DEF Closing, Asking
  <2>3. \A u \in Resumers : pc'[u] = "dispatch" => pc[u] = "dispatch"
    BY <1>2, <1>4
  <2>4. ASSUME NEW v \in Workers, Asking(v)', NEW u \in Resumers PROVE pc'[u] # "dispatch"
    BY <2>1, <2>3, <2>4 DEF Story, AskerFirst, Asking
  <2>5. ASSUME NEW v \in Closing', num'[v] \in Attempts PROVE pc'[<<"timer", num'[v]>>] # "dispatch"
    <3>1. num'[v] = num[v] /\ <<"timer", num[v]>> \in Resumers
      BY <1>3, <2>2, <2>5, Disjoint DEF Timers
    <3> QED BY <2>2, <2>3, <2>5, <3>1 DEF Story, AskerFirst
  <2> QED BY <2>4, <2>5 DEF AskerFirst
<1> QED BY <1>5, <1>6, <1>7, <1>8, <1>9

LEMMA WaitingFinished ==
  ASSUME TypeOK, Token, Undisturbed, Story, NEW w \in Workers, FinishWaiting(w)
  PROVE  Story'
<1> DEFINE t == <<"timer", num[w]>>
           W == {Put("state", "waiting_user"), Put("row", "waiting_user")}
<1>1. /\ pc[w] = "arm" /\ todo[w] = <<>> /\ w \in Tasks /\ w \in Closing
      /\ UNCHANGED <<conversation, store, flagged, inter, ticket, handle, mode, num, tid>>
      /\ todo' = [todo EXCEPT ![w] = NonTerminalProjection("waiting_user")
                                       \o <<Put("row", "waiting_user")>>]
  BY Disjoint DEF FinishWaiting, At, Closing, data, steady, server
<1>2. Session => handle
  BY <1>1 DEF Story, NeverAsked
<1>3. Owed' = Owed \cup W
  <2>1. "waiting_user" \in Statuses
    BY DEF Statuses
  <2> QED BY <1>1, <2>1, OwedMore, ProjectionRanges
<1>4. /\ \A x \in W : x.status = "waiting_user" /\ x.to # "result"
      /\ \A f \in {"state", "row"} : \E x \in W : x.to = f
  BY PutIs
<1>5. \A u \in Tasks : u # w => todo'[u] = todo[u]
  BY <1>1 DEF TypeOK
<1>6. /\ pc'[w] = "done"
      /\ \A u \in Tasks : u # w => pc'[u] = pc[u] \/ (u = t /\ pc'[u] = "armed")
  <2>1. pc' = [u \in Tasks |-> CASE u = w -> "done"
                                [] ArmsTimer(w, u) -> "armed"
                                [] OTHER -> pc[u]]
    BY DEF FinishWaiting
  <2>2. ~ArmsTimer(w, w)
    BY Kinds DEF ArmsTimer
  <2>3. ASSUME NEW u \in Tasks, u # w PROVE pc'[u] = pc[u] \/ (u = t /\ pc'[u] = "armed")
    <3>1. CASE ArmsTimer(w, u)
      BY <2>1, <2>3, <3>1 DEF ArmsTimer
    <3>2. CASE ~ArmsTimer(w, u)
      BY <2>1, <2>3, <3>2
    <3> QED BY <3>1, <3>2
  <2> QED BY <1>1, <2>1, <2>2, <2>3
<1>7. t \in Tasks => t \in Timers /\ t \in Resumers /\ pc[t] \notin {"look", "decide", "issue", "dispatch"}
  <2> SUFFICES ASSUME t \in Tasks
               PROVE  t \in Timers /\ t \in Resumers /\ pc[t] \notin {"look", "decide", "issue", "dispatch"}
    OBVIOUS
  <2>1. t \in Timers
    BY Kinds DEF Tasks
  <2>2. num[w] \in Attempts
    BY <2>1, Kinds
  <2> QED BY <1>1, <2>1, <2>2, Disjoint DEF Token, Core, AskerAlone, Story, AskerFirst
<1>8. \A v \in Workers : pc[v] \notin {"ended", "resolve"}
  BY <1>1 DEF Token, Core, AskerAlone, Closing, Asking, Story, Plain
<1> HIDE DEF W
<1>9. Plain' /\ Carried' /\ NeverAsked' /\ Sole' /\ AskerFirst'
  <2>1. CASE t \in Tasks
    <3> DEFINE s == pc'[t]
    <3>1. s \in {"armed", "decide", pc[t]} /\ \A u \in Tasks : u \notin {w, t} => pc'[u] = pc[u]
      BY <1>6, <1>7, <2>1, Disjoint
    <3>2. pc'[t] = s
      OBVIOUS
    <3>3. \A u \in Tasks : u # w => todo'[u] = todo[u] /\ (u # t => num'[u] = num[u])
      BY <1>1, <1>5
    <3> HIDE DEF s, t
    <3>4. t = <<"timer", num[w]>> /\ pc[t] \notin {"look", "decide", "issue"}
      BY <1>7, <2>1 DEF t
    <3> QED BY <1>1, <1>2, <1>3, <1>6, <1>8, <2>1, <3>1, <3>2, <3>3, <3>4, TimerTakesTurn
  <2>2. CASE t \notin Tasks
    <3>1. pc' = [pc EXCEPT ![w] = "done"]
      <4>1. \A u \in Tasks : pc'[u] = [pc EXCEPT ![w] = "done"][u]
        BY <1>1, <1>6, <2>2 DEF TypeOK
      <4>2. pc' = [u \in Tasks |-> pc'[u]] /\ pc = [u \in Tasks |-> pc[u]]
        BY DEF FinishWaiting, TypeOK
      <4> QED BY <4>1, <4>2
    <3>2. Plain' /\ NeverAsked' /\ Sole' /\ AskerFirst'
      BY <1>1, <1>2, <1>3, <1>4, <1>5, <1>8, <3>1, WorkerMove
    <3>3. Carried'
      <4>1. (\A u \in Resumers : pc'[u] = pc[u]) /\ \A v \in Workers : pc[v] = "ticket" => pc'[v] = "ticket"
        BY <1>1, <1>6, <2>2, Disjoint
      <4> QED BY <1>1, <4>1 DEF Story, Carried, Redrivable
    <3> QED BY <3>2, <3>3
  <2> QED BY <2>1, <2>2
<1>10. \A u \in Resumers : u # t => u \in Tasks /\ pc'[u] = pc[u]
  BY <1>6, Disjoint
<1>11. \A u \in Resumers : pc'[u] = pc[u] \/ (pc'[u] = "armed" /\ pc[u] \notin {"decide", "issue"})
  BY <1>6, <1>7, Disjoint
<1>12. Issuing' = Issuing /\ Deciding' = Deciding
  BY <1>11 DEF Issuing, Deciding
<1>13. \A v \in Workers : pc'[v] = pc[v] \/ (v = w /\ pc'[v] = "done")
  BY <1>6, <1>7, Disjoint
<1>14. Unstarted' = Unstarted /\ Owners' = Owners /\ Requeuing' = Requeuing
  BY <1>1, <1>13 DEF Unstarted, Owners, Owning, Requeuing
<1>15. Moving' <=> Moving
  BY <1>1, <1>12, <1>14 DEF Moving, Redrivable, SameTicket
<1>16. ~Over
  BY <1>1 DEF Over
<1>17. NoResult'
  BY <1>1, <1>3, <1>4, <1>16 DEF Story, Phase, NoResult
<1>18. Waiting => Waiting'
  <2>1. Session' = Session /\ Pending' = Pending
    BY <1>1 DEF Session, Pending
  <2>2. Settling("waiting_user", {"state", "row"}) => Settling("waiting_user", {"state", "row"})'
    BY <1>1, <1>3, <1>4 DEF Settling
  <2> QED BY <1>1, <1>12, <1>14, <2>1, <2>2 DEF Waiting
<1> QED BY <1>9, <1>15, <1>16, <1>17, <1>18 DEF Story, Phase

LEMMA RequeuedFinished ==
  ASSUME TypeOK, Token, Undisturbed, Story, NEW w \in Workers, FinishRequeued(w)
  PROVE  Story'
<1> DEFINE t == <<"timer", num[w]>>
<1>1. /\ pc[w] = "autoresume" /\ todo[w] = <<>> /\ w \in Tasks /\ w \in Requeuing /\ w \in Closing
      /\ UNCHANGED <<conversation, store, flagged, inter, ticket, handle, mode, todo, tid>>
      /\ pc' = [pc EXCEPT ![w] = "done", ![t] = "decide"]
      /\ num' = [num EXCEPT ![t] = num[w]]
  BY Disjoint DEF FinishRequeued, At, Requeuing, Closing, data, steady, server
<1>2. num[w] \in Attempts /\ w \in Minded
  BY <1>1 DEF Token, Core, OneMind, Minded
<1>3. t \in Timers /\ t \in Resumers /\ t \in Tasks /\ t # w
  BY <1>2, Disjoint DEF Timers
<1>4. pc[t] \notin {"look", "decide", "issue"}
  BY <1>1, <1>2 DEF Token, Core, AskerAlone
<1>5. /\ pc'[w] = "done" /\ pc'[t] = "decide"
      /\ \A u \in Tasks : u \notin {w, t} => pc'[u] = pc[u]
      /\ \A u \in Tasks : u # t => num'[u] = num[u]
  BY <1>1, <1>3 DEF TypeOK
<1>6. Owed' = Owed /\ Pending' = Pending /\ Session' = Session /\ ~Session
  BY <1>1 DEF Owed, Pending, Session, Story, Plain
<1>7. Plain' /\ Carried' /\ NeverAsked' /\ Sole' /\ AskerFirst'
  <2> DEFINE W == {}
  <2>1. Owed' = Owed \cup W /\ W = {}
    BY <1>6
  <2>2. \A u \in Tasks : u # w => todo'[u] = todo[u] /\ (u # t => num'[u] = num[u])
    BY <1>1, <1>5
  <2>3. t = <<"timer", num[w]>>
    OBVIOUS
  <2> HIDE DEF W, t
  <2> QED BY <1>1, <1>3, <1>4, <1>5, <1>6, <2>1, <2>2, <2>3, TimerTakesTurn
<1>8. \A u \in Resumers : u \in Tasks /\ (u # t => pc'[u] = pc[u])
  BY <1>1, <1>5, Disjoint
<1>9. Issuing' = Issuing /\ t \notin Issuing /\ t \in Deciding'
  BY <1>3, <1>4, <1>5, <1>8 DEF Issuing, Deciding
<1>10. \A v \in Workers : v \in Tasks /\ v # t /\ (v # w => pc'[v] = pc[v])
  BY <1>3, <1>5, Disjoint
<1>11. Unstarted' = Unstarted /\ Owners' = Owners
  BY <1>1, <1>5, <1>10 DEF Unstarted, Owners, Owning
<1>12. \A u \in Issuing : num'[u] = num[u]
  BY <1>5, <1>8, <1>9 DEF Issuing
<1>13. Moving' <=> Moving
  BY <1>1, <1>9, <1>11, <1>12 DEF Moving, Redrivable, SameTicket
<1>14. NoResult' /\ (Moving \/ Waiting)
  BY <1>1, <1>2, <1>6, MindedIsBefore DEF NoResult
<1>15. Waiting => Waiting'
  BY <1>6, <1>9 DEF Waiting
<1> QED BY <1>7, <1>13, <1>14, <1>15 DEF Story, Phase

-----------------------------------------------------------------------------
(* The stores at rest *)

LEMMA SituationKept ==
  ASSUME [Next]_vars PROVE situation' = situation /\ conversation' = conversation
<1>1. ASSUME NEW t \in Tasks, Step(t) \/ Arrival(t)
      PROVE  situation' = situation /\ conversation' = conversation
  BY <1>1 DEF Step, Arrival, WorkerStep, Write, Admit, RejectRun, StartTicket, AdvancePhase,
              AuditFails, CheckCancel, Prepare, Launch, EngineExit, RepairRound, TurnFailed,
              TurnSucceeded, TurnAsks, Converged, FinishWaiting, FinishRequeued, TimerFires,
              ReplyArrives, LookUpPending, SubmitReply, IssueTicket, DispatchTicket,
              PollReadsQueued, Redrive, CancelArrives, SetCancelRequested, Kill,
              ProjectCanceled, steady, server
<1> QED BY <1>1 DEF Next, Crash, Restart, ClearBindings, vars

LEMMA StoryStep ==
  ASSUME TypeOK, Token, Undisturbed, Story, [Next]_vars PROVE Story'
<1>1. /\ mode = "up" /\ situation \notin {"cancel", "crash"}
      /\ \A t \in Pollers \cup Cancellers \cup {recovery} :
           t \in Tasks /\ t \notin Workers \cup Resumers /\ pc[t] = "idle" /\ todo[t] = <<>>
  BY Disjoint DEF Story, Plain, Undisturbed
<1>2. ASSUME NEW t \in Tasks, Step(t) PROVE Story'
  <2>1. CASE Write(t)
    BY <2>1, WriteKeepsStory
  <2>2. CASE t \in Workers /\ ~Write(t)
    <3>1. WorkerStep(t)
      BY <1>1, <1>2, <2>2, Disjoint DEF Step, Resumers, RejectRun, AuditFails, CanFail
    <3>2. TurnSucceeded(t) => pc[t] \in {"resolve", "bundle"}
      BY DEF TurnSucceeded, At
    <3> QED BY <2>2, <3>1, <3>2, JobGoesOn, AttemptGoesOn, EngineExitsAlone, TurnEnds,
               BundlesBuilt, TurnEndsAsking, WaitingFinished, RequeuedFinished DEF WorkerStep
  <2>3. CASE t \notin Workers /\ ~Write(t)
    <3>1. t \notin Pollers \cup Cancellers
      BY <1>1, <1>2, <2>3, Disjoint
         DEF Step, Resumers, Redrive, SetCancelRequested, Kill, ProjectCanceled, At
    <3>2. /\ t \in Resumers
          /\ TimerFires(t) \/ LookUpPending(t) \/ SubmitReply(t) \/ IssueTicket(t) \/ DispatchTicket(t)
      BY <1>2, <2>3, <3>1 DEF Step, Resumers
    <3> QED BY <3>2, ResumerLooks, ReplySubmitted, TicketTaken, TicketDispatched
  <2> QED BY <2>1, <2>2, <2>3
<1>3. ASSUME NEW t \in Tasks, Arrival(t) PROVE Story'
  <2>1. t \in Resumers /\ ReplyArrives(t)
    BY <1>1, <1>3, Arrivals DEF PollReadsQueued, CancelArrives, CanRedrive
  <2> QED BY <2>1, ResumerLooks
<1>4. ~Crash /\ ~Restart /\ ~ClearBindings
  BY <1>1 DEF Crash, Restart, ClearBindings, At
<1>5. CASE UNCHANGED vars
  BY <1>5 DEF vars, Story, Plain, Carried, NeverAsked, Sole, AskerFirst, Phase, Moving, Waiting, Over,
              NoResult, Settling, Owed, Session, Redrivable, Requeuing, Deciding, Issuing, Minded,
              Asking, Closing, Unstarted, Owners, Pending, SameTicket
<1> QED BY <1>2, <1>3, <1>4, <1>5 DEF Next

LEMMA StoryInitially == Init => Story
<1> SUFFICES ASSUME Init PROVE Story
  OBVIOUS
<1> DEFINE first == <<"worker", 1>>
<1>1. /\ first \in Workers /\ first \in Tasks /\ pc[first] = "new" /\ tid[first] = 0
      /\ \A t \in Tasks : (t # first => pc[t] = "idle") /\ todo[t] = <<>>
  BY FirstWorker, Disjoint DEF Init
<1> HIDE DEF first
<1>2. Owed = {}
  BY <1>1 DEF Owed, Range
<1>3. /\ mode = "up" /\ ~flagged /\ ticket.id = 0 /\ ticket.state = "none"
      /\ store.state = "queued" /\ store.result = "none"
  BY DEF Init
<1>4. \A w \in Workers : w \in Tasks /\ pc[w] \in {"new", "idle"}
  BY <1>1, Disjoint
<1>5. \A t \in Tasks \ Workers : pc[t] = "idle"
  BY <1>1
<1>6. \A t \in Resumers : pc[t] = "idle"
  BY <1>5, Disjoint
<1>7. Plain /\ Carried /\ NeverAsked /\ Sole /\ AskerFirst
  BY <1>1, <1>2, <1>3, <1>4, <1>5, <1>6
     DEF Plain, Requeuing, Carried, Redrivable, NeverAsked, Sole, AskerFirst, Asking, Closing
<1>8. first \in Unstarted
  BY <1>1 DEF Unstarted
<1> QED BY <1>2, <1>3, <1>7, <1>8 DEF Story, Phase, Moving, NoResult

\* At rest nobody carries a ticket: the run waits in a session, or is over.
LEMMA StoryAtRest ==
  ASSUME Undisturbed => Story PROVE StoresAgreeAtRest
<1> SUFFICES ASSUME Story, mode = "up",
                    \A t \in Tasks : todo[t] = <<>> /\ pc[t] \in {"idle", "done"}
             PROVE  /\ store.row = store.state
                    /\ store.result = IF store.state \in Terminal THEN store.state ELSE "none"
  BY DEF StoresAgreeAtRest, Quiescent, Undisturbed
<1>1. Owed = {}
  BY DEF Owed, Range
<1>2. \A t \in Workers \cup Resumers : pc[t] \in {"idle", "done"}
  BY Disjoint
<1>3. ~Moving /\ Requeuing = {} /\ Deciding = {}
  BY <1>2 DEF Moving, Unstarted, Owners, Owning, Issuing, Requeuing, Deciding, Story, Carried
<1>4. CASE NoResult /\ Waiting
  BY <1>1, <1>3, <1>4 DEF NoResult, Waiting, Settling, Terminal
<1>5. CASE Over
  BY <1>1, <1>5 DEF Over, Settling
<1> QED BY <1>3, <1>4, <1>5 DEF Story, Phase

LEMMA StoryAlways == Spec => [](Undisturbed => Story)
<1> DEFINE S == Undisturbed => Story
<1>1. Init => TypeOK /\ Token /\ S
  BY Initially, StoryInitially
<1>2. TypeOK /\ Token /\ S /\ [Next]_vars => (TypeOK /\ Token /\ S)'
  <2> SUFFICES ASSUME TypeOK, Token, S, [Next]_vars PROVE TypeOK' /\ Token' /\ S'
    OBVIOUS
  <2>1. situation' = situation
    BY SituationKept
  <2> QED BY <2>1, Inductive, StoryStep DEF Undisturbed
<1> QED BY <1>1, <1>2, PTL DEF Spec

\* Whatever replies and timeouts meet, and however their writes interleave: when
\* nothing is under way the run state, the row and the result file agree.
THEOREM StoresAgree == Spec => []StoresAgreeAtRest
BY StoryAlways, StoryAtRest, PTL

-----------------------------------------------------------------------------
(***************************************************************************)
(* One answer at a time (situation "calm"): whoever begins a projection    *)
(* finds none under way.  The status then tells where the run is.          *)
(***************************************************************************)
Only(t) == \A u \in Tasks \ {t} : todo[u] = <<>>
Going == {"prepare", "recheck", "launch", "engine", "ended", "resolve", "repair"}
Looking == {t \in Resumers : pc[t] \in {"look", "decide"}}
Dispatching == {t \in Resumers : pc[t] = "dispatch"}

IssuerAlone ==
  \A t \in Issuing :
    /\ ~SameTicket(t) /\ Only(t) /\ \A u \in Issuing : u = t
    /\ \A x \in Owed : x.status = "queued"
    /\ Session => store.state \in {"waiting_user", "queued"}
DispatcherAlone ==
  \A t \in Dispatching :
    /\ ticket.state = "issued" /\ tid[t] = ticket.id
    /\ Only(t) /\ \A u \in Dispatching : u = t
    /\ Settling("queued", {"state", "row"})
FreshTicket == ticket.state = "issued" => \A w \in Workers : tid[w] # ticket.id
JobIsQueued ==
  Unstarted # {} \/ ticket.state = "dispatched" =>
    Owed = {} /\ store.state = "queued" /\ store.row = "queued"
AttemptAlone ==
  \A w \in Owners :
    Only(w) /\ Settling(IF pc[w] \in Going THEN "running" ELSE "queued", {"state", "row"})
AskerIsLast ==
  /\ Closing # {} => \A t \in Resumers : AtRest(t)
  /\ \A w \in Workers : pc[w] \in {"arm", "autoresume"} => num[w] \in Pending /\ Only(w)
AnswererAlone ==
  /\ \A t \in Resumers : todo[t] # <<>> => pc[t] \in {"issue", "dispatch"}
  /\ Pending # {} /\ Looking # {} => Owed = {}
  /\ \A t \in Deciding \cap Timers : inter[num[t]].by # "timer"
  /\ \A t, u \in Looking \cap Timers : t = u
\* What is written next to the run state is a status it may take.
Lawful ==
  /\ \E s \in Statuses : \A x \in Owed : x.status = s
  /\ Session => \A x \in Owed :
       x.to = "state" => \/ x.status = store.state
                         \/ <<store.state, x.status>> \in Statechart!Transitions
Orderly ==
  /\ IssuerAlone /\ DispatcherAlone /\ FreshTicket /\ JobIsQueued /\ AttemptAlone
  /\ AskerIsLast /\ AnswererAlone /\ Lawful

LEMMA OwedNone == ASSUME TypeOK PROVE Owed = {} <=> \A t \in Tasks : todo[t] = <<>>
<1>1. ASSUME NEW t \in Tasks, todo[t] # <<>> PROVE Owed # {}
  <2>1. todo[t] \in Seq(Writes)
    BY DEF TypeOK
  <2>2. 1 \in DOMAIN todo[t]
    BY <1>1, <2>1
  <2>3. todo[t][1] \in Range(todo[t])
    BY <2>2 DEF Range
  <2> QED BY <2>3 DEF Owed
<1>2. ASSUME \A t \in Tasks : todo[t] = <<>> PROVE Owed = {}
  BY <1>2 DEF Owed, Range
<1> QED BY <1>1, <1>2

LEMMA OnlyNone ==
  ASSUME TypeOK, NEW t \in Tasks, Only(t), todo[t] = <<>> PROVE Owed = {}
  BY OwedNone DEF Only

\* A task that finds nothing under way begins a projection.
LEMMA AddsAlone ==
  ASSUME TypeOK, NEW t \in Tasks, NEW writes, Owed = {},
         todo' = [todo EXCEPT ![t] = writes],
         NEW s \in Statuses, \A x \in Range(writes) : x.status = s,
         Session => s = store.state \/ <<store.state, s>> \in Statechart!Transitions,
         UNCHANGED <<conversation, store>>
  PROVE  Only(t)' /\ Owed' = Range(writes) /\ Lawful'
<1>1. \A u \in Tasks : todo[u] = <<>>
  BY OwedNone
<1>2. Owed' = Range(writes)
  BY <1>1, OwedMore
<1>3. \A u \in Tasks \ {t} : todo'[u] = <<>>
  BY <1>1 DEF TypeOK
<1>4. Lawful'
  BY <1>2 DEF Lawful, Session
<1> QED BY <1>2, <1>3, <1>4 DEF Only

LEMMA WriteKeepsOrder ==
  ASSUME TypeOK, Orderly, NEW t \in Tasks, Write(t) PROVE Orderly'
<1>1. PICK h \in Owed : /\ h \in Writes /\ store' = [store EXCEPT ![h.to] = h.status]
                        /\ Owed' \subseteq Owed /\ Owed \subseteq Owed' \cup {h}
  BY WritePerformed
<1>2. UNCHANGED <<data, steady, turns, pc, num, tid>>
  BY DEF Write
<1>3. \A u \in Tasks : todo[u] = <<>> => u # t /\ todo'[u] = <<>>
  BY DEF Write, TypeOK
<1>4. /\ h.to \in {"state", "row", "result"}
      /\ store'[h.to] = h.status
      /\ \A f \in {"state", "row", "result"} : f # h.to => store'[f] = store[f]
  <2>1. h.to \in {"state", "row", "result"}
    BY <1>1 DEF Writes
  <2>2. store \in [state : Statuses, row : Statuses, result : Terminal \cup {"none"}]
    BY DEF TypeOK
  <2> QED BY <1>1, <2>1, <2>2
<1>5. ASSUME NEW s, NEW F \in SUBSET {"state", "row", "result"}, Settling(s, F)
      PROVE  Settling(s, F)'
  BY <1>1, <1>4, <1>5 DEF Settling
<1>6. ASSUME NEW u \in Tasks, Only(u) PROVE Only(u)'
  BY <1>3, <1>6 DEF Only
<1>7. /\ Issuing' = Issuing /\ Dispatching' = Dispatching /\ Unstarted' = Unstarted
      /\ Owners' = Owners /\ Closing' = Closing /\ Pending' = Pending /\ Looking' = Looking
      /\ Deciding' = Deciding /\ Session' = Session
      /\ \A u : SameTicket(u)' = SameTicket(u)
  BY <1>2 DEF Issuing, Dispatching, Unstarted, Owners, Closing, Asking, Pending, Looking, Deciding,
              Session, SameTicket, data, steady, server
<1>8. \A u \in Issuing \cup Dispatching \cup Owners : u \in Tasks
  BY Disjoint DEF Issuing, Dispatching, Owners
<1>9. IssuerAlone'
  BY <1>1, <1>4, <1>6, <1>7, <1>8 DEF Orderly, IssuerAlone
<1>10. DispatcherAlone'
  BY <1>2, <1>5, <1>6, <1>7, <1>8 DEF Orderly, DispatcherAlone, data
<1>11. FreshTicket'
  BY <1>2 DEF Orderly, FreshTicket, data
<1>12. JobIsQueued'
  BY <1>1, <1>2, <1>7 DEF Orderly, JobIsQueued, data
<1>13. AttemptAlone'
  BY <1>2, <1>5, <1>6, <1>7, <1>8 DEF Orderly, AttemptAlone
<1>14. AskerIsLast'
  BY <1>2, <1>3, <1>6, <1>7, Disjoint DEF Orderly, AskerIsLast, AtRest
<1>15. AnswererAlone'
  BY <1>1, <1>2, <1>3, <1>7, Disjoint DEF Orderly, AnswererAlone, data
<1>16. Lawful'
  BY <1>1, <1>4, <1>7 DEF Orderly, Lawful
<1> QED BY <1>9, <1>10, <1>11, <1>12, <1>13, <1>14, <1>15, <1>16 DEF Orderly

\* Nothing is written, and nobody comes to ask, to answer or to hold the token.
LEMMA OrderlyKept ==
  ASSUME TypeOK, Orderly, UNCHANGED <<conversation, store, ticket, todo>>,
         Issuing' \subseteq Issuing, Dispatching' \subseteq Dispatching,
         Unstarted' \subseteq Unstarted, Owners' \subseteq Owners, Closing' \subseteq Closing,
         Looking' \subseteq Looking, Deciding' \subseteq Deciding,
         \A w \in Owners' : pc'[w] \in Going <=> pc[w] \in Going,
         \A w \in Workers : /\ tid'[w] = tid[w] /\ num'[w] = num[w]
                            /\ pc'[w] \in {"arm", "autoresume"} => pc'[w] = pc[w],
         \A t \in Resumers : /\ num'[t] = num[t] /\ tid'[t] = tid[t]
                             /\ todo[t] # <<>> => pc'[t] = pc[t],
         Closing' # {} => \A t \in Resumers : pc'[t] = pc[t],
         \A a \in Attempts : /\ inter'[a].by = inter[a].by
                             /\ inter'[a].state = "pending" <=> inter[a].state = "pending",
         \A t \in Deciding : num[t] \in Attempts
  PROVE  Orderly'
<1>1. Owed' = Owed /\ Session' = Session /\ Pending' = Pending
  BY DEF Owed, Session, Pending
<1>2. \A s, F : Settling(s, F)' <=> Settling(s, F)
  BY <1>1 DEF Settling
<1>3. \A t : Only(t)' <=> Only(t)
  BY DEF Only
<1>4. \A t \in Issuing' \cup Deciding' \cup Dispatching' : t \in Resumers
  BY DEF Issuing, Deciding, Dispatching
<1>5. \A t \in Issuing' : SameTicket(t)' <=> SameTicket(t)
  BY <1>4 DEF SameTicket
<1>6. IssuerAlone'
  BY <1>1, <1>3, <1>5 DEF Orderly, IssuerAlone
<1>7. DispatcherAlone'
  BY <1>2, <1>3, <1>4 DEF Orderly, DispatcherAlone
<1>8. FreshTicket' /\ JobIsQueued'
  BY <1>1 DEF Orderly, FreshTicket, JobIsQueued
<1>9. AttemptAlone'
  BY <1>2, <1>3 DEF Orderly, AttemptAlone
<1>10. AskerIsLast'
  BY <1>1, <1>3 DEF Orderly, AskerIsLast, AtRest
<1>11. AnswererAlone'
  BY <1>1, <1>4 DEF Orderly, AnswererAlone
<1>12. Lawful'
  BY <1>1 DEF Orderly, Lawful
<1> QED BY <1>6, <1>7, <1>8, <1>9, <1>10, <1>11, <1>12 DEF Orderly

-----------------------------------------------------------------------------
(* Steps that leave the order as it is *)

LEMMA WorkerKeepsOrder ==
  ASSUME TypeOK, Orderly, NEW w \in Workers, NEW s, pc' = [pc EXCEPT ![w] = s],
         UNCHANGED <<conversation, store, flagged, ticket, todo, num, tid>>,
         s \in Owning => pc[w] \in Owning /\ (s \in Going <=> pc[w] \in Going),
         s \in {"new", "ticket"} => pc[w] \in {"new", "ticket"},
         s = "resolve" => pc[w] = "ended" /\ ~flagged,
         s \notin {"arm", "autoresume", "ended"},
         \A a \in Attempts : /\ inter'[a].by = inter[a].by
                             /\ inter'[a].state = "pending" <=> inter[a].state = "pending",
         \A t \in Deciding : num[t] \in Attempts
  PROVE  Orderly'
<1>1. w \in Tasks /\ pc'[w] = s /\ \A t \in Tasks : t # w => pc'[t] = pc[t]
  BY Disjoint DEF TypeOK
<1>2. \A v \in Workers : v \in Tasks /\ (v # w => pc'[v] = pc[v])
  BY <1>1, Disjoint
<1>3. \A t \in Resumers : pc'[t] = pc[t]
  BY <1>1, Disjoint
<1>4. Issuing' = Issuing /\ Dispatching' = Dispatching /\ Looking' = Looking /\ Deciding' = Deciding
  BY <1>3 DEF Issuing, Dispatching, Looking, Deciding
<1>5. Unstarted' \subseteq Unstarted
  BY <1>1, <1>2 DEF Unstarted
<1>6. Owners' \subseteq Owners /\ \A v \in Owners' : pc'[v] \in Going <=> pc[v] \in Going
  BY <1>1, <1>2 DEF Owners
<1>7. Closing' \subseteq Closing
  BY <1>1, <1>2 DEF Closing, Asking
<1>8. \A v \in Workers : pc'[v] \in {"arm", "autoresume"} => pc'[v] = pc[v]
  BY <1>1, <1>2
<1> QED BY <1>3, <1>4, <1>5, <1>6, <1>7, <1>8, OrderlyKept

LEMMA MindIsAttempt ==
  ASSUME Token PROVE \A t \in Deciding : num[t] \in Attempts
  BY DEF Token, Core, OneMind, Minded

LEMMA JobKeepsOrder ==
  ASSUME TypeOK, Token, Undisturbed, Story, Orderly, NEW w \in Workers,
         \/ Admit(w) \/ Prepare(w) \/ Launch(w) \/ RepairRound(w)
         \/ StartTicket(w) /\ pc' = [pc EXCEPT ![w] = "done"]
         \/ CheckCancel(w) /\ pc[w] # "check"
         \/ TurnSucceeded(w) /\ pc[w] = "bundle" /\ pc' = [pc EXCEPT ![w] = "done"]
  PROVE  Orderly'
<1>0. w \in Tasks /\ \A t \in Deciding : num[t] \in Attempts
  BY Disjoint, MindIsAttempt
<1>1. \A a \in Attempts : inter' = inter =>
        /\ inter'[a].by = inter[a].by
        /\ inter'[a].state = "pending" <=> inter[a].state = "pending"
  OBVIOUS
<1>2. CASE Admit(w)
  <2>1. /\ pc' = [pc EXCEPT ![w] = "ticket"] /\ pc[w] = "new"
        /\ UNCHANGED <<conversation, store, flagged, inter, ticket, todo, num, tid>>
    BY <1>2 DEF Admit, At, Goto, data, steady, server
  <2>2. "ticket" \notin Owning
    BY DEF Owning
  <2> QED BY <1>0, <1>1, <2>1, <2>2, WorkerKeepsOrder
<1>3. CASE Prepare(w)
  <2>1. pc' = [pc EXCEPT ![w] = "recheck"] /\ pc[w] = "prepare"
        /\ UNCHANGED <<conversation, store, flagged, ticket, todo, num, tid>>
    <3>1. pc[w] = "prepare"
      BY <1>3 DEF Prepare, At
    <3>2. w \in Owners
      BY <3>1 DEF Owners, Owning
    <3>3. Session /\ ~handle => tid[w] = 0
      BY <3>2, OwnerIsMoving
    <3> QED BY <1>3, <3>1, <3>3 DEF Prepare, Goto, steady, server
  <2>2. \A a \in Attempts : /\ inter'[a].by = inter[a].by
                            /\ inter'[a].state = "pending" <=> inter[a].state = "pending"
    <3>1. inter' = inter \/ inter' = [inter EXCEPT ![num[w] - 1].state = Consumed(@)]
      BY <1>3 DEF Prepare
    <3>2. \A a \in Attempts :
            inter'[a] = inter[a] \/ inter'[a] = [inter[a] EXCEPT !.state = Consumed(@)]
      BY <3>1 DEF TypeOK
    <3>3. \A x : Consumed(x) = "pending" <=> x = "pending"
      BY DEF Consumed
    <3>4. \A a \in Attempts :
            /\ [inter[a] EXCEPT !.state = Consumed(@)].by = inter[a].by
            /\ [inter[a] EXCEPT !.state = Consumed(@)].state = Consumed(inter[a].state)
      BY DEF TypeOK
    <3> QED BY <3>2, <3>3, <3>4
  <2> QED BY <1>0, <2>1, <2>2, WorkerKeepsOrder DEF Owning, Going
<1>4. CASE Launch(w)
  <2>1. /\ pc' = [pc EXCEPT ![w] = "engine"] /\ pc[w] = "launch"
        /\ UNCHANGED <<conversation, store, flagged, inter, ticket, todo, num, tid>>
    BY <1>4 DEF Launch, At, Goto, data, steady, server
  <2> QED BY <1>0, <1>1, <2>1, WorkerKeepsOrder DEF Owning, Going
<1>5. CASE RepairRound(w)
  <2>1. /\ pc' = [pc EXCEPT ![w] = "repair"] /\ pc[w] = "resolve"
        /\ UNCHANGED <<conversation, store, flagged, inter, ticket, todo, num, tid>>
    BY <1>5 DEF RepairRound, At, Goto, data, server, Story, Plain
  <2> QED BY <1>0, <1>1, <2>1, WorkerKeepsOrder DEF Owning, Going
<1>6. CASE StartTicket(w) /\ pc' = [pc EXCEPT ![w] = "done"]
  <2>1. UNCHANGED <<conversation, store, flagged, inter, ticket, todo, num, tid>>
    <3>1. pc'[w] = "done"
      BY <1>0, <1>6 DEF TypeOK
    <3>2. ticket' = ticket
      BY <1>0, <1>6, <3>1 DEF StartTicket, Goto, TypeOK
    <3> QED BY <1>6, <3>2 DEF StartTicket, steady, server
  <2> QED BY <1>0, <1>1, <1>6, <2>1, WorkerKeepsOrder DEF Owning
<1>7. CASE CheckCancel(w) /\ pc[w] # "check"
  <2>1. /\ \/ pc' = [pc EXCEPT ![w] = "launch"] /\ pc[w] = "recheck"
           \/ pc' = [pc EXCEPT ![w] = "resolve"] /\ pc[w] = "ended" /\ ~flagged
        /\ UNCHANGED <<conversation, store, flagged, inter, ticket, todo, num, tid>>
    BY <1>7 DEF CheckCancel, At, Goto, data, steady, server, Story, Plain
  <2>2. CASE pc' = [pc EXCEPT ![w] = "launch"] /\ pc[w] = "recheck"
    BY <1>0, <1>1, <2>1, <2>2, WorkerKeepsOrder DEF Owning, Going
  <2>3. CASE pc' = [pc EXCEPT ![w] = "resolve"] /\ pc[w] = "ended" /\ ~flagged
    BY <1>0, <1>1, <2>1, <2>3, WorkerKeepsOrder DEF Owning, Going
  <2> QED BY <2>1, <2>2, <2>3
<1>8. CASE TurnSucceeded(w) /\ pc[w] = "bundle" /\ pc' = [pc EXCEPT ![w] = "done"]
  <2>1. UNCHANGED <<conversation, store, flagged, inter, ticket, todo, num, tid>>
    <3>1. pc'[w] = "done"
      BY <1>0, <1>8 DEF TypeOK
    <3>2. UNCHANGED <<store, data, num, tid, server>>
      BY <1>8 DEF TurnSucceeded, Converged
    <3>3. todo' = todo
      BY <1>8 DEF TurnSucceeded, At, CanFail, Undisturbed
    <3> QED BY <3>2, <3>3 DEF data, server
  <2> QED BY <1>0, <1>1, <1>8, <2>1, WorkerKeepsOrder DEF Owning
<1> QED BY <1>2, <1>3, <1>4, <1>5, <1>6, <1>7, <1>8

-----------------------------------------------------------------------------
(* The order in an attempt *)

\* An attempt is under way, and nobody else is about to begin another one.
LEMMA OneAttempt ==
  ASSUME NEW w \in Workers, Owners' \subseteq {w}, Issuing' = {}, Dispatching' = {}, Pending' = {},
         Unstarted' = {}, ticket'.state \notin {"issued", "dispatched"}, Only(w)',
         Settling(IF pc[w] \in Going THEN "running" ELSE "queued", {"state", "row"})',
         \A v \in Workers : pc'[v] \notin {"arm", "autoresume"},
         Closing' # {} => \A t \in Resumers : AtRest(t)',
         \A t \in Resumers : /\ todo'[t] # <<>> => pc'[t] \in {"issue", "dispatch"}
                             /\ pc'[t] = pc[t] /\ num'[t] = num[t],
         AnswererAlone, inter' = inter, Lawful'
  PROVE  Orderly'
<1>1. IssuerAlone' /\ DispatcherAlone' /\ FreshTicket' /\ JobIsQueued'
  BY DEF IssuerAlone, DispatcherAlone, FreshTicket, JobIsQueued
<1>2. AttemptAlone'
  BY DEF AttemptAlone
<1>3. AskerIsLast'
  BY DEF AskerIsLast
<1>4. AnswererAlone'
  BY DEF AnswererAlone, Looking, Deciding
<1> QED BY <1>1, <1>2, <1>3, <1>4 DEF Orderly

\* Whom an attempt does not meet.
LEMMA OwnerMeets ==
  ASSUME TypeOK, Token, Story, Orderly, NEW w \in Owners
  PROVE  /\ w \in Workers /\ w \in Tasks /\ Only(w) /\ \A v \in Workers : pc[v] \in Owning => v = w
         /\ Settling(IF pc[w] \in Going THEN "running" ELSE "queued", {"state", "row"})
         /\ Pending = {} /\ ~Redrivable /\ Unstarted = {} /\ Issuing = {} /\ Dispatching = {}
         /\ \A v \in Workers : pc[v] \notin {"arm", "autoresume"}
<1>1. /\ w \in Workers /\ \A v \in Workers : pc[v] \in Owning => v = w
      /\ Pending = {} /\ ~Redrivable /\ Unstarted = {} /\ \A t \in Issuing : SameTicket(t)
  BY OwnerIsMoving
<1>2. Only(w) /\ Settling(IF pc[w] \in Going THEN "running" ELSE "queued", {"state", "row"})
  BY DEF Orderly, AttemptAlone
<1>3. Issuing = {}
  BY <1>1 DEF Orderly, IssuerAlone
<1>4. Dispatching = {}
  BY <1>1 DEF Orderly, DispatcherAlone, Redrivable
<1>5. \A v \in Workers : pc[v] \notin {"arm", "autoresume"}
  BY <1>1 DEF Orderly, AskerIsLast
<1> QED BY <1>1, <1>2, <1>3, <1>4, <1>5, Disjoint

\* The attempt goes on, with new writes of one status.
LEMMA AttemptWrites ==
  ASSUME TypeOK, Token, Story, Orderly, NEW w \in Owners, NEW s \in Owning \ {"ended", "resolve"},
         pc' = [pc EXCEPT ![w] = s], todo[w] = <<>>, NEW st \in Statuses,
         NEW writes, todo' = [todo EXCEPT ![w] = writes],
         \A x \in Range(writes) : x.status = st,
         st = IF s \in Going THEN "running" ELSE "queued",
         \A f \in {"state", "row"} : store[f] = st \/ \E x \in Range(writes) : x.to = f,
         store.state = "queued",
         UNCHANGED <<conversation, store, flagged, inter, ticket, num, tid>>
  PROVE  Orderly'
<1>1. /\ w \in Workers /\ w \in Tasks /\ Only(w) /\ \A v \in Workers : pc[v] \in Owning => v = w
      /\ Pending = {} /\ ~Redrivable /\ Unstarted = {} /\ Issuing = {} /\ Dispatching = {}
      /\ \A v \in Workers : pc[v] \notin {"arm", "autoresume"}
  BY OwnerMeets
<1>2. pc'[w] = s /\ \A t \in Tasks : t # w => pc'[t] = pc[t] /\ todo'[t] = todo[t]
  BY <1>1 DEF TypeOK
<1>3. \A v \in Workers : v \in Tasks /\ (v # w => pc'[v] = pc[v])
  BY <1>2, Disjoint
<1>4. \A t \in Resumers : t \in Tasks /\ pc'[t] = pc[t] /\ todo'[t] = todo[t]
  BY <1>1, <1>2, Disjoint
<1>5. Owed = {}
  BY <1>1, OnlyNone
<1>6. Session => st = store.state \/ <<store.state, st>> \in Statechart!Transitions
  BY DEF Statechart!Transitions
<1>7. Only(w)' /\ Owed' = Range(writes) /\ Lawful'
  BY <1>1, <1>5, <1>6, AddsAlone
<1>8. Settling(st, {"state", "row"})'
  BY <1>7 DEF Settling
<1>9. Issuing' = {} /\ Dispatching' = {} /\ Pending' = {}
  BY <1>1, <1>4 DEF Issuing, Dispatching, Pending
<1>10. Unstarted' = {}
  BY <1>1, <1>2, <1>3 DEF Unstarted, Owning
<1>11. Owners' \subseteq {w}
  BY <1>1, <1>3 DEF Owners
<1>12. Closing' = {} /\ \A v \in Workers : pc'[v] \notin {"arm", "autoresume"}
  BY <1>1, <1>2, <1>3 DEF Closing, Asking, Owning
<1>13. ticket'.state \notin {"issued", "dispatched"}
  BY <1>1 DEF Redrivable
<1>14. \A t \in Resumers : /\ todo'[t] # <<>> => pc'[t] \in {"issue", "dispatch"}
                           /\ pc'[t] = pc[t] /\ num'[t] = num[t]
  BY <1>4 DEF Orderly, AnswererAlone
<1>15. (IF pc[w] \in Going THEN "running" ELSE "queued")' = st
  BY <1>2
<1> QED BY <1>1, <1>7, <1>8, <1>9, <1>10, <1>11, <1>12, <1>13, <1>14, <1>15, OneAttempt DEF Orderly

LEMMA PhaseAdvances ==
  ASSUME TypeOK, Token, Story, Orderly, NEW w \in Workers,
         AdvancePhase(w) \/ (CheckCancel(w) /\ pc[w] = "check")
  PROVE  Orderly'
<1>1. /\ pc[w] \in {"claim", "materialize", "check"} /\ todo[w] = <<>> /\ ~flagged
      /\ UNCHANGED <<conversation, store, flagged, inter, ticket, num, tid>>
  BY DEF AdvancePhase, CheckCancel, At, Story, Plain, data, steady, server
<1>2. w \in Owners
  BY <1>1 DEF Owners, Owning
<1>3. Owed = {}
  BY <1>2, OwnerMeets, OnlyNone, <1>1
<1>4. store.state = "queued" /\ store.row = "queued"
  BY <1>1, <1>2, <1>3, OwnerMeets DEF Going, Settling
<1>5. CASE AdvancePhase(w)
  <2> DEFINE s == IF pc[w] = "claim" THEN "materialize" ELSE "check"
             writes == <<Put("state", "queued")>>
  <2>1. /\ s \in Owning \ {"ended", "resolve"} /\ s \notin Going
        /\ pc' = [pc EXCEPT ![w] = s] /\ todo' = [todo EXCEPT ![w] = writes]
    BY <1>4, <1>5 DEF AdvancePhase, At, Goto, Owning, Going
  <2>2. \A x \in Range(writes) : x.status = "queued"
    BY ProjectionRanges, PutIs
  <2>3. "queued" \in Statuses /\ \A f \in {"state", "row"} : store[f] = "queued"
    BY <1>4 DEF Statuses
  <2> HIDE DEF s, writes
  <2> QED BY <1>1, <1>2, <1>4, <2>1, <2>2, <2>3, AttemptWrites
<1>6. CASE CheckCancel(w) /\ pc[w] = "check"
  <2> DEFINE writes == NonTerminalProjection("running")
  <2>1. /\ pc' = [pc EXCEPT ![w] = "prepare"] /\ todo' = [todo EXCEPT ![w] = writes]
        /\ "prepare" \in Owning \ {"ended", "resolve"} /\ "prepare" \in Going
    BY <1>1, <1>6 DEF CheckCancel, At, GotoOwing, Goto, Owning, Going
  <2>2. \A x \in Range(writes) : x.status = "running"
    BY ProjectionRanges, PutIs
  <2>3. "running" \in Statuses /\ \A f \in {"state", "row"} : \E x \in Range(writes) : x.to = f
    BY ProjectionRanges, PutIs DEF Statuses
  <2> HIDE DEF writes
  <2> QED BY <1>1, <1>2, <1>4, <2>1, <2>2, <2>3, AttemptWrites
<1> QED BY <1>5, <1>6

\* The engine has run while nothing else was under way.
LEMMA EngineKeepsOrder ==
  ASSUME TypeOK, Token, Story, Orderly, NEW w \in Workers, EngineExit(w) PROVE Orderly'
<1>1. /\ pc[w] \in {"engine", "repair"} /\ w \in Tasks
      /\ UNCHANGED <<conversation, store, flagged, inter, ticket, todo, num, tid>>
      /\ \A t \in Tasks \ ({w} \cup Cancellers) : AtRest(t)
      /\ pc' = [pc EXCEPT ![w] = "ended"] \/ pc' = [pc EXCEPT ![w] = "resolve"]
  BY Disjoint DEF EngineExit, At, Goto, steady, server
<1>2. pc'[w] \in {"ended", "resolve"} /\ \A t \in Tasks : t # w => pc'[t] = pc[t]
  BY <1>1 DEF TypeOK
<1>3. w \in Owners /\ pc[w] \in Going /\ pc'[w] \in Going
  BY <1>1, <1>2 DEF Owners, Owning, Going
<1>4. /\ Only(w) /\ \A v \in Workers : pc[v] \in Owning => v = w
      /\ Settling("running", {"state", "row"})
      /\ Pending = {} /\ ~Redrivable /\ Unstarted = {} /\ Issuing = {} /\ Dispatching = {}
      /\ \A v \in Workers : pc[v] \notin {"arm", "autoresume"}
  BY <1>3, OwnerMeets
<1>5. \A v \in Workers : v \in Tasks /\ (v # w => pc'[v] = pc[v])
  BY <1>2, Disjoint
<1>6. \A t \in Resumers : t \in Tasks /\ pc'[t] = pc[t] /\ todo'[t] = todo[t] /\ AtRest(t)
  BY <1>1, <1>2, Disjoint
<1>7. Owners' \subseteq {w} /\ Unstarted' = {} /\ \A v \in Workers : pc'[v] \notin {"arm", "autoresume"}
  BY <1>1, <1>2, <1>4, <1>5 DEF Owners, Unstarted
<1>8. Issuing' = {} /\ Dispatching' = {} /\ Pending' = {} /\ ticket'.state \notin {"issued", "dispatched"}
  BY <1>1, <1>4, <1>6 DEF Issuing, Dispatching, Pending, Redrivable
<1>9. Owed' = Owed /\ Only(w)'
  BY <1>1, <1>4 DEF Owed, Only
<1>10. Settling(IF pc[w] \in Going THEN "running" ELSE "queued", {"state", "row"})'
  BY <1>1, <1>3, <1>4, <1>9 DEF Settling
<1>11. Lawful'
  BY <1>1, <1>9 DEF Orderly, Lawful, Session
<1>12. \A t \in Resumers : AtRest(t)' /\ todo'[t] = <<>> /\ num'[t] = num[t]
  BY <1>1, <1>6 DEF AtRest
<1> QED BY <1>1, <1>6, <1>7, <1>8, <1>9, <1>10, <1>11, <1>12, OneAttempt DEF Orderly

\* A job that finds its ticket, or needs none, becomes the attempt.
LEMMA JobBecomesAttempt ==
  ASSUME TypeOK, Token, Story, Orderly, NEW w \in Workers, StartTicket(w),
         pc' = [pc EXCEPT ![w] = "claim"]
  PROVE  Orderly'
<1>1. /\ pc[w] = "ticket" /\ w \in Tasks
      /\ UNCHANGED <<conversation, store, flagged, inter, todo, num, tid>>
  BY Disjoint DEF StartTicket, At, steady, server
<1>2. pc'[w] = "claim" /\ \A t \in Tasks : t # w => pc'[t] = pc[t]
  BY <1>1 DEF TypeOK
<1>3. \/ tid[w] = 0 /\ ticket' = ticket
      \/ /\ tid[w] # 0 /\ tid[w] = ticket.id /\ Redrivable
         /\ ticket' = [ticket EXCEPT !.state = "started"]
  BY <1>1, <1>2 DEF StartTicket, Goto, TypeOK
<1>4. \A v \in Workers : v \in Tasks /\ (v # w => pc'[v] = pc[v])
  BY <1>2, Disjoint
<1>5. \A t \in Resumers : t \in Tasks /\ pc'[t] = pc[t]
  BY <1>1, <1>2, Disjoint
<1>6. /\ Owners = {} /\ Pending = {} /\ Issuing = {} /\ Dispatching = {} /\ Unstarted \subseteq {w}
      /\ Owed = {} /\ store.state = "queued" /\ store.row = "queued"
      /\ ticket'.state \notin {"issued", "dispatched"}
  <2>1. CASE tid[w] = 0 /\ ticket' = ticket
    <3>1. w \in Unstarted
      BY <1>1, <2>1 DEF Unstarted
    <3>2. /\ Unstarted \subseteq {w} /\ ticket.id = 0 /\ Owners = {} /\ Minded = {} /\ Pending = {}
      BY <3>1 DEF Token, Core, FirstJob
    <3>3. ticket.state = "none"
      BY <3>2 DEF Token, Core, Tickets
    <3>4. Dispatching = {}
      BY <3>3 DEF Orderly, DispatcherAlone
    <3>5. Owed = {} /\ store.state = "queued" /\ store.row = "queued"
      BY <3>1 DEF Orderly, JobIsQueued
    <3> QED BY <2>1, <3>2, <3>3, <3>4, <3>5 DEF Minded
  <2>2. CASE tid[w] # 0 /\ tid[w] = ticket.id /\ Redrivable
             /\ ticket' = [ticket EXCEPT !.state = "started"]
    <3>1. ticket.state = "dispatched"
      BY <2>2 DEF Redrivable, Orderly, FreshTicket
    <3>2. Owners = {} /\ Pending = {} /\ \A t \in Issuing : SameTicket(t)
      BY <2>2 DEF Token, Core, OwnerAlone, TicketAlone
    <3>3. Issuing = {}
      BY <3>2 DEF Orderly, IssuerAlone
    <3>4. Dispatching = {}
      BY <3>1 DEF Orderly, DispatcherAlone
    <3>5. Owed = {} /\ store.state = "queued" /\ store.row = "queued"
      BY <3>1 DEF Orderly, JobIsQueued
    <3>6. Unstarted = {}
      BY <2>2 DEF Token, Core, FirstJob
    <3>7. ticket'.state = "started"
      BY <2>2 DEF TypeOK
    <3> QED BY <3>2, <3>3, <3>4, <3>5, <3>6, <3>7
  <2> QED BY <1>3, <2>1, <2>2
<1>7. \A v \in Workers : pc[v] \notin Owning \cup {"arm", "autoresume"}
  BY <1>6 DEF Orderly, AskerIsLast, Owners
<1>8. /\ Owners' \subseteq {w} /\ Unstarted' = {} /\ Closing' = {}
      /\ \A v \in Workers : pc'[v] \notin {"arm", "autoresume"}
  <2>1. Owners' \subseteq {w}
    BY <1>4, <1>7 DEF Owners
  <2>2. Unstarted' = {}
    BY <1>1, <1>2, <1>4, <1>6 DEF Unstarted
  <2>3. Closing' = {}
    BY <1>2, <1>4, <1>7 DEF Closing, Asking, Owning
  <2> QED BY <1>2, <1>4, <1>7, <2>1, <2>2, <2>3
<1>9. Issuing' = {} /\ Dispatching' = {} /\ Pending' = {}
  BY <1>1, <1>5, <1>6 DEF Issuing, Dispatching, Pending
<1>10. Owed' = {} /\ Only(w)'
  BY <1>1, <1>6, OwedNone DEF Owed, Only
<1>11. Settling(IF pc[w] \in Going THEN "running" ELSE "queued", {"state", "row"})'
  BY <1>1, <1>2, <1>6, <1>10 DEF Settling, Going
<1>12. Lawful'
  BY <1>10 DEF Lawful, Statuses
<1>13. \A t \in Resumers : /\ todo'[t] # <<>> => pc'[t] \in {"issue", "dispatch"}
                           /\ pc'[t] = pc[t] /\ num'[t] = num[t]
  BY <1>1, <1>5 DEF Orderly, AnswererAlone
<1> QED BY <1>1, <1>6, <1>8, <1>9, <1>10, <1>11, <1>12, <1>13, OneAttempt DEF Orderly

-----------------------------------------------------------------------------
(* The order when a turn is over *)

\* A turn is over: nobody holds its token, but for a question it has left.
LEMMA NoAttempt ==
  ASSUME Owners' = {}, Issuing' = {}, Dispatching' = {}, Unstarted' = {},
         ticket'.state \notin {"issued", "dispatched"}, Lawful', AskerIsLast',
         \A t \in Resumers : todo'[t] = <<>>, Looking' = {}
  PROVE  Orderly'
<1>1. IssuerAlone' /\ DispatcherAlone' /\ FreshTicket' /\ JobIsQueued' /\ AttemptAlone'
  BY DEF IssuerAlone, DispatcherAlone, FreshTicket, JobIsQueued, AttemptAlone
<1>2. Deciding' \subseteq Looking'
  BY DEF Looking, Deciding
<1>3. AnswererAlone'
  BY <1>2 DEF AnswererAlone
<1> QED BY <1>1, <1>3 DEF Orderly

LEMMA TurnIsOver ==
  ASSUME TypeOK, Token, Story, Orderly, NEW w \in Workers, pc[w] = "resolve", todo[w] = <<>>,
         NEW s \in {"done", "bundle", "arm", "autoresume"}, pc' = [pc EXCEPT ![w] = s],
         NEW st \in Statuses, NEW writes, todo' = [todo EXCEPT ![w] = writes],
         \A x \in Range(writes) : x.status = st,
         Session => <<"running", st>> \in Statechart!Transitions,
         s \in {"arm", "autoresume"} => num[w] \in Pending',
         UNCHANGED <<conversation, store, flagged, ticket, num, tid>>
  PROVE  Orderly'
<1>1. w \in Owners /\ pc[w] \in Going /\ Asking(w)
  BY DEF Owners, Owning, Going, Asking
<1>2. /\ w \in Tasks /\ Only(w) /\ \A v \in Workers : pc[v] \in Owning => v = w
      /\ Settling("running", {"state", "row"})
      /\ Pending = {} /\ ~Redrivable /\ Unstarted = {} /\ Issuing = {} /\ Dispatching = {}
      /\ \A v \in Workers : pc[v] \notin {"arm", "autoresume"}
  BY <1>1, OwnerMeets
<1>3. Owed = {} /\ store.state = "running"
  BY <1>2, OnlyNone DEF Settling
<1>4. Only(w)' /\ Owed' = Range(writes) /\ Lawful'
  BY <1>2, <1>3, AddsAlone
<1>5. pc'[w] = s /\ \A t \in Tasks : t # w => pc'[t] = pc[t] /\ todo'[t] = todo[t]
  BY <1>2 DEF TypeOK
<1>6. \A v \in Workers : v \in Tasks /\ (v # w => pc'[v] = pc[v])
  BY <1>5, Disjoint
<1>7. \A t \in Resumers : t \in Tasks /\ pc'[t] = pc[t] /\ todo'[t] = todo[t] /\ AtRest(t)
  BY <1>1, <1>5, Disjoint DEF Orderly, AskerIsLast, Closing
<1>8. \A t \in Resumers : AtRest(t)' /\ todo'[t] = <<>>
  BY <1>7 DEF AtRest
<1>9. Owners' = {} /\ Unstarted' = {}
  BY <1>2, <1>5, <1>6 DEF Owners, Unstarted, Owning
<1>10. Issuing' = {} /\ Dispatching' = {} /\ Looking' = {}
  BY <1>8 DEF Issuing, Dispatching, Looking, AtRest
<1>11. AskerIsLast'
  BY <1>2, <1>4, <1>5, <1>6, <1>8 DEF AskerIsLast
<1> QED BY <1>2, <1>4, <1>8, <1>9, <1>10, <1>11, NoAttempt DEF Redrivable

LEMMA TurnOutcome ==
  ASSUME TypeOK, Token, Undisturbed, Story, Orderly, NEW w \in Workers,
         TurnFailed(w) \/ (TurnSucceeded(w) /\ pc[w] = "resolve") \/ TurnAsks(w)
  PROVE  Orderly'
<1>1. /\ pc[w] = "resolve" /\ todo[w] = <<>>
      /\ UNCHANGED <<conversation, store, flagged, ticket, num, tid>>
  BY DEF TurnFailed, TurnSucceeded, TurnAsks, At, Converged, data, server, Story, Plain
<1>2. ASSUME NEW st \in Terminal, st # "canceled", NEW s \in {"done", "bundle"},
             pc' = [pc EXCEPT ![w] = s],
             todo' = [todo EXCEPT ![w] = TerminalProjection(st) \o <<Put("row", st)>>]
      PROVE  Orderly'
  <2> DEFINE writes == TerminalProjection(st) \o <<Put("row", st)>>
  <2>1. \A x \in Range(writes) : x.status = st
    BY <1>2, ProjectionRanges, PutIs
  <2>2. st \in Statuses /\ <<"running", st>> \in Statechart!Transitions
    BY <1>2 DEF Statuses, Terminal, Statechart!Transitions
  <2>3. todo' = [todo EXCEPT ![w] = writes]
    BY <1>2
  <2> HIDE DEF writes
  <2> QED BY <1>1, <1>2, <2>1, <2>2, <2>3, TurnIsOver
<1>3. CASE TurnFailed(w)
  <2>1. /\ pc' = [pc EXCEPT ![w] = "done"]
        /\ todo' = [todo EXCEPT ![w] = TerminalProjection("failed") \o <<Put("row", "failed")>>]
    BY <1>3 DEF TurnFailed, Finish, GotoOwing, Goto
  <2> QED BY <1>2, <2>1 DEF Terminal
<1>4. CASE TurnSucceeded(w)
  <2>1. /\ pc' = [pc EXCEPT ![w] = "bundle"]
        /\ todo' = [todo EXCEPT ![w] = TerminalProjection("succeeded") \o <<Put("row", "succeeded")>>]
    BY <1>1, <1>4 DEF TurnSucceeded, At, GotoOwing, Goto
  <2> QED BY <1>2, <2>1 DEF Terminal
<1>5. CASE TurnAsks(w)
  <2> DEFINE a == num[w]
  <2>1. /\ inter' = [inter EXCEPT ![a] = [state |-> "pending", by |-> "none"]]
        /\ \/ /\ pc' = [pc EXCEPT ![w] = "arm"]
              /\ todo' = [todo EXCEPT ![w] = NonTerminalProjection("waiting_user")]
           \/ /\ pc' = [pc EXCEPT ![w] = "done"]
              /\ todo' = [todo EXCEPT ![w] = TerminalProjection("failed") \o <<Put("row", "failed")>>]
           \/ /\ ~Session /\ pc' = [pc EXCEPT ![w] = "autoresume"]
              /\ todo' = [todo EXCEPT ![w] = NonTerminalProjection("queued") \o <<Put("row", "queued")>>]
    BY <1>5 DEF TurnAsks, Finish, GotoOwing, Goto
  <2>2. a \in Attempts
    <3>1. w \in Owners
      BY <1>1 DEF Owners, Owning
    <3>2. a >= 1 /\ a \in Nat
      BY <3>1, Disjoint DEF Token, Core, OwnerAlone, TypeOK
    <3>3. a < MaxAttempt - Fewer
      BY <1>5 DEF TurnAsks
    <3> QED BY <3>2, <3>3, Bounds DEF Attempts, Fewer
  <2>3. num[w] \in Pending'
    BY <2>1, <2>2 DEF Pending, TypeOK
  <2>4. "waiting_user" \in Statuses /\ "queued" \in Statuses
    BY DEF Statuses
  <2>5. CASE /\ pc' = [pc EXCEPT ![w] = "arm"]
             /\ todo' = [todo EXCEPT ![w] = NonTerminalProjection("waiting_user")]
    <3> DEFINE writes == NonTerminalProjection("waiting_user")
    <3>1. \A x \in Range(writes) : x.status = "waiting_user"
      BY ProjectionRanges, PutIs
    <3>2. <<"running", "waiting_user">> \in Statechart!Transitions
      BY DEF Statechart!Transitions
    <3>3. pc' = [pc EXCEPT ![w] = "arm"] /\ todo' = [todo EXCEPT ![w] = writes]
      BY <2>5
    <3> HIDE DEF writes
    <3> QED BY <1>1, <2>3, <2>4, <3>1, <3>2, <3>3, TurnIsOver
  <2>6. CASE /\ pc' = [pc EXCEPT ![w] = "done"]
             /\ todo' = [todo EXCEPT ![w] = TerminalProjection("failed") \o <<Put("row", "failed")>>]
    BY <1>2, <2>6 DEF Terminal
  <2>7. CASE /\ ~Session /\ pc' = [pc EXCEPT ![w] = "autoresume"]
             /\ todo' = [todo EXCEPT ![w] = NonTerminalProjection("queued") \o <<Put("row", "queued")>>]
    <3> DEFINE writes == NonTerminalProjection("queued") \o <<Put("row", "queued")>>
    <3>1. \A x \in Range(writes) : x.status = "queued"
      BY <2>4, ProjectionRanges, PutIs
    <3>2. /\ ~Session /\ pc' = [pc EXCEPT ![w] = "autoresume"]
          /\ todo' = [todo EXCEPT ![w] = writes]
      BY <2>7
    <3> HIDE DEF writes
    <3> QED BY <1>1, <2>3, <2>4, <3>1, <3>2, TurnIsOver
  <2> QED BY <2>1, <2>5, <2>6, <2>7
<1> QED BY <1>3, <1>4, <1>5

\* Whom an attempt that has asked does not meet.
LEMMA AskerMeets ==
  ASSUME TypeOK, Token, Story, Orderly, NEW w \in Workers,
         pc[w] \in {"arm", "autoresume"}, todo[w] = <<>>
  PROVE  /\ w \in Tasks /\ w \in Closing /\ Owed = {} /\ num[w] \in Pending
         /\ Owners = {} /\ Unstarted = {} /\ ~Redrivable
         /\ \A v \in Closing : v = w
         /\ \A t \in Resumers : t \in Tasks /\ AtRest(t)
<1>1. w \in Tasks /\ w \in Closing
  BY Disjoint DEF Closing
<1>2. num[w] \in Pending /\ Owed = {} /\ \A t \in Resumers : t \in Tasks /\ AtRest(t)
  BY <1>1, OnlyNone, Disjoint DEF Orderly, AskerIsLast
<1>3. \A v \in Closing : v = w
  BY <1>1 DEF Token, Core, AskerAlone
<1>4. Owners = {} /\ Unstarted = {} /\ ~Redrivable
  BY <1>2 DEF Token, Core, OwnerAlone, FirstJob, TicketAlone
<1> QED BY <1>1, <1>2, <1>3, <1>4

LEMMA WaitingKeepsOrder ==
  ASSUME TypeOK, Token, Undisturbed, Story, Orderly, NEW w \in Workers, FinishWaiting(w)
  PROVE  Orderly'
<1> DEFINE t == <<"timer", num[w]>>
           writes == NonTerminalProjection("waiting_user") \o <<Put("row", "waiting_user")>>
<1>1. /\ pc[w] = "arm" /\ todo[w] = <<>>
      /\ UNCHANGED <<conversation, store, flagged, inter, ticket, handle, mode, num, tid>>
      /\ todo' = [todo EXCEPT ![w] = writes]
      /\ pc' = [u \in Tasks |-> CASE u = w -> "done"
                                  [] ArmsTimer(w, u) -> "armed"
                                  [] OTHER -> pc[u]]
  BY DEF FinishWaiting, At, data, steady, server
<1>2. /\ w \in Tasks /\ w \in Closing /\ Owed = {} /\ num[w] \in Pending
      /\ Owners = {} /\ Unstarted = {} /\ ~Redrivable
      /\ \A v \in Closing : v = w
      /\ \A u \in Resumers : u \in Tasks /\ AtRest(u)
  BY <1>1, AskerMeets
<1>3. "waiting_user" \in Statuses /\ \A x \in Range(writes) : x.status = "waiting_user"
  <2>1. "waiting_user" \in Statuses
    BY DEF Statuses
  <2> QED BY <2>1, ProjectionRanges, PutIs
<1> HIDE DEF writes
<1>4. \A v \in Workers : v \in Tasks /\ pc'[v] = IF v = w THEN "done" ELSE pc[v]
  <2> SUFFICES ASSUME NEW v \in Workers
               PROVE  v \in Tasks /\ pc'[v] = IF v = w THEN "done" ELSE pc[v]
    OBVIOUS
  <2>1. v \in Tasks /\ ~ArmsTimer(w, v)
    BY Disjoint, Kinds DEF ArmsTimer
  <2>2. CASE v = w
    BY <1>1, <2>1, <2>2
  <2>3. CASE v # w
    BY <1>1, <2>1, <2>3
  <2> QED BY <2>1, <2>2, <2>3
<1>5. \A u \in Resumers : u # w /\ pc'[u] \in {"armed", pc[u]}
  <2> SUFFICES ASSUME NEW u \in Resumers PROVE u # w /\ pc'[u] \in {"armed", pc[u]}
    OBVIOUS
  <2>1. u \in Tasks /\ u # w
    BY Disjoint
  <2>2. CASE ArmsTimer(w, u)
    BY <1>1, <2>1, <2>2
  <2>3. CASE ~ArmsTimer(w, u)
    BY <1>1, <2>1, <2>3
  <2> QED BY <2>1, <2>2, <2>3
<1>6. Session => store.state = "waiting_user"
  <2>1. ~Moving
    <3>1. Issuing = {}
      BY <1>2 DEF Issuing, AtRest
    <3> QED BY <1>2, <3>1 DEF Moving
  <2>2. Waiting
    BY <1>1, <2>1 DEF Story, Phase, Over
  <2> QED BY <1>2, <2>2 DEF Waiting, Settling
<1>7. Lawful'
  BY <1>1, <1>2, <1>3, <1>6, AddsAlone
<1>8. \A u \in Resumers : todo'[u] = <<>> /\ AtRest(u)'
  BY <1>1, <1>2, <1>5 DEF AtRest, TypeOK
<1>9. Issuing' = {} /\ Dispatching' = {} /\ Looking' = {}
  BY <1>8 DEF Issuing, Dispatching, Looking, AtRest
<1>10. Owners' = {} /\ Unstarted' = {}
  BY <1>1, <1>2, <1>4 DEF Owners, Owning, Unstarted
<1>11. Closing' = {}
  BY <1>1, <1>2, <1>4 DEF Closing, Asking
<1>12. AskerIsLast'
  BY <1>1, <1>11 DEF AskerIsLast, Closing
<1> QED BY <1>1, <1>2, <1>7, <1>8, <1>9, <1>10, <1>12, NoAttempt DEF Redrivable

LEMMA RequeuedKeepsOrder ==
  ASSUME TypeOK, Token, Undisturbed, Story, Order, Orderly, NEW w \in Workers, FinishRequeued(w)
  PROVE  Orderly'
<1> DEFINE t == <<"timer", num[w]>>
<1>1. /\ pc[w] = "autoresume" /\ todo[w] = <<>>
      /\ UNCHANGED <<conversation, store, flagged, inter, ticket, handle, mode, todo, tid>>
      /\ pc' = [pc EXCEPT ![w] = "done", ![t] = "decide"]
      /\ num' = [num EXCEPT ![t] = num[w]]
  BY DEF FinishRequeued, At, data, steady, server
<1>2. /\ w \in Tasks /\ w \in Closing /\ Owed = {} /\ num[w] \in Pending
      /\ Owners = {} /\ Unstarted = {} /\ ~Redrivable
      /\ \A v \in Closing : v = w
      /\ \A u \in Resumers : u \in Tasks /\ AtRest(u)
  BY <1>1, AskerMeets
<1>3. t \in Timers /\ t \in Resumers /\ t \in Tasks /\ t # w /\ t \notin Workers
  BY <1>2, Disjoint DEF Timers, Pending
<1>4. /\ pc'[w] = "done" /\ pc'[t] = "decide" /\ num'[t] = num[w]
      /\ \A u \in Tasks : u \notin {w, t} => pc'[u] = pc[u]
  BY <1>1, <1>2, <1>3 DEF TypeOK
<1>5. inter[num[w]].by = "none"
  BY <1>2 DEF Order, QuestionIsLast, Answered, Pending
<1> HIDE DEF t
<1>6. \A v \in Workers : v \in Tasks /\ (v # w => pc'[v] = pc[v])
  BY <1>3, <1>4, Disjoint
<1>7. \A u \in Resumers : u # w /\ (u # t => pc'[u] = pc[u])
  BY <1>2, <1>4, Disjoint
<1>8. Owed' = {}
  BY <1>1, <1>2 DEF Owed
<1>9. Lawful'
  BY <1>8 DEF Lawful, Statuses
<1>10. Issuing' = {} /\ Dispatching' = {} /\ Looking' \subseteq {t} /\ Deciding' \subseteq {t}
  BY <1>2, <1>4, <1>7 DEF Issuing, Dispatching, Looking, Deciding, AtRest
<1>11. Owners' = {} /\ Unstarted' = {} /\ Closing' = {}
  <2>1. Owners' = {}
    BY <1>2, <1>4, <1>6 DEF Owners, Owning
  <2>2. Unstarted' = {}
    BY <1>1, <1>2, <1>4, <1>6 DEF Unstarted
  <2>3. \A v \in Closing' : v # w /\ v \in Closing
    BY <1>1, <1>4, <1>6 DEF Closing, Asking
  <2> QED BY <2>1, <2>2, <2>3, <1>2
<1>12. AskerIsLast'
  BY <1>11 DEF AskerIsLast, Closing
<1>13. AnswererAlone'
  <2>1. \A u \in Resumers : todo'[u] = <<>>
    BY <1>1, <1>2 DEF AtRest
  <2>2. inter'[num'[t]].by # "timer"
    BY <1>1, <1>4, <1>5
  <2> QED BY <1>8, <1>10, <2>1, <2>2 DEF AnswererAlone
<1>14. IssuerAlone' /\ DispatcherAlone' /\ FreshTicket' /\ JobIsQueued' /\ AttemptAlone'
  BY <1>1, <1>2, <1>10, <1>11
     DEF IssuerAlone, DispatcherAlone, FreshTicket, JobIsQueued, AttemptAlone, Redrivable
<1> QED BY <1>9, <1>12, <1>13, <1>14 DEF Orderly

-----------------------------------------------------------------------------
(* The order among those who resume the run *)

\* A resumer at work meets no attempt that may still ask.
LEMMA NobodyCloses ==
  ASSUME Orderly, NEW t \in Resumers, pc[t] \in {"look", "decide", "issue", "dispatch"}
  PROVE  Closing = {}
  BY DEF Orderly, AskerIsLast, AtRest

\* It looks for the question, takes it in hand, or goes.
LEMMA ResumerKeepsOrder ==
  ASSUME TypeOK, Orderly, NEW t \in Resumers, NEW s \in {"look", "decide", "done"},
         pc' = [pc EXCEPT ![t] = s], todo[t] = <<>>, Closing = {},
         \A u \in Tasks : u # t => num'[u] = num[u],
         UNCHANGED <<conversation, store, flagged, inter, ticket, todo, tid>>,
         s # "done" /\ Pending # {} => Owed = {},
         s = "decide" /\ t \in Timers => inter[num'[t]].by # "timer",
         s # "done" /\ t \in Timers => \A u \in Looking \cap Timers : u = t
  PROVE  Orderly'
<1>1. t \in Tasks /\ pc'[t] = s /\ \A u \in Tasks : u # t => pc'[u] = pc[u]
  BY Disjoint DEF TypeOK
<1>2. \A w \in Workers : w \in Tasks /\ w # t /\ pc'[w] = pc[w] /\ num'[w] = num[w]
  BY <1>1, Disjoint
<1>3. \A u \in Resumers : u \in Tasks /\ (u # t => pc'[u] = pc[u] /\ num'[u] = num[u])
  BY <1>1, Disjoint
<1>4. /\ Owed' = Owed /\ Session' = Session /\ Pending' = Pending
      /\ Unstarted' = Unstarted /\ Owners' = Owners /\ Closing' = {}
  BY <1>2 DEF Owed, Session, Pending, Unstarted, Owners, Closing, Asking
<1>5. (\A x, F : Settling(x, F)' <=> Settling(x, F)) /\ \A u : Only(u)' <=> Only(u)
  BY <1>4 DEF Settling, Only
<1>6. Issuing' \subseteq Issuing \ {t} /\ Dispatching' \subseteq Dispatching
  BY <1>1, <1>3 DEF Issuing, Dispatching
<1>7. IssuerAlone'
  <2>1. \A u \in Issuing' : u \in Issuing /\ SameTicket(u)' = SameTicket(u)
    BY <1>3, <1>6 DEF Issuing, SameTicket
  <2> QED BY <1>4, <1>5, <1>6, <2>1 DEF Orderly, IssuerAlone
<1>8. DispatcherAlone' /\ FreshTicket' /\ JobIsQueued'
  BY <1>4, <1>5, <1>6 DEF Orderly, DispatcherAlone, FreshTicket, JobIsQueued
<1>9. AttemptAlone'
  BY <1>2, <1>4, <1>5 DEF Orderly, AttemptAlone, Owners
<1>10. AskerIsLast'
  BY <1>4 DEF AskerIsLast, Closing
<1>11. AnswererAlone'
  <2>1. \A u \in Resumers : todo'[u] # <<>> => pc'[u] \in {"issue", "dispatch"}
    BY <1>3 DEF Orderly, AnswererAlone
  <2>2. Looking' \subseteq Looking \cup {t} /\ (s = "done" => Looking' \subseteq Looking \ {t})
    BY <1>1, <1>3 DEF Looking
  <2>3. Pending # {} /\ Looking' # {} => Owed = {}
    BY <2>2 DEF Orderly, AnswererAlone
  <2>4. \A u \in Deciding' \cap Timers : inter[num'[u]].by # "timer"
    BY <1>1, <1>3 DEF Orderly, AnswererAlone, Deciding
  <2>5. \A u, v \in Looking' \cap Timers : u = v
    BY <2>2 DEF Orderly, AnswererAlone
  <2> QED BY <1>4, <2>1, <2>3, <2>4, <2>5 DEF AnswererAlone
<1>12. Lawful'
  BY <1>4 DEF Orderly, Lawful
<1> QED BY <1>7, <1>8, <1>9, <1>10, <1>11, <1>12 DEF Orderly

\* With an open question, whoever comes while the workers rest finds nothing
\* under way.
LEMMA RestMeansNone ==
  ASSUME TypeOK, Token, Story, Orderly, Pending # {}, \A w \in Workers : AtRest(w)
  PROVE  Owed = {}
<1>1. Issuing = {} /\ ~Redrivable
  BY DEF Token, Core, OneQuestion, TicketAlone
<1>2. Dispatching = {}
  BY <1>1 DEF Orderly, DispatcherAlone, Redrivable
<1>3. \A t \in Resumers : todo[t] = <<>>
  BY <1>1, <1>2 DEF Orderly, AnswererAlone, Issuing, Dispatching
<1>4. \A t \in Tasks : todo[t] = <<>>
  BY <1>3 DEF AtRest, Story, Plain
<1> QED BY <1>4, OwedNone

LEMMA ResumerArrives ==
  ASSUME TypeOK, Token, Story, Orderly, situation = "calm", NEW t \in Resumers,
         (t \in Timers /\ TimerFires(t)) \/ ReplyArrives(t)
  PROVE  Orderly'
<1> DEFINE s == pc'[t]
<1>1. /\ pc[t] \in {"armed", "idle"} /\ todo[t] = <<>> /\ pc' = [pc EXCEPT ![t] = s]
      /\ s \in {"look", "done"}
      /\ UNCHANGED <<conversation, store, flagged, inter, ticket, todo, num, tid>>
      /\ \A w \in Workers : AtRest(w)
      /\ t \in Timers => \A u \in Timers \ {t} : AtRest(u)
  <2>1. t \in Tasks
    BY Disjoint
  <2>2. CASE ReplyArrives(t)
    <3>1. t \notin Timers
      BY <2>2, Kinds DEF ReplyArrives
    <3> QED BY <2>1, <2>2, <3>1 DEF ReplyArrives, At, Goto, Eager, TypeOK, data, steady, server
  <2>3. CASE TimerFires(t)
    BY <2>1, <2>3 DEF TimerFires, At, Goto, Eager, TypeOK, data, steady, server
  <2> QED BY <2>2, <2>3
<1>2. s \in {"look", "decide", "done"} /\ s # "decide"
  BY <1>1
<1> HIDE DEF s
<1>3. Closing = {}
  BY <1>1 DEF Closing, Asking, AtRest
<1>4. Pending # {} => Owed = {}
  BY <1>1, RestMeansNone
<1>5. t \in Timers => \A u \in Looking \cap Timers : u = t
  BY <1>1 DEF Looking, AtRest
<1> QED BY <1>1, <1>2, <1>3, <1>4, <1>5, ResumerKeepsOrder

LEMMA ResumerLooksUp ==
  ASSUME TypeOK, Token, Story, Order, Orderly, NEW t \in Resumers, LookUpPending(t)
  PROVE  Orderly'
<1>1. /\ pc[t] = "look" /\ todo[t] = <<>> /\ t \in Tasks
      /\ UNCHANGED <<conversation, store, flagged, inter, ticket, todo, tid>>
      /\ \/ pc' = [pc EXCEPT ![t] = "done"] /\ num' = num
         \/ /\ Pending # {} /\ pc' = [pc EXCEPT ![t] = "decide"]
            /\ num' = [num EXCEPT ![t] = Max(Pending)]
  BY Disjoint DEF LookUpPending, At, Goto, data, steady, server
<1>2. Closing = {} /\ t \in Looking
  BY <1>1, NobodyCloses DEF Looking
<1>3. \A u \in Tasks : u # t => num'[u] = num[u]
  BY <1>1 DEF TypeOK
<1>4. (Pending # {} => Owed = {}) /\ (t \in Timers => \A u \in Looking \cap Timers : u = t)
  BY <1>2 DEF Orderly, AnswererAlone
<1>5. CASE pc' = [pc EXCEPT ![t] = "done"] /\ num' = num
  BY <1>1, <1>2, <1>3, <1>5, ResumerKeepsOrder
<1>6. CASE /\ Pending # {} /\ pc' = [pc EXCEPT ![t] = "decide"]
           /\ num' = [num EXCEPT ![t] = Max(Pending)]
  <2>1. num'[t] \in Pending
    <3>1. num'[t] = Max(Pending)
      BY <1>1, <1>6 DEF TypeOK
    <3> QED BY <1>6, <3>1, LatestPending DEF Token, Core
  <2>2. inter[num'[t]].by = "none"
    BY <2>1 DEF Order, QuestionIsLast, Answered, Pending
  <2> QED BY <1>1, <1>2, <1>3, <1>4, <1>6, <2>2, ResumerKeepsOrder
<1> QED BY <1>1, <1>5, <1>6

LEMMA ReplyKeepsOrder ==
  ASSUME TypeOK, Token, Story, Orderly, NEW t \in Resumers, SubmitReply(t)
  PROVE  Orderly'
<1> DEFINE i == num[t]
<1>1. /\ pc[t] = "decide" /\ todo[t] = <<>> /\ t \in Tasks
      /\ UNCHANGED <<conversation, store, flagged, ticket, handle, mode, num, tid>>
  BY Disjoint DEF SubmitReply, At, steady, server
<1>2. Closing = {} /\ t \in Looking /\ t \in Deciding /\ t \in Minded
  BY <1>1, NobodyCloses DEF Looking, Deciding, Minded
<1>3. i \in Attempts
  BY <1>2 DEF Token, Core, OneMind
<1>4. CASE ~First(i)
  <2>1. ~(t[1] = "timer" /\ inter[i].by = "timer")
    <3>1. t[1] = "timer" => t \in Timers
      BY Kinds DEF Resumers
    <3> QED BY <1>2, <3>1 DEF Orderly, AnswererAlone
  <2>2. pc' = [pc EXCEPT ![t] = "done"] /\ todo' = todo /\ inter' = inter
    BY <1>4, <2>1 DEF SubmitReply, Goto
  <2>3. \A u \in Tasks : u # t => num'[u] = num[u]
    BY <1>1
  <2> QED BY <1>1, <1>2, <2>2, <2>3, ResumerKeepsOrder
<1>5. CASE First(i)
  <2> DEFINE writes == IF t[1] = "timer" THEN <<Put("row", "queued")>>
                       ELSE NonTerminalProjection("queued") \o <<Put("row", "queued")>>
  <2>1. /\ inter' = [inter EXCEPT ![i] = [state |-> "answered", by |-> t[1]]]
        /\ pc' = [pc EXCEPT ![t] = "issue"] /\ todo' = [todo EXCEPT ![t] = writes]
    BY <1>5 DEF SubmitReply, GotoOwing, Goto
  <2>2. i \in Pending /\ \A a \in Pending : a = i
    BY <1>2, <1>3, <1>5 DEF First, Pending, Token, Core, OneQuestion
  <2>3. /\ Issuing = {} /\ ticket.target <= i /\ Owners = {} /\ Unstarted = {} /\ ~Redrivable
    BY <2>2 DEF Token, Core, OneQuestion, OwnerAlone, FirstJob, TicketAlone
  <2>4. Owed = {}
    BY <1>2, <2>2 DEF Orderly, AnswererAlone
  <2>5. Session => store.state = "waiting_user"
    <3>1. ~Moving
      BY <2>3 DEF Moving
    <3>2. Waiting
      BY <1>2, <3>1 DEF Story, Phase, Over
    <3> QED BY <2>4, <3>2 DEF Waiting, Settling
  <2>6. "queued" \in Statuses /\ \A x \in Range(writes) : x.status = "queued"
    <3>1. "queued" \in Statuses
      BY DEF Statuses
    <3> QED BY <3>1, ProjectionRanges, PutIs
  <2> HIDE DEF writes
  <2>7. Session => "queued" = store.state \/ <<store.state, "queued">> \in Statechart!Transitions
    BY <2>5 DEF Statechart!Transitions
  <2>8. Only(t)' /\ Owed' = Range(writes) /\ Lawful'
    BY <1>1, <2>1, <2>4, <2>6, <2>7, AddsAlone
  <2>9. pc'[t] = "issue" /\ \A u \in Tasks : u # t => pc'[u] = pc[u] /\ todo'[u] = todo[u]
    BY <1>1, <2>1 DEF TypeOK
  <2>10. \A w \in Workers : w \in Tasks /\ w # t /\ pc'[w] = pc[w]
    BY <2>9, Disjoint
  <2>11. \A u \in Resumers : u \in Tasks /\ (u # t => pc'[u] = pc[u] /\ todo'[u] = todo[u])
    BY <2>9, Disjoint
  <2>12. Owners' = {} /\ Unstarted' = {} /\ Closing' = {}
    BY <1>1, <1>2, <2>3, <2>10 DEF Owners, Unstarted, Closing, Asking
  <2>13. Dispatching' = {} /\ ticket'.state \notin {"issued", "dispatched"}
    BY <1>1, <2>3, <2>9, <2>11 DEF Dispatching, Redrivable, Orderly, DispatcherAlone
  <2>14. Issuing' \subseteq {t}
    BY <2>3, <2>11 DEF Issuing
  <2>15. Pending' = {}
    BY <1>3, <2>1, <2>2 DEF Pending, TypeOK
  <2>16. ~SameTicket(t)'
    BY <1>1, <1>3, <2>3 DEF SameTicket, TypeOK, Attempts
  <2>17. IssuerAlone'
    BY <1>1, <2>5, <2>6, <2>8, <2>14, <2>16 DEF IssuerAlone, Session
  <2>18. DispatcherAlone' /\ FreshTicket' /\ JobIsQueued' /\ AttemptAlone'
    BY <2>12, <2>13 DEF DispatcherAlone, FreshTicket, JobIsQueued, AttemptAlone
  <2>19. AskerIsLast'
    BY <2>12 DEF AskerIsLast, Closing
  <2>20. AnswererAlone'
    <3>1. \A u \in Resumers : todo'[u] # <<>> => pc'[u] \in {"issue", "dispatch"}
      BY <2>9, <2>11 DEF Orderly, AnswererAlone
    <3>2. Looking' \subseteq Looking /\ Deciding' \subseteq Deciding \ {t}
      BY <2>9, <2>11 DEF Looking, Deciding
    <3>3. \A u \in Deciding : u \in Looking
      BY DEF Looking, Deciding
    <3>4. ASSUME NEW u \in Deciding' \cap Timers PROVE inter'[num'[u]].by # "timer"
      <4>1. u \in Deciding /\ u # t /\ u \in Timers /\ inter[num[u]].by # "timer"
        BY <3>2, <3>4 DEF Orderly, AnswererAlone
      <4>2. t \notin Timers
        BY <1>2, <3>3, <4>1 DEF Orderly, AnswererAlone
      <4>3. t[1] = "reply"
        BY <4>2, Kinds DEF Resumers
      <4>4. num[u] \in Attempts
        BY <4>1 DEF Token, Core, OneMind, Minded
      <4> QED BY <1>1, <1>3, <2>1, <4>1, <4>3, <4>4 DEF TypeOK
    <3>5. \A u, v \in Looking' \cap Timers : u = v
      BY <3>2 DEF Orderly, AnswererAlone
    <3> QED BY <2>15, <3>1, <3>4, <3>5 DEF AnswererAlone
  <2> QED BY <2>8, <2>17, <2>18, <2>19, <2>20 DEF Orderly
<1> QED BY <1>4, <1>5

LEMMA IssueKeepsOrder ==
  ASSUME TypeOK, Token, Story, Orderly, NEW t \in Resumers, IssueTicket(t)
  PROVE  Orderly'
<1> DEFINE writes == NonTerminalProjection("queued")
<1>1. /\ pc[t] = "issue" /\ todo[t] = <<>> /\ t \in Tasks
      /\ UNCHANGED <<conversation, store, flagged, inter, handle, mode, num>>
      /\ tid' = [tid EXCEPT ![t] = ticket'.id]
      /\ pc' = [pc EXCEPT ![t] = "dispatch"] /\ todo' = [todo EXCEPT ![t] = writes]
  BY Disjoint DEF IssueTicket, At, GotoOwing, Goto, steady, server
<1>2. t \in Issuing /\ t \in Minded /\ Closing = {}
  BY <1>1, NobodyCloses DEF Issuing, Minded
<1>3. /\ ~SameTicket(t) /\ Only(t) /\ \A u \in Issuing : u = t
      /\ Session => store.state \in {"waiting_user", "queued"}
  BY <1>2 DEF Orderly, IssuerAlone
<1>4. /\ Owed = {} /\ Pending = {} /\ ~Redrivable /\ Owners = {} /\ Unstarted = {}
  BY <1>1, <1>2, <1>3, OnlyNone DEF Token, Core, OneQuestion, TicketAlone, OwnerAlone, FirstJob
<1>5. Dispatching = {}
  BY <1>4 DEF Orderly, DispatcherAlone, Redrivable
<1>6. /\ ticket'.id = ticket.id + 1 /\ ticket'.state = "issued" /\ ticket.id \in Nat
  BY <1>3 DEF IssueTicket, TypeOK
<1>7. /\ "queued" \in Statuses /\ \A x \in Range(writes) : x.status = "queued"
      /\ \A f \in {"state", "row"} : \E x \in Range(writes) : x.to = f
  BY ProjectionRanges, PutIs DEF Statuses
<1> HIDE DEF writes
<1>8. Session => "queued" = store.state \/ <<store.state, "queued">> \in Statechart!Transitions
  BY <1>3 DEF Statechart!Transitions
<1>9. Only(t)' /\ Owed' = Range(writes) /\ Lawful'
  BY <1>1, <1>4, <1>7, <1>8, AddsAlone
<1>10. /\ pc'[t] = "dispatch" /\ tid'[t] = ticket'.id
       /\ \A u \in Tasks : u # t => pc'[u] = pc[u] /\ todo'[u] = todo[u] /\ tid'[u] = tid[u]
  BY <1>1 DEF TypeOK
<1>11. \A w \in Workers : w \in Tasks /\ w # t /\ pc'[w] = pc[w] /\ tid'[w] = tid[w]
  BY <1>10, Disjoint
<1>12. \A u \in Resumers : u \in Tasks /\ (u # t => pc'[u] = pc[u] /\ todo'[u] = todo[u])
  BY <1>10, Disjoint
<1>13. Owners' = {} /\ Unstarted' = {} /\ Closing' = {}
  BY <1>1, <1>2, <1>4, <1>11 DEF Owners, Unstarted, Closing, Asking
<1>14. Issuing' = {} /\ Dispatching' \subseteq {t} /\ Pending' = {}
  BY <1>1, <1>3, <1>4, <1>5, <1>10, <1>12 DEF Issuing, Dispatching, Pending
<1>15. Settling("queued", {"state", "row"})'
  BY <1>7, <1>9 DEF Settling
<1>16. IssuerAlone' /\ DispatcherAlone' /\ JobIsQueued' /\ AttemptAlone'
  BY <1>6, <1>9, <1>10, <1>13, <1>14, <1>15
     DEF IssuerAlone, DispatcherAlone, JobIsQueued, AttemptAlone
<1>17. FreshTicket'
  <2>1. \A w \in Workers : tid[w] \in Nat /\ tid[w] <= ticket.id
    BY <1>11 DEF Token, Core, Tickets, TypeOK
  <2>2. \A w \in Workers : tid'[w] # ticket'.id
    BY <1>6, <1>11, <2>1
  <2> QED BY <2>2 DEF FreshTicket
<1>18. AskerIsLast'
  BY <1>13 DEF AskerIsLast, Closing
<1>19. AnswererAlone'
  <2>1. \A u \in Resumers : todo'[u] # <<>> => pc'[u] \in {"issue", "dispatch"}
    BY <1>10, <1>12 DEF Orderly, AnswererAlone
  <2>2. Looking' = Looking /\ Deciding' = Deciding
    BY <1>1, <1>10, <1>12 DEF Looking, Deciding
  <2> QED BY <1>1, <1>14, <2>1, <2>2 DEF Orderly, AnswererAlone
<1> QED BY <1>9, <1>16, <1>17, <1>18, <1>19 DEF Orderly

LEMMA DispatchKeepsOrder ==
  ASSUME TypeOK, Token, Story, Orderly, NEW t \in Resumers, DispatchTicket(t)
  PROVE  Orderly'
<1> DEFINE w == NewWorker
<1>1. /\ pc[t] = "dispatch" /\ todo[t] = <<>> /\ t \in Tasks /\ t \in Dispatching
      /\ UNCHANGED <<conversation, store, flagged, inter, handle, mode, todo>>
  BY Disjoint DEF DispatchTicket, At, Dispatching, steady, server
<1>2. /\ ticket.state = "issued" /\ tid[t] = ticket.id /\ Only(t) /\ Closing = {}
      /\ \A u \in Dispatching : u = t
      /\ Settling("queued", {"state", "row"}) /\ Redrivable
  BY <1>1, NobodyCloses DEF Orderly, DispatcherAlone, Redrivable
<1>3. Owed = {} /\ store.state = "queued" /\ store.row = "queued"
  BY <1>1, <1>2, OnlyNone DEF Settling
<1>4. w \in Workers /\ pc[w] = "idle" /\ w \in Tasks /\ w # t /\ w \notin Resumers
  BY <1>1, <1>2, NewWorkerIsIdle, Disjoint
<1>5. /\ ticket' = [ticket EXCEPT !.state = "dispatched"]
      /\ num' = [num EXCEPT ![w] = num[t] + 1] /\ tid' = [tid EXCEPT ![w] = tid[t]]
      /\ pc' = [pc EXCEPT ![t] = "done", ![w] = "ticket"]
  BY <1>2 DEF DispatchTicket, Spawn
<1> HIDE DEF w
<1>6. /\ pc'[t] = "done" /\ pc'[w] = "ticket" /\ tid'[w] = ticket.id /\ ticket'.state = "dispatched"
      /\ \A u \in Tasks : u \notin {t, w} => pc'[u] = pc[u]
      /\ \A u \in Tasks : u # w => num'[u] = num[u] /\ tid'[u] = tid[u]
  BY <1>1, <1>2, <1>4, <1>5 DEF TypeOK
<1>7. \A v \in Workers : v \in Tasks /\ v # t /\ (v # w => pc'[v] = pc[v] /\ num'[v] = num[v])
  BY <1>6, Disjoint
<1>8. \A u \in Resumers : u \in Tasks /\ u # w /\ num'[u] = num[u] /\ (u # t => pc'[u] = pc[u])
  BY <1>4, <1>6, Disjoint
<1>9. Owners = {} /\ Issuing = {} /\ Pending = {}
  <2>1. Owners = {} /\ Pending = {} /\ \A u \in Issuing : SameTicket(u)
    BY <1>2 DEF Token, Core, OwnerAlone, TicketAlone
  <2> QED BY <2>1 DEF Orderly, IssuerAlone
<1>10. Owners' = {} /\ Issuing' = {} /\ Dispatching' = {} /\ Closing' = {} /\ Pending' = {}
  <2>1. Owners' = {}
    BY <1>6, <1>7, <1>9 DEF Owners, Owning
  <2>2. Issuing' = {} /\ Dispatching' = {}
    BY <1>2, <1>6, <1>8, <1>9 DEF Issuing, Dispatching
  <2>3. Closing' = {}
    BY <1>1, <1>2, <1>6, <1>7 DEF Closing, Asking
  <2> QED BY <1>1, <1>9, <2>1, <2>2, <2>3 DEF Pending
<1>11. Owed' = {}
  BY <1>1, <1>3 DEF Owed
<1>12. IssuerAlone' /\ DispatcherAlone' /\ FreshTicket' /\ JobIsQueued' /\ AttemptAlone' /\ Lawful'
  BY <1>1, <1>3, <1>6, <1>10, <1>11
     DEF IssuerAlone, DispatcherAlone, FreshTicket, JobIsQueued, AttemptAlone, Lawful, Statuses
<1>13. AskerIsLast'
  BY <1>10 DEF AskerIsLast, Closing
<1>14. AnswererAlone'
  <2>1. \A u \in Resumers : todo'[u] # <<>> => pc'[u] \in {"issue", "dispatch"}
    BY <1>1, <1>8 DEF Orderly, AnswererAlone
  <2>2. Looking' \subseteq Looking /\ Deciding' \subseteq Deciding
    BY <1>6, <1>8 DEF Looking, Deciding
  <2>3. \A u \in Deciding' \cap Timers : inter'[num'[u]].by # "timer"
    BY <1>1, <1>8, <2>2 DEF Orderly, AnswererAlone, Deciding
  <2> QED BY <1>11, <2>1, <2>2, <2>3 DEF Orderly, AnswererAlone
<1> QED BY <1>12, <1>13, <1>14 DEF Orderly

-----------------------------------------------------------------------------
(* The theorems about a run that is answered once at a time *)

LEMMA OrderlyStep ==
  ASSUME TypeOK, Token, situation = "calm", Story, Order, Orderly, [Next]_vars PROVE Orderly'
<1>1. /\ mode = "up" /\ Undisturbed
      /\ \A t \in Pollers \cup Cancellers \cup {recovery} :
           t \in Tasks /\ t \notin Workers \cup Resumers /\ pc[t] = "idle" /\ todo[t] = <<>>
  BY Disjoint DEF Story, Plain, Undisturbed
<1>2. ASSUME NEW t \in Tasks, Step(t) PROVE Orderly'
  <2>1. CASE Write(t)
    BY <2>1, WriteKeepsOrder
  <2>2. CASE t \in Workers /\ ~Write(t)
    <3>1. WorkerStep(t)
      BY <1>2, <2>2, Disjoint DEF Step, Resumers, RejectRun, AuditFails, CanFail
    <3>2. StartTicket(t) => pc' = [pc EXCEPT ![t] = "claim"] \/ pc' = [pc EXCEPT ![t] = "done"]
      BY DEF StartTicket, Goto
    <3>3. TurnSucceeded(t) => \/ pc[t] = "resolve"
                              \/ pc[t] = "bundle" /\ pc' = [pc EXCEPT ![t] = "done"]
      BY DEF TurnSucceeded, At, Finish, GotoOwing, Goto
    <3> QED BY <1>1, <2>2, <3>1, <3>2, <3>3, JobKeepsOrder, PhaseAdvances, EngineKeepsOrder,
               JobBecomesAttempt, TurnOutcome, WaitingKeepsOrder, RequeuedKeepsOrder DEF WorkerStep
  <2>3. CASE t \notin Workers /\ ~Write(t)
    <3>1. t \notin Pollers \cup Cancellers
      BY <1>1, <1>2, <2>3, Disjoint
         DEF Step, Resumers, Redrive, SetCancelRequested, Kill, ProjectCanceled, At
    <3>2. /\ t \in Resumers
          /\ \/ t \in Timers /\ TimerFires(t)
             \/ LookUpPending(t) \/ SubmitReply(t) \/ IssueTicket(t) \/ DispatchTicket(t)
      BY <1>2, <2>3, <3>1 DEF Step, Resumers
    <3> QED BY <3>2, ResumerArrives, ResumerLooksUp, ReplyKeepsOrder, IssueKeepsOrder,
               DispatchKeepsOrder
  <2> QED BY <2>1, <2>2, <2>3
<1>3. ASSUME NEW t \in Tasks, Arrival(t) PROVE Orderly'
  <2>1. t \in Resumers /\ ReplyArrives(t)
    BY <1>1, <1>3, Arrivals DEF PollReadsQueued, CancelArrives, CanRedrive, Undisturbed
  <2> QED BY <2>1, ResumerArrives
<1>4. ~Crash /\ ~Restart /\ ~ClearBindings
  BY <1>1 DEF Crash, Restart, ClearBindings, At
<1>5. CASE UNCHANGED vars
  <2>1. /\ Issuing' = Issuing /\ Dispatching' = Dispatching /\ Unstarted' = Unstarted
        /\ Owners' = Owners /\ Closing' = Closing /\ Looking' = Looking /\ Deciding' = Deciding
    BY <1>5 DEF vars, Issuing, Dispatching, Unstarted, Owners, Closing, Asking, Looking, Deciding
  <2>2. \A t \in Deciding : num[t] \in Attempts
    BY MindIsAttempt
  <2>3. UNCHANGED <<conversation, store, ticket, todo, pc, num, tid, inter>>
    BY <1>5 DEF vars
  <2> QED BY <2>1, <2>2, <2>3, OrderlyKept
<1> QED BY <1>2, <1>3, <1>4, <1>5 DEF Next

LEMMA OrderlyInitially == Init => Orderly
<1> SUFFICES ASSUME Init PROVE Orderly
  OBVIOUS
<1>1. /\ \A w \in Workers : w \in Tasks /\ pc[w] \in {"new", "idle"}
      /\ \A t \in Resumers : t \in Tasks /\ pc[t] = "idle"
      /\ \A t \in Tasks : todo[t] = <<>>
      /\ ticket.state = "none" /\ store.state = "queued" /\ store.row = "queued"
  <2>1. \A t \in Tasks : pc[t] = IF t = <<"worker", 1>> THEN "new" ELSE "idle"
    BY DEF Init
  <2>2. \A t \in Resumers : t \in Tasks /\ t # <<"worker", 1>>
    BY Disjoint, FirstWorker
  <2> QED BY <2>1, <2>2, Disjoint DEF Init
<1>2. Owed = {} /\ \A t \in Tasks : Only(t)
  BY <1>1 DEF Owed, Only, Range
<1>3. Issuing = {} /\ Dispatching = {} /\ Owners = {} /\ Closing = {} /\ Looking = {} /\ Deciding = {}
  BY <1>1 DEF Issuing, Dispatching, Owners, Owning, Closing, Asking, Looking, Deciding
<1>4. \A w \in Workers : pc[w] \notin {"arm", "autoresume"}
  BY <1>1
<1> QED BY <1>1, <1>2, <1>3, <1>4
        DEF Orderly, IssuerAlone, DispatcherAlone, FreshTicket, JobIsQueued, AttemptAlone,
            AskerIsLast, AnswererAlone, Lawful, Statuses

LEMMA OrderlyAlways ==
  Spec => [](TypeOK /\ (situation = "calm" => Story /\ Orderly))
<1> DEFINE O == situation = "calm" => Story /\ Orderly
<1>1. Init => TypeOK /\ Token /\ Order /\ O
  BY Initially, OrderInitially, StoryInitially, OrderlyInitially
<1>2. TypeOK /\ Token /\ Order /\ O /\ [Next]_vars => (TypeOK /\ Token /\ Order /\ O)'
  <2> SUFFICES ASSUME TypeOK, Token, Order, O, [Next]_vars PROVE TypeOK' /\ Token' /\ Order' /\ O'
    OBVIOUS
  <2>1. situation' = situation
    BY SituationKept
  <2> QED BY <2>1, Inductive, OrderStep, StoryStep, OrderlyStep DEF Undisturbed
<1> QED BY <1>1, <1>2, PTL DEF Spec

LEMMA LiveTurnIsReported ==
  ASSUME situation = "calm" => Orderly PROVE LiveTurnIsRunning
<1> SUFFICES ASSUME Orderly, \A t \in Tasks : AtRest(t), NEW w \in Workers,
                    pc[w] \in {"engine", "repair"}
             PROVE  store.state = "running" /\ store.row = "running"
  BY DEF LiveTurnIsRunning
<1>1. Owed = {}
  BY DEF Owed, AtRest, Range
<1>2. w \in Owners /\ pc[w] \in Going
  BY DEF Owners, Owning, Going
<1> QED BY <1>1, <1>2 DEF Orderly, AttemptAlone, Settling

\* A run that is answered once at a time is running, for all its readers, while
\* its engine is.
THEOREM LiveTurnRunning == Spec => []LiveTurnIsRunning
BY OrderlyAlways, LiveTurnIsReported, PTL

\* Only a write that is owed changes what is stored.
LEMMA StoreKept ==
  ASSUME [Next]_vars, \A t \in Tasks : ~Write(t) PROVE store' = store
<1>1. ASSUME NEW t \in Tasks, Step(t) \/ Arrival(t) PROVE store' = store
  BY <1>1 DEF Step, Arrival, WorkerStep, Admit, RejectRun, StartTicket, AdvancePhase,
              AuditFails, CheckCancel, Prepare, Launch, EngineExit, RepairRound, TurnFailed,
              TurnSucceeded, TurnAsks, FinishWaiting, FinishRequeued, TimerFires,
              ReplyArrives, LookUpPending, SubmitReply, IssueTicket, DispatchTicket,
              PollReadsQueued, Redrive, CancelArrives, SetCancelRequested, Kill, ProjectCanceled
<1> QED BY <1>1 DEF Next, Crash, Restart, ClearBindings, vars

Status == IF situation = "calm" /\ Session THEN store.state ELSE "queued"

LEMMA StatusMovesLawfully ==
  ASSUME TypeOK, situation = "calm" => Story /\ Orderly, [Next]_vars
  PROVE  Status' = Status \/ <<Status, Status'>> \in Statechart!Transitions
<1>1. situation' = situation /\ Session' = Session
  BY SituationKept DEF Session
<1>2. CASE ~(situation = "calm" /\ Session)
  BY <1>1, <1>2 DEF Status
<1>3. CASE \A t \in Tasks : ~Write(t)
  BY <1>1, <1>3, StoreKept DEF Status
<1>4. CASE situation = "calm" /\ Session /\ \E t \in Tasks : Write(t)
  <2>1. PICK t \in Tasks : Write(t)
    BY <1>4
  <2>2. PICK h \in Owed : h \in Writes /\ store' = [store EXCEPT ![h.to] = h.status]
    BY <2>1, WritePerformed
  <2>3. h.to = "state" => h.status = store.state
                          \/ <<store.state, h.status>> \in Statechart!Transitions
    BY <1>4 DEF Orderly, Lawful
  <2>4. store'.state = IF h.to = "state" THEN h.status ELSE store.state
    <3>1. h.to \in {"state", "row", "result"}
      BY <2>2 DEF Writes
    <3>2. store \in [state : Statuses, row : Statuses, result : Terminal \cup {"none"}]
      BY DEF TypeOK
    <3> QED BY <2>2, <3>1, <3>2
  <2> QED BY <1>1, <1>4, <2>3, <2>4 DEF Status
<1> QED BY <1>2, <1>3, <1>4

\* The status of such a run in a session only moves as the statechart allows.
THEOREM StatusFollowsStatechart == Spec => ImplementsStatechart
<1>1. Init => Statechart!Init
  BY DEF Init, Statechart!Init
<1>2. TypeOK /\ (situation = "calm" => Story /\ Orderly) /\ [Next]_vars
        => [Statechart!Next]_(IF situation = "calm" /\ Session THEN store.state ELSE "queued")
  BY StatusMovesLawfully DEF Status, Statechart!Next
<1> QED BY <1>1, <1>2, OrderlyAlways, PTL DEF Spec, ImplementsStatechart, Statechart!Spec


-----------------------------------------------------------------------------
(***************************************************************************)
(* A session that meets cancels, faults, crashes and readers that redrive  *)
(* it: every run of the situations "cancel" and "crash" but one whose      *)
(* audit files cannot be created.  While the status says waiting_user, the *)
(* question is open, or a task is there that will overwrite the status.    *)
(***************************************************************************)
Troubled == situation \in {"cancel", "crash"} /\ Session /\ ~CanFail("audit")

\* Who owes a waiting status, and among them who has asked.
Waiters == {t \in Tasks : \E x \in Range(todo[t]) : x.status = "waiting_user"}
Arms == {w \in Workers : pc[w] = "arm"}
Askers == Arms \cup {w \in Workers : pc[w] = "done" /\ w \in Waiters}

HandleKept ==
  store.state = "waiting_user" \/ Waiters # {} \/ Arms # {} => handle
\* A waiting status is owed for a question that is open, or is the copy that a
\* job takes on its way to its own status.
AskersWait ==
  \A t \in Waiters \cup Arms : t \in Owners \/ (t \in Askers /\ Pending # {})
\* Nobody answers before the question has been projected twice.
AskersFirst ==
  \A w \in Workers : Asking(w) \/ w \in Askers => Looking = {}
\* A task holds a ticket that may still be started.
TicketHeld ==
  /\ Redrivable
  /\ \/ \E w \in Workers : pc[w] = "ticket" /\ tid[w] = ticket.id
     \/ ticket.state = "issued" /\ \E t \in Resumers : pc[t] = "dispatch" /\ tid[t] = ticket.id
GoesOn ==
  Pending # {} \/ Owners # {} \/ TicketHeld \/ \E t \in Issuing : ~SameTicket(t)
Leaves(W) == \E x \in W : x.to = "state" /\ x.status # "waiting_user"
WaitingGoesOn ==
  mode = "up" /\ store.state = "waiting_user" => GoesOn \/ Leaves(Owed)
\* Without a handle nobody was ever asked, or a restart has failed the run.
NoHandleYet ==
  ~handle =>
    /\ \A t \in Resumers : pc[t] \in {"idle", "done"}
    /\ ticket.id = 0 \/ (situation = "crash" /\ store.row \in Terminal)
ServerStands ==
  /\ situation = "crash" =>
       /\ ~flagged /\ \A w \in Workers : pc[w] # "killed"
       /\ \A t \in Cancellers : pc[t] \in {"idle", "done"} /\ todo[t] = <<>>
  /\ situation = "cancel" => mode = "up"
  /\ Requeuing = {}
  /\ mode = "up" => todo[recovery] = <<>>
  /\ mode = "down" => Owed = {}
  /\ mode = "recovering" =>
       /\ \A t \in Tasks \ {recovery} : todo[t] = <<>>
       /\ store.row \in Terminal \/ \E x \in Owed : x.to = "row" /\ x.status \in Terminal

\* A turn that meets no cancel is resolved when nothing else is under way ...
AloneAtEnd ==
  situation = "crash" =>
    \A w \in Workers : Asking(w) => Owed = {} /\ Dispatching = {}
\* ... and from then on nothing moves but its terminal writes, the run state
\* first, and those who find that there is nothing left to do.
Ending == store.row \in Terminal \/ \E x \in Owed : x.status \in Terminal
Still ==
  /\ Owners = {} /\ Unstarted = {} /\ Arms = {}
  /\ Looking = {} /\ Issuing = {} /\ Dispatching = {}
  /\ Redrivable =>
       /\ \A w \in Workers : pc[w] \in {"new", "ticket"} => tid[w] # ticket.id
       /\ \A t \in Pollers : pc[t] # "redrive"
StateFirst ==
  store.state \notin Terminal =>
    /\ store.row \notin Terminal
    /\ \A t \in Tasks : todo[t] # <<>> => Head(todo[t]).to = "state"
    /\ mode = "up" => ~Redrivable /\ \E w \in Workers : todo[w] # <<>>
EndsWell ==
  situation = "crash" /\ Ending =>
    (\A x \in Owed : x.status \in Terminal) /\ Still /\ StateFirst

\* A restart that finds only the row behind fails the run once more.
RowLast ==
  situation = "crash" /\ store.row \notin Terminal /\ (Ending \/ store.state \in Terminal) =>
    /\ ~PreserveWaiting /\ ~RedriveTicket
    /\ mode # "down" => \E x \in Owed : x.to = "row" /\ x.status \in Terminal

Trouble ==
  /\ HandleKept /\ AskersWait /\ AskersFirst /\ WaitingGoesOn /\ NoHandleYet
  /\ ServerStands /\ AloneAtEnd /\ EndsWell /\ RowLast

-----------------------------------------------------------------------------
(* The moves *)

\* What becomes of the other tasks when one moves: a job is started, a timer
\* armed, or a process terminated.
Aside(u) ==
  \/ pc'[u] = pc[u]
  \/ u \in Workers /\ pc[u] = "idle" /\ pc'[u] = "ticket"
  \/ u \in Timers /\ pc'[u] = "armed" /\ handle
  \/ u \in Workers /\ flagged /\ pc[u] \in {"engine", "repair"} /\ pc'[u] \in {"ended", "killed"}
\* Task t moves to step s and owes the writes W.
Moves(t, s, W) ==
  /\ pc'[t] = s /\ todo[t] = <<>> /\ Range(todo'[t]) = W /\ Owed' = Owed \cup W
  /\ \A u \in Tasks \ {t} : Aside(u) /\ todo'[u] = todo[u]
  /\ UNCHANGED <<conversation, situation, store, mode>>

LEMMA MoveSets ==
  ASSUME NEW t \in Tasks, NEW s, NEW W, Moves(t, s, W), flagged => flagged'
  PROVE  /\ \A u \in Tasks \ {t} :
              /\ u \in Waiters' <=> u \in Waiters
              /\ u \in Arms' <=> u \in Arms
              /\ u \in Askers' <=> u \in Askers
              /\ u \in Owners => u \in Owners'
              /\ u \in Looking' => u \in Looking
              /\ u \in Dispatching' => u \in Dispatching
              /\ u \in Workers /\ Asking(u)' => Asking(u)
         /\ t \in Waiters' <=> \E x \in W : x.status = "waiting_user"
         /\ Waiters' \subseteq Tasks /\ Arms' \subseteq Workers /\ Looking' \subseteq Tasks
         /\ Askers' \subseteq Workers /\ Dispatching' \subseteq Tasks
         /\ Session' = Session
<1>1. ASSUME NEW u \in Tasks \ {t} PROVE u \in Waiters' <=> u \in Waiters
  BY DEF Moves, Waiters
<1>2. t \in Waiters' <=> \E x \in W : x.status = "waiting_user"
  BY DEF Moves, Waiters
<1>3. ASSUME NEW u \in Tasks \ {t}
      PROVE  /\ u \in Arms' <=> u \in Arms
             /\ u \in Owners => u \in Owners'
             /\ u \in Looking' => u \in Looking
             /\ u \in Dispatching' => u \in Dispatching
             /\ u \in Workers /\ Asking(u)' => Asking(u)
             /\ u \in Workers => (pc'[u] = "done" <=> pc[u] = "done")
  <2>1. Aside(u)
    BY DEF Moves
  <2>2. u \in Workers => u \notin Resumers /\ u \notin Timers
    BY Disjoint
  <2> QED BY <2>1, <2>2
        DEF Aside, Arms, Owners, Owning, Looking, Dispatching, Asking
<1>4. ASSUME NEW u \in Tasks \ {t} PROVE u \in Askers' <=> u \in Askers
  BY <1>1, <1>3 DEF Askers
<1>5. Waiters' \subseteq Tasks /\ Arms' \subseteq Workers /\ Looking' \subseteq Tasks
      /\ Dispatching' \subseteq Tasks
  BY Disjoint DEF Waiters, Arms, Looking, Dispatching
<1>6. Askers' \subseteq Workers
  BY <1>5 DEF Askers
<1>7. Session' = Session
  BY DEF Moves, Session
<1> QED BY <1>1, <1>2, <1>3, <1>4, <1>5, <1>6, <1>7

\* A move that keeps the run waiting only for good reason.
LEMMA MoveKeeps ==
  ASSUME TypeOK, Token, Trouble, NEW t \in Tasks \ {recovery}, NEW s, NEW W, Moves(t, s, W),
         mode = "up", handle => handle', flagged => flagged',
         s = "arm" \/ (\E x \in W : x.status = "waiting_user") =>
           handle /\ t \in Workers /\ (s \in Owning \/ (s \in {"arm", "done"} /\ Pending' # {})),
         Pending # {} => Pending' # {} \/ Askers = {},
         t \in Workers /\ (Asking(t)' \/ t \in Askers') => Asking(t) \/ t \in Askers \/ Looking = {},
         t \in Looking' => t \in Looking \/ \A w \in Workers : ~Asking(w) /\ w \notin Askers,
         GoesOn => GoesOn' \/ Leaves(W),
         handle \/ (ticket'.id = ticket.id /\ (t \in Resumers => s \in {"idle", "done"})),
         s \notin {"killed", "autoresume"},
         situation = "crash" => flagged' = flagged /\ t \notin Cancellers
  PROVE  /\ HandleKept' /\ AskersWait' /\ AskersFirst' /\ WaitingGoesOn' /\ NoHandleYet'
         /\ ServerStands'
<1>0. t \in Tasks
  OBVIOUS
<1>1. /\ \A u \in Tasks \ {t} :
           /\ u \in Waiters' <=> u \in Waiters
           /\ u \in Arms' <=> u \in Arms
           /\ u \in Askers' <=> u \in Askers
           /\ u \in Owners => u \in Owners'
           /\ u \in Looking' => u \in Looking
           /\ u \in Workers /\ Asking(u)' => Asking(u)
      /\ t \in Waiters' <=> \E x \in W : x.status = "waiting_user"
      /\ Waiters' \subseteq Tasks /\ Arms' \subseteq Workers /\ Looking' \subseteq Tasks
      /\ Askers' \subseteq Workers
  BY <1>0, MoveSets
<1>2. /\ pc'[t] = s /\ Owed' = Owed \cup W
      /\ \A u \in Tasks \ {t} : Aside(u) /\ todo'[u] = todo[u]
      /\ UNCHANGED <<conversation, situation, store, mode>>
  BY DEF Moves
<1>3. Arms' \subseteq Tasks /\ Workers \subseteq Tasks /\ recovery \in Tasks /\ recovery \notin Workers
      /\ recovery \notin Timers /\ Resumers \subseteq Tasks /\ Cancellers \subseteq Tasks
  BY <1>1, Disjoint
<1>4. t \in Arms' => s = "arm"
  BY <1>2 DEF Arms
<1>5. HandleKept'
  <2>1. SUFFICES ASSUME store.state = "waiting_user" \/ Waiters' # {} \/ Arms' # {} PROVE handle'
    BY <1>2 DEF HandleKept
  <2>2. store.state = "waiting_user" \/ Waiters # {} \/ Arms # {} \/ handle
    BY <1>1, <1>3, <1>4, <2>1
  <2> QED BY <2>2 DEF Trouble, HandleKept
<1>6. AskersWait'
  <2> SUFFICES ASSUME NEW u \in Waiters' \cup Arms'
               PROVE  u \in Owners' \/ (u \in Askers' /\ Pending' # {})
    BY DEF AskersWait
  <2>1. u \in Tasks
    BY <1>1, <1>3
  <2>2. CASE u = t
    <3>1. t \in Workers /\ (s \in Owning \/ (s \in {"arm", "done"} /\ Pending' # {}))
      BY <1>1, <1>4, <2>2
    <3>2. CASE s \in Owning
      BY <1>2, <2>2, <3>1, <3>2 DEF Owners
    <3>3. CASE s \in {"arm", "done"} /\ Pending' # {}
      <4>1. u \in Askers'
        BY <1>2, <2>2, <3>1, <3>3 DEF Askers, Arms
      <4> QED BY <3>3, <4>1
    <3> QED BY <3>1, <3>2, <3>3
  <2>3. CASE u # t
    <3>1. u \in Waiters \cup Arms
      BY <1>1, <2>1, <2>3
    <3>2. u \in Owners \/ (u \in Askers /\ Pending # {})
      BY <3>1 DEF Trouble, AskersWait
    <3> QED BY <1>1, <2>1, <2>3, <3>2
  <2> QED BY <2>2, <2>3
<1>7. AskersFirst'
  <2> SUFFICES ASSUME NEW w \in Workers, Asking(w)' \/ w \in Askers' PROVE Looking' = {}
    BY DEF AskersFirst
  <2>1. CASE w = t
    <3>1. Looking = {}
      BY <2>1 DEF Trouble, AskersFirst
    <3>2. t \notin Resumers
      BY <2>1, Disjoint
    <3> QED BY <1>1, <3>1, <3>2 DEF Looking
  <2>2. CASE w # t
    <3>1. Asking(w) \/ w \in Askers
      BY <1>1, <1>3, <2>2
    <3>2. Looking = {}
      BY <3>1 DEF Trouble, AskersFirst
    <3> QED BY <1>1, <3>1, <3>2
  <2> QED BY <2>1, <2>2
<1>8. WaitingGoesOn'
  <2> SUFFICES ASSUME store'.state = "waiting_user" PROVE GoesOn' \/ Leaves(Owed')
    BY DEF WaitingGoesOn, Leaves
  <2>1. GoesOn \/ Leaves(Owed)
    BY <1>2 DEF Trouble, WaitingGoesOn
  <2> QED BY <1>2, <2>1 DEF Leaves
<1>9. NoHandleYet'
  <2> SUFFICES ASSUME ~handle'
               PROVE  /\ \A u \in Resumers : pc'[u] \in {"idle", "done"}
                      /\ ticket'.id = 0 \/ (situation' = "crash" /\ store'.row \in Terminal)
    BY DEF NoHandleYet
  <2>1. ~handle
    OBVIOUS
  <2>2. \A u \in Resumers : u \in Tasks /\ u \notin Workers
    BY Disjoint
  <2>3. ASSUME NEW u \in Resumers, u # t PROVE pc'[u] = pc[u]
    BY <1>2, <2>1, <2>2, <2>3 DEF Aside
  <2>4. /\ \A u \in Resumers : pc[u] \in {"idle", "done"}
        /\ ticket.id = 0 \/ (situation = "crash" /\ store.row \in Terminal)
    BY <2>1 DEF Trouble, NoHandleYet
  <2> QED BY <1>2, <2>1, <2>3, <2>4
<1>10. ServerStands'
  <2>0. ServerStands
    BY DEF Trouble
  <2>1. ASSUME situation = "crash"
        PROVE  /\ ~flagged' /\ \A w \in Workers : pc'[w] # "killed"
               /\ \A u \in Cancellers : pc'[u] \in {"idle", "done"} /\ todo'[u] = <<>>
    <3>1. ~flagged /\ ~flagged' /\ t \notin Cancellers
      BY <2>0, <2>1 DEF ServerStands
    <3>2. ASSUME NEW w \in Workers PROVE pc'[w] # "killed"
      BY <1>2, <1>3, <2>0, <2>1, <3>1 DEF Aside, ServerStands
    <3>3. ASSUME NEW u \in Cancellers PROVE pc'[u] \in {"idle", "done"} /\ todo'[u] = <<>>
      <4>1. u \in Tasks \ {t} /\ u \notin Workers /\ u \notin Timers
        BY <3>1, Disjoint
      <4> QED BY <1>2, <2>0, <2>1, <4>1 DEF Aside, ServerStands
    <3> QED BY <3>1, <3>2, <3>3
  <2>2. Requeuing' = {}
    BY <1>2, <1>3, <2>0, Disjoint DEF Requeuing, Aside, ServerStands
  <2>3. todo'[recovery] = <<>>
    BY <1>2, <1>3, <2>0 DEF ServerStands
  <2> QED BY <1>2, <2>0, <2>1, <2>2, <2>3 DEF ServerStands
<1> QED BY <1>5, <1>6, <1>7, <1>8, <1>9, <1>10

LEMMA MoveAlone ==
  ASSUME Trouble, NEW t \in Tasks, NEW s, NEW W, Moves(t, s, W), flagged => flagged',
         W # {} \/ (t \in Dispatching' /\ t \notin Dispatching) => \A w \in Workers : ~Asking(w)',
         situation = "crash" /\ t \in Workers /\ Asking(t)' =>
           Asking(t) \/ (Owed = {} /\ Dispatching = {})
  PROVE  AloneAtEnd'
<1> SUFFICES ASSUME situation' = "crash", NEW w \in Workers, Asking(w)'
             PROVE  Owed' = {} /\ Dispatching' = {}
  BY DEF AloneAtEnd
<1>1. situation = "crash" /\ Owed' = Owed \cup W
  BY DEF Moves
<1>2. W = {} /\ (t \in Dispatching' => t \in Dispatching)
  OBVIOUS
<1>3. Owed = {} /\ Dispatching = {}
  <2>1. w \in Tasks
    BY Disjoint
  <2>2. Asking(w) \/ (Owed = {} /\ Dispatching = {})
    BY <1>1, <2>1, MoveSets
  <2> QED BY <1>1, <2>2 DEF Trouble, AloneAtEnd
<1>4. Dispatching' \subseteq Dispatching \cup {t}
  BY MoveSets
<1> QED BY <1>1, <1>2, <1>3, <1>4

\* When the run has ended a move finds nothing left to do.
LEMMA MoveAfterEnd ==
  ASSUME Trouble, situation = "crash", Ending, NEW t \in Tasks, NEW s, Moves(t, s, {}),
         \A u \in Tasks \ {t} : pc'[u] = pc[u], UNCHANGED <<inter, ticket, handle, todo, tid>>,
         s \notin Owning \cup {"arm", "look", "decide", "issue", "dispatch"},
         s \in {"new", "ticket"} => pc[t] \in {"new", "ticket"},
         s = "redrive" => ~Redrivable
  PROVE  EndsWell' /\ RowLast'
<1>1. pc'[t] = s /\ Owed' = Owed /\ UNCHANGED <<store, mode>>
  BY DEF Moves
<1>2. (\A x \in Owed : x.status \in Terminal) /\ Still /\ StateFirst
  BY DEF Trouble, EndsWell
<1>3. /\ \A w \in Workers : w \in Tasks
      /\ \A u \in Resumers : u \in Tasks
      /\ \A u \in Pollers : u \in Tasks
  BY Disjoint
<1>4. Redrivable' = Redrivable
  BY DEF Redrivable
<1>5. StateFirst'
  BY <1>1, <1>2, <1>4 DEF StateFirst
<1>6. Still'
  <2>1. Owners' = {}
    BY <1>1, <1>2, <1>3 DEF Still, Owners
  <2>2. Unstarted' = {}
    BY <1>1, <1>2, <1>3 DEF Still, Unstarted
  <2>3. Arms' = {} /\ Looking' = {} /\ Issuing' = {} /\ Dispatching' = {}
    BY <1>1, <1>2, <1>3 DEF Still, Arms, Looking, Issuing, Dispatching
  <2>4. ASSUME Redrivable
        PROVE  /\ \A w \in Workers : pc'[w] \in {"new", "ticket"} => tid'[w] # ticket'.id
               /\ \A u \in Pollers : pc'[u] # "redrive"
    BY <1>1, <1>2, <1>3, <2>4 DEF Still
  <2> QED BY <1>4, <2>1, <2>2, <2>3, <2>4 DEF Still
<1>7. RowLast'
  <2>1. PreserveWaiting' = PreserveWaiting /\ RedriveTicket' = RedriveTicket
    BY <1>1, <1>4 DEF PreserveWaiting, RedriveTicket, Pending
  <2>2. Ending' = Ending
    BY <1>1 DEF Ending
  <2> QED BY <1>1, <2>1, <2>2 DEF Trouble, RowLast
<1> QED BY <1>1, <1>2, <1>5, <1>6, <1>7 DEF EndsWell

LEMMA MoveBeforeEnd ==
  ASSUME Trouble, mode = "up", ~Ending, NEW t \in Tasks, NEW s, NEW W, Moves(t, s, W),
         \A x \in W : x.status \notin Terminal
  PROVE  EndsWell' /\ RowLast'
<1>1. ~Ending' /\ UNCHANGED <<situation, store, mode>>
  BY DEF Moves, Ending
<1>2. situation = "crash" => store.state \notin Terminal \/ store.row \in Terminal
  BY DEF Trouble, RowLast, Ending
<1> QED BY <1>1, <1>2 DEF EndsWell, RowLast

-----------------------------------------------------------------------------
(* The steps of run_job in trouble *)

LEMMA OwnerStandsAlone ==
  ASSUME Token, Trouble, NEW w \in Owners
  PROVE  /\ w \in Workers /\ w \in Tasks \ {recovery} /\ mode = "up"
         /\ \A v \in Owners : v = w
         /\ Pending = {} /\ ~Redrivable /\ Unstarted = {}
         /\ \A t \in Issuing : SameTicket(t)
         /\ Askers = {} /\ Arms = {} /\ Waiters \subseteq {w}
         /\ \A v \in Workers : Asking(v) => v = w
         /\ situation = "crash" => ~Ending
<1>1. w \in Workers /\ pc[w] \in Owning /\ w \in Tasks \ {recovery}
  BY Disjoint DEF Owners
<1>2. mode = "up"
  BY <1>1, BusyIsUp DEF Owning, Token
<1>3. /\ \A v \in Owners : v = w
      /\ Pending = {} /\ ~Redrivable /\ Unstarted = {} /\ \A t \in Issuing : SameTicket(t)
  BY DEF Token, Core, OwnerAlone, FirstJob
<1>4. Waiters \cup Arms \subseteq {w}
  BY <1>3 DEF Trouble, AskersWait
<1>5. w \notin Arms /\ pc[w] # "done"
  BY <1>1 DEF Arms, Owning
<1>6. Askers = {} /\ Arms = {}
  BY <1>4, <1>5 DEF Askers
<1>7. \A v \in Workers : Asking(v) => v = w
  BY <1>3 DEF Asking, Owners, Owning
<1>8. situation = "crash" => ~Ending
  BY DEF Trouble, EndsWell, Still
<1> QED BY <1>1, <1>2, <1>3, <1>4, <1>6, <1>7, <1>8

\* An attempt goes on to another step of its own.
LEMMA AttemptMoves ==
  ASSUME TypeOK, Token, Trouble, NEW w \in Owners, NEW s \in Owning \ {"killed"}, NEW W,
         Moves(w, s, W), handle => handle', UNCHANGED <<flagged, ticket>>,
         situation = "crash" => \A x \in W : x.status \notin Terminal,
         (\E x \in W : x.status = "waiting_user") => handle,
         Asking(w)' => Asking(w) \/ (Looking = {} /\
                         (situation = "crash" => Owed = {} /\ Dispatching = {})),
         W # {} => ~Asking(w)'
  PROVE  Trouble'
<1>1. /\ w \in Workers /\ w \in Tasks \ {recovery} /\ mode = "up"
      /\ Askers = {} /\ Pending = {}
      /\ \A v \in Workers : Asking(v) => v = w
      /\ situation = "crash" => ~Ending
  BY OwnerStandsAlone
<1>2. w \notin Resumers /\ w \notin Cancellers
  BY <1>1, Disjoint
<1>3. pc'[w] = s /\ s \notin {"arm", "autoresume", "look", "decide", "dispatch", "done"}
  BY DEF Moves, Owning
<1>4. w \in Owners'
  BY <1>1, <1>3 DEF Owners
<1>5. w \notin Askers' /\ w \notin Looking' /\ w \notin Dispatching'
  BY <1>3 DEF Askers, Arms, Looking, Dispatching
<1>6. GoesOn'
  BY <1>4 DEF GoesOn
<1>7. /\ HandleKept' /\ AskersWait' /\ AskersFirst' /\ WaitingGoesOn' /\ NoHandleYet'
      /\ ServerStands'
  BY <1>1, <1>2, <1>3, <1>5, <1>6, MoveKeeps
<1>8. AloneAtEnd'
  <2>1. W # {} => \A v \in Workers : ~Asking(v)'
    <3> SUFFICES ASSUME W # {}, NEW v \in Workers, Asking(v)' PROVE FALSE
      OBVIOUS
    <3>1. v # w /\ v \in Tasks
      BY Disjoint
    <3>2. Asking(v)
      BY <1>1, <3>1, MoveSets
    <3> QED BY <1>1, <3>1, <3>2
  <2> QED BY <1>1, <1>5, <2>1, MoveAlone
<1>9. EndsWell' /\ RowLast'
  <2>1. situation = "crash" => EndsWell' /\ RowLast'
    BY <1>1, MoveBeforeEnd
  <2>2. situation' = situation
    BY DEF Moves
  <2> QED BY <2>1, <2>2 DEF EndsWell, RowLast
<1> QED BY <1>7, <1>8, <1>9 DEF Trouble

\* A task that owes nothing moves, alone.
LEMMA MoveOwing ==
  ASSUME TypeOK, NEW t \in Tasks, NEW s, NEW writes, todo[t] = <<>>,
         pc' = [pc EXCEPT ![t] = s], todo' = [todo EXCEPT ![t] = writes],
         UNCHANGED <<conversation, situation, store, mode>>
  PROVE  Moves(t, s, Range(writes)) /\ \A u \in Tasks \ {t} : pc'[u] = pc[u]
<1>1. Owed' = Owed \cup Range(writes)
  BY OwedMore
<1>2. /\ todo'[t] = writes /\ \A u \in Tasks \ {t} : todo'[u] = todo[u] /\ pc'[u] = pc[u]
      /\ pc'[t] = s
  BY DEF TypeOK
<1> QED BY <1>1, <1>2 DEF Moves, Aside

LEMMA MoveOwingNone ==
  ASSUME TypeOK, NEW t \in Tasks, NEW s, todo[t] = <<>>,
         pc' = [pc EXCEPT ![t] = s], todo' = todo,
         UNCHANGED <<conversation, situation, store, mode>>
  PROVE  Moves(t, s, {}) /\ \A u \in Tasks \ {t} : pc'[u] = pc[u]
<1>1. Range(todo'[t]) = {} /\ Owed' = Owed \cup {}
  BY OwedSame DEF Range
<1>2. pc'[t] = s /\ \A u \in Tasks \ {t} : todo'[u] = todo[u] /\ pc'[u] = pc[u]
  BY DEF TypeOK
<1> QED BY <1>1, <1>2 DEF Moves, Aside

-----------------------------------------------------------------------------
(* Writes in trouble *)

\* A waiting status is written for a question, and a terminal one ends the run.
LEMMA WriteKeepsTrouble ==
  ASSUME TypeOK, Troubled, Trouble, NEW t \in Tasks, Write(t)
  PROVE  Trouble'
<1>1. PICK h : /\ h = Head(todo[t]) /\ h \in Writes /\ h \in Owed
               /\ h \in Range(todo[t]) /\ Range(todo'[t]) \subseteq Range(todo[t])
               /\ store' = [store EXCEPT ![h.to] = h.status]
               /\ Owed' \subseteq Owed /\ Owed \subseteq Owed' \cup {h}
  BY HeadWritten
<1>2. /\ todo[t] # <<>> /\ \A u \in Tasks : u # t => todo'[u] = todo[u]
      /\ UNCHANGED <<conversation, situation, mode, flagged, inter, ticket, handle, pc, num, tid>>
  BY DEF Write, TypeOK, data, steady, server
<1>3. Waiters' \subseteq Waiters
  BY <1>1, <1>2 DEF Waiters
<1>4. h.status = "waiting_user" => t \in Waiters
  BY <1>1 DEF Waiters
<1>5. /\ store'.state = (IF h.to = "state" THEN h.status ELSE store.state)
      /\ store'.row = (IF h.to = "row" THEN h.status ELSE store.row)
  BY <1>1 DEF TypeOK, Writes
<1>6. /\ Arms' = Arms /\ Owners' = Owners /\ Looking' = Looking /\ Dispatching' = Dispatching
      /\ Pending' = Pending /\ (GoesOn' <=> GoesOn)
      /\ \A w \in Workers : Asking(w)' <=> Asking(w)
      /\ Session' = Session
  BY <1>2 DEF Arms, Owners, Looking, Dispatching, Pending, GoesOn, TicketHeld, Redrivable,
              Issuing, SameTicket, Asking, Session
<1>7. HandleKept'
  BY <1>2, <1>3, <1>4, <1>5, <1>6 DEF Trouble, HandleKept
<1>8. AskersWait'
  <2> SUFFICES ASSUME NEW u \in Waiters' \cup Arms'
               PROVE  u \in Owners' \/ (u \in Askers' /\ Pending' # {})
    BY DEF AskersWait
  <2>1. u \in Owners \/ (u \in Askers /\ Pending # {})
    BY <1>3, <1>6 DEF Trouble, AskersWait
  <2> QED BY <1>2, <1>6, <2>1 DEF Askers
<1>9. AskersFirst'
  <2>1. Askers' \subseteq Askers
    BY <1>2, <1>3, <1>6 DEF Askers
  <2> QED BY <1>6, <2>1 DEF Trouble, AskersFirst
<1>10. WaitingGoesOn'
  <2> SUFFICES ASSUME mode = "up", store'.state = "waiting_user"
               PROVE  GoesOn \/ Leaves(Owed')
    BY <1>2, <1>6 DEF WaitingGoesOn, Leaves
  <2>1. CASE h.to = "state"
    <3>1. t \in Waiters
      BY <1>4, <1>5, <2>1
    <3> QED BY <3>1 DEF Trouble, AskersWait, GoesOn
  <2>2. CASE h.to # "state"
    <3>1. GoesOn \/ Leaves(Owed)
      BY <1>5, <2>2 DEF Trouble, WaitingGoesOn
    <3> QED BY <1>1, <2>2, <3>1 DEF Leaves
  <2> QED BY <2>1, <2>2
<1>11. situation = "crash" /\ store.row \in Terminal => store'.row \in Terminal
  BY <1>1, <1>5 DEF Trouble, EndsWell, Ending
<1>12. NoHandleYet'
  BY <1>2, <1>11 DEF Trouble, NoHandleYet
<1>13. ServerStands'
  <2>0. ServerStands
    BY DEF Trouble
  <2>1. situation = "crash" => t \notin Cancellers
    BY <1>2, <2>0 DEF ServerStands
  <2>2. mode = "up" => t # recovery
    BY <1>2, <2>0 DEF ServerStands
  <2>3. mode # "down"
    BY <1>1, <2>0 DEF ServerStands
  <2>4. ASSUME mode = "recovering"
        PROVE  /\ \A u \in Tasks \ {recovery} : todo'[u] = <<>>
               /\ store'.row \in Terminal \/ \E x \in Owed' : x.to = "row" /\ x.status \in Terminal
    <3>1. t = recovery /\ situation = "crash"
      BY <1>2, <2>0, <2>4 DEF ServerStands, Troubled
    <3>2. \A u \in Tasks \ {recovery} : todo'[u] = <<>>
      BY <1>2, <2>0, <2>4, <3>1 DEF ServerStands
    <3>3. store.row \in Terminal \/ \E x \in Owed : x.to = "row" /\ x.status \in Terminal
      BY <2>0, <2>4 DEF ServerStands
    <3> QED BY <1>1, <1>5, <1>11, <3>1, <3>2, <3>3
  <2>5. Requeuing' = Requeuing
    BY <1>2 DEF Requeuing
  <2>6. \A u \in Cancellers \cup {recovery} : u \in Tasks
    BY Disjoint
  <2> QED BY <1>2, <2>0, <2>1, <2>2, <2>3, <2>4, <2>5, <2>6 DEF ServerStands
<1>14. AloneAtEnd'
  BY <1>1, <1>2, <1>6 DEF Trouble, AloneAtEnd
<1>15. EndsWell'
  <2> SUFFICES ASSUME situation = "crash", Ending'
               PROVE  (\A x \in Owed' : x.status \in Terminal) /\ Still' /\ StateFirst'
    BY <1>2 DEF EndsWell
  <2>1. Ending
    BY <1>1, <1>5 DEF Ending
  <2>2. (\A x \in Owed : x.status \in Terminal) /\ Still /\ StateFirst
    BY <2>1 DEF Trouble, EndsWell
  <2>3. Still'
    BY <1>2, <1>6, <2>2 DEF Still, Unstarted, Issuing, Redrivable
  <2>4. StateFirst'
    <3> SUFFICES ASSUME store'.state \notin Terminal PROVE FALSE
      BY DEF StateFirst
    <3>1. h.status \in Terminal
      BY <1>1, <2>2
    <3>2. h.to # "state" /\ store.state \notin Terminal
      BY <1>5, <3>1
    <3> QED BY <1>1, <1>2, <2>2, <3>2 DEF StateFirst
  <2> QED BY <1>1, <2>2, <2>3, <2>4
<1>16. RowLast'
  <2> SUFFICES ASSUME situation = "crash", store'.row \notin Terminal,
                      Ending' \/ store'.state \in Terminal
               PROVE  ~PreserveWaiting' /\ ~RedriveTicket' /\ \E x \in Owed' : x.to = "row" /\ x.status \in Terminal
    BY <1>2 DEF RowLast
  <2>1. store.row \notin Terminal
    BY <1>11
  <2>2. Ending
    <3>1. h.status \in Terminal => Ending
      BY <1>1 DEF Ending
    <3>2. store.state \in Terminal \/ Ending \/ h.status \in Terminal
      BY <1>1, <1>5 DEF Ending
    <3>3. mode # "down"
      BY <1>1 DEF Trouble, ServerStands
    <3> QED BY <2>1, <3>1, <3>2, <3>3 DEF Trouble, RowLast, Ending
  <2>3. h.status \in Terminal
    BY <1>1, <2>2 DEF Trouble, EndsWell
  <2>4. h.to # "row" /\ store'.row = store.row
    BY <1>5, <2>3
  <2>5. ~PreserveWaiting /\ ~RedriveTicket
    BY <2>1, <2>2 DEF Trouble, RowLast
  <2>6. ~PreserveWaiting' /\ ~RedriveTicket'
    BY <1>2, <1>6, <2>4, <2>5 DEF PreserveWaiting, RedriveTicket, Redrivable
  <2>7. \E x \in Owed : x.to = "row" /\ x.status \in Terminal
    BY <1>1, <2>1, <2>2 DEF Trouble, RowLast, ServerStands
  <2> QED BY <1>1, <2>4, <2>6, <2>7
<1> QED BY <1>7, <1>8, <1>9, <1>10, <1>12, <1>13, <1>14, <1>15, <1>16 DEF Trouble

\* A run that crashes or is canceled has a session handle if it has a ticket
\* that is about to be used.
LEMMA HandleToStart ==
  ASSUME TypeOK, Token, Trouble, NEW w \in Owners, tid[w] # 0
  PROVE  handle
<1>1. w \in Tasks /\ (situation = "crash" => ~Ending)
  BY OwnerStandsAlone
<1>2. ticket.id # 0
  <2>1. tid[w] \in Nat /\ ticket.id \in Nat /\ tid[w] <= ticket.id
    BY <1>1 DEF Token, Core, Tickets, TypeOK
  <2> QED BY <2>1
<1> QED BY <1>1, <1>2 DEF Trouble, NoHandleYet, Ending

LEMMA PhaseAdvancesInTrouble ==
  ASSUME TypeOK, Token, Trouble, NEW w \in Workers, AdvancePhase(w)
  PROVE  Trouble'
<1> DEFINE s == IF pc[w] = "claim" THEN "materialize" ELSE "check"
           x == store.state
<1>1. /\ pc[w] \in {"claim", "materialize"} /\ todo[w] = <<>> /\ w \in Tasks
      /\ pc' = [pc EXCEPT ![w] = s]
      /\ todo' = [todo EXCEPT ![w] = <<Put("state", x)>>]
      /\ UNCHANGED <<conversation, situation, store, mode, flagged, ticket, handle>>
  BY Disjoint DEF AdvancePhase, At, Goto, data, steady, server
<1>2. w \in Owners /\ s \in Owning \ {"killed"} /\ s \in {"materialize", "check"}
  BY <1>1 DEF Owners, Owning
<1>3. Moves(w, s, {Put("state", x)})
  <2> HIDE DEF s, x
  <2>1. Moves(w, s, Range(<<Put("state", x)>>))
    BY <1>1, MoveOwing
  <2>2. Range(<<Put("state", x)>>) = {Put("state", x)}
    BY ProjectionRanges
  <2> QED BY <2>1, <2>2
<1>4. situation = "crash" => x \notin Terminal
  <2>1. situation = "crash" => ~Ending
    BY <1>2, OwnerStandsAlone
  <2>2. mode # "down"
    BY <1>2, OwnerStandsAlone
  <2> QED BY <2>1, <2>2 DEF Trouble, RowLast, Ending
<1>5. x = "waiting_user" => handle
  BY DEF Trouble, HandleKept
<1>6. ~Asking(w)'
  BY <1>2, <1>3 DEF Asking, Moves
<1> HIDE DEF s, x
<1> QED BY <1>1, <1>2, <1>3, <1>4, <1>5, <1>6, PutIs, AttemptMoves

\* The steps of an attempt between its checks, and the checks that it passes.
LEMMA AttemptGoesOnInTrouble ==
  ASSUME TypeOK, Token, Trouble, NEW w \in Workers,
         (CheckCancel(w) /\ pc'[w] # "done") \/ (Prepare(w) /\ pc'[w] # "done")
           \/ Launch(w) \/ RepairRound(w)
  PROVE  Trouble'
<1>0. w \in Tasks
  BY Disjoint
<1> DEFINE Kept == UNCHANGED <<conversation, situation, store, mode, flagged, ticket, handle>>
<1>a. ASSUME NEW s \in {"recheck", "launch", "engine", "resolve", "repair"},
             pc[w] \in Owning, todo[w] = <<>>, pc' = [pc EXCEPT ![w] = s], todo' = todo, Kept,
             s = "resolve" => pc[w] = "ended" /\ ~flagged
      PROVE  Trouble'
  <2>1. w \in Owners /\ s \in Owning \ {"killed"}
    BY <1>a DEF Owners, Owning
  <2>2. Moves(w, s, {})
    BY <1>0, <1>a, MoveOwingNone
  <2>3. Asking(w)' => Asking(w)
    BY <1>a, <2>2 DEF Asking, Moves
  <2> QED BY <1>a, <2>1, <2>2, <2>3, AttemptMoves
<1>1. CASE CheckCancel(w) /\ pc'[w] # "done"
  <2>1. /\ todo[w] = <<>> /\ Kept
        /\ \/ /\ pc[w] = "check" /\ pc' = [pc EXCEPT ![w] = "prepare"]
              /\ todo' = [todo EXCEPT ![w] = NonTerminalProjection("running")]
           \/ pc[w] = "recheck" /\ pc' = [pc EXCEPT ![w] = "launch"] /\ todo' = todo
           \/ /\ pc[w] = "ended" /\ ~flagged
              /\ pc' = [pc EXCEPT ![w] = "resolve"] /\ todo' = todo
    <3>1. ~Finish(w, "canceled")
      BY <1>0, <1>1 DEF Finish, GotoOwing, Goto, TypeOK
    <3> QED BY <1>0, <1>1, <3>1 DEF CheckCancel, At, GotoOwing, Goto, data, steady, server
  <2>2. CASE pc[w] = "check" /\ pc' = [pc EXCEPT ![w] = "prepare"]
             /\ todo' = [todo EXCEPT ![w] = NonTerminalProjection("running")]
    <3> DEFINE W == {Put("state", "running"), Put("row", "running")}
    <3>1. w \in Owners
      BY <2>2 DEF Owners, Owning
    <3>2. Moves(w, "prepare", Range(NonTerminalProjection("running")))
      BY <1>0, <2>1, <2>2, MoveOwing
    <3>3. Range(NonTerminalProjection("running")) = W
      BY ProjectionRanges
    <3>4. \A x \in W : x.status = "running"
      BY PutIs
    <3> HIDE DEF W
    <3>5. Moves(w, "prepare", W)
      BY <3>2, <3>3
    <3>6. ~Asking(w)'
      BY <3>5 DEF Moves, Asking
    <3> QED BY <2>1, <3>1, <3>4, <3>5, <3>6, AttemptMoves DEF Terminal, Owning
  <2>3. CASE pc[w] = "recheck" /\ pc' = [pc EXCEPT ![w] = "launch"] /\ todo' = todo
    BY <2>1, <2>3, <1>a DEF Owning
  <2>4. CASE pc[w] = "ended" /\ ~flagged /\ pc' = [pc EXCEPT ![w] = "resolve"] /\ todo' = todo
    BY <2>1, <2>4, <1>a DEF Owning
  <2> QED BY <2>1, <2>2, <2>3, <2>4
<1>2. CASE Prepare(w) /\ pc'[w] # "done"
  <2>1. pc[w] = "prepare" /\ todo[w] = <<>> /\ Kept
    BY <1>2 DEF Prepare, At, steady, server
  <2>2. pc' = [pc EXCEPT ![w] = "recheck"] /\ todo' = todo
    <3>1. ~Finish(w, "failed")
      BY <1>0, <1>2 DEF Finish, GotoOwing, Goto, TypeOK
    <3> QED BY <1>2, <3>1 DEF Prepare, Goto
  <2> QED BY <2>1, <2>2, <1>a DEF Owning
<1>3. CASE Launch(w)
  <2>1. /\ pc[w] = "launch" /\ pc' = [pc EXCEPT ![w] = "engine"] /\ todo' = todo
        /\ todo[w] = <<>> /\ Kept
    BY <1>3 DEF Launch, At, Goto, data, steady, server
  <2> QED BY <2>1, <1>a DEF Owning
<1>4. CASE RepairRound(w)
  <2>1. /\ pc[w] \in {"resolve", "killed"} /\ pc' = [pc EXCEPT ![w] = "repair"] /\ todo' = todo
        /\ todo[w] = <<>> /\ Kept
    BY <1>4 DEF RepairRound, At, Goto, data, server
  <2> QED BY <2>1, <1>a DEF Owning
<1> QED BY <1>1, <1>2, <1>3, <1>4

\* The engine exits when nothing but a cancel is under way.
LEMMA EngineExitsInTrouble ==
  ASSUME TypeOK, Token, Trouble, NEW w \in Workers, EngineExit(w)
  PROVE  Trouble'
<1> DEFINE s == IF pc[w] = "engine" THEN "ended" ELSE "resolve"
<1>1. /\ pc[w] \in {"engine", "repair"} /\ w \in Tasks /\ todo[w] = <<>>
      /\ handle => handle'
      /\ UNCHANGED <<conversation, situation, store, mode, flagged, ticket, todo>>
      /\ \A t \in Tasks \ ({w} \cup Cancellers) : AtRest(t)
      /\ pc' = [pc EXCEPT ![w] = s]
  <2>1. handle => handle'
    BY DEF EngineExit
  <2> QED BY <2>1, Disjoint DEF EngineExit, At, Goto, steady, server
<1>2. s \in {"ended", "resolve"}
  BY <1>1
<1> HIDE DEF s
<1>3. w \in Owners /\ s \in Owning \ {"killed"}
  BY <1>1, <1>2 DEF Owners, Owning
<1>4. Moves(w, s, {})
  BY <1>1, MoveOwingNone
<1>5. Looking = {} /\ Dispatching = {}
  <2>1. \A t \in Resumers : t \in Tasks \ ({w} \cup Cancellers)
    BY Disjoint
  <2> QED BY <1>1, <2>1 DEF Looking, Dispatching, AtRest
<1>6. situation = "crash" => Owed = {}
  <2> SUFFICES ASSUME situation = "crash" PROVE Owed = {}
    OBVIOUS
  <2>1. \A t \in Cancellers : todo[t] = <<>>
    BY DEF Trouble, ServerStands
  <2>2. \A t \in Tasks : todo[t] = <<>>
    BY <1>1, <2>1 DEF AtRest
  <2> QED BY <2>2, OwedNone
<1> QED BY <1>1, <1>3, <1>4, <1>5, <1>6, AttemptMoves

-----------------------------------------------------------------------------
(* The end of a turn in trouble *)

\* A terminal projection starts with the run state.
LEMMA TerminalHead ==
  ASSUME NEW s \in Terminal
  PROVE  LET p == TerminalProjection(s) \o <<Put("row", s)>>
         IN p # <<>> /\ Head(p) = Put("state", s)
<1>1. /\ NonTerminalProjection(s) \in Seq(Writes) /\ TerminalProjection(s) \in Seq(Writes)
      /\ <<Put("result", s)>> \in Seq(Writes) /\ <<Put("row", s)>> \in Seq(Writes)
  BY ProjectionType DEF Put, Writes, Statuses, Terminal, Todo
<1>2. Len(NonTerminalProjection(s)) = 2 /\ NonTerminalProjection(s)[1] = Put("state", s)
  BY DEF NonTerminalProjection
<1>3. Len(TerminalProjection(s)) >= 1 /\ TerminalProjection(s)[1] = Put("state", s)
  <2> DEFINE a == NonTerminalProjection(s)
             c == <<Put("result", s)>>
  <2>1. a \in Seq(Writes) /\ c \in Seq(Writes) /\ Len(a) = 2 /\ a[1] = Put("state", s)
        /\ TerminalProjection(s) = a \o c
    BY <1>1, <1>2 DEF TerminalProjection
  <2> HIDE DEF a, c
  <2> QED BY <2>1
<1> DEFINE a == TerminalProjection(s)
           c == <<Put("row", s)>>
<1>4. a \in Seq(Writes) /\ c \in Seq(Writes) /\ Len(a) >= 1 /\ a[1] = Put("state", s)
  BY <1>1, <1>3
<1> HIDE DEF a, c
<1>5. a \o c # <<>> /\ Head(a \o c) = Put("state", s)
  BY <1>4
<1> QED BY <1>5 DEF a, c

LEMMA TurnOverInTrouble ==
  ASSUME TypeOK, Token, Trouble, NEW w \in Owners, NEW s \in {"done", "bundle"},
         NEW status \in Terminal, todo[w] = <<>>, pc' = [pc EXCEPT ![w] = s],
         todo' = [todo EXCEPT ![w] = TerminalProjection(status) \o <<Put("row", status)>>],
         UNCHANGED <<conversation, situation, store, mode, flagged, ticket, handle, tid>>,
         handle => Pending' = {}, situation = "crash" => pc[w] = "resolve"
  PROVE  Trouble'
<1> DEFINE writes == TerminalProjection(status) \o <<Put("row", status)>>
           W == {Put("state", status), Put("row", status), Put("result", status)}
<1>1. /\ w \in Workers /\ w \in Tasks \ {recovery} /\ mode = "up"
      /\ \A v \in Owners : v = w
      /\ Pending = {} /\ ~Redrivable /\ Unstarted = {}
      /\ Askers = {} /\ Arms = {}
      /\ \A v \in Workers : Asking(v) => v = w
      /\ situation = "crash" => ~Ending
  BY OwnerStandsAlone
<1>2. Moves(w, s, W) /\ \A u \in Tasks \ {w} : pc'[u] = pc[u]
  <2>1. Range(writes) = W
    BY ProjectionRanges
  <2> HIDE DEF writes, W
  <2>2. todo' = [todo EXCEPT ![w] = writes]
    BY DEF writes
  <2> QED BY <1>1, <2>1, <2>2, MoveOwing
<1>3. /\ \A x \in W : x.status = status
      /\ \E x \in W : x.to = "state" /\ x.status = status
      /\ \E x \in W : x.to = "row" /\ x.status = status
  BY PutIs
<1>4. W # {}
  OBVIOUS
<1>5. status # "waiting_user"
  BY DEF Terminal
<1> HIDE DEF W, writes
<1>6. /\ pc'[w] = s /\ Owed' = Owed \cup W
      /\ UNCHANGED <<conversation, situation, store, mode>>
      /\ \A u \in Tasks \ {w} : todo'[u] = todo[u]
  BY <1>2 DEF Moves
<1>7. /\ w \notin Resumers /\ w \notin Cancellers
      /\ Workers \subseteq Tasks /\ Resumers \subseteq Tasks /\ Pollers \subseteq Tasks
      /\ w \notin Pollers
  BY <1>1, Disjoint
<1>8. w \notin Askers' /\ ~Asking(w)' /\ w \notin Looking' /\ w \notin Dispatching'
  <2>1. w \notin Waiters'
    BY <1>1, <1>2, <1>3, <1>5, MoveSets
  <2> QED BY <1>6, <1>7, <2>1 DEF Askers, Arms, Asking, Looking, Dispatching
<1>9. /\ HandleKept' /\ AskersWait' /\ AskersFirst' /\ WaitingGoesOn' /\ NoHandleYet'
      /\ ServerStands'
  <2>1. Leaves(W)
    BY <1>3, <1>5 DEF Leaves
  <2> QED BY <1>1, <1>2, <1>3, <1>5, <1>7, <1>8, <2>1, MoveKeeps
<1>10. AloneAtEnd'
  <2>1. \A v \in Workers : ~Asking(v)'
    <3> SUFFICES ASSUME NEW v \in Workers, Asking(v)' PROVE FALSE
      OBVIOUS
    <3>1. v # w /\ v \in Tasks
      BY <1>7, <1>8
    <3>2. Asking(v)
      BY <1>1, <1>2, <3>1, MoveSets
    <3> QED BY <1>1, <3>1, <3>2
  <2> QED BY <1>1, <1>2, <1>8, <2>1, MoveAlone
<1>11. ASSUME situation = "crash" PROVE EndsWell' /\ RowLast'
  <2>1. Asking(w) /\ ~Ending
    BY <1>1, <1>11 DEF Asking
  <2>2. Owed = {} /\ Dispatching = {} /\ Looking = {} /\ Issuing = {}
    BY <1>1, <1>11, <2>1
       DEF Trouble, AloneAtEnd, AskersFirst, Token, Core, AskerAlone, Minded
  <2>3. ~Redrivable'
    BY <1>1 DEF Redrivable
  <2>4. Still'
    <3>1. Owners' = {} /\ Unstarted' = {} /\ Arms' = {}
      BY <1>1, <1>2, <1>6, <1>7 DEF Owners, Owning, Unstarted, Arms
    <3>2. Looking' = {} /\ Issuing' = {} /\ Dispatching' = {}
      BY <1>2, <1>6, <1>7, <2>2 DEF Looking, Issuing, Dispatching
    <3> QED BY <2>3, <3>1, <3>2 DEF Still
  <2>5. StateFirst'
    <3>1. \A t \in Tasks : todo[t] = <<>>
      BY <2>2, OwedNone
    <3>2. todo'[w] # <<>> /\ Head(todo'[w]).to = "state"
      <4>1. todo'[w] = writes
        BY <1>1 DEF TypeOK, writes
      <4>2. writes # <<>> /\ Head(writes) = Put("state", status)
        BY TerminalHead DEF writes
      <4> QED BY <4>1, <4>2, PutIs
    <3>3. \A t \in Tasks : todo'[t] # <<>> => t = w
      BY <1>6, <3>1
    <3>4. store'.row \notin Terminal
      BY <1>6, <2>1 DEF Ending
    <3> QED BY <1>1, <2>3, <3>2, <3>3, <3>4 DEF StateFirst
  <2>6. RowLast'
    <3>1. ~PreserveWaiting' /\ ~RedriveTicket'
      BY <2>3 DEF PreserveWaiting, RedriveTicket
    <3> QED BY <1>3, <1>6, <3>1 DEF RowLast
  <2>7. \A x \in Owed' : x.status \in Terminal
    BY <1>3, <1>6, <2>2
  <2> QED BY <2>4, <2>5, <2>6, <2>7 DEF EndsWell
<1>12. EndsWell' /\ RowLast'
  BY <1>6, <1>11 DEF EndsWell, RowLast
<1> QED BY <1>9, <1>10, <1>12 DEF Trouble

\* The turn fails, succeeds, is canceled, or asks with nothing to come back to.
LEMMA TurnEndsInTrouble ==
  ASSUME TypeOK, Token, Troubled, Trouble, NEW w \in Workers,
         \/ CheckCancel(w) /\ pc'[w] = "done"
         \/ Prepare(w) /\ pc'[w] = "done"
         \/ TurnFailed(w)
         \/ TurnSucceeded(w) /\ pc[w] = "resolve"
         \/ TurnAsks(w) /\ ~handle
  PROVE  Trouble'
<1>0. w \in Tasks /\ Session
  BY Disjoint DEF Troubled
<1> DEFINE Kept == UNCHANGED <<conversation, situation, store, mode, flagged, ticket, handle, tid>>
           Ended(s, status) ==
             /\ todo[w] = <<>> /\ pc' = [pc EXCEPT ![w] = s]
             /\ todo' = [todo EXCEPT ![w] = TerminalProjection(status) \o <<Put("row", status)>>]
<1>1. ASSUME w \in Owners PROVE Pending = {} /\ (inter' = inter => Pending' = {})
  <2>1. Pending = {}
    BY <1>1, OwnerStandsAlone
  <2> QED BY <2>1 DEF Pending
<1>2. situation = "crash" => ~flagged /\ pc[w] # "killed"
  BY DEF Trouble, ServerStands
<1>3. CASE CheckCancel(w) /\ pc'[w] = "done"
  <2>1. /\ pc[w] \in {"check", "recheck", "ended"} /\ flagged /\ inter' = inter /\ Kept
        /\ Ended("done", "canceled")
    BY <1>0, <1>3 DEF CheckCancel, At, Finish, GotoOwing, Goto, data, steady, server, TypeOK
  <2>2. w \in Owners
    BY <2>1 DEF Owners, Owning
  <2> QED BY <1>1, <1>2, <2>1, <2>2, TurnOverInTrouble DEF Terminal
<1>4. CASE Prepare(w) /\ pc'[w] = "done"
  <2>1. pc[w] = "prepare" /\ tid[w] # 0 /\ ~handle
    BY <1>0, <1>4 DEF Prepare, At, Goto, TypeOK
  <2>2. w \in Owners
    BY <2>1 DEF Owners, Owning
  <2> QED BY <2>1, <2>2, HandleToStart
<1>5. CASE TurnFailed(w)
  <2>1. /\ pc[w] \in {"resolve", "killed"} /\ inter' = inter /\ Kept
        /\ Ended("done", "failed")
    BY <1>5 DEF TurnFailed, At, Finish, GotoOwing, Goto, data, Converged, server
  <2>2. w \in Owners
    BY <2>1 DEF Owners, Owning
  <2> QED BY <1>1, <1>2, <2>1, <2>2, TurnOverInTrouble DEF Terminal
<1>6. CASE TurnSucceeded(w) /\ pc[w] = "resolve"
  <2>1. inter' = inter /\ Kept /\ Ended("bundle", "succeeded")
    BY <1>6 DEF TurnSucceeded, At, Finish, GotoOwing, Goto, data, Converged, server
  <2>2. w \in Owners
    BY <1>6 DEF Owners, Owning
  <2> QED BY <1>1, <1>6, <2>1, <2>2, TurnOverInTrouble DEF Terminal
<1>7. CASE TurnAsks(w) /\ ~handle
  <2>1. pc[w] = "resolve" /\ Kept /\ Ended("done", "failed")
    BY <1>0, <1>7 DEF TurnAsks, At, Finish, GotoOwing, Goto, Converged, server
  <2>2. w \in Owners
    BY <2>1 DEF Owners, Owning
  <2> QED BY <1>7, <2>1, <2>2, TurnOverInTrouble DEF Terminal
<1> QED BY <1>3, <1>4, <1>5, <1>6, <1>7

\* The turn asks: its question is open before its waiting status is owed.
LEMMA TurnAsksInTrouble ==
  ASSUME TypeOK, Token, Troubled, Trouble, NEW w \in Workers, TurnAsks(w), handle
  PROVE  Trouble'
<1> DEFINE W == {Put("state", "waiting_user"), Put("row", "waiting_user")}
           a == num[w]
<1>1. /\ pc[w] = "resolve" /\ todo[w] = <<>> /\ w \in Tasks
      /\ pc' = [pc EXCEPT ![w] = "arm"]
      /\ todo' = [todo EXCEPT ![w] = NonTerminalProjection("waiting_user")]
      /\ inter' = [inter EXCEPT ![a] = [state |-> "pending", by |-> "none"]]
      /\ UNCHANGED <<conversation, situation, store, mode, flagged, ticket, handle>>
      /\ a < MaxAttempt - Fewer
  BY Disjoint DEF TurnAsks, At, GotoOwing, Goto, Converged, server, Troubled
<1>2. w \in Owners /\ Asking(w)
  BY <1>1 DEF Owners, Owning, Asking
<1>3. /\ w \in Tasks \ {recovery} /\ mode = "up"
      /\ Pending = {} /\ Askers = {}
      /\ \A v \in Workers : Asking(v) => v = w
      /\ situation = "crash" => ~Ending
  BY <1>2, OwnerStandsAlone
<1>4. Moves(w, "arm", W)
  <2>1. Moves(w, "arm", Range(NonTerminalProjection("waiting_user")))
    BY <1>1, MoveOwing
  <2>2. Range(NonTerminalProjection("waiting_user")) = W
    BY ProjectionRanges
  <2> HIDE DEF W
  <2> QED BY <2>1, <2>2
<1>5. Pending' # {}
  <2>1. a \in Attempts
    <3>1. a \in Nat /\ a >= 1
      BY <1>1, <1>2 DEF Token, Core, OwnerAlone, TypeOK
    <3> QED BY <1>1, <3>1, Bounds DEF Attempts, Fewer
  <2>2. inter'[a].state = "pending"
    BY <1>1, <2>1 DEF TypeOK
  <2> QED BY <2>1, <2>2 DEF Pending
<1>6. \A x \in W : x.status = "waiting_user"
  BY PutIs
<1> HIDE DEF W, a
<1>7. pc'[w] = "arm" /\ UNCHANGED <<situation, store, mode>>
  BY <1>4 DEF Moves
<1>8. w \notin Resumers /\ w \notin Cancellers
  BY <1>3, Disjoint
<1>9. ~Asking(w)' /\ w \notin Looking' /\ w \notin Dispatching'
  BY <1>7, <1>8 DEF Asking, Looking, Dispatching
<1>10. Looking = {}
  BY <1>2 DEF Trouble, AskersFirst
<1>11. /\ HandleKept' /\ AskersWait' /\ AskersFirst' /\ WaitingGoesOn' /\ NoHandleYet'
       /\ ServerStands'
  <2>1. GoesOn'
    BY <1>5 DEF GoesOn
  <2>2. flagged' = flagged /\ handle'
    BY <1>1
  <2> QED BY <1>3, <1>4, <1>5, <1>6, <1>8, <1>9, <1>10, <2>1, <2>2, MoveKeeps
<1>12. AloneAtEnd'
  <2>1. \A v \in Workers : ~Asking(v)'
    <3> SUFFICES ASSUME NEW v \in Workers, Asking(v)' PROVE FALSE
      OBVIOUS
    <3>1. v # w /\ v \in Tasks
      BY <1>9, Disjoint
    <3>2. Asking(v)
      BY <1>1, <1>4, <3>1, MoveSets
    <3> QED BY <1>3, <3>1, <3>2
  <2> QED BY <1>1, <1>4, <1>9, <2>1, MoveAlone
<1>13. EndsWell' /\ RowLast'
  <2>1. situation = "crash" => EndsWell' /\ RowLast'
    BY <1>1, <1>3, <1>4, <1>6, MoveBeforeEnd DEF Terminal
  <2> QED BY <1>7, <2>1 DEF EndsWell, RowLast
<1> QED BY <1>11, <1>12, <1>13 DEF Trouble

-----------------------------------------------------------------------------
(* Steps aside in trouble *)

\* Who may go on still may when a task moves without the means to.
LEMMA GoesOnKept ==
  ASSUME NEW t \in Tasks, NEW s, NEW W, Moves(t, s, W), UNCHANGED <<inter, ticket, tid>>,
         flagged => flagged', pc[t] \notin Owning \cup {"issue"},
         pc[t] = "ticket" /\ s # "ticket" => ~(Redrivable /\ tid[t] = ticket.id),
         pc[t] = "dispatch" => ~(ticket.state = "issued" /\ tid[t] = ticket.id),
         \A u \in Resumers \ {t} : pc'[u] = pc[u] /\ num'[u] = num[u]
  PROVE  GoesOn => GoesOn'
<1>1. pc'[t] = s /\ \A u \in Tasks \ {t} : Aside(u)
  BY DEF Moves
<1>2. Pending' = Pending /\ Redrivable' = Redrivable
  BY DEF Pending, Redrivable
<1>3. Owners # {} => Owners' # {}
  <2>1. \A u \in Owners : u \in Tasks \ {t}
    BY Disjoint DEF Owners
  <2> QED BY <2>1, MoveSets
<1>4. TicketHeld => TicketHeld'
  <2> SUFFICES ASSUME TicketHeld PROVE TicketHeld'
    OBVIOUS
  <2>1. Redrivable
    BY DEF TicketHeld
  <2>2. ASSUME NEW w \in Workers, pc[w] = "ticket", tid[w] = ticket.id
        PROVE  pc'[w] = "ticket" /\ tid'[w] = ticket'.id
    <3>1. w \in Tasks /\ w \notin Timers
      BY Disjoint
    <3>2. w = t => s = "ticket"
      BY <2>1, <2>2
    <3> QED BY <1>1, <2>2, <3>1, <3>2 DEF Aside
  <2>3. ASSUME NEW u \in Resumers, pc[u] = "dispatch", tid[u] = ticket.id, ticket.state = "issued"
        PROVE  pc'[u] = "dispatch" /\ tid'[u] = ticket'.id
    BY <2>3
  <2> QED BY <1>2, <2>1, <2>2, <2>3 DEF TicketHeld
<1>5. ASSUME NEW u \in Issuing, ~SameTicket(u) PROVE u \in Issuing' /\ ~SameTicket(u)'
  <2>1. u \in Resumers /\ pc[u] = "issue" /\ u # t
    BY DEF Issuing
  <2> QED BY <1>5, <2>1 DEF Issuing, SameTicket
<1> QED BY <1>2, <1>3, <1>4, <1>5 DEF GoesOn

\* A task moves without a ticket in its hands, and takes up no question.
LEMMA SideStepInTrouble ==
  ASSUME TypeOK, Token, Trouble, NEW t \in Tasks \ {recovery}, NEW s, mode = "up",
         todo[t] = <<>>, pc' = [pc EXCEPT ![t] = s],
         UNCHANGED <<conversation, situation, store, mode, inter, ticket, handle, todo, num, tid>>,
         flagged => flagged', situation = "crash" => flagged' = flagged /\ t \notin Cancellers,
         pc[t] \notin Owning \cup {"issue"},
         pc[t] = "ticket" /\ s # "ticket" => ~(Redrivable /\ tid[t] = ticket.id),
         pc[t] = "dispatch" => ~(ticket.state = "issued" /\ tid[t] = ticket.id),
         s \notin Owning \cup {"arm", "autoresume", "look", "decide", "issue", "dispatch"},
         s \in {"new", "ticket"} => pc[t] \in {"new", "ticket"},
         s = "redrive" /\ situation = "crash" /\ Ending => ~Redrivable,
         t \in Resumers => s = "done"
  PROVE  Trouble'
<1>1. Moves(t, s, {}) /\ \A u \in Tasks \ {t} : pc'[u] = pc[u]
  BY MoveOwingNone
<1>2. pc'[t] = s
  BY <1>1 DEF Moves
<1>3. t \notin Arms' /\ t \notin Askers' /\ t \notin Looking' /\ t \notin Dispatching'
      /\ ~Asking(t)' /\ t \notin Owners
  <2>1. t \notin Waiters'
    BY <1>1, MoveSets
  <2> QED BY <1>2, <2>1 DEF Arms, Askers, Looking, Dispatching, Asking, Owners, Owning
<1>4. Pending' = Pending /\ Redrivable' = Redrivable
  BY DEF Pending, Redrivable
<1>5. GoesOn => GoesOn'
  BY <1>1, GoesOnKept, Disjoint
<1>6. /\ HandleKept' /\ AskersWait' /\ AskersFirst' /\ WaitingGoesOn' /\ NoHandleYet'
      /\ ServerStands'
  <2>1. s \notin {"killed", "autoresume", "arm"}
    BY DEF Owning
  <2> QED BY <1>1, <1>3, <1>4, <1>5, <2>1, MoveKeeps
<1>7. AloneAtEnd'
  BY <1>1, <1>3, MoveAlone
<1>8. EndsWell' /\ RowLast'
  <2>1. UNCHANGED situation
    OBVIOUS
  <2>2. CASE situation = "crash" /\ Ending
    BY <1>1, <2>2, MoveAfterEnd
  <2>3. CASE situation = "crash" /\ ~Ending
    BY <1>1, <2>3, MoveBeforeEnd
  <2> QED BY <2>1, <2>2, <2>3 DEF EndsWell, RowLast
<1> QED BY <1>6, <1>7, <1>8 DEF Trouble

\* A job is admitted or refused, finds its ticket taken, or has its bundles.
LEMMA JobStepsAside ==
  ASSUME TypeOK, Token, Trouble, NEW w \in Workers,
         \/ Admit(w) \/ RejectRun(w)
         \/ StartTicket(w) /\ pc'[w] = "done"
         \/ TurnSucceeded(w) /\ pc[w] = "bundle" /\ todo'[w] = <<>>
  PROVE  Trouble'
<1>0. w \in Tasks \ {recovery} /\ w \notin Resumers /\ w \notin Cancellers
  BY Disjoint
<1> DEFINE Kept == UNCHANGED <<conversation, situation, store, mode, flagged, inter, ticket,
                               handle, todo, num, tid>>
<1>1. \E s \in {"ticket", "done"} :
        /\ Kept /\ todo[w] = <<>> /\ pc' = [pc EXCEPT ![w] = s]
        /\ pc[w] \in {"new", "ticket", "bundle"}
        /\ s = "ticket" => pc[w] = "new"
        /\ pc[w] = "ticket" => ~(Redrivable /\ tid[w] = ticket.id)
  <2>1. CASE Admit(w)
    BY <2>1 DEF Admit, At, Goto, data, steady, server
  <2>2. CASE RejectRun(w)
    BY <2>2 DEF RejectRun, At, Goto, data, steady, server
  <2>3. CASE StartTicket(w) /\ pc'[w] = "done"
    BY <1>0, <2>3 DEF StartTicket, At, Goto, steady, server, TypeOK
  <2>4. CASE TurnSucceeded(w) /\ pc[w] = "bundle" /\ todo'[w] = <<>>
    <3>1. ~Finish(w, "failed")
      <4>1. TerminalProjection("failed") \o <<Put("row", "failed")>> # <<>>
        BY TerminalHead DEF Terminal
      <4> QED BY <1>0, <2>4, <4>1 DEF Finish, GotoOwing, TypeOK
    <3> QED BY <2>4, <3>1 DEF TurnSucceeded, At, Goto, data, Converged, server
  <2> QED BY <2>1, <2>2, <2>3, <2>4
<1>2. mode = "up"
  BY <1>0, <1>1, BusyIsUp DEF Token
<1>3. PICK s \in {"ticket", "done"} :
        /\ Kept /\ todo[w] = <<>> /\ pc' = [pc EXCEPT ![w] = s]
        /\ pc[w] \in {"new", "ticket", "bundle"}
        /\ s = "ticket" => pc[w] = "new"
        /\ pc[w] = "ticket" => ~(Redrivable /\ tid[w] = ticket.id)
  BY <1>1
<1> QED BY <1>0, <1>2, <1>3, SideStepInTrouble DEF Owning

\* Failed bundles and a cancel are projected whatever the run has become.
LEMMA EndsAnyway ==
  ASSUME TypeOK, Token, Trouble, situation = "cancel", NEW t \in Tasks \ {recovery},
         NEW status \in Terminal, At(t, "bundle") \/ At(t, "project"), Finish(t, status),
         UNCHANGED <<conversation, situation, store, mode, flagged, inter, ticket, handle>>
  PROVE  Trouble'
<1> DEFINE writes == TerminalProjection(status) \o <<Put("row", status)>>
           W == {Put("state", status), Put("row", status), Put("result", status)}
<1>1. /\ pc[t] \in {"bundle", "project"} /\ todo[t] = <<>>
      /\ pc' = [pc EXCEPT ![t] = "done"] /\ todo' = [todo EXCEPT ![t] = writes]
  BY DEF At, Finish, GotoOwing, Goto
<1>2. Moves(t, "done", W)
  <2>1. Range(writes) = W
    BY ProjectionRanges
  <2> HIDE DEF writes, W
  <2> QED BY <1>1, <2>1, MoveOwing
<1>3. (\A x \in W : x.status = status) /\ \E x \in W : x.to = "state" /\ x.status = status
  BY PutIs
<1>4. status # "waiting_user"
  BY DEF Terminal
<1> HIDE DEF W, writes
<1>5. mode = "up"
  BY <1>1, BusyIsUp DEF Token
<1>6. pc'[t] = "done" /\ t \notin Askers' /\ ~Asking(t)' /\ t \notin Looking'
  <2>1. t \notin Waiters'
    BY <1>2, <1>3, <1>4, MoveSets
  <2> QED BY <1>2, <2>1 DEF Moves, Askers, Arms, Asking, Looking
<1>7. Pending' = Pending
  BY DEF Pending
<1>8. Leaves(W)
  BY <1>3, <1>4 DEF Leaves
<1>9. /\ HandleKept' /\ AskersWait' /\ AskersFirst' /\ WaitingGoesOn' /\ NoHandleYet'
      /\ ServerStands'
  BY <1>2, <1>3, <1>4, <1>5, <1>6, <1>7, <1>8, MoveKeeps
<1> QED BY <1>9 DEF Trouble, AloneAtEnd, EndsWell, RowLast

\* A job starts: it has the only right to.
LEMMA JobStartsInTrouble ==
  ASSUME TypeOK, Token, Trouble, NEW w \in Workers, StartTicket(w), pc'[w] = "claim"
  PROVE  Trouble'
<1>1. /\ pc[w] = "ticket" /\ todo[w] = <<>> /\ w \in Tasks \ {recovery}
      /\ w \notin Resumers /\ w \notin Cancellers
      /\ pc' = [pc EXCEPT ![w] = "claim"] /\ ticket'.id = ticket.id
      /\ tid[w] = 0 \/ (tid[w] = ticket.id /\ Redrivable)
      /\ UNCHANGED <<conversation, situation, store, mode, flagged, inter, handle, todo>>
  BY Disjoint DEF StartTicket, At, Goto, steady, server, TypeOK
<1>2. mode = "up"
  BY <1>1, BusyIsUp DEF Token
<1>3. Moves(w, "claim", {})
  BY <1>1, MoveOwingNone
<1>4. pc'[w] = "claim"
  BY <1>3 DEF Moves
<1>5. w \notin Arms' /\ w \notin Askers' /\ w \notin Looking' /\ w \notin Dispatching' /\ ~Asking(w)'
  BY <1>4 DEF Arms, Askers, Looking, Dispatching, Asking
<1>6. Pending' = Pending /\ GoesOn'
  BY <1>1, <1>4 DEF Pending, GoesOn, Owners, Owning
<1>7. /\ HandleKept' /\ AskersWait' /\ AskersFirst' /\ WaitingGoesOn' /\ NoHandleYet'
      /\ ServerStands'
  BY <1>1, <1>2, <1>3, <1>5, <1>6, MoveKeeps
<1>8. AloneAtEnd'
  BY <1>1, <1>3, <1>5, MoveAlone
<1>9. situation = "crash" => ~Ending
  <2> SUFFICES ASSUME situation = "crash", Ending PROVE FALSE
    OBVIOUS
  <2>1. Still
    BY DEF Trouble, EndsWell
  <2> QED BY <1>1, <2>1 DEF Still, Unstarted
<1>10. EndsWell' /\ RowLast'
  <2>1. ASSUME situation = "crash" PROVE EndsWell' /\ RowLast'
    BY <1>1, <1>2, <1>3, <1>9, <2>1, MoveBeforeEnd
  <2> QED BY <1>1, <2>1 DEF EndsWell, RowLast
<1> QED BY <1>7, <1>8, <1>10 DEF Trouble

\* The waiting status is projected again, for a question that is still open.
LEMMA WaitingFinishedInTrouble ==
  ASSUME TypeOK, Token, Trouble, NEW w \in Workers, FinishWaiting(w)
  PROVE  Trouble'
<1> DEFINE W == {Put("state", "waiting_user"), Put("row", "waiting_user")}
           writes == NonTerminalProjection("waiting_user") \o <<Put("row", "waiting_user")>>
<1>1. /\ pc[w] = "arm" /\ todo[w] = <<>> /\ w \in Tasks \ {recovery}
      /\ w \notin Resumers /\ w \notin Cancellers
      /\ todo' = [todo EXCEPT ![w] = writes]
      /\ UNCHANGED <<conversation, situation, store, mode, flagged, inter, ticket, handle, num, tid>>
  BY Disjoint DEF FinishWaiting, At, data, steady, server
<1>2. w \in Arms /\ handle
  BY <1>1 DEF Arms, Trouble, HandleKept
<1>3. w \in Askers /\ Pending # {}
  <2>1. w \notin Owners
    BY <1>1 DEF Owners, Owning
  <2> QED BY <1>2, <2>1 DEF Trouble, AskersWait
<1>4. Moves(w, "done", W)
  <2>1. Owed' = Owed \cup Range(writes)
    <3> HIDE DEF writes
    <3> QED BY <1>1, OwedMore
  <2>2. Range(writes) = W
    BY ProjectionRanges DEF Statuses
  <2>3. todo'[w] = writes /\ \A u \in Tasks \ {w} : todo'[u] = todo[u]
    <3> HIDE DEF writes
    <3> QED BY <1>1 DEF TypeOK
  <2>4. pc'[w] = "done"
    <3>1. ~ArmsTimer(w, w) /\ w \in Tasks
      BY <1>1, Kinds DEF ArmsTimer
    <3> QED BY <3>1 DEF FinishWaiting
  <2>5. ASSUME NEW u \in Tasks \ {w} PROVE Aside(u)
    <3>1. pc'[u] = IF ArmsTimer(w, u) THEN "armed" ELSE pc[u]
      BY <2>5 DEF FinishWaiting
    <3>2. ArmsTimer(w, u) => u \in Timers
      BY <2>5, Kinds DEF ArmsTimer, Tasks
    <3> QED BY <1>2, <3>1, <3>2 DEF Aside
  <2> HIDE DEF W, writes
  <2> QED BY <1>1, <2>1, <2>2, <2>3, <2>4, <2>5 DEF Moves
<1>5. \A x \in W : x.status = "waiting_user"
  BY PutIs
<1> HIDE DEF W, writes
<1>6. mode = "up"
  BY <1>1, BusyIsUp DEF Token
<1>7. Pending' = Pending
  BY <1>1 DEF Pending
<1>8. pc'[w] = "done" /\ ~Asking(w)' /\ w \notin Looking' /\ w \notin Dispatching'
  BY <1>4 DEF Moves, Asking, Looking, Dispatching
<1>9. /\ HandleKept' /\ AskersWait' /\ AskersFirst' /\ WaitingGoesOn' /\ NoHandleYet'
      /\ ServerStands'
  <2>1. GoesOn'
    BY <1>3, <1>7 DEF GoesOn
  <2>2. flagged' = flagged /\ handle'
    BY <1>1, <1>2
  <2> QED BY <1>1, <1>2, <1>3, <1>4, <1>6, <1>7, <1>8, <2>1, <2>2, MoveKeeps
<1>10. AloneAtEnd'
  <2>1. \A v \in Workers : ~Asking(v)'
    <3> SUFFICES ASSUME NEW v \in Workers, Asking(v)' PROVE FALSE
      OBVIOUS
    <3>1. v # w /\ v \in Tasks
      BY <1>8, Disjoint
    <3>2. Asking(v)
      BY <1>1, <1>4, <3>1, MoveSets
    <3>3. v \in Closing /\ w \in Closing
      BY <1>1, <3>2 DEF Closing
    <3> QED BY <3>1, <3>3 DEF Token, Core, AskerAlone
  <2> QED BY <1>1, <1>4, <1>8, <2>1, MoveAlone
<1>11. situation = "crash" => ~Ending
  BY <1>2 DEF Trouble, EndsWell, Still
<1>12. EndsWell' /\ RowLast'
  <2>0. \A x \in W : x.status \notin Terminal
    BY <1>5 DEF Terminal
  <2>1. ASSUME situation = "crash" PROVE EndsWell' /\ RowLast'
    BY <1>1, <1>4, <1>6, <1>11, <2>0, <2>1, MoveBeforeEnd
  <2> QED BY <1>1, <2>1 DEF EndsWell, RowLast
<1> QED BY <1>9, <1>10, <1>12 DEF Trouble

-----------------------------------------------------------------------------
(* The steps of a resumption in trouble *)

\* A timer fires or a reply arrives while every job is at rest ...
LEMMA LooksInTrouble ==
  ASSUME TypeOK, Token, Trouble, NEW t \in Resumers, mode = "up", todo[t] = <<>>,
         pc[t] \in {"armed", "idle"}, pc' = [pc EXCEPT ![t] = "look"],
         store.state = "waiting_user", \A w \in Workers : AtRest(w),
         UNCHANGED <<conversation, situation, store, mode, flagged, inter, ticket, handle,
                     todo, num, tid>>
  PROVE  Trouble'
<1>1. t \in Tasks \ {recovery} /\ t \notin Workers /\ t \notin Cancellers
  BY Disjoint
<1>2. Moves(t, "look", {}) /\ \A u \in Tasks \ {t} : pc'[u] = pc[u]
  BY <1>1, MoveOwingNone
<1>3. \A w \in Workers : ~Asking(w) /\ w \notin Askers
  <2> SUFFICES ASSUME NEW w \in Workers PROVE ~Asking(w) /\ w \notin Askers
    OBVIOUS
  <2>1. w \notin Waiters
    BY DEF AtRest, Waiters, Range
  <2> QED BY <2>1 DEF AtRest, Asking, Askers, Arms
<1>4. handle /\ Pending' = Pending
  BY DEF Trouble, HandleKept, Pending
<1>5. GoesOn => GoesOn'
  BY <1>1, <1>2, GoesOnKept, Disjoint DEF Owning
<1>6. /\ HandleKept' /\ AskersWait' /\ AskersFirst' /\ WaitingGoesOn' /\ NoHandleYet'
      /\ ServerStands'
  BY <1>1, <1>2, <1>3, <1>4, <1>5, MoveKeeps
<1>7. AloneAtEnd'
  <2>1. pc'[t] = "look"
    BY <1>2 DEF Moves
  <2>2. t \notin Dispatching'
    BY <2>1 DEF Dispatching
  <2> QED BY <1>1, <1>2, <2>2, MoveAlone
<1>8. ASSUME situation = "crash" PROVE ~Ending
  <2> SUFFICES ASSUME Ending PROVE FALSE
    OBVIOUS
  <2>1. StateFirst
    BY <1>8 DEF Trouble, EndsWell
  <2>2. store.state \notin Terminal
    BY DEF Terminal
  <2> QED BY <2>1, <2>2 DEF StateFirst, AtRest
<1>9. EndsWell' /\ RowLast'
  <2>1. ASSUME situation = "crash" PROVE EndsWell' /\ RowLast'
    BY <1>1, <1>2, <1>8, <2>1, MoveBeforeEnd
  <2> QED BY <2>1 DEF EndsWell, RowLast
<1> QED BY <1>6, <1>7, <1>9 DEF Trouble

\* ... or a timer finds that the run does not wait.
LEMMA ResumerArrivesInTrouble ==
  ASSUME TypeOK, Token, Troubled, Trouble, NEW t \in Resumers,
         (t \in Timers /\ TimerFires(t)) \/ ReplyArrives(t)
  PROVE  Trouble'
<1>0. t \in Tasks \ {recovery} /\ t \notin Cancellers /\ ~Eager
  BY Disjoint DEF Troubled, Eager
<1> DEFINE Kept == UNCHANGED <<conversation, situation, store, mode, flagged, inter, ticket,
                               handle, todo, num, tid>>
<1>1. CASE t \in Timers /\ TimerFires(t)
  <2>1. /\ pc[t] = "armed" /\ todo[t] = <<>> /\ Kept
        /\ pc' = [pc EXCEPT ![t] = IF store.state = "waiting_user" THEN "look" ELSE "done"]
        /\ \A w \in Workers : AtRest(w)
    BY <1>0, <1>1 DEF TimerFires, At, Goto, data, steady, server
  <2>2. mode = "up"
    BY <1>0, <2>1, BusyIsUp DEF Token
  <2>3. CASE store.state = "waiting_user"
    BY <2>1, <2>2, <2>3, LooksInTrouble
  <2>4. CASE store.state # "waiting_user"
    <3>1. pc' = [pc EXCEPT ![t] = "done"]
      BY <2>1, <2>4
    <3> QED BY <1>0, <2>1, <2>2, <3>1, SideStepInTrouble DEF Owning
  <2> QED BY <2>3, <2>4
<1>2. CASE ReplyArrives(t)
  <2>1. /\ pc[t] = "idle" /\ todo[t] = <<>> /\ Kept /\ mode = "up"
        /\ pc' = [pc EXCEPT ![t] = "look"] /\ store.state = "waiting_user"
        /\ \A w \in Workers : AtRest(w)
    BY <1>0, <1>2 DEF ReplyArrives, At, Goto, data, steady, server
  <2> QED BY <2>1, LooksInTrouble
<1> QED BY <1>1, <1>2

\* The open question is looked up.
LEMMA ResumerLooksUpInTrouble ==
  ASSUME TypeOK, Token, Trouble, NEW t \in Resumers, LookUpPending(t)
  PROVE  Trouble'
<1>1. /\ t \in Tasks \ {recovery} /\ t \notin Workers /\ t \notin Cancellers
      /\ pc[t] = "look" /\ todo[t] = <<>>
      /\ UNCHANGED <<conversation, situation, store, mode, flagged, inter, ticket, handle,
                     todo, tid>>
  BY Disjoint DEF LookUpPending, At, data, steady, server
<1>2. mode = "up" /\ t \in Looking
  BY <1>1, BusyIsUp DEF Token, Looking
<1>3. CASE Pending = {}
  <2>1. pc' = [pc EXCEPT ![t] = "done"] /\ num' = num
    BY <1>3 DEF LookUpPending, Goto
  <2> QED BY <1>1, <1>2, <2>1, SideStepInTrouble DEF Owning
<1>4. CASE Pending # {}
  <2>1. pc' = [pc EXCEPT ![t] = "decide"] /\ \A u \in Tasks \ {t} : num'[u] = num[u]
    BY <1>1, <1>4 DEF LookUpPending, Goto, TypeOK
  <2>2. Moves(t, "decide", {}) /\ \A u \in Tasks \ {t} : pc'[u] = pc[u]
    BY <1>1, <2>1, MoveOwingNone
  <2>3. handle /\ Pending' = Pending
    BY <1>1 DEF Trouble, NoHandleYet, Pending
  <2>4. GoesOn => GoesOn'
    BY <1>1, <2>1, <2>2, GoesOnKept, Disjoint DEF Owning
  <2>5. /\ HandleKept' /\ AskersWait' /\ AskersFirst' /\ WaitingGoesOn' /\ NoHandleYet'
        /\ ServerStands'
    BY <1>1, <1>2, <2>2, <2>3, <2>4, MoveKeeps
  <2>6. AloneAtEnd'
    <3>1. t \notin Dispatching'
      BY <2>2 DEF Moves, Dispatching
    <3> QED BY <1>1, <2>2, <3>1, MoveAlone
  <2>7. EndsWell' /\ RowLast'
    <3>1. situation = "crash" => ~Ending
      BY <1>2 DEF Trouble, EndsWell, Still
    <3>2. ASSUME situation = "crash" PROVE EndsWell' /\ RowLast'
      BY <1>1, <1>2, <2>2, <3>1, <3>2, MoveBeforeEnd
    <3> QED BY <1>1, <3>2 DEF EndsWell, RowLast
  <2> QED BY <2>5, <2>6, <2>7 DEF Trouble
<1> QED BY <1>3, <1>4

\* A resumer that owes the status queued goes on to its ticket, and with it.
LEMMA ResumerQueues ==
  ASSUME TypeOK, Token, Trouble, NEW t \in Resumers, NEW s \in {"issue", "dispatch"}, NEW writes,
         NEW W, Range(writes) = W, \A x \in W : x.status = "queued",
         pc[t] \in {"decide", "issue"}, todo[t] = <<>>,
         pc' = [pc EXCEPT ![t] = s], todo' = [todo EXCEPT ![t] = writes],
         UNCHANGED <<conversation, situation, store, mode, flagged, handle>>,
         Pending # {} => Pending' # {} \/ Askers = {},
         GoesOn => GoesOn' \/ Leaves(W)
  PROVE  Trouble'
<1>1. /\ t \in Tasks \ {recovery} /\ t \notin Workers /\ t \notin Cancellers
      /\ Workers \subseteq Tasks
  BY Disjoint
<1>2. mode = "up"
  BY <1>1, BusyIsUp DEF Token
<1>3. Moves(t, s, W) /\ \A u \in Tasks \ {t} : pc'[u] = pc[u]
  BY <1>1, MoveOwing
<1>4. pc'[t] = s
  BY <1>3 DEF Moves
<1>5. handle
  BY DEF Trouble, NoHandleYet
<1>6. t \notin Looking'
  BY <1>4 DEF Looking
<1>7. \A w \in Workers : ~Asking(w)
  <2>1. t \in Minded
    BY DEF Minded, Deciding, Issuing
  <2> QED BY <2>1 DEF Token, Core, AskerAlone
<1>8. /\ HandleKept' /\ AskersWait' /\ AskersFirst' /\ WaitingGoesOn' /\ NoHandleYet'
      /\ ServerStands'
  BY <1>1, <1>2, <1>3, <1>5, <1>6, MoveKeeps
<1>9. AloneAtEnd'
  <2>1. \A w \in Workers : ~Asking(w)'
    BY <1>1, <1>3, <1>7 DEF Asking
  <2> QED BY <1>1, <1>3, <2>1, MoveAlone
<1>10. EndsWell' /\ RowLast'
  <2>1. t \in Looking \cup Issuing
    BY DEF Looking, Issuing
  <2>2. situation = "crash" => ~Ending
    BY <2>1 DEF Trouble, EndsWell, Still
  <2>3. \A x \in W : x.status \notin Terminal
    BY DEF Terminal
  <2>4. ASSUME situation = "crash" PROVE EndsWell' /\ RowLast'
    BY <1>1, <1>2, <1>3, <2>2, <2>3, <2>4, MoveBeforeEnd
  <2> QED BY <2>4 DEF EndsWell, RowLast
<1> QED BY <1>8, <1>9, <1>10 DEF Trouble

\* The question is answered, or found to be answered; the ticket is issued.
LEMMA ReplyInTrouble ==
  ASSUME TypeOK, Token, Trouble, NEW t \in Resumers, SubmitReply(t)
  PROVE  Trouble'
<1> DEFINE i == num[t]
<1>1. /\ t \in Tasks \ {recovery} /\ t \notin Workers /\ t \notin Cancellers
      /\ pc[t] = "decide" /\ todo[t] = <<>>
      /\ UNCHANGED <<conversation, situation, store, mode, flagged, ticket, handle, num, tid>>
  BY Disjoint DEF SubmitReply, At, steady, server
<1>2. mode = "up" /\ t \in Deciding /\ t \in Looking
  BY <1>1, BusyIsUp DEF Token, Deciding, Looking
<1>3. i \in Attempts /\ \A a \in Pending : a = i
  BY <1>2 DEF Token, Core, OneMind, OneQuestion, Minded
<1>4. First(i) <=> i \in Pending
  BY <1>3 DEF First, Pending
<1>5. CASE pc' = [pc EXCEPT ![t] = "done"] /\ todo' = todo /\ ~First(i)
  <2>1. inter' = inter
    BY <1>5 DEF SubmitReply
  <2> QED BY <1>1, <1>2, <1>5, <2>1, SideStepInTrouble DEF Owning
<1>6. ASSUME pc' = [pc EXCEPT ![t] = "issue"],
             NEW writes, todo' = [todo EXCEPT ![t] = writes],
             \A x \in Range(writes) : x.status = "queued"
      PROVE  Trouble'
  <2>1. Askers = {}
    <3>1. \A w \in Workers : w \notin Askers
      BY <1>2 DEF Trouble, AskersFirst
    <3>2. Askers \subseteq Workers
      BY DEF Askers, Arms
    <3> QED BY <3>1, <3>2
  <2>2. Moves(t, "issue", Range(writes)) /\ \A u \in Tasks \ {t} : pc'[u] = pc[u]
    BY <1>1, <1>6, MoveOwing
  <2>3. CASE First(i)
    <3>1. ticket.target <= i /\ ticket.target \in Nat /\ i \in Nat
      BY <1>1, <1>3, <1>4, <2>3 DEF Token, Core, OneQuestion, TypeOK
    <3>2. ~SameTicket(t)'
      BY <1>1, <3>1 DEF SameTicket
    <3>3. t \in Issuing'
      BY <2>2 DEF Moves, Issuing
    <3>4. GoesOn'
      BY <3>2, <3>3 DEF GoesOn
    <3> QED BY <1>1, <1>6, <2>1, <3>4, ResumerQueues
  <2>4. CASE ~First(i)
    <3>1. inter' = inter
      BY <2>4 DEF SubmitReply
    <3>2. GoesOn => GoesOn'
      BY <1>1, <2>2, <3>1, GoesOnKept, Disjoint DEF Owning
    <3> QED BY <1>1, <1>6, <2>1, <3>2, ResumerQueues
  <2> QED BY <2>3, <2>4
<1>7. CASE /\ pc' = [pc EXCEPT ![t] = "issue"]
           /\ todo' = [todo EXCEPT ![t] = <<Put("row", "queued")>>]
  <2>1. \A x \in Range(<<Put("row", "queued")>>) : x.status = "queued"
    BY ProjectionRanges, PutIs
  <2> QED BY <1>6, <1>7, <2>1
<1>8. CASE /\ pc' = [pc EXCEPT ![t] = "issue"]
           /\ todo' = [todo EXCEPT ![t] = NonTerminalProjection("queued") \o <<Put("row", "queued")>>]
  <2>1. Range(NonTerminalProjection("queued") \o <<Put("row", "queued")>>)
          = {Put("state", "queued"), Put("row", "queued")}
    BY ProjectionRanges DEF Statuses
  <2>2. \A x \in Range(NonTerminalProjection("queued") \o <<Put("row", "queued")>>) :
          x.status = "queued"
    BY <2>1, PutIs
  <2> QED BY <1>6, <1>8, <2>2
<1> QED BY <1>5, <1>7, <1>8 DEF SubmitReply, GotoOwing, Goto

LEMMA TicketIssuedInTrouble ==
  ASSUME TypeOK, Token, Trouble, NEW t \in Resumers, IssueTicket(t)
  PROVE  Trouble'
<1> DEFINE writes == NonTerminalProjection("queued")
           W == {Put("state", "queued"), Put("row", "queued")}
<1>1. /\ pc[t] = "issue" /\ todo[t] = <<>>
      /\ pc' = [pc EXCEPT ![t] = "dispatch"] /\ todo' = [todo EXCEPT ![t] = writes]
      /\ UNCHANGED <<conversation, situation, store, mode, flagged, inter, handle>>
  BY DEF IssueTicket, At, GotoOwing, Goto, steady, server
<1>2. Range(writes) = W /\ Pending' = Pending
  BY <1>1, ProjectionRanges DEF Pending
<1>3. (\A x \in W : x.status = "queued") /\ Leaves(W)
  BY PutIs DEF Leaves
<1> HIDE DEF W, writes
<1> QED BY <1>1, <1>2, <1>3, ResumerQueues

\* A job is started by a ticket dispatched or a reader.
LEMMA SpawnInTrouble ==
  ASSUME TypeOK, Token, Trouble, NEW t \in Resumers \cup Pollers, NEW n, Starts(n),
         (t \in Resumers /\ pc[t] = "dispatch") \/ (t \in Pollers /\ pc[t] = "redrive"),
         todo[t] = <<>>,
         pc' = [pc EXCEPT ![t] = "done", ![n] = "ticket"], Redrivable, Redrivable',
         UNCHANGED <<conversation, situation, store, mode, handle, todo>>
  PROVE  Trouble'
<1>1. /\ t \in Tasks \ {recovery} /\ t \notin Workers /\ t \notin Cancellers
      /\ n \in Workers /\ n \in Tasks /\ pc[n] = "idle"
      /\ UNCHANGED <<flagged, inter>> /\ ticket'.id = ticket.id
  BY Disjoint DEF Starts
<1>2. pc'[t] = "done" /\ pc'[n] = "ticket" /\ \A u \in Tasks \ {t, n} : pc'[u] = pc[u]
  BY <1>1 DEF TypeOK
<1>3. mode = "up"
  BY <1>1, BusyIsUp DEF Token
<1>4. Moves(t, "done", {})
  <2>1. Range(todo'[t]) = {} /\ Owed' = Owed \cup {}
    BY OwedSame DEF Range
  <2>2. \A u \in Tasks \ {t} : Aside(u) /\ todo'[u] = todo[u]
    BY <1>1, <1>2 DEF Aside
  <2> QED BY <1>2, <2>1, <2>2 DEF Moves
<1>5. t \notin Looking' /\ t \notin Dispatching'
  BY <1>2 DEF Looking, Dispatching
<1>6. GoesOn' /\ Pending' = Pending
  <2>1. tid'[n] = ticket'.id
    BY <1>1 DEF Starts, TypeOK
  <2> QED BY <1>1, <1>2, <2>1 DEF GoesOn, TicketHeld, Pending
<1>7. /\ HandleKept' /\ AskersWait' /\ AskersFirst' /\ WaitingGoesOn' /\ NoHandleYet'
      /\ ServerStands'
  BY <1>1, <1>3, <1>4, <1>5, <1>6, MoveKeeps
<1>8. AloneAtEnd'
  BY <1>1, <1>4, <1>5, MoveAlone
<1>9. ASSUME situation = "crash" PROVE ~Ending
  <2>1. t \in Dispatching \/ (t \in Pollers /\ pc[t] = "redrive")
    BY Disjoint DEF Dispatching
  <2> QED BY <1>9, <2>1 DEF Trouble, EndsWell, Still
<1>10. EndsWell' /\ RowLast'
  <2>1. ASSUME situation = "crash" PROVE EndsWell' /\ RowLast'
    BY <1>1, <1>3, <1>4, <1>9, <2>1, MoveBeforeEnd
  <2> QED BY <2>1 DEF EndsWell, RowLast
<1> QED BY <1>7, <1>8, <1>10 DEF Trouble

LEMMA DispatchInTrouble ==
  ASSUME TypeOK, Token, Trouble, NEW t \in Resumers, DispatchTicket(t)
  PROVE  Trouble'
<1>1. /\ pc[t] = "dispatch" /\ todo[t] = <<>> /\ t \in Tasks \ {recovery} /\ t \notin Cancellers
      /\ UNCHANGED <<conversation, situation, store, mode, flagged, inter, handle, todo>>
  BY Disjoint DEF DispatchTicket, At, steady, server
<1>2. CASE ticket.id = tid[t] /\ ticket.state = "issued"
  <2> DEFINE n == NewWorker
  <2>1. n \in Workers /\ pc[n] = "idle" /\ n \in Tasks /\ n # t /\ n \notin Resumers
    BY <1>1, NewWorkerIsIdle, Disjoint
  <2>2. /\ ticket' = [ticket EXCEPT !.state = "dispatched"]
        /\ num' = [num EXCEPT ![n] = num[t] + 1] /\ tid' = [tid EXCEPT ![n] = tid[t]]
        /\ pc' = [pc EXCEPT ![t] = "done", ![n] = "ticket"]
    BY <1>2 DEF DispatchTicket, Spawn
  <2> HIDE DEF n
  <2>3. ticket.id > 0 /\ num[t] + 1 = ticket.target
    BY <1>1, <1>2 DEF Token, Core, Tickets
  <2>4. /\ ticket'.state = "dispatched" /\ ticket'.id = ticket.id
        /\ ticket'.by = ticket.by /\ ticket'.target = ticket.target
        /\ Redrivable /\ Redrivable'
    BY <1>2, <2>2 DEF TypeOK, Redrivable
  <2>5. pc'[n] = "ticket" /\ pc'[t] = "done" /\ \A u \in Tasks : u # n /\ u # t => pc'[u] = pc[u]
    BY <1>1, <2>1, <2>2 DEF TypeOK
  <2>6. t \notin Workers
    BY Disjoint
  <2>7. Starts(n)
    BY <1>1, <1>2, <2>1, <2>2, <2>3, <2>4, <2>5, <2>6 DEF Starts
  <2> QED BY <1>1, <2>2, <2>4, <2>7, SpawnInTrouble
<1>3. CASE ~(ticket.id = tid[t] /\ ticket.state = "issued")
  <2>1. pc' = [pc EXCEPT ![t] = "done"] /\ UNCHANGED <<ticket, num, tid>>
    BY <1>3 DEF DispatchTicket, Goto
  <2>2. mode = "up"
    BY <1>1, BusyIsUp DEF Token
  <2> QED BY <1>1, <1>3, <2>1, <2>2, SideStepInTrouble DEF Owning
<1> QED BY <1>2, <1>3

-----------------------------------------------------------------------------
(* Readers and cancels in trouble *)

LEMMA ReaderInTrouble ==
  ASSUME TypeOK, Token, Trouble, NEW t \in Pollers, PollReadsQueued(t) \/ Redrive(t)
  PROVE  Trouble'
<1>1. /\ t \in Tasks \ {recovery} /\ t \notin Workers /\ t \notin Resumers /\ t \notin Cancellers
      /\ todo[t] = <<>> /\ pc[t] \in {"idle", "redrive"}
      /\ UNCHANGED <<conversation, situation, store, mode, flagged, inter, ticket, handle, todo>>
  BY Disjoint DEF PollReadsQueued, Redrive, At, data, steady, server
<1>2. CASE PollReadsQueued(t)
  <2>1. /\ mode = "up" /\ store.state = "queued" /\ UNCHANGED <<num, tid>>
        /\ pc' = [pc EXCEPT ![t] = "redrive"] /\ pc[t] = "idle"
    BY <1>2 DEF PollReadsQueued, At, Goto
  <2>2. situation = "crash" /\ Ending => ~Redrivable
    <3>1. store.state \notin Terminal
      BY <2>1 DEF Terminal
    <3> QED BY <2>1, <3>1 DEF Trouble, EndsWell, StateFirst
  <2> QED BY <1>1, <2>1, <2>2, SideStepInTrouble DEF Owning
<1>3. CASE Redrive(t) /\ ~Redrivable
  <2>1. pc' = [pc EXCEPT ![t] = "done"] /\ UNCHANGED <<num, tid>> /\ pc[t] = "redrive"
    BY <1>3 DEF Redrive, At, Goto
  <2>2. mode = "up"
    BY <1>1, <2>1, BusyIsUp DEF Token
  <2> QED BY <1>1, <2>1, <2>2, SideStepInTrouble DEF Owning
<1>4. CASE Redrive(t) /\ Redrivable
  <2> DEFINE n == NewWorker
  <2>1. n \in Workers /\ pc[n] = "idle" /\ n \in Tasks /\ n # t
    BY <1>1, NewWorkerIsIdle, Disjoint
  <2>2. /\ num' = [num EXCEPT ![n] = ticket.target] /\ tid' = [tid EXCEPT ![n] = ticket.id]
        /\ pc' = [pc EXCEPT ![t] = "done", ![n] = "ticket"] /\ pc[t] = "redrive"
    BY <1>4 DEF Redrive, Spawn, At
  <2> HIDE DEF n
  <2>3. ticket.id > 0
    BY <1>4 DEF Token, Core, Tickets, Redrivable, TypeOK
  <2>4. pc'[n] = "ticket" /\ pc'[t] = "done" /\ \A u \in Tasks : u # n /\ u # t => pc'[u] = pc[u]
    BY <1>1, <2>1, <2>2 DEF TypeOK
  <2>5. Starts(n)
    BY <1>1, <2>1, <2>2, <2>3, <2>4 DEF Starts
  <2>6. Redrivable'
    BY <1>1, <1>4 DEF Redrivable
  <2> QED BY <1>1, <1>4, <2>2, <2>5, <2>6, SpawnInTrouble
<1> QED BY <1>2, <1>3, <1>4

LEMMA CancelInTrouble ==
  ASSUME TypeOK, Token, Troubled, Trouble, NEW t \in Cancellers,
         CancelArrives(t) \/ SetCancelRequested(t) \/ Kill(t) \/ ProjectCanceled(t)
  PROVE  Trouble'
<1>1. t \in Tasks \ {recovery} /\ t \notin Workers /\ t \notin Resumers /\ t \notin Pollers
  BY Disjoint
<1>2. situation = "cancel"
  <2>1. CASE CancelArrives(t)
    BY <2>1 DEF CancelArrives
  <2>2. CASE ~CancelArrives(t)
    <3>1. pc[t] \notin {"idle", "done"}
      BY <2>2 DEF SetCancelRequested, Kill, ProjectCanceled, At
    <3> QED BY <3>1 DEF Troubled, Trouble, ServerStands
  <2> QED BY <2>1, <2>2
<1>3. mode = "up"
  BY <1>2 DEF Trouble, ServerStands
<1>4. CASE CancelArrives(t) \/ SetCancelRequested(t)
  <2>1. \E s \in {"flag", "flag_kill", "project", "kill"} : pc' = [pc EXCEPT ![t] = s]
    BY <1>4 DEF CancelArrives, SetCancelRequested, Goto
  <2>2. /\ todo[t] = <<>> /\ pc[t] \in {"idle", "flag", "flag_kill"} /\ (flagged => flagged')
        /\ UNCHANGED <<conversation, situation, store, mode, inter, ticket, handle, todo, num, tid>>
    BY <1>4 DEF CancelArrives, SetCancelRequested, At, data, steady, server
  <2>3. PICK s \in {"flag", "flag_kill", "project", "kill"} : pc' = [pc EXCEPT ![t] = s]
    BY <2>1
  <2> QED BY <1>1, <1>2, <1>3, <2>2, <2>3, SideStepInTrouble DEF Owning
<1>5. CASE Kill(t)
  <2>1. /\ pc[t] = "kill" /\ todo[t] = <<>>
        /\ pc' = [u \in Tasks |-> CASE u = t -> "project"
                                    [] u \in Workers /\ pc[u] = "engine" -> "ended"
                                    [] u \in Workers /\ pc[u] = "repair" -> "killed"
                                    [] OTHER -> pc[u]]
        /\ UNCHANGED <<conversation, situation, store, mode, flagged, inter, ticket, handle,
                       todo, num, tid>>
    BY <1>5 DEF Kill, At, data, steady, server
  <2>2. flagged
    BY <2>1 DEF Token, Servers
  <2>3. pc'[t] = "project"
    BY <1>1, <2>1
  <2>4. ASSUME NEW u \in Tasks \ {t} PROVE Aside(u) /\ (u \notin Workers => pc'[u] = pc[u])
    <3>1. CASE u \in Workers /\ pc[u] = "engine"
      BY <2>1, <2>2, <2>4, <3>1 DEF Aside
    <3>2. CASE u \in Workers /\ pc[u] = "repair"
      BY <2>1, <2>2, <2>4, <3>2 DEF Aside
    <3>3. CASE ~(u \in Workers /\ pc[u] \in {"engine", "repair"})
      BY <2>1, <2>4, <3>3 DEF Aside
    <3> QED BY <3>1, <3>2, <3>3
  <2>5. Moves(t, "project", {})
    <3>1. Range(todo'[t]) = {} /\ Owed' = Owed \cup {}
      BY <2>1, OwedSame DEF Range
    <3> QED BY <2>1, <2>3, <2>4, <3>1 DEF Moves
  <2>6. Pending' = Pending /\ t \notin Looking'
    BY <2>1, <2>3 DEF Pending, Looking
  <2>7. GoesOn => GoesOn'
    BY <1>1, <2>1, <2>4, <2>5, GoesOnKept, Disjoint DEF Owning
  <2>8. /\ HandleKept' /\ AskersWait' /\ AskersFirst' /\ WaitingGoesOn' /\ NoHandleYet'
        /\ ServerStands'
    BY <1>1, <1>2, <1>3, <2>1, <2>5, <2>6, <2>7, MoveKeeps
  <2>9. situation' = "cancel"
    BY <1>2, <2>1
  <2> QED BY <2>8, <2>9 DEF Trouble, AloneAtEnd, EndsWell, RowLast
<1>6. CASE ProjectCanceled(t)
  BY <1>1, <1>2, <1>6, EndsAnyway DEF ProjectCanceled, data, steady, server, Terminal
<1> QED BY <1>4, <1>5, <1>6

-----------------------------------------------------------------------------
(* Crash and restart in trouble *)

\* A server that is not up has nobody at work.
Asleep == \A t \in Tasks \ {recovery} : pc[t] \in {"idle", "done"}
Resting ==
  /\ Still /\ Requeuing = {} /\ \A w \in Workers : ~Asking(w) /\ pc[w] # "killed"
  /\ \A t \in Resumers \cup Cancellers : pc[t] \in {"idle", "done"}
LEMMA AsleepIsResting == Asleep => Resting
<1> SUFFICES ASSUME Asleep PROVE Resting
  OBVIOUS
<1>1. \A t \in Workers \cup Resumers \cup Pollers \cup Cancellers : pc[t] \in {"idle", "done"}
  BY Disjoint DEF Asleep
<1>2. /\ Owners = {} /\ Unstarted = {} /\ Arms = {}
      /\ Looking = {} /\ Issuing = {} /\ Dispatching = {} /\ Requeuing = {}
  BY <1>1 DEF Owners, Owning, Unstarted, Arms, Looking, Issuing, Dispatching, Requeuing
<1>3. /\ \A w \in Workers : ~Asking(w) /\ pc[w] # "killed" /\ pc[w] \notin {"new", "ticket"}
      /\ \A t \in Pollers : pc[t] # "redrive"
  BY <1>1 DEF Asking
<1> QED BY <1>1, <1>2, <1>3 DEF Resting, Still
LEMMA AsleepIsRestingNext == Asleep' => Resting'
  BY AsleepIsResting, PTL

LEMMA NobodyOwes == ASSUME TypeOK, Owed = {} PROVE Waiters = {} /\ \A t \in Tasks : todo[t] = <<>>
  BY OwedNone DEF Waiters, Owed

LEMMA CrashInTrouble ==
  ASSUME TypeOK, Token, Trouble, Crash
  PROVE  Trouble'
<1>1. /\ situation = "crash" /\ mode' = "down"
      /\ UNCHANGED <<conversation, situation, store, flagged, inter, ticket, handle>>
      /\ \A t \in Tasks : todo'[t] = <<>> /\ pc'[t] \in {"idle", "done"}
  BY DEF Crash, data
<1>2. Asleep' /\ Owed' = {} /\ Waiters' = {}
  BY <1>1 DEF Asleep, Owed, Waiters, Range
<1>3. Resting'
  BY <1>2, AsleepIsRestingNext
<1>4. Askers' = {} /\ Arms' = {}
  BY <1>2, <1>3 DEF Askers, Resting, Still
<1>5. HandleKept' /\ AskersWait' /\ AskersFirst' /\ WaitingGoesOn'
  BY <1>1, <1>2, <1>3, <1>4
     DEF HandleKept, AskersWait, AskersFirst, WaitingGoesOn, Trouble, Resting
<1>6. NoHandleYet'
  BY <1>1, <1>3 DEF NoHandleYet, Trouble, Resting
<1>7. ServerStands' /\ AloneAtEnd'
  <2>1. \A t \in Cancellers : todo'[t] = <<>>
    BY <1>1, Disjoint
  <2>2. ~flagged'
    BY <1>1 DEF Trouble, ServerStands
  <2> QED BY <1>1, <1>2, <1>3, <2>1, <2>2 DEF ServerStands, AloneAtEnd, Resting
<1>8. store.row \in Terminal => store.state \in Terminal
  BY <1>1 DEF Trouble, EndsWell, Ending, StateFirst
<1>9. EndsWell'
  <2>1. StateFirst'
    BY <1>1, <1>8 DEF StateFirst
  <2> QED BY <1>2, <1>3, <2>1 DEF EndsWell, Resting
<1>10. RowLast'
  <2>1. PreserveWaiting' = PreserveWaiting /\ RedriveTicket' = RedriveTicket
    BY <1>1 DEF PreserveWaiting, RedriveTicket, Redrivable, Pending
  <2> QED BY <1>1, <1>2, <2>1 DEF RowLast, Trouble, Ending
<1> QED BY <1>5, <1>6, <1>7, <1>9, <1>10 DEF Trouble

\* The run is left as it is, its ticket is redriven, or it is failed.
LEMMA RestartInTrouble ==
  ASSUME TypeOK, Token, Troubled, Trouble, Restart
  PROVE  Trouble'
<1>1. /\ mode = "down" /\ situation = "crash" /\ Owed = {}
      /\ UNCHANGED <<conversation, situation, store, flagged, inter, ticket, handle>>
  BY DEF Restart, Troubled, Trouble, ServerStands, data
<1>2. Asleep /\ Resting
  BY <1>1, AsleepIsResting DEF Token, Servers, Asleep
<1>3. Waiters = {} /\ \A t \in Tasks : todo[t] = <<>>
  BY <1>1, NobodyOwes
<1>4. store.row \in Terminal => store.state \in Terminal
  BY <1>1 DEF Trouble, EndsWell, Ending, StateFirst
<1>5. store.state \in Terminal => store.state # "waiting_user"
  BY DEF Terminal
<1>6. PreserveWaiting' = PreserveWaiting /\ RedriveTicket' = RedriveTicket /\ Pending' = Pending
  BY <1>1 DEF PreserveWaiting, RedriveTicket, Redrivable, Pending
<1>7. ~flagged /\ \A t \in Cancellers \cup {recovery} : t \in Tasks
  BY <1>1, Disjoint DEF Trouble, ServerStands
<1>8. CASE (store.row \in Terminal \/ PreserveWaiting) /\ mode' = "up" /\ UNCHANGED <<pc, todo, num, tid>>
  <2>1. Asleep' /\ Owed' = {} /\ Waiters' = {}
    BY <1>1, <1>2, <1>3, <1>8 DEF Asleep, Owed, Waiters
  <2>2. Resting'
    BY <2>1, AsleepIsRestingNext
  <2>3. Askers' = {} /\ Arms' = {}
    BY <2>1, <2>2 DEF Askers, Resting, Still
  <2>4. HandleKept' /\ AskersWait' /\ AskersFirst'
    BY <1>1, <2>1, <2>2, <2>3
       DEF HandleKept, AskersWait, AskersFirst, Trouble, Resting
  <2>5. WaitingGoesOn'
    <3>1. store.state = "waiting_user" => Pending # {}
      BY <1>4, <1>5, <1>8 DEF PreserveWaiting
    <3> QED BY <1>1, <1>6, <3>1 DEF WaitingGoesOn, GoesOn
  <2>6. NoHandleYet'
    BY <1>1, <2>2 DEF NoHandleYet, Trouble, Resting
  <2>7. ServerStands' /\ AloneAtEnd'
    BY <1>1, <1>3, <1>7, <1>8, <2>2 DEF ServerStands, AloneAtEnd, Resting
  <2>8. EndsWell'
    <3>1. Ending' => store.row \in Terminal
      BY <1>1, <2>1 DEF Ending
    <3>2. Ending' => StateFirst'
      BY <1>1, <1>4, <3>1 DEF StateFirst
    <3> QED BY <2>1, <2>2, <3>2 DEF EndsWell, Resting
  <2>9. RowLast'
    <3>1. Ending' => store.row \in Terminal
      BY <1>1, <2>1 DEF Ending
    <3> QED BY <1>1, <1>8, <3>1 DEF RowLast, Trouble
  <2> QED BY <2>4, <2>5, <2>6, <2>7, <2>8, <2>9 DEF Trouble
<1>9. CASE RedriveTicket /\ mode' = "up" /\ Spawn(ticket.target, ticket.id)
             /\ Goto(NewWorker, "ticket") /\ UNCHANGED todo
  <2> DEFINE n == NewWorker
  <2>1. n \in Workers /\ n \in Tasks /\ n # recovery /\ n \notin Resumers \cup Cancellers
    BY NewWorkerIsIdle, Disjoint
  <2>2. tid' = [tid EXCEPT ![n] = ticket.id] /\ pc' = [pc EXCEPT ![n] = "ticket"]
    BY <1>9 DEF Spawn, Goto
  <2> HIDE DEF n
  <2>3. pc'[n] = "ticket" /\ tid'[n] = ticket.id /\ \A t \in Tasks \ {n} : pc'[t] = pc[t]
    BY <2>1, <2>2 DEF TypeOK
  <2>4. Owed' = {} /\ Waiters' = {}
    BY <1>1, <1>3, <1>9 DEF Owed, Waiters
  <2>5. \A w \in Workers : ~Asking(w)' /\ pc'[w] \notin {"killed", "arm", "autoresume"}
    <3> SUFFICES ASSUME NEW w \in Workers
                 PROVE  ~Asking(w)' /\ pc'[w] \notin {"killed", "arm", "autoresume"}
      OBVIOUS
    <3>1. w \in Tasks \ {recovery}
      BY Disjoint
    <3> QED BY <1>2, <2>3, <3>1 DEF Asking, Asleep
  <2>6. Askers' = {} /\ Arms' = {} /\ Requeuing' = {}
    BY <2>4, <2>5 DEF Askers, Arms, Requeuing
  <2>7. \A t \in Resumers \cup Cancellers : pc'[t] \in {"idle", "done"}
    <3>1. \A t \in Resumers \cup Cancellers : t \in Tasks \ {n}
      BY <2>1, Disjoint
    <3> QED BY <1>2, <2>3, <3>1 DEF Resting
  <2>8. HandleKept' /\ AskersWait' /\ AskersFirst'
    BY <1>1, <2>4, <2>5, <2>6
       DEF HandleKept, AskersWait, AskersFirst, Trouble
  <2>9. WaitingGoesOn'
    <3>1. Redrivable'
      BY <1>1, <1>9 DEF RedriveTicket, Redrivable
    <3>2. TicketHeld'
      BY <1>1, <2>1, <2>3, <3>1 DEF TicketHeld
    <3> QED BY <3>2 DEF WaitingGoesOn, GoesOn
  <2>10. NoHandleYet'
    BY <1>1, <2>7 DEF NoHandleYet, Trouble
  <2>11. ServerStands' /\ AloneAtEnd'
    BY <1>1, <1>3, <1>7, <1>9, <2>5, <2>6, <2>7 DEF ServerStands, AloneAtEnd
  <2>12. store.row \notin Terminal /\ store.state \notin Terminal
    <3>1. store.row \notin Terminal
      BY <1>9 DEF RedriveTicket, Terminal
    <3> QED BY <1>1, <1>9, <3>1 DEF Trouble, RowLast
  <2>13. EndsWell' /\ RowLast'
    BY <1>1, <2>4, <2>12 DEF EndsWell, RowLast, Ending
  <2> QED BY <2>8, <2>9, <2>10, <2>11, <2>13 DEF Trouble
<1>10. CASE store.row \notin Terminal /\ ~PreserveWaiting /\ ~RedriveTicket /\ mode' = "recovering"
             /\ GotoOwing(recovery, "clear", TerminalProjection("failed") \o <<Put("row", "failed")>>)
             /\ UNCHANGED <<num, tid>>
  <2> DEFINE writes == TerminalProjection("failed") \o <<Put("row", "failed")>>
             W == {Put("state", "failed"), Put("row", "failed"), Put("result", "failed")}
  <2>1. pc' = [pc EXCEPT ![recovery] = "clear"] /\ todo' = [todo EXCEPT ![recovery] = writes]
    BY <1>10 DEF GotoOwing, Goto
  <2>2. Range(writes) = W /\ writes # <<>> /\ Head(writes) = Put("state", "failed")
    BY ProjectionRanges, TerminalHead DEF Terminal
  <2>3. (\A x \in W : x.status = "failed") /\ \E x \in W : x.to = "row" /\ x.status = "failed"
    BY PutIs
  <2> HIDE DEF W, writes
  <2>4. recovery \in Tasks /\ todo[recovery] = <<>>
    BY <1>3, <1>7
  <2>5. Owed' = W /\ todo'[recovery] = writes /\ \A t \in Tasks \ {recovery} : todo'[t] = <<>>
    <3>1. Owed' = Owed \cup Range(writes)
      BY <2>1, <2>4, OwedMore
    <3>2. todo'[recovery] = writes /\ \A t \in Tasks \ {recovery} : todo'[t] = <<>>
      BY <1>3, <2>1, <2>4 DEF TypeOK
    <3> QED BY <1>1, <2>2, <3>1, <3>2
  <2>6. Asleep'
    BY <1>2, <2>1 DEF Asleep, TypeOK
  <2>7. Resting'
    BY <2>6, AsleepIsRestingNext
  <2>8. Waiters' = {}
    <3> SUFFICES ASSUME NEW t \in Tasks, NEW x \in Range(todo'[t]) PROVE x.status # "waiting_user"
      BY DEF Waiters
    <3>1. x \in Owed'
      BY DEF Owed
    <3> QED BY <2>3, <2>5, <3>1
  <2>9. Askers' = {} /\ Arms' = {}
    BY <2>7, <2>8 DEF Askers, Resting, Still
  <2>10. HandleKept' /\ AskersWait' /\ AskersFirst' /\ WaitingGoesOn'
    BY <1>1, <1>10, <2>7, <2>8, <2>9
       DEF HandleKept, AskersWait, AskersFirst, WaitingGoesOn, Trouble, Resting
  <2>11. NoHandleYet'
    BY <1>1, <2>7 DEF NoHandleYet, Trouble, Resting
  <2>12. \E x \in Owed' : x.to = "row" /\ x.status \in Terminal
    BY <2>3, <2>5 DEF Terminal
  <2>13. ServerStands' /\ AloneAtEnd'
    <3>1. \A t \in Cancellers : todo'[t] = <<>>
      BY <2>5, Disjoint
    <3> QED BY <1>1, <1>7, <1>10, <2>5, <2>7, <2>12, <3>1
            DEF ServerStands, AloneAtEnd, Resting
  <2>14. EndsWell'
    <3>1. StateFirst'
      <4>1. \A t \in Tasks : todo'[t] # <<>> => Head(todo'[t]).to = "state"
        BY <2>2, <2>5, PutIs
      <4> QED BY <1>1, <1>10, <4>1 DEF StateFirst
    <3>2. \A x \in Owed' : x.status \in Terminal
      BY <2>3, <2>5 DEF Terminal
    <3> QED BY <2>7, <3>1, <3>2 DEF EndsWell, Resting
  <2>15. RowLast'
    BY <1>6, <1>10, <2>12 DEF RowLast
  <2> QED BY <2>10, <2>11, <2>13, <2>14, <2>15 DEF Trouble
<1> QED BY <1>8, <1>9, <1>10 DEF Restart

\* The failed run has lost its question and its session.
LEMMA ClearInTrouble ==
  ASSUME TypeOK, Token, Troubled, Trouble, ClearBindings
  PROVE  Trouble'
<1>1. /\ pc[recovery] = "clear" /\ todo[recovery] = <<>> /\ mode = "recovering" /\ mode' = "up"
      /\ UNCHANGED <<conversation, situation, store, flagged, ticket, todo, num, tid>>
      /\ pc' = [pc EXCEPT ![recovery] = "idle"] /\ ~handle'
  BY DEF ClearBindings, At, Goto, Token, Servers
<1>2. situation = "crash" /\ Asleep
  BY <1>1 DEF Troubled, Trouble, ServerStands, Token, Servers, Asleep
<1>3. Asleep'
  BY <1>1, <1>2 DEF Asleep, TypeOK
<1>4. Resting'
  BY <1>3, AsleepIsRestingNext
<1>5. \A t \in Tasks : todo[t] = <<>>
  BY <1>1 DEF Trouble, ServerStands
<1>6. Owed = {} /\ Owed' = {} /\ Waiters' = {}
  BY <1>1, <1>5 DEF Owed, Waiters, Range
<1>7. store.row \in Terminal
  BY <1>1, <1>6 DEF Trouble, ServerStands
<1>8. store.state \in Terminal /\ store.state # "waiting_user"
  <2>1. store.state \in Terminal
    BY <1>2, <1>7 DEF Trouble, EndsWell, Ending, StateFirst
  <2> QED BY <2>1 DEF Terminal
<1>9. Askers' = {} /\ Arms' = {}
  BY <1>4, <1>6 DEF Askers, Resting, Still
<1>10. HandleKept' /\ AskersWait' /\ AskersFirst' /\ WaitingGoesOn'
  BY <1>1, <1>4, <1>6, <1>8, <1>9
     DEF HandleKept, AskersWait, AskersFirst, WaitingGoesOn, Resting
<1>11. NoHandleYet'
  BY <1>1, <1>2, <1>4, <1>7 DEF NoHandleYet, Resting
<1>12. ServerStands' /\ AloneAtEnd'
  <2>1. \A t \in Cancellers : t \in Tasks
    BY Disjoint
  <2>2. ~flagged
    BY <1>2 DEF Trouble, ServerStands
  <2> QED BY <1>1, <1>2, <1>4, <1>5, <2>1, <2>2 DEF ServerStands, AloneAtEnd, Resting
<1>13. EndsWell' /\ RowLast'
  BY <1>1, <1>4, <1>6, <1>7, <1>8 DEF EndsWell, RowLast, StateFirst, Resting
<1> QED BY <1>10, <1>11, <1>12, <1>13 DEF Trouble

-----------------------------------------------------------------------------
(* A waiting run can be answered *)

LEMMA WorkerInTrouble ==
  ASSUME TypeOK, Token, Troubled, Trouble, NEW w \in Workers,
         WorkerStep(w) \/ RejectRun(w) \/ AuditFails(w)
  PROVE  Trouble'
<1>1. ~AuditFails(w)
  BY DEF AuditFails, Troubled
<1>2. ~FinishRequeued(w)
  BY DEF FinishRequeued, At, Trouble, ServerStands, Requeuing
<1>3. CASE StartTicket(w)
  <2>1. pc'[w] \in {"claim", "done"}
    <3>1. w \in Tasks
      BY Disjoint
    <3> QED BY <1>3, <3>1 DEF StartTicket, Goto, TypeOK
  <2> QED BY <1>3, <2>1, JobStartsInTrouble, JobStepsAside
<1>4. CASE TurnSucceeded(w)
  <2>1. CASE pc[w] = "resolve"
    BY <1>4, <2>1, TurnEndsInTrouble
  <2>2. CASE pc[w] = "bundle" /\ todo'[w] = <<>>
    BY <1>4, <2>2, JobStepsAside
  <2>3. CASE pc[w] = "bundle" /\ todo'[w] # <<>>
    <3>1. CanFail("bundle") /\ At(w, "bundle") /\ Finish(w, "failed")
      BY <1>4, <2>3 DEF TurnSucceeded, At
    <3>2. situation = "cancel" /\ w \in Tasks \ {recovery}
      BY <3>1, Disjoint DEF CanFail
    <3>3. UNCHANGED <<conversation, situation, store, mode, flagged, inter, ticket, handle>>
      BY <1>4 DEF TurnSucceeded, Converged, data, server
    <3> QED BY <3>1, <3>2, <3>3, EndsAnyway DEF Terminal
  <2>4. pc[w] \in {"resolve", "bundle"}
    BY <1>4 DEF TurnSucceeded, At
  <2> QED BY <2>1, <2>2, <2>3, <2>4
<1> QED BY <1>1, <1>2, <1>3, <1>4, JobStepsAside, PhaseAdvancesInTrouble, AttemptGoesOnInTrouble,
           EngineExitsInTrouble, TurnEndsInTrouble, TurnAsksInTrouble, WaitingFinishedInTrouble
    DEF WorkerStep

LEMMA TroubleStep ==
  ASSUME TypeOK, Token, Troubled, Trouble, [Next]_vars PROVE Trouble'
<1>1. ASSUME NEW t \in Tasks, Step(t) PROVE Trouble'
  <2>1. CASE Write(t)
    BY <2>1, WriteKeepsTrouble
  <2>2. CASE t \in Workers /\ ~Write(t)
    <3>1. WorkerStep(t) \/ RejectRun(t) \/ AuditFails(t)
      BY <1>1, <2>2, Disjoint DEF Step, Resumers
    <3> QED BY <2>2, <3>1, WorkerInTrouble
  <2>3. CASE t \notin Workers /\ ~Write(t)
    <3>1. \/ /\ t \in Resumers
             /\ \/ t \in Timers /\ TimerFires(t)
                \/ LookUpPending(t) \/ SubmitReply(t) \/ IssueTicket(t) \/ DispatchTicket(t)
          \/ t \in Pollers /\ Redrive(t)
          \/ t \in Cancellers /\ (SetCancelRequested(t) \/ Kill(t) \/ ProjectCanceled(t))
      BY <1>1, <2>3 DEF Step, Resumers
    <3> QED BY <3>1, ResumerArrivesInTrouble, ResumerLooksUpInTrouble, ReplyInTrouble,
               TicketIssuedInTrouble, DispatchInTrouble, ReaderInTrouble, CancelInTrouble
  <2> QED BY <2>1, <2>2, <2>3
<1>2. ASSUME NEW t \in Tasks, Arrival(t) PROVE Trouble'
  BY <1>2, Arrivals, ResumerArrivesInTrouble, ReaderInTrouble, CancelInTrouble
<1>3. CASE UNCHANGED vars
  <2>1. UNCHANGED <<situation, store, flagged, inter, ticket, handle, mode, pc, todo, num, tid>>
    BY <1>3 DEF vars
  <2>2. /\ Owed' = Owed /\ Waiters' = Waiters /\ Arms' = Arms /\ Askers' = Askers
        /\ Owners' = Owners /\ Unstarted' = Unstarted /\ Requeuing' = Requeuing
        /\ Looking' = Looking /\ Issuing' = Issuing /\ Dispatching' = Dispatching
        /\ Redrivable' = Redrivable /\ Pending' = Pending
        /\ \A w \in Workers : Asking(w)' = Asking(w)
    BY <2>1 DEF Owed, Waiters, Arms, Askers, Owners, Unstarted, Requeuing, Looking, Issuing,
                Dispatching, Redrivable, Pending, Asking
  <2>3. GoesOn' <=> GoesOn
    BY <2>1, <2>2 DEF GoesOn, TicketHeld, SameTicket
  <2>4. HandleKept' /\ AskersWait' /\ AskersFirst' /\ WaitingGoesOn' /\ NoHandleYet'
    BY <2>1, <2>2, <2>3
       DEF Trouble, HandleKept, AskersWait, AskersFirst, WaitingGoesOn, NoHandleYet, Leaves
  <2>5. ServerStands' /\ AloneAtEnd'
    BY <2>1, <2>2 DEF Trouble, ServerStands, AloneAtEnd
  <2>6. (Ending' <=> Ending) /\ (Still' <=> Still) /\ (StateFirst' <=> StateFirst)
        /\ (PreserveWaiting' <=> PreserveWaiting) /\ (RedriveTicket' <=> RedriveTicket)
    BY <2>1, <2>2 DEF Ending, Still, StateFirst, PreserveWaiting, RedriveTicket
  <2>7. EndsWell' /\ RowLast'
    BY <2>1, <2>2, <2>6 DEF Trouble, EndsWell, RowLast
  <2> QED BY <2>4, <2>5, <2>7 DEF Trouble
<1> QED BY <1>1, <1>2, <1>3, CrashInTrouble, RestartInTrouble, ClearInTrouble DEF Next

LEMMA TroubleInitially == Init => Trouble
<1> SUFFICES ASSUME Init PROVE Trouble
  OBVIOUS
<1> DEFINE first == <<"worker", 1>>
<1>1. /\ first \in Workers
      /\ \A t \in Tasks : pc[t] \in {"new", "idle"} /\ (t # first => pc[t] = "idle") /\ todo[t] = <<>>
  BY FirstWorker DEF Init
<1> HIDE DEF first
<1>2. Owed = {} /\ Waiters = {}
  BY <1>1 DEF Owed, Waiters, Range
<1>3. /\ mode = "up" /\ ~flagged /\ ticket.id = 0 /\ store.state = "queued" /\ store.row = "queued"
  BY DEF Init
<1>4. /\ \A w \in Workers : w \in Tasks /\ pc[w] \in {"new", "idle"}
      /\ \A t \in Resumers \cup Cancellers : t \in Tasks /\ t # first /\ pc[t] = "idle"
      /\ recovery \in Tasks
  BY <1>1, Disjoint
<1>5. /\ Arms = {} /\ Askers = {} /\ Requeuing = {} /\ Looking = {}
      /\ \A w \in Workers : ~Asking(w)
  BY <1>4 DEF Arms, Askers, Requeuing, Looking, Asking
<1>6. HandleKept /\ AskersWait /\ AskersFirst /\ WaitingGoesOn /\ NoHandleYet
  BY <1>2, <1>3, <1>4, <1>5 DEF HandleKept, AskersWait, AskersFirst, WaitingGoesOn, NoHandleYet
<1>7. ServerStands /\ AloneAtEnd
  BY <1>1, <1>3, <1>4, <1>5 DEF ServerStands, AloneAtEnd
<1>8. EndsWell /\ RowLast
  BY <1>2, <1>3 DEF EndsWell, RowLast, Ending, Terminal
<1> QED BY <1>6, <1>7, <1>8 DEF Trouble

\* Whatever cancels, failures and crashes a session meets, its status is on
\* the move as the definitions above tell: a waiting status is written only
\* for an open question, and once the run's end is under way nothing else is.
THEOREM TroubleAlways == Spec => [](Troubled => Trouble)
<1> DEFINE S == Troubled => Trouble
<1>1. Init => TypeOK /\ Token /\ S
  BY Initially, TroubleInitially
<1>2. TypeOK /\ Token /\ S /\ [Next]_vars => (TypeOK /\ Token /\ S)'
  <2> SUFFICES ASSUME TypeOK, Token, S, [Next]_vars PROVE TypeOK' /\ Token' /\ S'
    OBVIOUS
  <2>1. situation' = situation /\ conversation' = conversation
    BY SituationKept
  <2>2. Troubled' <=> Troubled
    BY <2>1 DEF Troubled, Session, CanFail
  <2> QED BY <2>2, Inductive, TroubleStep
<1> QED BY <1>1, <1>2, PTL DEF Spec

\* A run that is no session never waits.
Harmless(writes) == \A x \in Range(writes) : x.status # "waiting_user"
NeverWaits ==
  ~Session =>
    /\ store.state # "waiting_user" /\ \A x \in Owed : x.status # "waiting_user"
    /\ \A w \in Workers : pc[w] # "arm"

LEMMA HarmlessProjections ==
  ASSUME NEW s \in Statuses \ {"waiting_user"}
  PROVE  /\ Harmless(<<Put("row", s)>>) /\ Harmless(<<Put("state", s)>>)
         /\ Harmless(NonTerminalProjection(s))
         /\ Harmless(NonTerminalProjection(s) \o <<Put("row", s)>>)
         /\ s \in Terminal => Harmless(TerminalProjection(s) \o <<Put("row", s)>>)
<1> DEFINE a == NonTerminalProjection(s)
           b == NonTerminalProjection(s) \o <<Put("row", s)>>
           c == TerminalProjection(s) \o <<Put("row", s)>>
           P == {Put("state", s), Put("row", s), Put("result", s)}
<1>1. /\ Range(<<Put("row", s)>>) \subseteq P /\ Range(<<Put("state", s)>>) \subseteq P
      /\ Range(a) \subseteq P /\ Range(b) \subseteq P /\ (s \in Terminal => Range(c) \subseteq P)
  BY ProjectionRanges
<1>2. \A x \in P : x.status # "waiting_user"
  BY PutIs
<1> HIDE DEF a, b, c, P
<1>3. /\ Harmless(<<Put("row", s)>>) /\ Harmless(<<Put("state", s)>>) /\ Harmless(a)
      /\ Harmless(b) /\ (s \in Terminal => Harmless(c))
  BY <1>1, <1>2 DEF Harmless
<1> QED BY <1>3 DEF a, b, c

\* A step that owes nothing harmful and puts no job where it would wait.
LEMMA StillNeverWaits ==
  ASSUME TypeOK, ~Session, NeverWaits, UNCHANGED store, UNCHANGED conversation,
         NEW t \in Tasks, NEW writes, Harmless(writes),
         todo' = todo \/ todo' = [todo EXCEPT ![t] = writes],
         \A w \in Workers : pc'[w] = "arm" => pc[w] = "arm"
  PROVE  NeverWaits'
<1>1. ASSUME NEW u \in Tasks PROVE Range(todo'[u]) = Range(todo[u]) \/ todo'[u] = writes
  BY DEF TypeOK
<1>2. \A x \in Owed' : x.status # "waiting_user"
  BY <1>1 DEF Owed, Harmless, NeverWaits
<1> QED BY <1>2 DEF NeverWaits

LEMMA WorkerNeverWaits ==
  ASSUME TypeOK, ~Session, NeverWaits, NEW w \in Workers,
         WorkerStep(w) \/ RejectRun(w) \/ AuditFails(w)
  PROVE  NeverWaits'
<1>0. w \in Tasks /\ Harmless(<<>>) /\ ~FinishWaiting(w)
  BY Disjoint DEF Harmless, Range, FinishWaiting, At, NeverWaits
<1>a. ASSUME UNCHANGED <<store, conversation>>, NEW s \in Steps \ {"arm"}, pc' = [pc EXCEPT ![w] = s],
             NEW writes, Harmless(writes), todo' = todo \/ todo' = [todo EXCEPT ![w] = writes]
      PROVE  NeverWaits'
  <2>1. \A v \in Workers : pc'[v] = "arm" => pc[v] = "arm"
    BY <1>a, Disjoint DEF TypeOK
  <2> QED BY <1>0, <1>a, <2>1, StillNeverWaits
<1>1. store' = store /\ conversation' = conversation
  BY <1>0 DEF WorkerStep, Admit, RejectRun, StartTicket, AdvancePhase, AuditFails, CheckCancel, Prepare,
         Launch, EngineExit, RepairRound, TurnFailed, TurnSucceeded, TurnAsks, Converged,
         FinishRequeued, steady, server
<1>2. CASE \E s \in Steps \ {"arm"} : pc' = [pc EXCEPT ![w] = s] /\ todo' = todo
  BY <1>0, <1>1, <1>2, <1>a
<1>3. ASSUME NEW status \in Terminal, Finish(w, status) PROVE NeverWaits'
  <2>1. status \in Statuses \ {"waiting_user"}
    BY DEF Statuses, Terminal
  <2>2. Harmless(TerminalProjection(status) \o <<Put("row", status)>>)
    BY <2>1, HarmlessProjections
  <2>3. /\ pc' = [pc EXCEPT ![w] = "done"]
        /\ todo' = [todo EXCEPT ![w] = TerminalProjection(status) \o <<Put("row", status)>>]
    BY <1>3 DEF Finish, GotoOwing, Goto
  <2> QED BY <1>1, <1>a, <2>2, <2>3 DEF Steps
<1>4. CASE Admit(w) \/ RejectRun(w) \/ AuditFails(w) \/ StartTicket(w) \/ Launch(w)
           \/ EngineExit(w) \/ RepairRound(w)
  BY <1>2, <1>4 DEF Admit, RejectRun, AuditFails, StartTicket, Launch, EngineExit, RepairRound, Goto, Steps
<1>5. CASE AdvancePhase(w)
  <2>1. store.state \in Statuses \ {"waiting_user"}
    BY DEF NeverWaits, TypeOK
  <2>2. Harmless(<<Put("state", store.state)>>)
    BY <2>1, HarmlessProjections
  <2>3. todo' = [todo EXCEPT ![w] = <<Put("state", store.state)>>]
    BY <1>5 DEF AdvancePhase
  <2>4. \E s \in Steps \ {"arm"} : pc' = [pc EXCEPT ![w] = s]
    BY <1>5 DEF AdvancePhase, Goto, Steps
  <2> QED BY <1>1, <1>a, <2>2, <2>3, <2>4
<1>6. CASE CheckCancel(w)
  <2>1. CASE Finish(w, "canceled")
    BY <1>3, <2>1 DEF Terminal
  <2>2. CASE GotoOwing(w, "prepare", NonTerminalProjection("running"))
    <3>1. Harmless(NonTerminalProjection("running"))
      BY HarmlessProjections DEF Statuses
    <3>2. /\ pc' = [pc EXCEPT ![w] = "prepare"]
          /\ todo' = [todo EXCEPT ![w] = NonTerminalProjection("running")]
      BY <2>2 DEF GotoOwing, Goto
    <3> QED BY <1>1, <1>a, <3>1, <3>2 DEF Steps
  <2> QED BY <1>2, <1>6, <2>1, <2>2 DEF CheckCancel, Goto, Steps
<1>7. CASE Prepare(w)
  <2>1. CASE Finish(w, "failed")
    BY <1>3, <2>1 DEF Terminal
  <2> QED BY <1>2, <1>7, <2>1 DEF Prepare, Goto, Steps
<1>8. CASE TurnFailed(w)
  BY <1>3, <1>8 DEF TurnFailed, Terminal
<1>9. CASE TurnSucceeded(w)
  <2>1. CASE Finish(w, "failed")
    BY <1>3, <2>1 DEF Terminal
  <2>2. CASE GotoOwing(w, "bundle", TerminalProjection("succeeded") \o <<Put("row", "succeeded")>>)
    <3>1. Harmless(TerminalProjection("succeeded") \o <<Put("row", "succeeded")>>)
      BY HarmlessProjections DEF Statuses, Terminal
    <3>2. /\ pc' = [pc EXCEPT ![w] = "bundle"]
          /\ todo' = [todo EXCEPT ![w] = TerminalProjection("succeeded") \o <<Put("row", "succeeded")>>]
      BY <2>2 DEF GotoOwing, Goto
    <3> QED BY <1>1, <1>a, <3>1, <3>2 DEF Steps
  <2> QED BY <1>2, <1>9, <2>1, <2>2 DEF TurnSucceeded, Goto, Steps
<1>10. CASE TurnAsks(w)
  <2>1. GotoOwing(w, "autoresume", NonTerminalProjection("queued") \o <<Put("row", "queued")>>)
    BY <1>10 DEF TurnAsks
  <2>2. Harmless(NonTerminalProjection("queued") \o <<Put("row", "queued")>>)
    BY HarmlessProjections DEF Statuses
  <2>3. /\ pc' = [pc EXCEPT ![w] = "autoresume"]
        /\ todo' = [todo EXCEPT ![w] = NonTerminalProjection("queued") \o <<Put("row", "queued")>>]
    BY <2>1 DEF GotoOwing, Goto
  <2> QED BY <1>1, <1>a, <2>2, <2>3 DEF Steps
<1>11. CASE FinishRequeued(w)
  <2>1. pc' = [pc EXCEPT ![w] = "done", ![<<"timer", num[w]>>] = "decide"] /\ todo' = todo
    BY <1>11 DEF FinishRequeued, data, steady
  <2>2. \A v \in Workers : pc'[v] = "arm" => pc[v] = "arm"
    BY <2>1, Disjoint DEF TypeOK
  <2> QED BY <1>0, <1>1, <2>1, <2>2, StillNeverWaits
<1> QED BY <1>0, <1>4, <1>5, <1>6, <1>7, <1>8, <1>9, <1>10, <1>11 DEF WorkerStep

LEMMA OtherNeverWaits ==
  ASSUME TypeOK, ~Session, NeverWaits, NEW t \in Tasks \ Workers, (Step(t) /\ ~Write(t)) \/ Arrival(t)
  PROVE  NeverWaits'
<1>0. t \in Tasks /\ Harmless(<<>>) /\ \A w \in Workers : w \in Tasks /\ w # t
  BY Disjoint DEF Harmless, Range
<1>1. /\ \/ t \in Timers /\ TimerFires(t)
         \/ LookUpPending(t) \/ SubmitReply(t) \/ IssueTicket(t) \/ DispatchTicket(t)
         \/ ReplyArrives(t) \/ PollReadsQueued(t) \/ Redrive(t)
         \/ CancelArrives(t) \/ SetCancelRequested(t) \/ Kill(t) \/ ProjectCanceled(t)
  BY DEF Step, Arrival
<1>2. store' = store /\ conversation' = conversation
  BY <1>1 DEF TimerFires, LookUpPending, SubmitReply, IssueTicket, DispatchTicket, ReplyArrives,
              PollReadsQueued, Redrive, CancelArrives, SetCancelRequested, Kill, ProjectCanceled,
              steady, server
<1>3. ASSUME NEW w \in Workers, pc'[w] = "arm" PROVE pc[w] = "arm"
  <2>1. CASE Kill(t)
    <3>1. pc' = [u \in Tasks |-> CASE u = t -> "project"
                                   [] u \in Workers /\ pc[u] = "engine" -> "ended"
                                   [] u \in Workers /\ pc[u] = "repair" -> "killed"
                                   [] OTHER -> pc[u]]
      BY <2>1 DEF Kill
    <3>2. CASE pc[w] = "engine"
      BY <1>0, <1>3, <3>1, <3>2
    <3>3. CASE pc[w] = "repair"
      BY <1>0, <1>3, <3>1, <3>3
    <3>4. CASE pc[w] \notin {"engine", "repair"}
      BY <1>0, <1>3, <3>1, <3>4
    <3> QED BY <3>2, <3>3, <3>4
  <2>2. CASE DispatchTicket(t) \/ Redrive(t)
    <3>1. \/ pc' = [pc EXCEPT ![t] = "done", ![NewWorker] = "ticket"]
          \/ pc' = [pc EXCEPT ![t] = "done"]
      BY <2>2 DEF DispatchTicket, Redrive, Goto
    <3> HIDE DEF NewWorker
    <3> QED BY <1>0, <1>3, <3>1 DEF TypeOK
  <2>3. CASE ~(Kill(t) \/ DispatchTicket(t) \/ Redrive(t))
    <3>1. \E s \in Steps : pc' = [pc EXCEPT ![t] = s]
      BY <1>1, <2>3 DEF TimerFires, LookUpPending, SubmitReply, IssueTicket, ReplyArrives,
                  PollReadsQueued, CancelArrives, SetCancelRequested, ProjectCanceled, Finish,
                  GotoOwing, Goto, Steps
    <3> QED BY <1>0, <1>3, <3>1 DEF TypeOK
  <2> QED BY <2>1, <2>2, <2>3
<1>4. \E writes : Harmless(writes) /\ (todo' = todo \/ todo' = [todo EXCEPT ![t] = writes])
  <2>1. CASE todo' = todo
    BY <1>0, <2>1
  <2>2. CASE SubmitReply(t)
    <3>1. /\ Harmless(<<Put("row", "queued")>>)
          /\ Harmless(NonTerminalProjection("queued") \o <<Put("row", "queued")>>)
      BY HarmlessProjections DEF Statuses
    <3>2. \/ todo' = todo \/ todo' = [todo EXCEPT ![t] = <<Put("row", "queued")>>]
          \/ todo' = [todo EXCEPT ![t] = NonTerminalProjection("queued") \o <<Put("row", "queued")>>]
      BY <2>2 DEF SubmitReply, GotoOwing
    <3> QED BY <1>0, <3>1, <3>2
  <2>3. CASE IssueTicket(t)
    <3>1. Harmless(NonTerminalProjection("queued"))
      BY HarmlessProjections DEF Statuses
    <3> QED BY <2>3, <3>1 DEF IssueTicket, GotoOwing
  <2>4. CASE ProjectCanceled(t)
    <3>1. Harmless(TerminalProjection("canceled") \o <<Put("row", "canceled")>>)
      BY HarmlessProjections DEF Statuses, Terminal
    <3> QED BY <2>4, <3>1 DEF ProjectCanceled, Finish, GotoOwing
  <2> QED BY <1>1, <2>1, <2>2, <2>3, <2>4
      DEF TimerFires, LookUpPending, DispatchTicket, ReplyArrives, PollReadsQueued, Redrive,
          CancelArrives, SetCancelRequested, Kill
<1> QED BY <1>0, <1>2, <1>3, <1>4, StillNeverWaits

LEMMA NeverWaitsStep ==
  ASSUME TypeOK, Token, ~Session, NeverWaits, [Next]_vars PROVE NeverWaits'
<1>0. conversation' = conversation /\ Session' = Session
  BY SituationKept DEF Session
<1>1. ASSUME NEW t \in Tasks, Step(t) \/ Arrival(t) PROVE NeverWaits'
  <2>1. CASE Write(t)
    <3>1. PICK h \in Owed : /\ h \in Writes /\ store' = [store EXCEPT ![h.to] = h.status]
                            /\ Owed' \subseteq Owed
      BY <2>1, WritePerformed
    <3>2. store'.state \in {store.state, h.status}
      BY <3>1 DEF TypeOK, Writes
    <3>3. pc' = pc
      BY <2>1 DEF Write
    <3> QED BY <1>0, <3>1, <3>2, <3>3 DEF NeverWaits
  <2>2. CASE t \in Workers /\ ~Write(t)
    <3>1. t \notin Resumers \cup Pollers \cup Cancellers
      BY <2>2, Disjoint
    <3>2. WorkerStep(t) \/ RejectRun(t) \/ AuditFails(t)
      BY <1>1, <2>2, <3>1, Arrivals, Disjoint DEF Step, Resumers
    <3> QED BY <2>2, <3>2, WorkerNeverWaits
  <2>3. CASE t \notin Workers /\ ~Write(t)
    BY <1>1, <2>3, OtherNeverWaits
  <2> QED BY <2>1, <2>2, <2>3
<1>2. CASE Crash
  <2>1. \A u \in Tasks : todo'[u] = <<>> /\ pc'[u] # "arm"
    BY <1>2 DEF Crash
  <2>2. Owed' = {} /\ store' = store
    BY <1>2, <2>1 DEF Crash, Owed, Range
  <2> QED BY <1>0, <2>1, <2>2, Disjoint DEF NeverWaits
<1>3. CASE Restart
  <2>1. Harmless(<<>>) /\ store' = store /\ recovery \in Tasks
    BY <1>3, Disjoint DEF Restart, Harmless, Range
  <2>2. \E writes : Harmless(writes) /\ (todo' = todo \/ todo' = [todo EXCEPT ![recovery] = writes])
    <3>1. Harmless(TerminalProjection("failed") \o <<Put("row", "failed")>>)
      BY HarmlessProjections DEF Statuses, Terminal
    <3> QED BY <1>3, <2>1, <3>1 DEF Restart, GotoOwing
  <2>3. \E u, s : pc' = pc \/ (s # "arm" /\ pc' = [pc EXCEPT ![u] = s])
    BY <1>3 DEF Restart, GotoOwing, Goto
  <2>4. \A w \in Workers : pc'[w] = "arm" => pc[w] = "arm"
    BY <2>3, Disjoint DEF TypeOK
  <2> QED BY <1>0, <2>1, <2>2, <2>4, StillNeverWaits
<1>4. CASE ClearBindings
  <2>1. Harmless(<<>>) /\ store' = store /\ recovery \in Tasks /\ todo' = todo
    BY <1>4, Disjoint DEF ClearBindings, Harmless, Range
  <2>2. \A w \in Workers : pc'[w] = "arm" => pc[w] = "arm"
    BY <1>4, Disjoint DEF ClearBindings, Goto, TypeOK
  <2> QED BY <1>0, <2>1, <2>2, StillNeverWaits
<1>5. CASE UNCHANGED vars
  BY <1>5 DEF vars, NeverWaits, Owed, Session
<1> QED BY <1>1, <1>2, <1>3, <1>4, <1>5 DEF Next

LEMMA NeverWaitsAlways == Spec => []NeverWaits
<1>1. Init => TypeOK /\ Token /\ NeverWaits
  <2>1. Init => TypeOK /\ Token
    BY Initially
  <2>2. Init => NeverWaits
    <3> SUFFICES ASSUME Init PROVE NeverWaits
      OBVIOUS
    <3>1. store.state = "queued" /\ \A t \in Tasks : todo[t] = <<>> /\ pc[t] # "arm"
      BY DEF Init
    <3>2. Owed = {}
      BY <3>1 DEF Owed, Range
    <3> QED BY <3>1, <3>2, Disjoint DEF NeverWaits
  <2> QED BY <2>1, <2>2
<1>2. TypeOK /\ Token /\ NeverWaits /\ [Next]_vars => (TypeOK /\ Token /\ NeverWaits)'
  <2> SUFFICES ASSUME TypeOK, Token, NeverWaits, [Next]_vars PROVE TypeOK' /\ Token' /\ NeverWaits'
    OBVIOUS
  <2>1. Session' = Session
    BY SituationKept DEF Session
  <2>2. CASE Session
    BY <2>1, <2>2, Inductive DEF NeverWaits
  <2> QED BY <2>2, Inductive, NeverWaitsStep
<1> QED BY <1>1, <1>2, PTL DEF Spec

\* At rest nobody has the token but an open question.
LEMMA AtRestAnswerable ==
  ASSUME TypeOK, Undisturbed => Story, Troubled => Trouble, NeverWaits, ~CanFail("audit")
  PROVE  WaitingIsAnswerable
<1> SUFFICES ASSUME mode = "up", \A t \in Tasks : todo[t] = <<>> /\ pc[t] \in {"idle", "done"},
                    store.state = "waiting_user"
             PROVE  Pending # {} /\ handle
  BY DEF WaitingIsAnswerable, Quiescent
<1>1. Owed = {}
  BY OwedNone
<1>2. \A t \in Workers \cup Resumers : pc[t] \in {"idle", "done"}
  BY Disjoint
<1>3. /\ Owners = {} /\ Issuing = {} /\ ~TicketHeld /\ Unstarted = {}
      /\ Requeuing = {} /\ Deciding = {}
  BY <1>2 DEF Owners, Owning, Issuing, TicketHeld, Unstarted, Requeuing, Deciding
<1>4. Session
  BY DEF NeverWaits
<1>5. CASE Undisturbed
  <2>1. ~Moving
    BY <1>2, <1>3, <1>5 DEF Moving, Story, Carried
  <2>2. ~Over
    BY <1>1 DEF Over, Settling, Terminal
  <2>3. Waiting
    BY <1>5, <2>1, <2>2 DEF Story, Phase
  <2> QED BY <1>4, <2>3 DEF Waiting
<1>6. CASE ~Undisturbed
  <2>1. Troubled
    BY <1>4, <1>6, InputsAssumption DEF Troubled, Undisturbed, TypeOK, SituationKinds
  <2>2. GoesOn /\ handle
    BY <1>1, <2>1 DEF Trouble, WaitingGoesOn, HandleKept, Leaves
  <2> QED BY <1>3, <2>2 DEF GoesOn
<1> QED BY <1>5, <1>6

\* A run that waits, with nothing under way, has an open question and a session
\* handle to resume: whatever replies, timeouts, cancels, redriving readers,
\* failed bundles, full queues and crashes it meets, in any order, unless its
\* audit files could not be created.
THEOREM WaitingAnswerable == Spec => [](~CanFail("audit") => WaitingIsAnswerable)
<1> DEFINE P == TypeOK /\ (Undisturbed => Story) /\ (Troubled => Trouble) /\ NeverWaits
<1>1. P => (~CanFail("audit") => WaitingIsAnswerable)
  BY AtRestAnswerable
<1>2. Spec => []P
  BY TypeCorrect, StoryAlways, TroubleAlways, NeverWaitsAlways, PTL
<1> QED BY <1>1, <1>2, PTL

-----------------------------------------------------------------------------
(***************************************************************************)
(* What a session leaves in its stores when it has met crashes, at any     *)
(* moments: its row and its run state say the same, and it waits or has    *)
(* ended.                                                                  *)
(***************************************************************************)
Crashing == situation = "crash" /\ Session

\* The right to the next turn is not lost.
Charged == mode = "up" => Unstarted # {} \/ GoesOn \/ Ending

\* All writes under way are of status s, and the row is not written before the
\* run state.
Settles(s) ==
  /\ \A x \in Owed : x.status = s
  /\ \/ store.state = s
     \/ store.row # s /\ \A t \in Tasks : todo[t] # <<>> => Head(todo[t]).to = "state"
Reaches(s) == \A f \in {"state", "row"} : store[f] = s \/ \E x \in Owed : x.to = f
Asked ==
  /\ mode = "up" /\ ~Ending /\ Pending # {} => Settles("waiting_user") /\ Reaches("waiting_user")
  /\ mode = "down" /\ PreserveWaiting => store.state = "waiting_user"
OneEnd ==
  Ending => \E s \in Terminal : Settles(s) /\ (store.row \in Terminal => store.row = s)

\* An attempt that is about to ask has left no waiting row behind it.
Prepared ==
  {"prepare", "recheck", "launch", "engine", "ended", "resolve", "repair", "killed"}
RowMovesOn ==
  Owners # {} =>
    /\ \A x \in Owed : x.to = "row" => x.status # "waiting_user"
    /\ store.row = "waiting_user" /\ (\E w \in Owners : pc[w] \in Prepared)
         => \E x \in Owed : x.to = "row"

Aftermath == Charged /\ Asked /\ OneEnd /\ RowMovesOn

-----------------------------------------------------------------------------
(* Steps after a crash, or before one *)

\* A step that leaves stores and writes alone leaves what is said of them.
LEMMA NothingWritten ==
  ASSUME Asked, OneEnd, mode = "up", UNCHANGED <<store, todo, mode>>, Pending' \subseteq Pending
  PROVE  Asked' /\ OneEnd' /\ (Ending' <=> Ending)
<1>1. Owed' = Owed /\ (Ending' <=> Ending)
  BY DEF Owed, Ending
<1>2. \A s : (Settles(s)' <=> Settles(s)) /\ (Reaches(s)' <=> Reaches(s))
  BY <1>1 DEF Settles, Reaches
<1> QED BY <1>1, <1>2 DEF Asked, OneEnd

LEMMA NothingAsked ==
  ASSUME mode' = "up", Pending' = {}, ~Ending' PROVE Asked' /\ OneEnd'
  BY DEF Asked, OneEnd

LEMMA RowStays ==
  ASSUME RowMovesOn, store' = store, Owed \subseteq Owed',
         Owners' # {} => /\ Owners # {}
                         /\ \A x \in Owed' : x \in Owed \/ x.status # "waiting_user" \/ x.to # "row",
         \A v \in Owners' : pc'[v] \in Prepared =>
           (v \in Owners /\ pc[v] \in Prepared) \/ \E x \in Owed' : x.to = "row"
  PROVE  RowMovesOn'
  BY DEF RowMovesOn

\* A task alone moves, and does not become an owner.
LEMMA RowLeft ==
  ASSUME RowMovesOn, NEW t \in Tasks, NEW s, NEW W, Moves(t, s, W), s \notin Owning,
         \A u \in Tasks \ {t} : pc'[u] \in Owning => pc'[u] = pc[u],
         Owners' # {} => \A x \in W : x.status # "waiting_user" \/ x.to # "row"
  PROVE  RowMovesOn'
<1>1. pc'[t] = s /\ Owed' = Owed \cup W /\ store' = store
  BY DEF Moves
<1>2. ASSUME NEW v \in Owners' PROVE v \in Owners /\ pc'[v] = pc[v]
  <2>1. v \in Workers /\ pc'[v] \in Owning /\ v \in Tasks
    BY Disjoint DEF Owners
  <2> QED BY <1>1, <2>1 DEF Owners
<1> QED BY <1>1, <1>2, RowStays

\* Before the end a write that is not terminal does not bring it about.
LEMMA NotEnding ==
  ASSUME ~Ending, NEW t \in Tasks, NEW s, NEW W, Moves(t, s, W), \A x \in W : x.status \notin Terminal
  PROVE  ~Ending'
  BY DEF Moves, Ending

\* An attempt goes on.
LEMMA AttemptKeepsAftermath ==
  ASSUME TypeOK, Token, Trouble, Crashing, Aftermath, NEW w \in Owners, NEW s \in Owning, NEW W,
         Moves(w, s, W), \A u \in Tasks \ {w} : pc'[u] = pc[u],
         \A x \in W : x.status \notin Terminal /\ (x.status # "waiting_user" \/ x.to # "row"),
         s \in Prepared => pc[w] \in Prepared \/ \E x \in W : x.to = "row",
         Pending' \subseteq Pending
  PROVE  Aftermath'
<1>1. /\ w \in Workers /\ w \in Tasks /\ mode = "up" /\ Pending = {} /\ ~Ending
      /\ \A v \in Owners : v = w
  BY OwnerStandsAlone DEF Crashing
<1>2. /\ pc'[w] = s /\ Owed' = Owed \cup W /\ store' = store /\ mode' = "up" /\ w \in Owners'
  BY <1>1 DEF Moves, Owners
<1>3. ~Ending'
  BY <1>1, NotEnding
<1>4. Asked' /\ OneEnd'
  BY <1>1, <1>2, <1>3, NothingAsked
<1>5. Charged'
  BY <1>2 DEF Charged, GoesOn
<1>6. RowMovesOn'
  <2>1. ASSUME NEW v \in Owners', v # w PROVE FALSE
    <3>1. v \in Owners
      BY <2>1, Disjoint DEF Owners
    <3> QED BY <1>1, <2>1, <3>1
  <2> QED BY <1>2, <2>1, RowStays DEF Aftermath
<1> QED BY <1>4, <1>5, <1>6 DEF Aftermath

\* A task that owns nothing moves aside.
LEMMA AsideKeepsAftermath ==
  ASSUME TypeOK, Trouble, Crashing, Aftermath, NEW t \in Tasks, NEW s, mode = "up",
         todo[t] = <<>>, pc' = [pc EXCEPT ![t] = s],
         UNCHANGED <<conversation, situation, store, mode, flagged, inter, ticket, todo, tid>>,
         \A u \in Resumers \ {t} : num'[u] = num[u],
         pc[t] \notin Owning \cup {"issue"}, s \notin Owning,
         pc[t] = "ticket" => s # "ticket" /\ tid[t] # 0 /\ ~(Redrivable /\ tid[t] = ticket.id),
         pc[t] = "dispatch" => ~(ticket.state = "issued" /\ tid[t] = ticket.id),
         pc[t] = "new" => s = "ticket"
  PROVE  Aftermath'
<1>1. Moves(t, s, {}) /\ \A u \in Tasks \ {t} : pc'[u] = pc[u]
  BY MoveOwingNone
<1>2. Asked' /\ OneEnd' /\ (Ending' <=> Ending)
  BY NothingWritten DEF Aftermath, Pending
<1>3. GoesOn => GoesOn'
  BY <1>1, GoesOnKept, Disjoint
<1>4. Unstarted # {} => Unstarted' # {}
  <2> SUFFICES ASSUME NEW u \in Unstarted PROVE u \in Unstarted'
    OBVIOUS
  <2>1. u \in Workers /\ u \in Tasks /\ pc[u] \in {"new", "ticket"} /\ tid[u] = 0
    BY Disjoint DEF Unstarted
  <2>2. pc'[u] \in {"new", "ticket"}
    BY <1>1, <2>1 DEF Moves
  <2> QED BY <2>1, <2>2 DEF Unstarted
<1>5. RowMovesOn'
  BY <1>1, RowLeft DEF Aftermath
<1> QED BY <1>2, <1>3, <1>4, <1>5 DEF Aftermath, Charged

\* An attempt is not canceled, for a run that crashes is not.
LEMMA AttemptInAftermath ==
  ASSUME TypeOK, Token, Trouble, Crashing, Aftermath, NEW w \in Workers,
         \/ AdvancePhase(w) \/ CheckCancel(w) \/ Prepare(w) \/ Launch(w) \/ RepairRound(w)
         \/ EngineExit(w)
  PROVE  Aftermath'
<1>0. w \in Tasks /\ ~flagged /\ pc[w] # "killed"
  BY Disjoint DEF Trouble, ServerStands, Crashing
<1> DEFINE Kept == UNCHANGED <<conversation, situation, store, mode>>
<1>a. ASSUME NEW s \in Prepared, pc[w] \in Prepared, todo[w] = <<>>,
             pc' = [pc EXCEPT ![w] = s], todo' = todo, Kept, Pending' \subseteq Pending
      PROVE  Aftermath'
  <2>1. w \in Owners /\ s \in Owning
    BY <1>a DEF Owners, Owning, Prepared
  <2>2. Moves(w, s, {}) /\ \A u \in Tasks \ {w} : pc'[u] = pc[u]
    BY <1>0, <1>a, MoveOwingNone
  <2> QED BY <1>a, <2>1, <2>2, AttemptKeepsAftermath
<1>1. CASE AdvancePhase(w)
  <2> DEFINE s == IF pc[w] = "claim" THEN "materialize" ELSE "check"
             x == store.state
  <2>1. /\ pc[w] \in {"claim", "materialize"} /\ todo[w] = <<>> /\ Kept /\ Pending' = Pending
        /\ pc' = [pc EXCEPT ![w] = s] /\ todo' = [todo EXCEPT ![w] = <<Put("state", x)>>]
    BY <1>1 DEF AdvancePhase, At, Goto, data, steady, server, Pending
  <2>2. w \in Owners /\ s \in Owning /\ s \notin Prepared
    BY <2>1 DEF Owners, Owning, Prepared
  <2> HIDE DEF s, x
  <2>3. Moves(w, s, {Put("state", x)}) /\ \A u \in Tasks \ {w} : pc'[u] = pc[u]
    <3>1. Range(<<Put("state", x)>>) = {Put("state", x)}
      BY ProjectionRanges
    <3>2. Moves(w, s, Range(<<Put("state", x)>>)) /\ \A u \in Tasks \ {w} : pc'[u] = pc[u]
      BY <1>0, <2>1, MoveOwing
    <3> QED BY <3>1, <3>2
  <2>4. x \notin Terminal
    <3>1. mode # "down" /\ ~Ending
      BY <2>2, OwnerStandsAlone DEF Crashing
    <3> QED BY <3>1 DEF Trouble, RowLast, Ending, Crashing, x
  <2> QED BY <2>1, <2>2, <2>3, <2>4, PutIs, AttemptKeepsAftermath
<1>2. CASE CheckCancel(w)
  <2>1. /\ todo[w] = <<>> /\ Kept /\ Pending' = Pending
        /\ \/ /\ pc[w] = "check" /\ pc' = [pc EXCEPT ![w] = "prepare"]
              /\ todo' = [todo EXCEPT ![w] = NonTerminalProjection("running")]
           \/ pc[w] = "recheck" /\ pc' = [pc EXCEPT ![w] = "launch"] /\ todo' = todo
           \/ pc[w] = "ended" /\ pc' = [pc EXCEPT ![w] = "resolve"] /\ todo' = todo
    BY <1>0, <1>2 DEF CheckCancel, At, GotoOwing, Goto, data, steady, server, Pending
  <2>2. CASE pc[w] = "check" /\ pc' = [pc EXCEPT ![w] = "prepare"]
             /\ todo' = [todo EXCEPT ![w] = NonTerminalProjection("running")]
    <3> DEFINE W == {Put("state", "running"), Put("row", "running")}
    <3>1. Range(NonTerminalProjection("running")) = W
      BY ProjectionRanges
    <3>2. (\A x \in W : x.status = "running") /\ \E x \in W : x.to = "row"
      BY PutIs
    <3> HIDE DEF W
    <3>3. Moves(w, "prepare", W) /\ \A u \in Tasks \ {w} : pc'[u] = pc[u]
      <4>1. Moves(w, "prepare", Range(NonTerminalProjection("running")))
            /\ \A u \in Tasks \ {w} : pc'[u] = pc[u]
        BY <1>0, <2>1, <2>2, MoveOwing
      <4> QED BY <3>1, <4>1
    <3>4. \A x \in W : x.status \notin Terminal /\ x.status # "waiting_user"
      BY <3>2 DEF Terminal
    <3>5. w \in Owners /\ "prepare" \in Owning
      BY <2>2 DEF Owners, Owning
    <3> QED BY <2>1, <3>2, <3>3, <3>4, <3>5, AttemptKeepsAftermath
  <2>3. CASE pc[w] = "recheck" /\ pc' = [pc EXCEPT ![w] = "launch"] /\ todo' = todo
    BY <1>a, <2>1, <2>3 DEF Prepared
  <2>4. CASE pc[w] = "ended" /\ pc' = [pc EXCEPT ![w] = "resolve"] /\ todo' = todo
    BY <1>a, <2>1, <2>4 DEF Prepared
  <2> QED BY <2>1, <2>2, <2>3, <2>4
<1>3. CASE Prepare(w)
  <2>1. pc[w] = "prepare" /\ todo[w] = <<>> /\ Kept
    BY <1>3 DEF Prepare, At, steady, server
  <2>2. w \in Owners
    BY <2>1 DEF Owners, Owning
  <2>3. tid[w] # 0 => handle
    BY <2>2, HandleToStart
  <2>4. pc' = [pc EXCEPT ![w] = "recheck"] /\ todo' = todo
    BY <1>3, <2>3 DEF Prepare, Goto
  <2>5. Pending' \subseteq Pending
    <3> SUFFICES ASSUME NEW a \in Attempts, inter'[a].state = "pending"
                 PROVE  inter[a].state = "pending"
      BY DEF Pending
    <3>1. CASE inter' = inter
      BY <3>1
    <3>2. CASE inter' = [inter EXCEPT ![num[w] - 1].state = Consumed(@)]
      BY <3>2 DEF Consumed, TypeOK
    <3> QED BY <1>3, <3>1, <3>2 DEF Prepare
  <2> QED BY <1>a, <2>1, <2>4, <2>5 DEF Prepared
<1>4. CASE Launch(w)
  <2>1. /\ pc[w] = "launch" /\ pc' = [pc EXCEPT ![w] = "engine"] /\ todo' = todo
        /\ todo[w] = <<>> /\ Kept /\ Pending' = Pending
    BY <1>4 DEF Launch, At, Goto, data, steady, server, Pending
  <2> QED BY <1>a, <2>1 DEF Prepared
<1>5. CASE RepairRound(w)
  <2>1. /\ pc[w] \in {"resolve", "killed"} /\ pc' = [pc EXCEPT ![w] = "repair"] /\ todo' = todo
        /\ todo[w] = <<>> /\ Kept /\ Pending' = Pending
    BY <1>5 DEF RepairRound, At, Goto, data, server, Pending
  <2> QED BY <1>a, <2>1 DEF Prepared
<1>6. CASE EngineExit(w)
  <2> DEFINE s == IF pc[w] = "engine" THEN "ended" ELSE "resolve"
  <2>1. /\ pc[w] \in {"engine", "repair"} /\ pc' = [pc EXCEPT ![w] = s] /\ todo' = todo
        /\ todo[w] = <<>> /\ Kept /\ Pending' = Pending
    BY <1>6 DEF EngineExit, At, Goto, steady, server, Pending
  <2>2. s \in Prepared
    BY DEF Prepared
  <2> HIDE DEF s
  <2> QED BY <1>a, <2>1, <2>2 DEF Prepared
<1> QED BY <1>1, <1>2, <1>3, <1>4, <1>5, <1>6

\* The turn ends: nothing else is under way, and its writes carry its status.
LEMMA TurnEndsInAftermath ==
  ASSUME TypeOK, Token, Trouble, Crashing, Aftermath, NEW w \in Workers,
         \/ TurnFailed(w)
         \/ TurnSucceeded(w) /\ pc[w] = "resolve"
         \/ TurnAsks(w) /\ ~handle
  PROVE  Aftermath'
<1>0. w \in Tasks /\ pc[w] # "killed"
  BY Disjoint DEF Trouble, ServerStands, Crashing
<1>1. PICK s \in {"done", "bundle"}, status \in Terminal :
        /\ pc[w] = "resolve" /\ todo[w] = <<>> /\ UNCHANGED <<conversation, situation, store, mode>>
        /\ pc' = [pc EXCEPT ![w] = s]
        /\ todo' = [todo EXCEPT ![w] = TerminalProjection(status) \o <<Put("row", status)>>]
  <2>1. CASE TurnFailed(w)
    <3>1. /\ pc[w] = "resolve" /\ todo[w] = <<>> /\ UNCHANGED <<conversation, situation, store, mode>>
          /\ pc' = [pc EXCEPT ![w] = "done"]
          /\ todo' = [todo EXCEPT ![w] = TerminalProjection("failed") \o <<Put("row", "failed")>>]
      BY <1>0, <2>1 DEF TurnFailed, At, Finish, GotoOwing, Goto, Converged, server
    <3> QED BY <3>1 DEF Terminal
  <2>2. CASE TurnSucceeded(w) /\ pc[w] = "resolve"
    <3>1. /\ pc[w] = "resolve" /\ todo[w] = <<>> /\ UNCHANGED <<conversation, situation, store, mode>>
          /\ pc' = [pc EXCEPT ![w] = "bundle"]
          /\ todo' = [todo EXCEPT ![w] = TerminalProjection("succeeded") \o <<Put("row", "succeeded")>>]
      BY <2>2 DEF TurnSucceeded, At, GotoOwing, Goto, Converged, server
    <3> QED BY <3>1 DEF Terminal
  <2>3. CASE TurnAsks(w) /\ ~handle
    <3>1. /\ pc[w] = "resolve" /\ todo[w] = <<>> /\ UNCHANGED <<conversation, situation, store, mode>>
          /\ pc' = [pc EXCEPT ![w] = "done"]
          /\ todo' = [todo EXCEPT ![w] = TerminalProjection("failed") \o <<Put("row", "failed")>>]
      BY <2>3 DEF TurnAsks, At, Finish, GotoOwing, Goto, Converged, server, Crashing
    <3> QED BY <3>1 DEF Terminal
  <2> QED BY <2>1, <2>2, <2>3
<1> DEFINE writes == TerminalProjection(status) \o <<Put("row", status)>>
           W == {Put("state", status), Put("row", status), Put("result", status)}
<1>2. w \in Owners /\ Asking(w)
  BY <1>1 DEF Owners, Owning, Asking
<1>3. mode = "up" /\ (\A v \in Owners : v = w) /\ Owed = {} /\ ~Ending
  BY <1>2, OwnerStandsAlone DEF Trouble, AloneAtEnd, Crashing
<1>4. Range(writes) = W /\ writes # <<>> /\ Head(writes) = Put("state", status)
  BY ProjectionRanges, TerminalHead
<1>5. (\A x \in W : x.status = status) /\ (\E x \in W : x.status = status) /\ status # "waiting_user"
  BY PutIs DEF Terminal
<1>5a. todo' = [todo EXCEPT ![w] = writes]
  BY <1>1
<1> HIDE DEF writes, W
<1>6. Moves(w, s, W) /\ \A u \in Tasks \ {w} : pc'[u] = pc[u]
  <2>1. Moves(w, s, Range(writes)) /\ \A u \in Tasks \ {w} : pc'[u] = pc[u]
    BY <1>0, <1>1, <1>5a, MoveOwing
  <2> QED BY <1>4, <2>1
<1>7. Owed' = W /\ store' = store /\ mode' = "up" /\ pc'[w] = s
  BY <1>1, <1>3, <1>6 DEF Moves
<1>8. Ending'
  BY <1>5, <1>7 DEF Ending
<1>9. store.row \notin Terminal
  BY <1>3 DEF Ending
<1>10. Settles(status)'
  <2>1. \A t \in Tasks : todo[t] = <<>>
    BY <1>3, OwedNone
  <2>2. todo'[w] = writes /\ \A t \in Tasks : t # w => todo'[t] = <<>>
    BY <1>0, <1>5a, <2>1 DEF TypeOK
  <2>3. \A t \in Tasks : todo'[t] # <<>> => Head(todo'[t]).to = "state"
    BY <1>4, <2>2, PutIs
  <2> QED BY <1>5, <1>7, <1>9, <2>3 DEF Settles
<1>11. Asked' /\ OneEnd' /\ Charged'
  BY <1>7, <1>8, <1>9, <1>10 DEF Asked, OneEnd, Charged
<1>12. RowMovesOn'
  <2>1. s \notin Owning
    BY DEF Owning
  <2> QED BY <1>0, <1>5, <1>6, <2>1, RowLeft DEF Aftermath
<1> QED BY <1>11, <1>12 DEF Aftermath

\* The turn asks: whatever the row said before, it does not say that it waits.
LEMMA TurnAsksInAftermath ==
  ASSUME TypeOK, Token, Trouble, Crashing, Aftermath, NEW w \in Workers, TurnAsks(w), handle
  PROVE  Aftermath'
<1> DEFINE writes == NonTerminalProjection("waiting_user")
           W == {Put("state", "waiting_user"), Put("row", "waiting_user")}
           a == num[w]
<1>1. /\ pc[w] = "resolve" /\ todo[w] = <<>> /\ w \in Tasks
      /\ pc' = [pc EXCEPT ![w] = "arm"] /\ todo' = [todo EXCEPT ![w] = writes]
      /\ inter' = [inter EXCEPT ![a] = [state |-> "pending", by |-> "none"]]
      /\ UNCHANGED <<conversation, situation, store, mode>>
      /\ a < MaxAttempt - Fewer
  BY Disjoint DEF TurnAsks, At, GotoOwing, Goto, Converged, server, Crashing
<1>2. w \in Owners /\ Asking(w)
  BY <1>1 DEF Owners, Owning, Asking
<1>3. mode = "up" /\ (\A v \in Owners : v = w) /\ Owed = {} /\ ~Ending
  BY <1>2, OwnerStandsAlone DEF Trouble, AloneAtEnd, Crashing
<1>4. store.row # "waiting_user"
  <2>1. pc[w] \in Prepared
    BY <1>1 DEF Prepared
  <2> QED BY <1>2, <1>3, <2>1 DEF Aftermath, RowMovesOn
<1>5. Range(writes) = W /\ writes # <<>> /\ Head(writes).to = "state"
  <2>1. Range(writes) = W
    BY ProjectionRanges
  <2>2. writes # <<>> /\ Head(writes) = Put("state", "waiting_user")
    BY DEF NonTerminalProjection
  <2> QED BY <2>1, <2>2, PutIs
<1>6. /\ \A x \in W : x.status = "waiting_user"
      /\ (\E x \in W : x.to = "state") /\ \E x \in W : x.to = "row"
  BY PutIs
<1>7. Pending' # {}
  <2>1. a \in Attempts
    <3>1. a \in Nat /\ a >= 1
      BY <1>1, <1>2 DEF Token, Core, OwnerAlone, TypeOK
    <3> QED BY <1>1, <3>1, Bounds DEF Attempts, Fewer
  <2>2. inter'[a].state = "pending"
    BY <1>1, <2>1 DEF TypeOK
  <2> QED BY <2>1, <2>2 DEF Pending
<1> HIDE DEF writes, W, a
<1>8. Moves(w, "arm", W) /\ \A u \in Tasks \ {w} : pc'[u] = pc[u]
  <2>1. Moves(w, "arm", Range(writes)) /\ \A u \in Tasks \ {w} : pc'[u] = pc[u]
    BY <1>1, MoveOwing
  <2> QED BY <1>5, <2>1
<1>9. Owed' = W /\ store' = store /\ mode' = "up"
  BY <1>1, <1>3, <1>8 DEF Moves
<1>10. ~Ending'
  BY <1>3, <1>6, <1>8, <1>1, NotEnding DEF Terminal
<1>11. Asked'
  <2>1. \A t \in Tasks : todo[t] = <<>>
    BY <1>3, OwedNone
  <2>2. todo'[w] = writes /\ \A t \in Tasks : t # w => todo'[t] = <<>>
    BY <1>1, <2>1 DEF TypeOK
  <2>3. \A t \in Tasks : todo'[t] # <<>> => Head(todo'[t]).to = "state"
    BY <1>5, <2>2
  <2>4. Settles("waiting_user")'
    BY <1>4, <1>6, <1>9, <2>3 DEF Settles
  <2>5. Reaches("waiting_user")'
    BY <1>6, <1>9 DEF Reaches
  <2> QED BY <1>9, <2>4, <2>5 DEF Asked
<1>12. OneEnd' /\ Charged'
  BY <1>7, <1>10 DEF OneEnd, Charged, GoesOn
<1>13. RowMovesOn'
  <2>1. Owners' = {}
    <3>1. \A v \in Workers : v \in Tasks
      BY Disjoint
    <3>2. pc'[w] = "arm"
      BY <1>8 DEF Moves
    <3> QED BY <1>3, <1>8, <3>1, <3>2 DEF Owners, Owning
  <2> QED BY <2>1 DEF RowMovesOn
<1> QED BY <1>11, <1>12, <1>13 DEF Aftermath

\* The waiting status is projected again, on top of the first projection.
LEMMA WaitingFinishedInAftermath ==
  ASSUME TypeOK, Token, Trouble, Crashing, Aftermath, NEW w \in Workers, FinishWaiting(w)
  PROVE  Aftermath'
<1> DEFINE writes == NonTerminalProjection("waiting_user") \o <<Put("row", "waiting_user")>>
           W == {Put("state", "waiting_user"), Put("row", "waiting_user")}
<1>1. /\ pc[w] = "arm" /\ todo[w] = <<>> /\ w \in Tasks \ {recovery}
      /\ todo' = [todo EXCEPT ![w] = writes]
      /\ UNCHANGED <<conversation, situation, store, mode, inter>>
  BY Disjoint DEF FinishWaiting, At, data, steady, server
<1>2. w \in Arms /\ w \notin Owners
  BY <1>1 DEF Arms, Owners, Owning
<1>3. Pending # {} /\ Pending' = Pending
  <2>1. Pending # {}
    BY <1>2 DEF Trouble, AskersWait
  <2> QED BY <1>1, <2>1 DEF Pending
<1>4. Owners = {} /\ mode = "up" /\ ~Ending
  <2>1. Owners = {}
    BY <1>3 DEF Token, Core, OwnerAlone
  <2>2. mode = "up"
    BY <1>1, BusyIsUp DEF Token
  <2> QED BY <1>2, <2>1, <2>2 DEF Trouble, EndsWell, Still, Crashing
<1>5. Range(writes) = W /\ writes # <<>> /\ Head(writes).to = "state"
  <2> DEFINE p == NonTerminalProjection("waiting_user")
             q == <<Put("row", "waiting_user")>>
  <2>1. Range(writes) = W
    BY ProjectionRanges DEF Statuses
  <2>2. p \in Seq(Writes) /\ q \in Seq(Writes)
    BY ProjectionType DEF Statuses, Todo
  <2>3. Len(p) >= 1 /\ p[1] = Put("state", "waiting_user")
    BY DEF NonTerminalProjection
  <2>4. writes = p \o q
    OBVIOUS
  <2> HIDE DEF p, q, writes
  <2>5. writes # <<>> /\ Head(writes) = Put("state", "waiting_user")
    BY <2>2, <2>3, <2>4
  <2> QED BY <2>1, <2>5, PutIs
<1>6. \A x \in W : x.status = "waiting_user"
  BY PutIs
<1> HIDE DEF writes, W
<1>7. Owed' = Owed \cup W
  <2>1. Owed' = Owed \cup Range(writes)
    BY <1>1, OwedMore
  <2> QED BY <1>5, <2>1
<1>8. ~Ending'
  BY <1>1, <1>4, <1>6, <1>7 DEF Ending, Terminal
<1>9. todo'[w] = writes /\ \A t \in Tasks \ {w} : todo'[t] = todo[t]
  BY <1>1 DEF TypeOK
<1>10. Settles("waiting_user") /\ Reaches("waiting_user")
  BY <1>3, <1>4 DEF Aftermath, Asked
<1>11. Settles("waiting_user")'
  <2>1. ASSUME \A t \in Tasks : todo[t] # <<>> => Head(todo[t]).to = "state"
        PROVE  \A t \in Tasks : todo'[t] # <<>> => Head(todo'[t]).to = "state"
    BY <1>5, <1>9, <2>1
  <2> QED BY <1>1, <1>6, <1>7, <1>10, <2>1 DEF Settles
<1>12. Reaches("waiting_user")'
  BY <1>1, <1>7, <1>10 DEF Reaches
<1>13. Asked' /\ OneEnd' /\ Charged'
  BY <1>1, <1>3, <1>4, <1>8, <1>11, <1>12 DEF Asked, OneEnd, Charged, GoesOn
<1>14. RowMovesOn'
  <2>1. ASSUME NEW v \in Workers, pc'[v] \in Owning PROVE FALSE
    <3>1. pc'[v] \in {"done", "armed", pc[v]}
      BY <2>1, Disjoint DEF FinishWaiting
    <3>2. pc[v] \in Owning
      BY <2>1, <3>1 DEF Owning
    <3> QED BY <1>4, <2>1, <3>2 DEF Owners
  <2> QED BY <2>1 DEF RowMovesOn, Owners
<1> QED BY <1>13, <1>14 DEF Aftermath

\* A job is admitted, starts, finds its ticket taken, or has its bundles.
LEMMA JobInAftermath ==
  ASSUME TypeOK, Token, Trouble, Crashing, Aftermath, NEW w \in Workers,
         \/ Admit(w) \/ StartTicket(w)
         \/ TurnSucceeded(w) /\ pc[w] = "bundle"
  PROVE  Aftermath'
<1>1. w \in Tasks \ {recovery} /\ todo[w] = <<>> /\ pc[w] \in {"new", "ticket", "bundle"}
      /\ UNCHANGED <<conversation, situation, store, mode, flagged, inter, handle, num, tid>>
  BY Disjoint DEF Admit, StartTicket, TurnSucceeded, At, data, steady, Converged, server
<1>2. mode = "up"
  BY <1>1, BusyIsUp DEF Token
<1>3. CASE Admit(w)
  <2>1. pc[w] = "new" /\ pc' = [pc EXCEPT ![w] = "ticket"] /\ UNCHANGED <<ticket, todo>>
    BY <1>3 DEF Admit, At, Goto, data
  <2> QED BY <1>1, <1>2, <2>1, AsideKeepsAftermath DEF Owning
<1>4. CASE TurnSucceeded(w) /\ pc[w] = "bundle"
  <2>1. ~CanFail("bundle")
    BY DEF CanFail, Crashing
  <2>2. pc' = [pc EXCEPT ![w] = "done"] /\ UNCHANGED <<ticket, todo>>
    BY <1>4, <2>1 DEF TurnSucceeded, At, Goto, data
  <2> QED BY <1>1, <1>2, <1>4, <2>2, AsideKeepsAftermath DEF Owning
<1>5. CASE StartTicket(w) /\ tid[w] # 0 /\ ~(tid[w] = ticket.id /\ Redrivable)
  <2>1. pc[w] = "ticket" /\ pc' = [pc EXCEPT ![w] = "done"] /\ UNCHANGED <<ticket, todo>>
    BY <1>5 DEF StartTicket, At, Goto
  <2> QED BY <1>1, <1>2, <1>5, <2>1, AsideKeepsAftermath DEF Owning
<1>6. CASE StartTicket(w) /\ (tid[w] = 0 \/ (tid[w] = ticket.id /\ Redrivable))
  <2>1. pc[w] = "ticket" /\ pc' = [pc EXCEPT ![w] = "claim"] /\ todo' = todo
    BY <1>6 DEF StartTicket, At, Goto
  <2>2. Moves(w, "claim", {}) /\ \A u \in Tasks \ {w} : pc'[u] = pc[u]
    BY <1>1, <2>1, MoveOwingNone
  <2>3. Owners = {} /\ Pending = {}
    <3>1. CASE tid[w] = 0
      BY <2>1, <3>1 DEF Unstarted, Token, Core, FirstJob
    <3>2. CASE Redrivable
      BY <3>2 DEF Token, Core, TicketAlone, OwnerAlone
    <3> QED BY <1>6, <3>1, <3>2
  <2>4. Asked' /\ OneEnd' /\ (Ending' <=> Ending)
    BY <1>1, <1>2, <2>1, NothingWritten DEF Aftermath, Pending
  <2>5. pc'[w] = "claim" /\ Owed' = Owed
    BY <2>2 DEF Moves
  <2>6. w \in Owners'
    BY <2>5 DEF Owners, Owning
  <2>7. Charged'
    BY <2>6 DEF Charged, GoesOn
  <2>8. RowMovesOn'
    <3>1. \A x \in Owed : x.to = "row" => x.status # "waiting_user"
      <4> SUFFICES ASSUME NEW x \in Owed, x.status = "waiting_user" PROVE FALSE
        OBVIOUS
      <4>1. PICK t \in Tasks : x \in Range(todo[t])
        BY DEF Owed
      <4>2. t \in Waiters
        BY <4>1 DEF Waiters
      <4> QED BY <2>3, <4>2 DEF Trouble, AskersWait
    <3>2. ASSUME NEW v \in Owners' PROVE pc'[v] \notin Prepared
      <4>1. v \in Workers /\ v \in Tasks /\ pc'[v] \in Owning
        BY Disjoint DEF Owners
      <4>2. v = w
        BY <2>2, <2>3, <4>1 DEF Owners
      <4> QED BY <2>5, <4>2 DEF Prepared
    <3> QED BY <2>5, <3>1, <3>2 DEF RowMovesOn
  <2> QED BY <2>4, <2>7, <2>8 DEF Aftermath
<1> QED BY <1>3, <1>4, <1>5, <1>6

\* Nobody takes up a question when nothing is open, or one not open any more.
LEMMA ResumerLooksInAftermath ==
  ASSUME TypeOK, Token, Trouble, Crashing, Aftermath, NEW t \in Resumers \cup Pollers,
         \/ t \in Timers /\ TimerFires(t)
         \/ t \in Resumers /\ (ReplyArrives(t) \/ LookUpPending(t))
         \/ t \in Pollers /\ PollReadsQueued(t)
  PROVE  Aftermath'
<1>1. t \in Tasks \ {recovery}
  BY Disjoint
<1>2. /\ pc[t] \in {"armed", "look", "idle"} /\ todo[t] = <<>>
      /\ pc[t] = "idle" => mode = "up"
      /\ UNCHANGED <<conversation, situation, store, mode, flagged, inter, ticket, todo, tid>>
      /\ \E s \in {"look", "decide", "redrive", "done"} : pc' = [pc EXCEPT ![t] = s]
      /\ \A u \in Tasks \ {t} : num'[u] = num[u]
  <2>1. CASE TimerFires(t)
    BY <2>1 DEF TimerFires, At, Goto, data, steady, server
  <2>2. CASE ReplyArrives(t)
    BY <2>2 DEF ReplyArrives, At, Goto, data, steady, server
  <2>3. CASE LookUpPending(t)
    <3>1. num' = num \/ num' = [num EXCEPT ![t] = Max(Pending)]
      BY <2>3 DEF LookUpPending
    <3>2. \A u \in Tasks \ {t} : num'[u] = num[u]
      BY <3>1 DEF TypeOK
    <3> QED BY <2>3, <3>2 DEF LookUpPending, At, Goto, data, steady, server
  <2>4. CASE PollReadsQueued(t)
    BY <2>4 DEF PollReadsQueued, At, Goto, data, steady, server
  <2> QED BY <2>1, <2>2, <2>3, <2>4
<1>3. mode = "up"
  BY <1>1, <1>2, BusyIsUp DEF Token
<1>4. PICK s \in {"look", "decide", "redrive", "done"} : pc' = [pc EXCEPT ![t] = s]
  BY <1>2
<1>5. \A u \in Resumers \ {t} : num'[u] = num[u]
  BY <1>2, Disjoint
<1> QED BY <1>1, <1>2, <1>3, <1>4, <1>5, AsideKeepsAftermath DEF Owning

\* A resumer writes that the run is queued when no question is open any more.
LEMMA QueuedInAftermath ==
  ASSUME TypeOK, Token, Trouble, Crashing, Aftermath, NEW t \in Resumers,
         NEW s \in {"issue", "dispatch"}, NEW W, pc[t] \in {"decide", "issue"},
         Moves(t, s, W), \A u \in Tasks \ {t} : pc'[u] = pc[u],
         \A x \in W : x.status = "queued", Pending' = {},
         Unstarted = {}, GoesOn => GoesOn'
  PROVE  Aftermath'
<1>1. t \in Tasks \ {recovery}
  BY Disjoint
<1>2. mode = "up"
  BY <1>1, BusyIsUp DEF Token
<1>3. ~Ending
  <2>1. t \in Looking \cup Issuing
    BY DEF Looking, Issuing
  <2> QED BY <2>1 DEF Trouble, EndsWell, Still, Crashing
<1>4. mode' = "up"
  BY <1>2 DEF Moves
<1>5. ~Ending'
  BY <1>1, <1>3, NotEnding DEF Terminal
<1>6. Asked' /\ OneEnd'
  BY <1>4, <1>5, NothingAsked
<1>7. Charged'
  BY <1>2, <1>3 DEF Aftermath, Charged
<1>8. RowMovesOn'
  BY <1>1, RowLeft DEF Aftermath, Owning
<1> QED BY <1>6, <1>7, <1>8 DEF Aftermath

LEMMA ReplyInAftermath ==
  ASSUME TypeOK, Token, Trouble, Crashing, Aftermath, NEW t \in Resumers, SubmitReply(t)
  PROVE  Aftermath'
<1> DEFINE i == num[t]
<1>1. /\ t \in Tasks \ {recovery} /\ pc[t] = "decide" /\ todo[t] = <<>>
      /\ UNCHANGED <<conversation, situation, store, mode, flagged, ticket, num, tid>>
  BY Disjoint DEF SubmitReply, At, steady, server
<1>2. mode = "up" /\ t \in Minded
  BY <1>1, BusyIsUp DEF Token, Minded, Deciding
<1>3. i \in Attempts /\ (\A a \in Pending : a = i) /\ Unstarted = {}
  BY <1>2 DEF Token, Core, OneMind, OneQuestion, FirstJob
<1>4. First(i) <=> i \in Pending
  BY <1>3 DEF First, Pending
<1>5. CASE pc' = [pc EXCEPT ![t] = "done"] /\ todo' = todo /\ ~First(i)
  <2>1. inter' = inter
    BY <1>5 DEF SubmitReply
  <2> QED BY <1>1, <1>2, <1>5, <2>1, AsideKeepsAftermath DEF Owning
<1>6. ASSUME pc' = [pc EXCEPT ![t] = "issue"],
             NEW writes, todo' = [todo EXCEPT ![t] = writes],
             \A x \in Range(writes) : x.status = "queued"
      PROVE  Aftermath'
  <2>1. Moves(t, "issue", Range(writes)) /\ \A u \in Tasks \ {t} : pc'[u] = pc[u]
    BY <1>1, <1>6, MoveOwing
  <2>2. CASE First(i)
    <3>1. ticket.target <= i /\ ticket.target \in Nat /\ i \in Nat
      BY <1>1, <1>3, <1>4, <2>2 DEF Token, Core, OneQuestion, TypeOK
    <3>2. ~SameTicket(t)' /\ t \in Issuing'
      BY <1>1, <2>1, <3>1 DEF SameTicket, Moves, Issuing
    <3>3. GoesOn'
      BY <3>2 DEF GoesOn
    <3>4. Pending' = {}
      <4>1. inter' = [inter EXCEPT ![i] = [state |-> "answered", by |-> t[1]]]
        BY <2>2 DEF SubmitReply
      <4>2. ASSUME NEW a \in Attempts, inter'[a].state = "pending" PROVE FALSE
        <5>1. a # i /\ inter[a].state = "pending"
          BY <4>1, <4>2 DEF TypeOK
        <5> QED BY <1>3, <5>1 DEF Pending
      <4> QED BY <4>2 DEF Pending
    <3> QED BY <1>1, <1>3, <1>6, <2>1, <3>3, <3>4, QueuedInAftermath
  <2>3. CASE ~First(i)
    <3>1. inter' = inter
      BY <2>3 DEF SubmitReply
    <3>2. GoesOn => GoesOn'
      BY <1>1, <2>1, <3>1, GoesOnKept, Disjoint DEF Owning
    <3>3. Pending' = {}
      BY <1>3, <1>4, <2>3, <3>1 DEF Pending
    <3> QED BY <1>1, <1>3, <1>6, <2>1, <3>2, <3>3, QueuedInAftermath
  <2> QED BY <2>2, <2>3
<1>7. CASE /\ pc' = [pc EXCEPT ![t] = "issue"]
           /\ todo' = [todo EXCEPT ![t] = <<Put("row", "queued")>>]
  <2>1. \A x \in Range(<<Put("row", "queued")>>) : x.status = "queued"
    BY ProjectionRanges, PutIs
  <2> QED BY <1>6, <1>7, <2>1
<1>8. CASE /\ pc' = [pc EXCEPT ![t] = "issue"]
           /\ todo' = [todo EXCEPT ![t] = NonTerminalProjection("queued") \o <<Put("row", "queued")>>]
  <2>1. Range(NonTerminalProjection("queued") \o <<Put("row", "queued")>>)
          = {Put("state", "queued"), Put("row", "queued")}
    BY ProjectionRanges DEF Statuses
  <2>2. \A x \in Range(NonTerminalProjection("queued") \o <<Put("row", "queued")>>) :
          x.status = "queued"
    BY <2>1, PutIs
  <2> QED BY <1>6, <1>8, <2>2
<1> QED BY <1>5, <1>7, <1>8 DEF SubmitReply, GotoOwing, Goto

\* A ticket is issued, or found to be there: one who may go on still may.
LEMMA TicketIssuedInAftermath ==
  ASSUME TypeOK, Token, Trouble, Crashing, Aftermath, NEW t \in Resumers, IssueTicket(t)
  PROVE  Aftermath'
<1> DEFINE new == [id |-> ticket.id + 1, by |-> t[1], target |-> num[t] + 1, state |-> "issued"]
           writes == NonTerminalProjection("queued")
<1>1. /\ pc[t] = "issue" /\ todo[t] = <<>> /\ t \in Tasks /\ t \notin Workers
      /\ pc' = [pc EXCEPT ![t] = "dispatch"] /\ todo' = [todo EXCEPT ![t] = writes]
      /\ ticket' = (IF SameTicket(t) THEN ticket ELSE new)
      /\ tid' = [tid EXCEPT ![t] = ticket'.id]
      /\ UNCHANGED <<conversation, situation, store, mode, inter, num>>
  BY Disjoint DEF IssueTicket, At, GotoOwing, Goto, steady, server
<1>2. Range(writes) = {Put("state", "queued"), Put("row", "queued")}
  BY ProjectionRanges
<1>3. \A x \in Range(writes) : x.status = "queued"
  BY <1>2, PutIs
<1>4. t \in Issuing /\ t \in Minded
  BY <1>1 DEF Issuing, Minded
<1>5. Pending = {} /\ Pending' = {} /\ Unstarted = {}
  BY <1>1, <1>4 DEF Token, Core, OneQuestion, FirstJob, Pending
<1> HIDE DEF writes
<1>5a. Moves(t, "dispatch", Range(writes)) /\ \A u \in Tasks \ {t} : pc'[u] = pc[u]
  BY <1>1, MoveOwing
<1>6. /\ pc'[t] = "dispatch" /\ tid'[t] = ticket'.id
      /\ \A u \in Tasks \ {t} : pc'[u] = pc[u] /\ tid'[u] = tid[u]
  BY <1>1 DEF TypeOK
<1>7. ticket'.state = "issued" => TicketHeld'
  BY <1>6 DEF TicketHeld, Redrivable
<1>8. CASE ~SameTicket(t)
  <2>1. ticket' = new
    BY <1>1, <1>8
  <2>2. GoesOn'
    BY <1>7, <2>1 DEF GoesOn
  <2> QED BY <1>1, <1>3, <1>5, <1>5a, <2>2, QueuedInAftermath
<1>9. CASE SameTicket(t)
  <2>1. ticket' = ticket
    BY <1>1, <1>9
  <2>2. \A u \in Issuing : SameTicket(u)
    <3> SUFFICES ASSUME NEW u \in Issuing PROVE SameTicket(u)
      OBVIOUS
    <3>1. u \in Minded /\ num[u] = num[t] /\ inter[num[u]].by = u[1] /\ inter[num[t]].by = t[1]
      BY <1>4 DEF Minded, Token, Core, OneMind
    <3> QED BY <1>9, <3>1 DEF SameTicket
  <2>3. Owners # {} => Owners' # {}
    <3>1. ASSUME NEW w \in Owners PROVE w \in Owners'
      <4>1. w \in Workers /\ w \in Tasks /\ w # t
        BY <1>1, Disjoint DEF Owners
      <4> QED BY <1>6, <4>1 DEF Owners
    <3> QED BY <3>1
  <2>4. TicketHeld => TicketHeld'
    <3> SUFFICES ASSUME TicketHeld, ticket.state # "issued" PROVE TicketHeld'
      BY <1>7, <2>1
    <3>1. PICK w \in Workers : pc[w] = "ticket" /\ tid[w] = ticket.id
      BY DEF TicketHeld
    <3>2. pc'[w] = "ticket" /\ tid'[w] = ticket'.id
      BY <1>1, <1>6, <2>1, <3>1, Disjoint
    <3> QED BY <2>1, <3>2 DEF TicketHeld, Redrivable
  <2>5. GoesOn => GoesOn'
    BY <1>5, <2>2, <2>3, <2>4 DEF GoesOn
  <2> QED BY <1>1, <1>3, <1>5, <1>5a, <2>5, QueuedInAftermath
<1> QED BY <1>8, <1>9

\* A job is started by a ticket dispatched or a reader: it may go on.
LEMMA SpawnInAftermath ==
  ASSUME TypeOK, Token, Trouble, Crashing, Aftermath, NEW t \in Resumers \cup Pollers,
         NEW n \in Workers, pc[n] = "idle", todo[t] = <<>>, mode = "up",
         pc' = [pc EXCEPT ![t] = "done", ![n] = "ticket"], tid' = [tid EXCEPT ![n] = ticket'.id],
         Redrivable', UNCHANGED <<conversation, situation, store, mode, inter, todo>>
  PROVE  Aftermath'
<1>1. t \in Tasks /\ t \notin Workers /\ n \in Tasks /\ n # t
  BY Disjoint
<1>2. /\ pc'[t] = "done" /\ pc'[n] = "ticket" /\ tid'[n] = ticket'.id
      /\ \A u \in Tasks \ {t, n} : pc'[u] = pc[u]
  BY <1>1 DEF TypeOK
<1>3. Asked' /\ OneEnd'
  BY NothingWritten DEF Aftermath, Pending
<1>4. Charged'
  BY <1>2 DEF Charged, GoesOn, TicketHeld
<1>5. RowMovesOn'
  <2>1. ASSUME NEW v \in Owners' PROVE v \in Owners /\ pc'[v] = pc[v]
    <3>1. v \in Workers /\ v \in Tasks /\ v # n /\ v # t
      BY <1>1, <1>2, Disjoint DEF Owners, Owning
    <3> QED BY <1>2, <3>1 DEF Owners
  <2>2. Owed' = Owed
    BY DEF Owed
  <2> QED BY <2>1, <2>2, RowStays DEF Aftermath
<1> QED BY <1>3, <1>4, <1>5 DEF Aftermath

LEMMA DispatchInAftermath ==
  ASSUME TypeOK, Token, Trouble, Crashing, Aftermath, NEW t \in Resumers \cup Pollers,
         (t \in Resumers /\ DispatchTicket(t)) \/ (t \in Pollers /\ Redrive(t))
  PROVE  Aftermath'
<1>1. /\ t \in Tasks \ {recovery} /\ todo[t] = <<>> /\ pc[t] \in {"dispatch", "redrive"}
      /\ UNCHANGED <<conversation, situation, store, mode, flagged, inter, todo>>
  BY Disjoint DEF DispatchTicket, Redrive, At, data, steady, server
<1>2. mode = "up"
  BY <1>1, BusyIsUp DEF Token
<1> DEFINE n == NewWorker
<1>3. n \in Workers /\ pc[n] = "idle"
  BY NewWorkerIsIdle
<1>4. CASE DispatchTicket(t) /\ ticket.id = tid[t] /\ ticket.state = "issued"
  <2>1. /\ ticket' = [ticket EXCEPT !.state = "dispatched"]
        /\ pc' = [pc EXCEPT ![t] = "done", ![n] = "ticket"] /\ tid' = [tid EXCEPT ![n] = ticket.id]
    BY <1>4 DEF DispatchTicket, Spawn
  <2>2. ticket'.id = ticket.id /\ Redrivable'
    BY <2>1 DEF TypeOK, Redrivable
  <2> HIDE DEF n
  <2> QED BY <1>1, <1>2, <1>3, <2>1, <2>2, SpawnInAftermath
<1>5. CASE Redrive(t) /\ Redrivable
  <2>1. /\ ticket' = ticket
        /\ pc' = [pc EXCEPT ![t] = "done", ![n] = "ticket"] /\ tid' = [tid EXCEPT ![n] = ticket.id]
    BY <1>5 DEF Redrive, Spawn, data
  <2>2. Redrivable'
    BY <1>5, <2>1 DEF Redrivable
  <2> HIDE DEF n
  <2> QED BY <1>1, <1>2, <1>3, <2>1, <2>2, SpawnInAftermath
<1>6. CASE \/ DispatchTicket(t) /\ ~(ticket.id = tid[t] /\ ticket.state = "issued")
           \/ Redrive(t) /\ ~Redrivable
  <2>1. pc' = [pc EXCEPT ![t] = "done"] /\ UNCHANGED <<ticket, num, tid>>
    BY <1>6 DEF DispatchTicket, Redrive, Goto, data
  <2>2. pc[t] = "dispatch" => ~(ticket.state = "issued" /\ tid[t] = ticket.id)
    BY <1>6 DEF DispatchTicket, Redrive, At
  <2> QED BY <1>1, <1>2, <2>1, <2>2, AsideKeepsAftermath DEF Owning
<1> QED BY <1>4, <1>5, <1>6

-----------------------------------------------------------------------------
(* Writes, crashes and restarts *)

\* A write that is of the common status leaves one status.
LEMMA WriteSettles ==
  ASSUME TypeOK, NEW s \in Statuses, NEW t \in Tasks, Write(t), Settles(s)
  PROVE  /\ Settles(s)' /\ store'.row \in {store.row, s} /\ (Reaches(s) => Reaches(s)')
         /\ store'.row = s => store.row = s \/ store'.state = s
<1>1. PICK h : /\ h = Head(todo[t]) /\ h \in Writes /\ h \in Owed
               /\ store' = [store EXCEPT ![h.to] = h.status]
               /\ Owed' \subseteq Owed /\ Owed \subseteq Owed' \cup {h}
  BY HeadWritten
<1>2. todo[t] # <<>> /\ \A u \in Tasks : u # t => todo'[u] = todo[u]
  BY DEF Write, TypeOK
<1>3. h.status = s /\ h.to \in {"state", "row", "result"}
  BY <1>1 DEF Settles, Writes
<1>4. /\ store'.state = (IF h.to = "state" THEN s ELSE store.state)
      /\ store'.row = (IF h.to = "row" THEN s ELSE store.row)
  BY <1>1, <1>3 DEF TypeOK
<1>5. h.to # "state" => store.state = s
  BY <1>1, <1>2 DEF Settles
<1>6. Settles(s)'
  BY <1>1, <1>4, <1>5 DEF Settles
<1>7. Reaches(s) => Reaches(s)'
  <2> SUFFICES ASSUME Reaches(s), NEW f \in {"state", "row"}
               PROVE  store'[f] = s \/ \E x \in Owed' : x.to = f
    BY DEF Reaches
  <2>1. store[f] = s \/ \E x \in Owed : x.to = f
    BY DEF Reaches
  <2>2. store'[f] = (IF h.to = f THEN s ELSE store[f])
    BY <1>1, <1>3 DEF TypeOK
  <2> QED BY <1>1, <2>1, <2>2
<1> QED BY <1>4, <1>5, <1>6, <1>7

LEMMA WriteInAftermath ==
  ASSUME TypeOK, Token, Trouble, Crashing, Aftermath, NEW t \in Tasks, Write(t)
  PROVE  Aftermath'
<1>1. PICK h : /\ h \in Writes /\ h \in Owed
               /\ store' = [store EXCEPT ![h.to] = h.status]
               /\ Owed' \subseteq Owed /\ Owed \subseteq Owed' \cup {h}
  BY HeadWritten
<1>2. UNCHANGED <<situation, mode, inter, ticket, handle, pc, num, tid>>
  BY DEF Write, data, steady, server
<1>3. store'.row = (IF h.to = "row" THEN h.status ELSE store.row)
  BY <1>1 DEF TypeOK, Writes
<1>4. mode # "down"
  BY <1>1 DEF Trouble, ServerStands
<1>5. Ending' <=> Ending
  <2>1. Ending' => Ending
    BY <1>1, <1>3 DEF Ending
  <2>2. ASSUME Ending PROVE Ending'
    <3>1. h.status \in Terminal
      BY <1>1, <2>2 DEF Trouble, EndsWell, Crashing
    <3>2. CASE store.row \in Terminal
      BY <1>3, <3>1, <3>2 DEF Ending
    <3>3. CASE store.row \notin Terminal
      <4>1. \E x \in Owed : x.to = "row" /\ x.status \in Terminal
        BY <1>4, <2>2, <3>3 DEF Trouble, RowLast, Crashing
      <4> QED BY <1>1, <1>3, <3>1, <4>1 DEF Ending
    <3> QED BY <3>2, <3>3
  <2> QED BY <2>1, <2>2
<1>6. /\ Pending' = Pending /\ Owners' = Owners /\ Unstarted' = Unstarted
      /\ (GoesOn' <=> GoesOn)
  BY <1>2 DEF Pending, Owners, Unstarted, GoesOn, TicketHeld, Redrivable, Issuing, SameTicket
<1>7. Charged'
  BY <1>2, <1>5, <1>6 DEF Aftermath, Charged
<1>8. Asked'
  <2> SUFFICES ASSUME mode = "up", ~Ending, Pending # {}
               PROVE  Settles("waiting_user")' /\ Reaches("waiting_user")'
    BY <1>2, <1>4, <1>5, <1>6 DEF Asked
  <2>1. Settles("waiting_user") /\ Reaches("waiting_user")
    BY DEF Aftermath, Asked
  <2> QED BY <2>1, WriteSettles DEF Statuses
<1>9. OneEnd'
  <2> SUFFICES ASSUME Ending
               PROVE  \E s \in Terminal : Settles(s)' /\ (store'.row \in Terminal => store'.row = s)
    BY <1>5 DEF OneEnd
  <2>1. PICK s \in Terminal : Settles(s) /\ (store.row \in Terminal => store.row = s)
    BY DEF Aftermath, OneEnd
  <2>2. Settles(s)' /\ store'.row \in {store.row, s}
    BY <2>1, WriteSettles DEF Statuses, Terminal
  <2> QED BY <2>1, <2>2
<1>10. RowMovesOn'
  <2> SUFFICES ASSUME Owners # {}
               PROVE  /\ \A x \in Owed' : x.to = "row" => x.status # "waiting_user"
                      /\ store'.row = "waiting_user" /\ (\E w \in Owners : pc[w] \in Prepared)
                           => \E x \in Owed' : x.to = "row"
    BY <1>2, <1>6 DEF RowMovesOn
  <2>1. \A x \in Owed : x.to = "row" => x.status # "waiting_user"
    BY DEF Aftermath, RowMovesOn
  <2>2. ASSUME store'.row = "waiting_user", \E w \in Owners : pc[w] \in Prepared
        PROVE  \E x \in Owed' : x.to = "row"
    <3>1. h.to # "row" /\ store.row = "waiting_user"
      BY <1>1, <1>3, <2>1, <2>2
    <3>2. \E x \in Owed : x.to = "row"
      BY <2>2, <3>1 DEF Aftermath, RowMovesOn
    <3> QED BY <1>1, <3>1, <3>2
  <2> QED BY <1>1, <2>1, <2>2
<1> QED BY <1>7, <1>8, <1>9, <1>10 DEF Aftermath

\* A crash leaves a run that will be found waiting, or ended, or neither.
LEMMA CrashInAftermath ==
  ASSUME TypeOK, Token, Trouble, Crashing, Aftermath, Crash
  PROVE  Aftermath'
<1>1. /\ mode' = "down" /\ mode # "down"
      /\ UNCHANGED <<store, inter, ticket, handle>>
      /\ \A t \in Tasks : todo'[t] = <<>> /\ pc'[t] \in {"idle", "done"}
  BY DEF Crash, data
<1>2. Owed' = {} /\ Asleep'
  BY <1>1 DEF Owed, Range, Asleep
<1>3. Resting'
  BY <1>2, AsleepIsRestingNext
<1>4. Charged' /\ RowMovesOn'
  BY <1>1, <1>3 DEF Charged, RowMovesOn, Resting, Still
<1>5. Asked'
  <2> SUFFICES ASSUME PreserveWaiting PROVE store.state = "waiting_user"
    BY <1>1 DEF Asked, PreserveWaiting, Pending
  <2>1. store.row = "waiting_user" /\ Pending # {}
    BY DEF PreserveWaiting
  <2>2. ~Ending
    BY <2>1 DEF Trouble, RowLast, Crashing, Terminal
  <2>3. mode = "up"
    BY <1>1, <2>2 DEF Trouble, ServerStands, Ending, TypeOK
  <2>4. Settles("waiting_user")
    BY <2>1, <2>2, <2>3 DEF Aftermath, Asked
  <2> QED BY <2>1, <2>4 DEF Settles
<1>6. OneEnd'
  <2> SUFFICES ASSUME store.row \in Terminal
               PROVE  \E s \in Terminal : Settles(s)' /\ store.row = s
    BY <1>1, <1>2 DEF OneEnd, Ending
  <2>1. PICK s \in Terminal : Settles(s) /\ store.row = s
    BY DEF Aftermath, OneEnd, Ending
  <2>2. store.state = s
    BY <2>1 DEF Settles
  <2> QED BY <1>1, <1>2, <2>1, <2>2 DEF Settles
<1> QED BY <1>4, <1>5, <1>6 DEF Aftermath

LEMMA RestartInAftermath ==
  ASSUME TypeOK, Token, Trouble, Crashing, Aftermath, Restart
  PROVE  Aftermath'
<1>1. mode = "down" /\ Owed = {} /\ UNCHANGED <<store, inter, ticket, handle>>
  BY DEF Restart, Trouble, ServerStands, data
<1>2. Asleep /\ Resting /\ (\A t \in Tasks : todo[t] = <<>>) /\ Pending' = Pending
  BY <1>1, AsleepIsResting, NobodyOwes DEF Token, Servers, Asleep, Pending
<1>3. /\ \A w \in Workers : w \in Tasks /\ pc[w] \in {"idle", "done"}
      /\ recovery \in Tasks /\ recovery \notin Workers
  BY <1>2, Disjoint DEF Asleep
<1>4. CASE (store.row \in Terminal \/ PreserveWaiting) /\ mode' = "up" /\ UNCHANGED <<pc, todo, num, tid>>
  <2>1. Owed' = {} /\ Owners' = {} /\ (Ending' <=> store.row \in Terminal)
    BY <1>1, <1>3, <1>4 DEF Owed, Owners, Owning, Ending
  <2>2. RowMovesOn'
    BY <2>1 DEF RowMovesOn
  <2>3. CASE store.row \in Terminal
    <3>1. PICK s \in Terminal : Settles(s) /\ store.row = s
      BY <2>3 DEF Aftermath, OneEnd, Ending
    <3>2. Settles(s)'
      BY <1>1, <2>1, <3>1 DEF Settles
    <3>3. Charged' /\ Asked' /\ OneEnd'
      BY <1>1, <1>4, <2>1, <2>3, <3>1, <3>2 DEF Charged, Asked, OneEnd
    <3> QED BY <2>2, <3>3 DEF Aftermath
  <2>4. CASE store.row \notin Terminal
    <3>1. store.row = "waiting_user" /\ store.state = "waiting_user" /\ Pending # {}
      BY <1>1, <1>4, <2>4 DEF Aftermath, Asked, PreserveWaiting
    <3>2. Settles("waiting_user")' /\ Reaches("waiting_user")'
      BY <1>1, <2>1, <3>1 DEF Settles, Reaches
    <3>3. Charged' /\ Asked' /\ OneEnd'
      BY <1>2, <1>4, <2>1, <2>4, <3>1, <3>2 DEF Charged, GoesOn, Asked, OneEnd
    <3> QED BY <2>2, <3>3 DEF Aftermath
  <2> QED BY <2>3, <2>4
<1>5. CASE RedriveTicket /\ mode' = "up" /\ Spawn(ticket.target, ticket.id)
             /\ Goto(NewWorker, "ticket") /\ UNCHANGED todo
  <2> DEFINE n == NewWorker
  <2>1. n \in Workers
    BY NewWorkerIsIdle
  <2>2. tid' = [tid EXCEPT ![n] = ticket.id] /\ pc' = [pc EXCEPT ![n] = "ticket"]
    BY <1>5 DEF Spawn, Goto
  <2> HIDE DEF n
  <2>3. pc'[n] = "ticket" /\ tid'[n] = ticket.id /\ \A w \in Workers : w # n => pc'[w] = pc[w]
    BY <1>3, <2>1, <2>2 DEF TypeOK
  <2>4. Redrivable /\ Redrivable' /\ Pending = {} /\ store.row = "queued"
    BY <1>1, <1>5 DEF RedriveTicket, Redrivable, Token, Core, TicketAlone
  <2>5. ~Ending'
    BY <1>1, <1>5, <2>4 DEF Ending, Owed, Terminal
  <2>6. Charged'
    BY <1>1, <2>1, <2>3, <2>4 DEF Charged, GoesOn, TicketHeld
  <2>7. Asked' /\ OneEnd'
    BY <1>2, <1>5, <2>4, <2>5, NothingAsked
  <2>8. RowMovesOn'
    BY <1>3, <2>3 DEF RowMovesOn, Owners, Owning
  <2> QED BY <2>6, <2>7, <2>8 DEF Aftermath
<1>6. CASE store.row \notin Terminal /\ mode' = "recovering"
             /\ GotoOwing(recovery, "clear", TerminalProjection("failed") \o <<Put("row", "failed")>>)
             /\ UNCHANGED <<num, tid>>
  <2> DEFINE writes == TerminalProjection("failed") \o <<Put("row", "failed")>>
             W == {Put("state", "failed"), Put("row", "failed"), Put("result", "failed")}
  <2>1. pc' = [pc EXCEPT ![recovery] = "clear"] /\ todo' = [todo EXCEPT ![recovery] = writes]
    BY <1>6 DEF GotoOwing, Goto
  <2>2. Range(writes) = W /\ writes # <<>> /\ Head(writes).to = "state"
    BY ProjectionRanges, TerminalHead, PutIs DEF Terminal
  <2>3. \A x \in W : x.status = "failed"
    BY PutIs
  <2> HIDE DEF W, writes
  <2>4. Owed' = W /\ \A t \in Tasks : todo'[t] # <<>> => Head(todo'[t]).to = "state"
    <3>1. Owed' = Owed \cup Range(writes)
      BY <1>2, <1>3, <2>1, OwedMore
    <3>2. todo'[recovery] = writes /\ \A t \in Tasks \ {recovery} : todo'[t] = <<>>
      BY <1>2, <1>3, <2>1 DEF TypeOK
    <3> QED BY <1>1, <2>2, <3>1, <3>2
  <2>5. "failed" \in Terminal /\ Settles("failed")'
    BY <1>1, <1>6, <2>3, <2>4 DEF Settles, Terminal
  <2>6. Charged' /\ Asked' /\ OneEnd'
    BY <1>1, <1>6, <2>5 DEF Charged, Asked, OneEnd
  <2>7. Owners' = {}
    BY <1>3, <2>1 DEF Owners, Owning, TypeOK
  <2> QED BY <2>6, <2>7 DEF Aftermath, RowMovesOn
<1> QED BY <1>4, <1>5, <1>6 DEF Restart

LEMMA ClearInAftermath ==
  ASSUME TypeOK, Token, Trouble, Crashing, Aftermath, ClearBindings
  PROVE  Aftermath'
<1>1. /\ todo[recovery] = <<>> /\ mode = "recovering" /\ mode' = "up"
      /\ UNCHANGED <<store, todo>> /\ pc' = [pc EXCEPT ![recovery] = "idle"]
  BY DEF ClearBindings, At, Goto, Token, Servers
<1>2. \A t \in Tasks : todo[t] = <<>>
  BY <1>1 DEF Trouble, ServerStands
<1>3. Owed = {} /\ Owed' = {}
  BY <1>1, <1>2 DEF Owed, Range
<1>4. store.row \in Terminal
  BY <1>1, <1>3 DEF Trouble, ServerStands
<1>5. Ending /\ Ending'
  BY <1>1, <1>4 DEF Ending
<1>6. \A s : Settles(s)' <=> Settles(s)
  BY <1>1, <1>3 DEF Settles
<1>7. Charged' /\ Asked' /\ OneEnd'
  BY <1>1, <1>5, <1>6 DEF Aftermath, Charged, Asked, OneEnd
<1>8. Owners' = {}
  <2>1. \A w \in Workers : pc'[w] = pc[w] /\ pc[w] \in {"idle", "done"}
    BY <1>1, Disjoint DEF Token, Servers, TypeOK
  <2> QED BY <2>1 DEF Owners, Owning
<1> QED BY <1>7, <1>8 DEF Aftermath, RowMovesOn

-----------------------------------------------------------------------------
(* A run at rest has settled *)

LEMMA AftermathStep ==
  ASSUME TypeOK, Token, Trouble, Crashing, Aftermath, [Next]_vars PROVE Aftermath'
<1>0. Troubled /\ ~CanFail("audit") /\ ~CanFail("queue_full")
  BY DEF Troubled, Crashing, CanFail
<1>1. ASSUME NEW w \in Workers, WorkerStep(w) \/ RejectRun(w) \/ AuditFails(w) PROVE Aftermath'
  <2>1. ~AuditFails(w) /\ ~RejectRun(w)
    BY <1>0 DEF AuditFails, RejectRun
  <2>2. ~FinishRequeued(w)
    BY DEF FinishRequeued, At, Trouble, ServerStands, Requeuing
  <2>3. TurnSucceeded(w) => pc[w] \in {"resolve", "bundle"}
    BY DEF TurnSucceeded, At
  <2> QED BY <1>1, <2>1, <2>2, <2>3, AttemptInAftermath, TurnEndsInAftermath, TurnAsksInAftermath,
             WaitingFinishedInAftermath, JobInAftermath DEF WorkerStep
<1>2. ASSUME NEW t \in Cancellers,
             CancelArrives(t) \/ SetCancelRequested(t) \/ Kill(t) \/ ProjectCanceled(t)
      PROVE  Aftermath'
  <2>1. pc[t] \in {"idle", "done"} /\ situation # "cancel"
    BY DEF Trouble, ServerStands, Crashing
  <2> QED BY <1>2, <2>1 DEF CancelArrives, SetCancelRequested, Kill, ProjectCanceled, At
<1>3. ASSUME NEW t \in Tasks, Step(t) PROVE Aftermath'
  <2>1. CASE Write(t)
    BY <2>1, WriteInAftermath
  <2>2. CASE t \in Workers /\ ~Write(t)
    BY <1>1, <1>3, <2>2, Disjoint DEF Step, Resumers
  <2>3. CASE t \notin Workers /\ ~Write(t)
    <3>1. \/ /\ t \in Resumers
             /\ \/ t \in Timers /\ TimerFires(t)
                \/ LookUpPending(t) \/ SubmitReply(t) \/ IssueTicket(t) \/ DispatchTicket(t)
          \/ t \in Pollers /\ Redrive(t)
          \/ t \in Cancellers /\ (SetCancelRequested(t) \/ Kill(t) \/ ProjectCanceled(t))
      BY <1>3, <2>3 DEF Step, Resumers
    <3> QED BY <1>2, <3>1, ResumerLooksInAftermath, ReplyInAftermath, TicketIssuedInAftermath,
               DispatchInAftermath
  <2> QED BY <2>1, <2>2, <2>3
<1>4. ASSUME NEW t \in Tasks, Arrival(t) PROVE Aftermath'
  BY <1>2, <1>4, Arrivals, ResumerLooksInAftermath
<1>5. CASE UNCHANGED vars
  <2>1. UNCHANGED <<store, inter, ticket, handle, mode, pc, todo, num, tid>>
    BY <1>5 DEF vars
  <2>2. /\ Owed' = Owed /\ Owners' = Owners /\ Unstarted' = Unstarted /\ Pending' = Pending
        /\ (GoesOn' <=> GoesOn) /\ (Ending' <=> Ending)
    BY <2>1 DEF Owed, Owners, Unstarted, Pending, GoesOn, TicketHeld, Redrivable, Issuing,
                SameTicket, Ending
  <2>3. \A s : (Settles(s)' <=> Settles(s)) /\ (Reaches(s)' <=> Reaches(s))
    BY <2>1, <2>2 DEF Settles, Reaches
  <2> QED BY <2>1, <2>2, <2>3
          DEF Aftermath, Charged, Asked, OneEnd, RowMovesOn, PreserveWaiting
<1> QED BY <1>3, <1>4, <1>5, CrashInAftermath, RestartInAftermath, ClearInAftermath DEF Next

LEMMA AftermathInitially == Init => Aftermath
<1> SUFFICES ASSUME Init PROVE Aftermath
  OBVIOUS
<1> DEFINE first == <<"worker", 1>>
<1>1. first \in Workers /\ first \in Tasks
  BY FirstWorker, Disjoint
<1>2. /\ \A t \in Tasks : pc[t] = (IF t = first THEN "new" ELSE "idle") /\ todo[t] = <<>> /\ tid[t] = 0
      /\ mode = "up" /\ store.row = "queued"
      /\ \A a \in Attempts : inter[a].state = "absent"
  BY DEF Init
<1> HIDE DEF first
<1>3. Owed = {} /\ Pending = {} /\ Owners = {}
  <2>1. \A w \in Workers : w \in Tasks
    BY Disjoint
  <2> QED BY <1>2, <2>1 DEF Owed, Range, Pending, Owners, Owning
<1>4. ~Ending
  BY <1>2, <1>3 DEF Ending, Terminal
<1>5. Charged
  BY <1>1, <1>2 DEF Charged, Unstarted
<1> QED BY <1>2, <1>3, <1>4, <1>5 DEF Aftermath, Asked, OneEnd, RowMovesOn

LEMMA AftermathAlways == Spec => [](Crashing => Aftermath)
<1> DEFINE S == Troubled => Trouble
           A == Crashing => Aftermath
<1>1. Init => TypeOK /\ Token /\ S /\ A
  BY Initially, TroubleInitially, AftermathInitially
<1>2. TypeOK /\ Token /\ S /\ A /\ [Next]_vars => (TypeOK /\ Token /\ S /\ A)'
  <2> SUFFICES ASSUME TypeOK, Token, S, A, [Next]_vars PROVE TypeOK' /\ Token' /\ S' /\ A'
    OBVIOUS
  <2>1. situation' = situation /\ conversation' = conversation
    BY SituationKept
  <2>2. (Troubled' <=> Troubled) /\ (Crashing' <=> Crashing) /\ (Crashing => Troubled)
    BY <2>1 DEF Troubled, Crashing, Session, CanFail
  <2> QED BY <2>2, Inductive, TroubleStep, AftermathStep
<1> QED BY <1>1, <1>2, PTL DEF Spec

\* Nothing that has been asked of such a run is forgotten, and its stores agree.
SettledAtRest ==
  Crashing /\ Quiescent =>
    store.row = store.state /\ store.state \in Terminal \cup {"waiting_user"}

LEMMA AtRestSettled ==
  ASSUME TypeOK, Troubled => Trouble, Crashing => Aftermath
  PROVE  SettledAtRest
<1> SUFFICES ASSUME Crashing, mode = "up", \A t \in Tasks : todo[t] = <<>> /\ pc[t] \in {"idle", "done"}
             PROVE  store.row = store.state /\ store.state \in Terminal \cup {"waiting_user"}
  BY DEF SettledAtRest, Quiescent
<1>1. Owed = {}
  BY OwedNone
<1>2. \A t \in Workers \cup Resumers : pc[t] \in {"idle", "done"}
  BY Disjoint
<1>3. Unstarted = {} /\ Owners = {} /\ Issuing = {} /\ ~TicketHeld
  BY <1>2 DEF Unstarted, Owners, Owning, Issuing, TicketHeld
<1>4. CASE Ending
  <2>1. store.row \in Terminal
    BY <1>1, <1>4 DEF Ending
  <2>2. PICK s \in Terminal : Settles(s) /\ store.row = s
    BY <1>4, <2>1 DEF Aftermath, OneEnd
  <2> QED BY <2>2 DEF Settles
<1>5. CASE ~Ending
  <2>1. Pending # {}
    BY <1>3, <1>5 DEF Aftermath, Charged, GoesOn
  <2>2. Reaches("waiting_user")
    BY <1>5, <2>1 DEF Aftermath, Asked
  <2> QED BY <1>1, <2>2 DEF Reaches
<1> QED BY <1>4, <1>5

\* Whenever the server crashes, and however often: when nothing is under way a
\* session has ended or waits for its user, and the row, by which the next
\* restart goes, says the same as the run state, by which a client goes.
THEOREM CrashedRunSettles == Spec => []SettledAtRest
<1> DEFINE P == TypeOK /\ (Troubled => Trouble) /\ (Crashing => Aftermath)
<1>1. P => SettledAtRest
  BY AtRestSettled
<1>2. Spec => []P
  BY TypeCorrect, TroubleAlways, AftermathAlways, PTL
<1> QED BY <1>1, <1>2, PTL

=============================================================================
