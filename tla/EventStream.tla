---------------------------- MODULE EventStream ----------------------------
(***************************************************************************)
(* The FCMP events of one run, from the publisher to the readers of        *)
(* GET /events.  A row gets its seq from memory, goes into a ring of live  *)
(* rows and to the queues of the subscribed readers, and is appended to    *)
(* the audit file of its attempt by a writer that lags behind.  A reader   *)
(* remembers the last seq it was sent and fetches what follows from the    *)
(* ring or, for rows no longer there, from the files, whose rows are       *)
(* numbered again on the way.                                              *)
(*                                                                         *)
(* A row is identified by its place in the order of publication, which no  *)
(* part of the program stores: seqs are lost, reused and renumbered.       *)
(***************************************************************************)
EXTENDS Naturals, Sequences, FiniteSets, SequencesExt

CONSTANTS Readers,
          MaxAttempt, RowsPerTurn,      \* bounds on the run
          RingSize,                     \* max_events_per_run
          QueueSize,                    \* of a subscriber
          MaxConnects, MaxCrashes,      \* bounds on readers and faults
          Rush                          \* the windows below that are hit

(***************************************************************************)
(* What the code relies on being quick or slow.  A member of Rush drops    *)
(* that assumption.                                                        *)
(*   subscribe    no row between a reader's first read and its subscription*)
(*   slow_mirror  a row is on file before it leaves the ring, before a row *)
(*                of a later attempt, and before the files of a run that   *)
(*                is over are read (0.2 s)                                 *)
(*   overlap      no append while a reader rewrites the file               *)
(*   stale_cursor a client drops its cursor when the server restarts       *)
(*   live_only    the files are read only while the ring has all rows of   *)
(*                the attempt that runs: no restart, no long turn          *)
(*   slow_end     no reader reads the status for the second time in vain   *)
(*                between the terminal status and the terminal event       *)
(***************************************************************************)
Windows ==
  {"subscribe", "slow_mirror", "overlap", "stale_cursor", "live_only", "slow_end"}

ASSUME BoundsAssumption ==
  /\ MaxAttempt \in Nat \ {0} /\ RowsPerTurn \in Nat
  /\ RingSize \in Nat \ {0} /\ QueueSize \in Nat \ {0}
ASSUME RushAssumption == Rush \subseteq Windows

Attempts == 1 .. MaxAttempt

VARIABLES
  run,       \* where the run is, its attempt, the rows its turn may still emit
  rows,      \* what was published, in order: kind, attempt and seq
  gone,      \* those of them that a crash has lost
  memory,    \* of the publisher: the next seq (0: not read yet), the rows the
             \*   gate holds back, and the number of rows of earlier lives
  journal,   \* the ring
  pending,   \* of each attempt's writer: rows not yet appended
  file,      \* of each attempt: rows with the seq they have there
  reader,
  crashes

vars == <<run, rows, gone, memory, journal, pending, file, reader, crashes>>

Ids == DOMAIN rows

Status ==
  CASE run.pc \in {"turn", "asked"}       -> "running"
    [] run.pc = "waiting"                 -> "waiting_user"
    [] run.pc \in {"accepting", "queued"} -> "queued"
    [] OTHER                              -> "terminal"

Offline == [pc |-> "off", cursor |-> 0, queue |-> <<>>, batch |-> {}, got |-> <<>>,
            idle |-> 0, emitted |-> FALSE, connects |-> 0]

Init ==
  /\ run = [pc |-> "turn", att |-> 1, left |-> RowsPerTurn]
  /\ rows = <<>>
  /\ gone = {}
  /\ memory = [next |-> 0, held |-> {}, base |-> 0]
  /\ journal = <<>>
  /\ pending = [a \in Attempts |-> <<>>]
  /\ file = [a \in Attempts |-> <<>>]
  /\ reader = [r \in Readers |-> Offline]
  /\ crashes = 0

Subscribed(r) == reader[r].pc \in {"pop", "catch", "check"}

---------------------------------------------------------------------------
(* Publishing. *)

FileSeqs == UNION {{file[a][i].seq : i \in DOMAIN file[a]} : a \in Attempts}

\* Mutant: the attempts are not added up.
NextSeqOfAttempt == IF memory.next > 0 THEN memory.next
                    ELSE Max({0} \cup {file[run.att][i].seq : i \in DOMAIN file[run.att]}) + 1

NextSeq == IF memory.next > 0 THEN memory.next ELSE Max({0} \cup FileSeqs) + 1

Prerequisite(kind) ==
  CASE kind = "succeeded"    -> {"final"}
    [] kind = "waiting_user" -> {"prompted"}
    [] OTHER                 -> {}

\* The gate remembers what this process has published, whatever the attempt.
KindsPublished == {rows[i].kind : i \in {j \in Ids : j > memory.base}}

\* What the gate lets out when it is offered kinds, in this order: all of them,
\* but the last may have to wait; then what was held back and may go now.
Passed(kinds) ==
  LET out == IF Prerequisite(Last(kinds)) \subseteq KindsPublished \cup ToSet(Front(kinds))
             THEN kinds ELSE Front(kinds)
      all == KindsPublished \cup ToSet(out)
  IN out \o SetToSeq({k \in memory.held : Prerequisite(k) \subseteq all})

Lagging(a) == \E b \in Attempts : b < a /\ pending[b] # <<>>
OnFile(id) == \E a \in Attempts : \E i \in DOMAIN file[a] : file[a][i].id = id

Publish(kinds, a) ==
  LET out  == Passed(kinds)
      new  == [i \in DOMAIN out |-> Len(rows) + i]
      ring == journal \o new
      over == IF Len(ring) > RingSize THEN Len(ring) - RingSize ELSE 0
  IN /\ "subscribe" \in Rush \/ \A r \in Readers : reader[r].pc # "first"
     /\ "slow_mirror" \in Rush \/ \A i \in 1 .. over : OnFile(ring[i])
     /\ rows' = rows \o [i \in DOMAIN out |->
                           [kind |-> out[i], att |-> a, seq |-> NextSeq + i - 1]]
     /\ memory' = [memory EXCEPT
                     !.next = IF out = <<>> THEN @ ELSE NextSeq + Len(out),
                     !.held = (@ \cup {kinds[i] : i \in DOMAIN kinds})
                                 \ {out[i] : i \in DOMAIN out}]
     /\ journal' = SubSeq(ring, over + 1, Len(ring))
     /\ pending' = [pending EXCEPT ![a] = @ \o new]
     /\ reader' = [r \in Readers |->
                     IF Subscribed(r)
                     THEN [reader[r] EXCEPT !.queue =
                             SubSeq(@ \o new, 1, Min({QueueSize, Len(@) + Len(new)}))]
                     ELSE reader[r]]
     /\ UNCHANGED <<gone, file, crashes>>

(* The run publishes as it goes, and changes its status before or after. *)
Emit(kind) ==
  /\ run.pc = "turn" /\ run.left > 0
  /\ run' = [run EXCEPT !.left = @ - 1]
  /\ Publish(<<kind>>, run.att)

Ask ==
  /\ run.pc = "turn" /\ run.att < MaxAttempt
  /\ run' = [run EXCEPT !.pc = "asked"]
  /\ Publish(<<"prompted", "waiting_user">>, run.att)

Move(from, to) ==
  /\ run.pc = from
  /\ run' = [run EXCEPT !.pc = to]
  /\ UNCHANGED <<rows, gone, memory, journal, pending, file, reader, crashes>>

Wait == Move("asked", "waiting")
Reply == Move("waiting", "accepting")

Accept ==
  /\ run.pc = "accepting"
  /\ run' = [run EXCEPT !.pc = "queued"]
  /\ Publish(<<"accepted">>, run.att + 1)

StartTurn ==
  /\ run.pc = "queued"
  /\ run' = [pc |-> "turn", att |-> run.att + 1, left |-> RowsPerTurn]
  /\ UNCHANGED <<rows, gone, memory, journal, pending, file, reader, crashes>>

(* The status is terminal before the terminal event is out: a reader must   *)
(* not be about to give up just then.                                       *)
InTime(r) ==
  \/ "slow_end" \in Rush \/ run.pc # "ending"
  \/ reader[r].pc # "check" \/ reader[r].idle = 0 \/ reader[r].emitted

Timely == \A r \in Readers : InTime(r)

End ==
  /\ Move("turn", "ending")
  /\ Timely'

AnnounceEnd(kind) ==
  /\ run.pc = "ending"
  /\ run' = [run EXCEPT !.pc = "over"]
  /\ Publish(<<kind>>, run.att)

(* The writer of an attempt appends a batch. *)
Flush(a) ==
  /\ pending[a] # <<>>
  /\ "slow_mirror" \in Rush \/ ~Lagging(a)
  /\ \E n \in 1 .. Len(pending[a]) :
       /\ file' = [file EXCEPT ![a] = @ \o [i \in 1 .. n |->
                     [id |-> pending[a][i], seq |-> rows[pending[a][i]].seq]]]
       /\ pending' = [pending EXCEPT ![a] = SubSeq(@, n + 1, Len(@))]
  /\ UNCHANGED <<run, rows, gone, memory, journal, reader, crashes>>

(* The ring of a run that is over is dropped, with its subscribers' list. *)
Expire ==
  /\ run.pc = "over" /\ journal # <<>>
  /\ rows[Last(journal)].kind \in {"succeeded", "failed"}
  /\ \A a \in Attempts : pending[a] = <<>>
  /\ journal' = <<>>
  /\ UNCHANGED <<run, rows, gone, memory, pending, file, reader, crashes>>

---------------------------------------------------------------------------
(* Reading.  A history is a set of pairs <<seq, id>>. *)

Live(S) == {<<rows[i].seq, i>> : i \in S}
Ring == {journal[i] : i \in DOMAIN journal}
RingOf(a) == {i \in Ring : rows[i].att = a}

\* The first of two rows with the same seq stays.
Merge(P, Q) == P \cup {q \in Q : \A p \in P : p[1] # q[1]}

(* A reader of the files writes them back with the seqs 1, 2, ... *)
Places(f) == UNION {{<<a, i>> : i \in DOMAIN f[a]} : a \in Attempts}
UpTo(f, a, i) == {p \in Places(f) : p[1] < a \/ (p[1] = a /\ p[2] <= i)}
Reindexed(f) ==
  [a \in Attempts |->
     [i \in DOMAIN f[a] |-> [f[a][i] EXCEPT !.seq = Cardinality(UpTo(f, a, i))]]]

\* The current attempt of a queued or running run is read from the ring only.
FromRing(a) == a = run.att /\ Status \in {"running", "queued"}

\* The files of a run that is over are read only once the writers are idle.  The
\* wait is also for the writers of the RASP and chat streams, which are left out:
\* a reader kept waiting by them alone reads later, unless the wait times out,
\* which is the window slow_mirror.
Drained == \A a \in Attempts : pending[a] = <<>>
FromFile(a) == ~FromRing(a) /\ (Status = "terminal" => Drained)

Available == {rows[i].att : i \in Ids}
Reindexes == \E a \in Available : FromFile(a)

AttemptHistory(f, a) ==
  LET filed == {<<f[a][i].seq, f[a][i].id>> : i \in DOMAIN f[a]}
  IN CASE ~FromFile(a)                       -> Live(RingOf(a))
       [] FromFile(a) /\ Status = "terminal" -> filed
       [] OTHER                              -> Merge(filed, Live(RingOf(a)))

(* Rows whose seqs are not 1, 2, ... are numbered by their position. *)
Numbered(P) ==
  LET n == Cardinality(P)
      Upto(p) == {q \in P : q[1] < p[1] \/ (q[1] = p[1] /\ q[2] <= p[2])}
  IN IF {p[1] : p \in P} = 1 .. n THEN P ELSE {<<Cardinality(Upto(p)), p[2]>> : p \in P}

AuditHistory(f) == Numbered(UNION {AttemptHistory(f, a) : a \in Available})

RingFrom(from) == {i \in Ring : rows[i].seq >= from}
Floor(from) == Min({rows[i].seq : i \in IF RingFrom(from) # {} THEN RingFrom(from) ELSE Ring})

\* Mutant: off by one at the floor.
NeedsAuditBelow(from) == Ring = {} \/ from + 1 < Floor(from)

NeedsAudit(from) == Ring = {} \/ from < Floor(from)

(* get_event_history_payload: the rows from a seq on, those of the ring first. *)
History(f, from) ==
  Merge(Live(RingFrom(from)),
        IF NeedsAudit(from) THEN {p \in AuditHistory(f) : p[1] >= from} ELSE {})

(* Rewriting the files while a writer appends loses what is appended. *)
Overlapped == IF "overlap" \in Rush THEN SUBSET {a \in Attempts : pending[a] # <<>>} ELSE {{}}

ReadHistory(from) ==
  /\ (NeedsAudit(from) /\ "live_only" \notin Rush) =>
       {i \in Ids \ gone : FromRing(rows[i].att)} \subseteq Ring
  /\ (NeedsAudit(from) /\ Status = "terminal" /\ "slow_mirror" \notin Rush) => Drained
  /\ IF NeedsAudit(from) /\ Reindexes
     THEN \E lost \in Overlapped :
            /\ file' = Reindexed(file)
            /\ pending' = [a \in Attempts |-> IF a \in lost THEN <<>> ELSE pending[a]]
     ELSE UNCHANGED <<file, pending>>

\* A reader that is sent those rows of P that follow its cursor, in order of seq.
Sent(rd, P) ==
  LET new == {p \in P : p[1] > rd.cursor}
      Place(p) == Cardinality({q \in new : q[1] <= p[1]})
      ids == [i \in 1 .. Cardinality(new) |-> CHOOSE p \in new : Place(p) = i]
  IN [rd EXCEPT !.cursor = Max({@} \cup {p[1] : p \in new}),
                !.got = @ \o [i \in DOMAIN ids |-> ids[i][2]],
                !.emitted = @ \/ new # {}]

---------------------------------------------------------------------------
(* One GET /events: a first read, then polls of queue, history and status. *)

Connect(r) ==
  /\ reader[r].pc = "off" /\ reader[r].connects < MaxConnects
  /\ ReadHistory(reader[r].cursor + 1)
  /\ reader' = [reader EXCEPT ![r].pc = "first",
                              ![r].connects = @ + 1,
                              ![r].batch = History(file', reader[r].cursor + 1)]
  /\ UNCHANGED <<run, rows, gone, memory, journal, crashes>>

Subscribe(r) ==
  /\ reader[r].pc = "first"
  /\ reader' = [reader EXCEPT ![r] =
                  [Sent(reader[r], reader[r].batch) EXCEPT
                     !.pc = "pop", !.batch = {}, !.queue = <<>>, !.idle = 0, !.emitted = FALSE]]
  /\ UNCHANGED <<run, rows, gone, memory, journal, pending, file, crashes>>

\* Mutant: a queued row is sent whatever its seq.
PopUnchecked(r) ==
  /\ reader[r].pc = "pop"
  /\ LET rd == [reader[r] EXCEPT !.pc = "catch", !.emitted = FALSE]
     IN reader' = [reader EXCEPT ![r] =
          IF rd.queue = <<>> THEN rd
          ELSE [rd EXCEPT !.queue = Tail(@), !.got = Append(@, Head(rd.queue)),
                          !.cursor = rows[Head(rd.queue)].seq, !.emitted = TRUE]]
  /\ UNCHANGED <<run, rows, gone, memory, journal, pending, file, crashes>>

Pop(r) ==
  /\ reader[r].pc = "pop"
  /\ LET rd == [reader[r] EXCEPT !.pc = "catch", !.emitted = FALSE]
     IN reader' = [reader EXCEPT ![r] =
          IF rd.queue = <<>> THEN rd
          ELSE Sent([rd EXCEPT !.queue = Tail(@)], Live({Head(rd.queue)}))]
  /\ UNCHANGED <<run, rows, gone, memory, journal, pending, file, crashes>>

CatchUp(r) ==
  /\ reader[r].pc = "catch"
  /\ ReadHistory(reader[r].cursor + 1)
  /\ reader' = [reader EXCEPT ![r] =
                  [Sent(reader[r], History(file', reader[r].cursor + 1)) EXCEPT !.pc = "check"]]
  /\ UNCHANGED <<run, rows, gone, memory, journal, crashes>>
  /\ Timely'

\* Mutant: one idle poll ends the stream.
EndsAtOnce(idle) == idle >= 1

EndsStream(idle) == idle >= 2

CheckStatus(r) ==
  /\ reader[r].pc = "check"
  /\ LET settled == Status \in {"waiting_user", "terminal"}
         idle    == IF settled /\ ~reader[r].emitted THEN reader[r].idle + 1 ELSE 0
     IN reader' = [reader EXCEPT
          ![r].idle = idle,
          ![r].queue = IF EndsStream(idle) THEN <<>> ELSE @,
          ![r].pc = IF ~EndsStream(idle) THEN "pop"
                    ELSE IF Status = "terminal" THEN "ended"
                    ELSE "off"]
  /\ UNCHANGED <<run, rows, gone, memory, journal, pending, file, crashes>>

Disconnect(r) ==
  /\ reader[r].pc \notin {"off", "ended"}
  /\ reader' = [reader EXCEPT ![r] = [Offline EXCEPT !.cursor = reader[r].cursor,
                                        !.got = reader[r].got, !.connects = reader[r].connects]]
  /\ UNCHANGED <<run, rows, gone, memory, journal, pending, file, crashes>>

---------------------------------------------------------------------------
(* A restart keeps the files, the status and, of the run, its ticket. *)
Crash ==
  /\ crashes < MaxCrashes
  /\ crashes' = crashes + 1
  /\ run' = [run EXCEPT !.pc = CASE run.pc \in {"turn", "asked", "ending"} -> "over"
                                 [] run.pc = "accepting"                   -> "queued"
                                 [] OTHER                                  -> @]
  /\ gone' = {i \in Ids : ~OnFile(i)}
  /\ memory' = [next |-> 0, held |-> {}, base |-> Len(rows)]
  /\ journal' = <<>>
  /\ pending' = [a \in Attempts |-> <<>>]
  /\ reader' = [r \in Readers |->
                  IF "stale_cursor" \in Rush
                  THEN [Offline EXCEPT !.cursor = reader[r].cursor, !.got = reader[r].got,
                                       !.connects = reader[r].connects]
                  ELSE [Offline EXCEPT !.connects = reader[r].connects]]
  /\ UNCHANGED <<rows, file>>

Next ==
  \/ \E kind \in {"row", "final"} : Emit(kind)
  \/ Ask \/ Wait \/ Reply \/ Accept \/ StartTurn \/ End
  \/ \E kind \in {"succeeded", "failed"} : AnnounceEnd(kind)
  \/ \E a \in Attempts : Flush(a)
  \/ Expire \/ Crash
  \/ \E r \in Readers : Connect(r) \/ Subscribe(r) \/ Pop(r) \/ CatchUp(r)
                          \/ CheckStatus(r) \/ Disconnect(r)

Spec == Init /\ [][Next]_vars

---------------------------------------------------------------------------
(* A reader is sent the rows in the order they were published, each at     *)
(* most once, over any number of connections, whether they come from the   *)
(* queue, the ring or the files (iter_sse_events, _merge_fcmp_rows).       *)
SeenInOrder ==
  \A r \in Readers : \A i, j \in DOMAIN reader[r].got :
    i < j => reader[r].got[i] < reader[r].got[j]

(* Every row with a seq up to a reader's cursor has been sent to it, unless *)
(* a crash lost it: the cursor never skips a row.                          *)
SeenIsComplete ==
  \A r \in Readers : \A i \in Ids \ gone :
    rows[i].seq <= reader[r].cursor => \E k \in DOMAIN reader[r].got : reader[r].got[k] = i

(* A file holds its rows with the seqs they were published with, whatever   *)
(* readers rewrite it and whichever lives appended to it                   *)
(* (reindex_fcmp_global_seq, _bootstrap_run).                              *)
MirrorKeepsSeq ==
  \A a \in Attempts : \A i \in DOMAIN file[a] :
    file[a][i].seq = rows[file[a][i].id].seq

(* A stream that the server ends because the run is over has sent the      *)
(* reader every row there is, the terminal event included.                 *)
EndedStreamIsComplete ==
  \A r \in Readers : reader[r].pc = "ended" =>
    Ids \ gone \subseteq {reader[r].got[k] : k \in DOMAIN reader[r].got}

=============================================================================
