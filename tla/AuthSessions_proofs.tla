------------------------- MODULE AuthSessions_proofs -------------------------
(***************************************************************************)
(* Theorems about AuthSessions for any logins, terminals and scopes.       *)
(***************************************************************************)
EXTENDS AuthSessions, TLAPS

(***************************************************************************)
(* Who holds the gate is known (GateIsOwned), but that alone does not keep *)
(* logins and terminals apart: it takes that the terminal is alone in the  *)
(* gate, that processes do not outlive their sessions, and that a state is *)
(* consumed only of a session that has begun.                              *)
(***************************************************************************)
TerminalIsAlone == shell # None => gate = {shell}
ScopesApart == \A i, j \in LiveLogins : scope[i] = scope[j] => i = j
ProcessesAreOwned ==
  /\ \A t \in Terminals : process[t] = "alive" => t = shell
  /\ \A id \in Logins : process[id] = "alive" => status[id] \in Live
Begun ==
  /\ \A id \in Logins : status[id] \in Live => driver[id] \in Drivers
  /\ \A id \in Logins : driver[id] # None => status[id] # "none"
  /\ \A id \in consumed : status[id] # "none"

Gated ==
  /\ GateIsOwned /\ TerminalIsAlone /\ ScopesApart
  /\ ProcessesAreOwned /\ RedirectsExpected /\ Begun
IInv == TypeOK /\ Gated

\* A refresh leaves a session as it is or ends it.
LEMMA RefreshedEnds ==
  ASSUME TypeOK, Begun, NEW id \in Logins, NEW s \in Refreshed(id), status[id] # "none"
  PROVE  s = status[id] \/ (s \in Terminal /\ status[id] \in Live)
<1>1. CASE status[id] \notin Live
  BY <1>1 DEF Refreshed
<1>2. CASE status[id] \in Live /\ id \in late
  <2>1. Refreshed(id) = {"expired"}
    BY <1>2 DEF Refreshed
  <2> QED BY <1>2, <2>1 DEF Terminal
<1>3. CASE status[id] \in Live /\ id \notin late
  <2>1. driver[id] \in {"callback", "device", "cli"}
    BY <1>3 DEF Begun, Drivers
  <2>2. Refreshed(id) \subseteq {status[id], "succeeded", "failed"}
    BY <1>3, <2>1 DEF Refreshed
  <2> QED BY <1>3, <2>2 DEF Terminal
<1> QED BY <1>1, <1>2, <1>3

LEMMA ShellIsTerminal == TypeOK /\ shell # None => shell \in Terminals /\ shell \notin Logins
  BY IdsAssumption DEF TypeOK

-----------------------------------------------------------------------------
(* A session that moves, and ends or does not *)

LEMMA SessionMoves ==
  ASSUME IInv, NEW id \in Logins, status[id] # "none",
         NEW s \in Live \cup Terminal, s \in Live => status[id] \in Live,
         status' = [status EXCEPT ![id] = s],
         NEW S, S \subseteq {id}, s \in Terminal /\ status[id] \in Live => S = {id},
         s \in Live => S = {},
         gate' = gate \ S, callbacks' = callbacks \ S, process' = Reaped(S),
         UNCHANGED <<scope, driver, shell>>,
         consumed' = consumed \/ (consumed' = consumed \cup {id} /\ s \in Terminal)
  PROVE  Gated'
<1>0. /\ status \in [Logins -> {"none"} \cup Live \cup Terminal]
      /\ gate \subseteq Logins \cup Terminals
      /\ process \in [Logins \cup Terminals -> {"none", "alive", "exited"}]
      /\ Live \cap Terminal = {} /\ "none" \notin Live \cup Terminal
  BY DEF IInv, TypeOK, Live, Terminal
<1>1. LiveLogins' = LiveLogins \ S
  <2>1. \A i \in Logins : i # id => status'[i] = status[i]
    BY <1>0
  <2>2. status'[id] = s
    BY <1>0
  <2>3. CASE s \in Live
    BY <1>0, <2>1, <2>2, <2>3 DEF LiveLogins
  <2>4. CASE s \in Terminal
    BY <1>0, <2>1, <2>2, <2>4 DEF LiveLogins
  <2> QED BY <2>3, <2>4
<1>2. \A i \in Logins : status'[i] = "none" <=> status[i] = "none"
  BY <1>0
<1>3. \A p \in Logins \cup Terminals :
        /\ process'[p] = "alive" <=> process[p] = "alive" /\ p \notin S
        /\ process'[p] = "none" <=> process[p] = "none"
  BY <1>0 DEF Reaped
<1>4. shell # None => shell \notin S
  BY ShellIsTerminal DEF IInv
<1>5. GateIsOwned'
  <2>1. \A h \in Logins \cup Terminals : NeverBegan(h)' <=> NeverBegan(h)
    BY <1>2, <1>3 DEF NeverBegan
  <2> QED BY <1>0, <1>1, <1>4, <2>1 DEF IInv, Gated, GateIsOwned
<1>6. TerminalIsAlone'
  BY <1>4 DEF IInv, Gated, TerminalIsAlone
<1>7. ScopesApart'
  BY <1>1 DEF IInv, Gated, ScopesApart
<1>8. ProcessesAreOwned'
  <2>1. \A i \in Logins : status[i] \in Live /\ i \notin S => status'[i] \in Live
    BY <1>1 DEF LiveLogins
  <2> QED BY <1>3, <2>1 DEF IInv, Gated, ProcessesAreOwned
<1>9. RedirectsExpected'
  <2>1. callbacks' = {i \in LiveLogins' : driver'[i] = "callback"}
    BY <1>1 DEF IInv, Gated, RedirectsExpected
  <2>2. s \in Terminal => id \notin LiveLogins'
    BY <1>0 DEF LiveLogins
  <2>3. callbacks' \cap consumed' = {}
    BY <2>1, <2>2 DEF IInv, Gated, RedirectsExpected
  <2> QED BY <2>1, <2>3 DEF RedirectsExpected
<1>10. Begun'
  <2>1. \A i \in Logins : status'[i] \in Live => status[i] \in Live
    BY <1>1 DEF LiveLogins
  <2>2. consumed' \subseteq Logins /\ consumed \subseteq Logins
    BY DEF IInv, TypeOK
  <2> QED BY <1>2, <2>1, <2>2 DEF IInv, Gated, Begun
<1> QED BY <1>5, <1>6, <1>7, <1>8, <1>9, <1>10 DEF Gated

\* The refresh of a session and what may follow it.
LEMMA Moved ==
  ASSUME IInv, NEW id \in Logins, status[id] # "none", NEW s \in Refreshed(id),
         NEW final, final = s \/ (s \in Live /\ final \in Terminal),
         status' = [status EXCEPT ![id] = final],
         NEW S, S = Ending(id, final),
         gate' = gate \ S, callbacks' = callbacks \ S, process' = Reaped(S),
         UNCHANGED <<scope, driver, shell>>,
         consumed' = consumed \/ (consumed' = consumed \cup {id} /\ final \in Terminal)
  PROVE  Gated'
<1>1. status[id] \in Live \cup Terminal /\ Live \cap Terminal = {}
  BY DEF IInv, TypeOK, Live, Terminal
<1>2. s = status[id] \/ (s \in Terminal /\ status[id] \in Live)
  BY RefreshedEnds DEF IInv, Gated
<1>3. /\ final \in Live \cup Terminal
      /\ final \in Live => status[id] \in Live
      /\ S \subseteq {id}
      /\ final \in Terminal /\ status[id] \in Live => S = {id}
      /\ final \in Live => S = {}
  BY <1>1, <1>2 DEF Ending
<1> QED BY <1>3, SessionMoves

-----------------------------------------------------------------------------
(* Starts *)

\* What a start settles first: the session its scope had.
LEMMA SettledEnds ==
  ASSUME IInv, NEW sc \in Scopes, NEW s, NEW gone, Settled(sc, s, gone)
  PROVE  \/ active[sc] = None /\ gone = {} /\ StatusSettled(sc, s) = status
         \/ /\ active[sc] \in Logins /\ status[active[sc]] # "none"
            /\ s \in Refreshed(active[sc]) /\ s \in Terminal
            /\ gone = Ending(active[sc], s)
            /\ StatusSettled(sc, s) = [status EXCEPT ![active[sc]] = s]
<1>1. CASE active[sc] = None
  BY <1>1 DEF Settled, StatusSettled
<1>2. CASE active[sc] # None
  <2>1. active[sc] \in Logins
    BY <1>2 DEF IInv, TypeOK
  <2>2. s \in Refreshed(active[sc]) /\ s \in Terminal /\ gone = Ending(active[sc], s)
    BY <1>2 DEF Settled
  <2>3. status[active[sc]] # "none"
    BY <2>2 DEF Refreshed, Live, Terminal
  <2> QED BY <1>2, <2>1, <2>2, <2>3 DEF StatusSettled
<1> QED BY <1>1, <1>2

LEMMA StartFailsStep == ASSUME IInv, NEW sc \in Scopes, StartFails(sc) PROVE Gated'
<1>1. PICK s \in Terminal \cup {"none"}, gone \in {{}, {active[sc]}} :
         /\ Settled(sc, s, gone)
         /\ status' = StatusSettled(sc, s)
         /\ gate' = gate \ gone /\ callbacks' = callbacks \ gone /\ process' = Reaped(gone)
  BY DEF StartFails, GateWithout, StatesWithout
<1>2. UNCHANGED <<scope, driver, consumed, shell>>
  BY DEF StartFails
<1>3. CASE active[sc] = None /\ gone = {} /\ StatusSettled(sc, s) = status
  <2>1. UNCHANGED <<status, gate, callbacks>>
    BY <1>1, <1>3
  <2>2. process' = process
    BY <1>1, <1>3 DEF Reaped, IInv, TypeOK
  <2> QED BY <1>2, <2>1, <2>2
      DEF IInv, Gated, GateIsOwned, NeverBegan, LiveLogins, TerminalIsAlone, ScopesApart,
          ProcessesAreOwned, RedirectsExpected, Begun
<1>4. CASE /\ active[sc] \in Logins /\ status[active[sc]] # "none"
           /\ s \in Refreshed(active[sc]) /\ s \in Terminal
           /\ gone = Ending(active[sc], s)
           /\ StatusSettled(sc, s) = [status EXCEPT ![active[sc]] = s]
  BY <1>1, <1>2, <1>4, Moved
<1> QED BY <1>1, <1>3, <1>4, SettledEnds

LEMMA StartBreaksStep ==
  ASSUME IInv, NEW id \in Logins, NEW sc \in Scopes, StartBreaks(id, sc) PROVE Gated'
<1>1. /\ status[id] = "none" /\ gate' = gate \cup {id} /\ scope' = [scope EXCEPT ![id] = sc]
      /\ UNCHANGED <<status, driver, callbacks, consumed, shell, process>>
      /\ \A h \in gate : h \notin Terminals
  BY DEF StartBreaks, oauth, BusyForLogin
<1>2. id \notin LiveLogins /\ LiveLogins' = LiveLogins
  BY <1>1 DEF LiveLogins, Live
<1>3. \A i \in LiveLogins : scope'[i] = scope[i]
  BY <1>1, <1>2 DEF IInv, TypeOK, LiveLogins
<1>4. GateIsOwned'
  BY <1>1, <1>2 DEF IInv, Gated, GateIsOwned, NeverBegan
<1>5. shell = None
  BY <1>1, ShellIsTerminal DEF IInv, Gated, TerminalIsAlone
<1>6. TerminalIsAlone' /\ ScopesApart'
  BY <1>1, <1>2, <1>3, <1>5 DEF IInv, Gated, TerminalIsAlone, ScopesApart
<1>7. ProcessesAreOwned' /\ RedirectsExpected' /\ Begun'
  BY <1>1, <1>2 DEF IInv, Gated, ProcessesAreOwned, RedirectsExpected, Begun
<1> QED BY <1>4, <1>6, <1>7 DEF Gated

LEMMA StartStep ==
  ASSUME IInv, NEW id \in Logins, NEW sc \in Scopes, NEW d \in Drivers, Start(id, sc, d)
  PROVE  Gated'
<1>0. /\ status \in [Logins -> {"none"} \cup Live \cup Terminal]
      /\ scope \in [Logins -> Scopes \cup {None}] /\ driver \in [Logins -> Drivers \cup {None}]
      /\ gate \subseteq Logins \cup Terminals /\ consumed \subseteq Logins
      /\ process \in [Logins \cup Terminals -> {"none", "alive", "exited"}]
      /\ Live \cap Terminal = {} /\ "none" \notin Live \cup Terminal
      /\ Logins \cap Terminals = {}
  BY IdsAssumption DEF IInv, TypeOK, Live, Terminal
<1>1. PICK s \in Terminal \cup {"none"}, gone \in {{}, {active[sc]}}, first \in FirstStatus(d) :
         /\ Settled(sc, s, gone)
         /\ ~BusyForLogin(gate \ gone, sc)
         /\ status' = [StatusSettled(sc, s) EXCEPT ![id] = first]
         /\ gate' = (gate \ gone) \cup {i \in {id} : first \in Live}
         /\ callbacks' = (callbacks \ gone) \cup {i \in {id} : d = "callback"}
         /\ process' = [Reaped(gone) EXCEPT ![id] =
                          IF d # "cli" THEN "none"
                          ELSE IF first \in Live THEN "alive" ELSE "exited"]
  BY DEF Start, GateWithout, StatesWithout
<1>2. /\ status[id] = "none" /\ id \notin gate
      /\ scope' = [scope EXCEPT ![id] = sc] /\ driver' = [driver EXCEPT ![id] = d]
      /\ UNCHANGED <<consumed, shell>>
  BY DEF Start
<1>3. /\ first \in {"waiting_user", "failed"} /\ first \in Live \cup Terminal
      /\ d = "callback" => first \in Live
  BY <1>1 DEF FirstStatus, Live, Terminal
\* Nobody is live after the start but its session and those who were before.
<1>4. /\ id \notin gone /\ status'[id] = first /\ gone \subseteq Logins
      /\ \A i \in gone : status[i] \in Live /\ status'[i] \in Terminal
      /\ \A i \in Logins : i # id /\ i \notin gone =>
           status'[i] = status[i] \/ (status'[i] \in Terminal /\ status[i] \in Terminal)
  <2>1. CASE active[sc] = None /\ gone = {} /\ StatusSettled(sc, s) = status
    <3>1. status' = [status EXCEPT ![id] = first]
      BY <1>1, <2>1
    <3> QED BY <1>0, <2>1, <3>1
  <2>2. CASE /\ active[sc] \in Logins /\ status[active[sc]] # "none"
             /\ s \in Refreshed(active[sc]) /\ s \in Terminal
             /\ gone = Ending(active[sc], s)
             /\ StatusSettled(sc, s) = [status EXCEPT ![active[sc]] = s]
    <3> DEFINE a == active[sc]
    <3>1. a \in Logins /\ a # id
      BY <1>2, <2>2
    <3>2. status' = [[status EXCEPT ![a] = s] EXCEPT ![id] = first]
      BY <1>1, <2>2
    <3>3. gone = IF status[a] \in Live THEN {a} ELSE {}
      BY <2>2 DEF Ending
    <3>4. status[a] \in Live \cup Terminal
      BY <1>0, <2>2
    <3>5. status'[id] = first /\ status'[a] = s
      BY <1>0, <3>1, <3>2
    <3>6. \A i \in Logins : i # id /\ i # a => status'[i] = status[i]
      BY <1>0, <3>1, <3>2
    <3> HIDE DEF a
    <3>7. id \notin gone /\ gone \subseteq Logins
      BY <3>1, <3>3
    <3>8. \A i \in gone : status[i] \in Live /\ status'[i] \in Terminal
      BY <2>2, <3>3, <3>5
    <3>9. a \notin gone => status[a] \in Terminal
      BY <3>3, <3>4
    <3>10. ASSUME NEW i \in Logins, i # id, i \notin gone
           PROVE  status'[i] = status[i] \/ (status'[i] \in Terminal /\ status[i] \in Terminal)
      <4>1. CASE i = a
        BY <2>2, <3>5, <3>9, <3>10, <4>1
      <4>2. CASE i # a
        BY <3>6, <3>10, <4>2
      <4> QED BY <4>1, <4>2
    <3> QED BY <3>5, <3>7, <3>8, <3>10
  <2> QED BY <1>1, <2>1, <2>2, SettledEnds
<1>5. LiveLogins' = (LiveLogins \ gone) \cup {i \in {id} : first \in Live}
  BY <1>0, <1>2, <1>4 DEF LiveLogins
<1>6. \A h \in gate \ gone : h \notin Terminals /\ scope[h] # sc
  BY <1>1 DEF BusyForLogin
<1>7. shell = None
  <2>1. shell # None => shell \in gate \ gone
    BY <1>4, ShellIsTerminal DEF IInv, Gated, TerminalIsAlone
  <2> QED BY <1>6, <2>1, ShellIsTerminal DEF IInv
<1>8. \A p \in Logins \cup Terminals : p # id =>
        /\ process'[p] = "alive" <=> process[p] = "alive" /\ p \notin gone
        /\ process'[p] = "none" <=> process[p] = "none"
  BY <1>0, <1>1 DEF Reaped
<1>9. process'[id] = "alive" => first \in Live
  BY <1>0, <1>1 DEF Reaped
<1>10. \A i \in Logins : i # id => (status'[i] = "none" <=> status[i] = "none")
  BY <1>0, <1>4
<1>11. GateIsOwned'
  <2>1. LiveLogins \subseteq gate /\ \A h \in gate \ LiveLogins : NeverBegan(h)
    BY <1>7 DEF IInv, Gated, GateIsOwned
  <2>2. \A h \in gate : NeverBegan(h)' <=> NeverBegan(h)
    BY <1>0, <1>2, <1>8, <1>10 DEF NeverBegan
  <2>3. LiveLogins' \subseteq gate'
    BY <1>1, <1>5, <2>1
  <2>4. \A h \in gate' \ LiveLogins' : h \in gate \ LiveLogins
    BY <1>1, <1>5
  <2> QED BY <1>2, <1>7, <2>1, <2>2, <2>3, <2>4 DEF GateIsOwned
<1>12. ScopesApart'
  <2>1. \A i \in LiveLogins \ gone : i # id /\ scope'[i] = scope[i] /\ scope[i] # sc
    BY <1>0, <1>2, <1>6 DEF IInv, Gated, GateIsOwned, LiveLogins, Live
  <2>2. scope'[id] = sc
    BY <1>0, <1>2
  <2> QED BY <1>5, <2>1, <2>2 DEF IInv, Gated, ScopesApart
<1>13. ProcessesAreOwned'
  <2>1. \A t \in Terminals : process'[t] = "alive" => t = shell'
    BY <1>0, <1>2, <1>8 DEF IInv, Gated, ProcessesAreOwned
  <2>2. ASSUME NEW i \in Logins, process'[i] = "alive" PROVE status'[i] \in Live
    <3>1. CASE i = id
      BY <1>4, <1>9, <2>2, <3>1
    <3>2. CASE i # id
      <4>1. process[i] = "alive" /\ i \notin gone
        BY <1>8, <2>2, <3>2
      <4>2. status[i] \in Live
        BY <4>1 DEF IInv, Gated, ProcessesAreOwned
      <4> QED BY <1>0, <1>4, <3>2, <4>1, <4>2
    <3> QED BY <3>1, <3>2
  <2> QED BY <2>1, <2>2 DEF ProcessesAreOwned
<1>14. RedirectsExpected'
  <2>1. \A i \in LiveLogins \ gone : i # id /\ driver'[i] = driver[i]
    BY <1>0, <1>2 DEF LiveLogins, Live
  <2>2. driver'[id] = d
    BY <1>0, <1>2
  <2>3. callbacks \ gone = {i \in LiveLogins \ gone : driver[i] = "callback"}
    BY DEF IInv, Gated, RedirectsExpected
  <2>4. callbacks' = {i \in LiveLogins' : driver'[i] = "callback"}
    BY <1>1, <1>3, <1>5, <2>1, <2>2, <2>3
  <2>5. id \notin consumed
    BY <1>2 DEF IInv, Gated, Begun
  <2>6. callbacks' \cap consumed' = {}
    BY <1>1, <1>2, <2>5 DEF IInv, Gated, RedirectsExpected
  <2> QED BY <2>4, <2>6 DEF RedirectsExpected
<1>15. Begun'
  <2>1. \A i \in Logins : status'[i] \in Live => driver'[i] \in Drivers
    <3>1. \A i \in Logins : i # id /\ status'[i] \in Live => status[i] \in Live
      BY <1>0, <1>4
    <3> QED BY <1>0, <1>2, <3>1 DEF IInv, Gated, Begun
  <2>2. \A i \in consumed' : status'[i] # "none"
    <3>1. \A i \in consumed : i \in Logins /\ i # id /\ status[i] # "none"
      BY <1>0, <1>2 DEF IInv, Gated, Begun
    <3> QED BY <1>2, <1>10, <3>1
  <2>3. \A i \in Logins : driver'[i] # None => status'[i] # "none"
    <3>1. \A i \in Logins : i # id => driver'[i] = driver[i]
      BY <1>0, <1>2
    <3> QED BY <1>0, <1>3, <1>4, <1>10, <3>1 DEF IInv, Gated, Begun
  <2> QED BY <2>1, <2>2, <2>3 DEF Begun
<1>16. TerminalIsAlone'
  BY <1>2, <1>7 DEF TerminalIsAlone
<1> QED BY <1>11, <1>12, <1>13, <1>14, <1>15, <1>16 DEF Gated

-----------------------------------------------------------------------------
(* Questions and answers: a refresh, and what the answer makes of it *)

LEMMA GetStep == ASSUME IInv, NEW id \in Logins, Get(id) PROVE Gated'
<1>1. PICK s \in Refreshed(id) :
         /\ status' = [status EXCEPT ![id] = s]
         /\ gate' = gate \ Ending(id, s) /\ callbacks' = callbacks \ Ending(id, s)
         /\ process' = Reaped(Ending(id, s))
  BY DEF Get, Finalized, GateWithout, StatesWithout
<1>2. status[id] # "none" /\ UNCHANGED <<scope, driver, consumed, shell>>
  BY DEF Get
<1> QED BY <1>1, <1>2, Moved

LEMMA CancelStep == ASSUME IInv, NEW id \in Logins, Cancel(id) PROVE Gated'
<1> DEFINE final(s) == IF s \in Live THEN "canceled" ELSE s
<1>1. PICK s \in Refreshed(id) :
         /\ status' = [status EXCEPT ![id] = final(s)]
         /\ gate' = gate \ Ending(id, final(s))
         /\ callbacks' = callbacks \ Ending(id, final(s))
         /\ process' = Reaped(Ending(id, final(s)))
  BY DEF Cancel, Finalized, GateWithout, StatesWithout
<1>2. final(s) = s \/ (s \in Live /\ final(s) \in Terminal)
  BY DEF Terminal
<1>3. status[id] # "none" /\ UNCHANGED <<scope, driver, consumed, shell>>
  BY DEF Cancel
<1> QED BY <1>1, <1>2, <1>3, Moved

LEMMA InputToCliStep == ASSUME IInv, NEW id \in Logins, InputToCli(id) PROVE Gated'
<1>1. /\ status' = [status EXCEPT ![id] = "submitted"]
      /\ UNCHANGED <<scope, driver, gate, callbacks, consumed, shell, process>>
      /\ process[id] = "alive"
  BY DEF InputToCli, oauth
<1>2. status[id] \in Live /\ status[id] # "none"
  BY <1>1 DEF IInv, Gated, ProcessesAreOwned, Live
<1>3. "submitted" \in Live /\ "submitted" \notin Terminal
  BY DEF Live, Terminal
<1>4. process' = Reaped({})
  BY <1>1 DEF Reaped, IInv, TypeOK
<1>5. gate' = gate \ {} /\ callbacks' = callbacks \ {}
  BY <1>1
<1> QED BY <1>1, <1>2, <1>3, <1>4, <1>5, SessionMoves

LEMMA InputOfCodeStep == ASSUME IInv, NEW id \in Logins, InputOfCode(id) PROVE Gated'
<1>1. PICK s \in {"succeeded", "failed"} : status' = [status EXCEPT ![id] = s]
  BY DEF InputOfCode
<1>2. /\ gate' = gate \ {id} /\ callbacks' = callbacks \ {id} /\ process' = Reaped({id})
      /\ UNCHANGED <<scope, driver, consumed, shell>> /\ driver[id] = "callback"
  BY DEF InputOfCode, Finalized, GateWithout, StatesWithout
<1>3. status[id] # "none"
  <2>1. driver[id] # None
    BY <1>2, DriversAssumption DEF Drivers
  <2> QED BY <2>1 DEF IInv, Gated, Begun
<1>4. s \in Terminal /\ s \notin Live
  BY <1>1 DEF Live, Terminal
<1> QED BY <1>1, <1>2, <1>3, <1>4, SessionMoves

\* A redirect ends the login it is for.
LEMMA CallbackEnds ==
  ASSUME IInv, NEW id \in Logins, Callback(id)
  PROVE  /\ status[id] \in Live
         /\ \E s \in Refreshed(id), final \in Terminal :
              /\ IF s \in Live THEN final \in {"succeeded", "failed"} ELSE final = s
              /\ status' = [status EXCEPT ![id] = final]
              /\ gate' = gate \ {id} /\ callbacks' = callbacks \ {id}
              /\ process' = Reaped({id})
<1>1. status[id] \in Live /\ status[id] # "none"
  BY DEF Callback, IInv, Gated, RedirectsExpected, LiveLogins, Live
<1>2. PICK s \in Refreshed(id), final \in {"succeeded", "failed"} \cup Terminal :
         /\ IF s \in Live THEN final \in {"succeeded", "failed"} ELSE final = s
         /\ status' = [status EXCEPT ![id] = final]
         /\ gate' = gate \ Ending(id, final)
         /\ process' = Reaped(Ending(id, final))
         /\ callbacks' = callbacks \ {id}
  BY DEF Callback, Finalized, GateWithout
<1>3. final \in Terminal
  BY <1>2 DEF Terminal
<1>4. Ending(id, final) = {id}
  BY <1>1, <1>3 DEF Ending
<1> QED BY <1>1, <1>2, <1>3, <1>4

LEMMA CallbackStep == ASSUME IInv, NEW id \in Logins, Callback(id) PROVE Gated'
<1>1. PICK final \in Terminal :
         /\ status' = [status EXCEPT ![id] = final]
         /\ gate' = gate \ {id} /\ callbacks' = callbacks \ {id} /\ process' = Reaped({id})
  BY CallbackEnds
<1>2. status[id] \in Live /\ status[id] # "none"
  BY CallbackEnds DEF Live
<1>3. consumed' = consumed \cup {id} /\ UNCHANGED <<scope, driver, shell>>
  BY DEF Callback
<1>4. final \notin Live
  BY <1>1 DEF Live, Terminal
<1> QED BY <1>1, <1>2, <1>3, <1>4, SessionMoves

LEMMA StartRefusedStep == ASSUME IInv, NEW sc \in Scopes, StartRefused(sc) PROVE Gated'
<1>1. active[sc] \in Logins
  BY DEF StartRefused, IInv, TypeOK
<1>2. PICK s \in Refreshed(active[sc]) \cap Live : status' = [status EXCEPT ![active[sc]] = s]
  BY DEF StartRefused
<1>3. status[active[sc]] # "none"
  BY <1>2 DEF Refreshed, Live
<1>4. s = status[active[sc]]
  BY <1>1, <1>2, <1>3, RefreshedEnds DEF IInv, Gated, Live, Terminal
<1>5. UNCHANGED <<status, scope, driver, gate, callbacks, consumed, shell, process>>
  BY <1>1, <1>2, <1>4 DEF StartRefused, oauth, IInv, TypeOK
<1> QED BY <1>5
    DEF IInv, Gated, GateIsOwned, NeverBegan, LiveLogins, TerminalIsAlone, ScopesApart,
        ProcessesAreOwned, RedirectsExpected, Begun

-----------------------------------------------------------------------------
(* The terminal *)

\* With no login under way the gate may change hands between terminals.
LEMMA TerminalMoves ==
  ASSUME IInv, UNCHANGED <<registry, oauth>>, LiveLogins = {},
         gate' \subseteq Terminals,
         shell' # None => gate' = {shell'},
         \A t \in gate' : t = shell' \/ process'[t] = "none",
         \A t \in Terminals : process'[t] = "alive" => t = shell',
         \A id \in Logins : process'[id] = "alive" => process[id] = "alive"
  PROVE  Gated'
<1>1. UNCHANGED <<status, scope, driver, callbacks, consumed>> /\ LiveLogins' = {}
  BY DEF registry, oauth, LiveLogins
<1>2. GateIsOwned'
  BY <1>1, IdsAssumption DEF GateIsOwned, NeverBegan
<1>3. ProcessesAreOwned'
  BY <1>1 DEF IInv, Gated, ProcessesAreOwned
<1>4. TerminalIsAlone' /\ ScopesApart' /\ RedirectsExpected' /\ Begun'
  BY <1>1 DEF IInv, Gated, TerminalIsAlone, ScopesApart, RedirectsExpected, Begun
<1> QED BY <1>2, <1>3, <1>4 DEF Gated

LEMMA NoLoginBesideTerminal == ASSUME IInv, shell # None PROVE LiveLogins = {} /\ gate = {shell}
  BY ShellIsTerminal DEF IInv, Gated, GateIsOwned, TerminalIsAlone, LiveLogins

LEMMA TerminalCloses ==
  ASSUME IInv, shell # None, Closed, UNCHANGED <<registry, oauth>> PROVE Gated'
<1>1. LiveLogins = {} /\ gate' = {} /\ shell' = None /\ shell \in Terminals
  BY NoLoginBesideTerminal, ShellIsTerminal DEF Closed, IInv
<1>2. \A p \in Logins \cup Terminals :
        process'[p] = "alive" <=> process[p] = "alive" /\ p # shell
  BY <1>1 DEF Closed, Reaped, IInv, TypeOK
<1>3. \A t \in Terminals : process'[t] # "alive"
  BY <1>2 DEF IInv, Gated, ProcessesAreOwned
<1> QED BY <1>1, <1>2, <1>3, TerminalMoves

\* A terminal that opens finds the gate empty and nothing running.
LEMMA OpensAlone ==
  ASSUME IInv, NEW t \in Terminals, Openable(t), ~BusyForTerminal(gate \ StaleTerminal)
  PROVE  /\ LiveLogins = {} /\ gate \ StaleTerminal = {} /\ process[t] = "none"
         /\ Reaped(StaleTerminal) \in [Logins \cup Terminals -> {"none", "alive", "exited"}]
         /\ Reaped(StaleTerminal)[t] = "none"
         /\ \A u \in Terminals : Reaped(StaleTerminal)[u] # "alive"
         /\ \A id \in Logins : Reaped(StaleTerminal)[id] = "alive" => process[id] = "alive"
<1>0. process \in [Logins \cup Terminals -> {"none", "alive", "exited"}]
  BY DEF IInv, TypeOK
<1>1. gate \ StaleTerminal = {} /\ process[t] = "none"
  BY DEF BusyForTerminal, Openable
<1>2. LiveLogins = {}
  <2>1. CASE shell = None
    BY <1>1, <2>1 DEF StaleTerminal, IInv, Gated, GateIsOwned
  <2>2. CASE shell # None
    BY <2>2, NoLoginBesideTerminal
  <2> QED BY <2>1, <2>2
<1>3. \A u \in Terminals : process[u] = "alive" => u \in StaleTerminal
  BY IdsAssumption DEF IInv, Gated, ProcessesAreOwned, StaleTerminal
<1>4. \A p \in Logins \cup Terminals :
        Reaped(StaleTerminal)[p] =
          IF p \in StaleTerminal /\ process[p] = "alive" THEN "exited" ELSE process[p]
  BY <1>0 DEF Reaped
<1>5. Reaped(StaleTerminal) \in [Logins \cup Terminals -> {"none", "alive", "exited"}]
  BY <1>0 DEF Reaped
<1> QED BY <1>1, <1>2, <1>3, <1>4, <1>5

LEMMA OpenTerminalStep == ASSUME IInv, NEW t \in Terminals, OpenTerminal(t) PROVE Gated'
<1>1. /\ gate' = (gate \ StaleTerminal) \cup {t} /\ shell' = t
      /\ process' = [Reaped(StaleTerminal) EXCEPT ![t] = "alive"]
      /\ UNCHANGED <<registry, oauth>>
      /\ Openable(t) /\ ~BusyForTerminal(gate \ StaleTerminal)
  BY DEF OpenTerminal
<1>2. LiveLogins = {} /\ gate' = {t}
  BY <1>1, OpensAlone
<1>3. \A u \in Terminals : process'[u] = "alive" => u = t
  BY <1>1, OpensAlone
<1>4. \A id \in Logins : process'[id] = "alive" => process[id] = "alive"
  <2>1. \A id \in Logins : id # t
    BY IdsAssumption
  <2> QED BY <1>1, <2>1, OpensAlone
<1> QED BY <1>1, <1>2, <1>3, <1>4, TerminalMoves

LEMMA OpenRollsBackStep == ASSUME IInv, NEW t \in Terminals, OpenRollsBack(t) PROVE Gated'
<1>1. /\ gate' = gate \ StaleTerminal /\ shell' = None
      /\ process' = [Reaped(StaleTerminal) EXCEPT ![t] = "exited"]
      /\ UNCHANGED <<registry, oauth>>
      /\ Openable(t) /\ ~BusyForTerminal(gate \ StaleTerminal)
  BY DEF OpenRollsBack
<1>2. LiveLogins = {} /\ gate' = {}
  BY <1>1, OpensAlone
<1>3. \A u \in Terminals : process'[u] # "alive"
  BY <1>1, OpensAlone
<1>4. \A id \in Logins : process'[id] = "alive" => process[id] = "alive"
  <2>1. \A id \in Logins : id # t
    BY IdsAssumption
  <2> QED BY <1>1, <2>1, OpensAlone
<1> QED BY <1>1, <1>2, <1>3, <1>4, TerminalMoves

LEMMA OpenBreaksStep == ASSUME IInv, NEW t \in Terminals, OpenBreaks(t) PROVE Gated'
<1>1. /\ gate' = (gate \ StaleTerminal) \cup {t} /\ shell' = None
      /\ process' = Reaped(StaleTerminal)
      /\ UNCHANGED <<registry, oauth>>
      /\ Openable(t) /\ ~BusyForTerminal(gate \ StaleTerminal)
  BY DEF OpenBreaks
<1>2. LiveLogins = {} /\ gate' = {t} /\ process'[t] = "none"
  BY <1>1, OpensAlone
<1>3. /\ \A u \in Terminals : process'[u] # "alive"
      /\ \A id \in Logins : process'[id] = "alive" => process[id] = "alive"
  BY <1>1, OpensAlone
<1> QED BY <1>1, <1>2, <1>3, TerminalMoves

-----------------------------------------------------------------------------
(* Processes and time *)

LEMMA ProcessExitsStep ==
  ASSUME IInv, NEW p \in Logins \cup Terminals, ProcessExits(p) PROVE Gated'
<1>1. /\ UNCHANGED <<status, scope, driver, gate, callbacks, consumed, shell>>
      /\ LiveLogins' = LiveLogins
  BY DEF ProcessExits, registry, oauth, LiveLogins
<1>2. \A q \in Logins \cup Terminals :
        /\ process'[q] = "alive" => process[q] = "alive"
        /\ process'[q] = "none" <=> process[q] = "none"
  BY DEF ProcessExits, IInv, TypeOK
<1>3. GateIsOwned'
  <2>1. \A h \in gate : NeverBegan(h)' <=> NeverBegan(h)
    BY <1>1, <1>2 DEF NeverBegan, IInv, TypeOK
  <2> QED BY <1>1, <2>1 DEF IInv, Gated, GateIsOwned
<1>4. ProcessesAreOwned'
  BY <1>1, <1>2 DEF IInv, Gated, ProcessesAreOwned
<1>5. TerminalIsAlone' /\ ScopesApart' /\ RedirectsExpected' /\ Begun'
  BY <1>1 DEF IInv, Gated, TerminalIsAlone, ScopesApart, RedirectsExpected, Begun
<1> QED BY <1>3, <1>4, <1>5 DEF Gated

LEMMA Untouched ==
  ASSUME IInv, UNCHANGED <<registry, gate, oauth, shell, process>> PROVE Gated'
  BY DEF registry, oauth, IInv, Gated, GateIsOwned, NeverBegan, LiveLogins,
         TerminalIsAlone, ScopesApart, ProcessesAreOwned, RedirectsExpected, Begun

-----------------------------------------------------------------------------
(* Types *)

Statuses == {"none"} \cup Live \cup Terminal
Lives == {"none", "alive", "exited"}

LEMMA RefreshedType ==
  ASSUME TypeOK, Begun, NEW id \in Logins, NEW s \in Refreshed(id) PROVE s \in Statuses
<1>1. CASE status[id] = "none"
  BY <1>1 DEF Refreshed, Statuses, Live
<1>2. CASE status[id] # "none"
  BY <1>2, RefreshedEnds DEF TypeOK, Statuses
<1> QED BY <1>1, <1>2

LEMMA ReapedType ==
  ASSUME TypeOK, NEW S PROVE Reaped(S) \in [Logins \cup Terminals -> Lives]
  BY DEF TypeOK, Reaped, Lives

LEMMA ActiveType ==
  ASSUME TypeOK, NEW S PROVE ActiveWithout(S) \in [Scopes -> Logins \cup {None}]
  BY DEF TypeOK, ActiveWithout

\* What Finalized leaves behind has its type.
LEMMA FinalizedType ==
  ASSUME TypeOK, NEW S, Finalized(S)
  PROVE  /\ active' \in [Scopes -> Logins \cup {None}]
         /\ gate' \subseteq Logins \cup Terminals /\ callbacks' \subseteq Logins
         /\ listening' \in BOOLEAN
         /\ process' \in [Logins \cup Terminals -> Lives]
<1>1. gate' = gate \ S /\ callbacks' = callbacks \ S
  BY DEF Finalized, GateWithout, StatesWithout
<1>2. listening' \in BOOLEAN
  BY DEF TypeOK, Finalized, ListeningAfter
<1>3. active' = ActiveWithout(S) /\ process' = Reaped(S)
  BY DEF Finalized
<1> QED BY <1>1, <1>2, <1>3, ActiveType, ReapedType DEF TypeOK

\* An operation on one login moves its status and finalizes.
LEMMA LoginType ==
  ASSUME TypeOK, NEW id \in Logins, NEW s \in Statuses, NEW S,
         status' = [status EXCEPT ![id] = s], Finalized(S),
         UNCHANGED <<scope, driver, shell, late>>,
         consumed' \in {consumed, consumed \cup {id}}
  PROVE  TypeOK'
<1>1. status' \in [Logins -> Statuses] /\ consumed' \subseteq Logins
  BY DEF TypeOK, Statuses
<1> QED BY <1>1, FinalizedType DEF TypeOK, Statuses, Lives

LEMMA SettledType ==
  ASSUME IInv, NEW sc \in Scopes, NEW s, NEW gone, Settled(sc, s, gone)
  PROVE  StatusSettled(sc, s) \in [Logins -> Statuses]
<1>1. status \in [Logins -> Statuses]
  BY DEF IInv, TypeOK, Statuses
<1> QED BY <1>1, SettledEnds DEF Statuses

LEMMA StartFailsType == ASSUME IInv, NEW sc \in Scopes, StartFails(sc) PROVE TypeOK'
<1>1. PICK s \in Terminal \cup {"none"}, gone \in {{}, {active[sc]}} :
         /\ Settled(sc, s, gone)
         /\ status' = StatusSettled(sc, s)
         /\ active' = [ActiveWithout(gone) EXCEPT ![sc] = None]
         /\ gate' = gate \ gone /\ callbacks' = callbacks \ gone
         /\ listening' \in {ListeningAfter(gone), FALSE} /\ process' = Reaped(gone)
  BY DEF StartFails, GateWithout, StatesWithout
<1>2. status' \in [Logins -> Statuses]
  BY <1>1, SettledType
<1>3. active' \in [Scopes -> Logins \cup {None}]
  BY <1>1, ActiveType DEF IInv
<1>4. process' \in [Logins \cup Terminals -> Lives]
  BY <1>1, ReapedType DEF IInv
<1>5. listening' \in BOOLEAN
  BY <1>1 DEF IInv, TypeOK, ListeningAfter
<1>6. UNCHANGED <<scope, driver, consumed, shell, late>>
  BY DEF StartFails
<1> QED BY <1>1, <1>2, <1>3, <1>4, <1>5, <1>6 DEF IInv, TypeOK, Statuses, Lives

LEMMA StartType ==
  ASSUME IInv, NEW id \in Logins, NEW sc \in Scopes, NEW d \in Drivers, Start(id, sc, d)
  PROVE  TypeOK'
<1>1. PICK s \in Terminal \cup {"none"}, gone \in {{}, {active[sc]}}, first \in FirstStatus(d) :
         /\ Settled(sc, s, gone)
         /\ status' = [StatusSettled(sc, s) EXCEPT ![id] = first]
         /\ active' = [ActiveWithout(gone) EXCEPT ![sc] = id]
         /\ gate' = (gate \ gone) \cup {i \in {id} : first \in Live}
         /\ callbacks' = (callbacks \ gone) \cup {i \in {id} : d = "callback"}
         /\ listening' = (ListeningAfter(gone) \/ d = "callback")
         /\ process' = [Reaped(gone) EXCEPT ![id] =
                          IF d # "cli" THEN "none"
                          ELSE IF first \in Live THEN "alive" ELSE "exited"]
  BY DEF Start, GateWithout, StatesWithout
<1>2. status' \in [Logins -> Statuses]
  <2>1. first \in Statuses
    BY <1>1 DEF FirstStatus, Statuses, Live, Terminal
  <2>2. StatusSettled(sc, s) \in [Logins -> Statuses]
    BY <1>1, SettledType
  <2> QED BY <1>1, <2>1, <2>2
<1>3. active' \in [Scopes -> Logins \cup {None}]
  <2>1. ActiveWithout(gone) \in [Scopes -> Logins \cup {None}]
    BY ActiveType DEF IInv
  <2> QED BY <1>1, <2>1
<1>4. process' \in [Logins \cup Terminals -> Lives]
  <2>1. Reaped(gone) \in [Logins \cup Terminals -> Lives]
    BY ReapedType DEF IInv
  <2>2. (IF d # "cli" THEN "none" ELSE IF first \in Live THEN "alive" ELSE "exited") \in Lives
    BY DEF Lives
  <2> QED BY <1>1, <2>1, <2>2
<1>5. listening' \in BOOLEAN
  BY <1>1 DEF IInv, TypeOK, ListeningAfter
<1>6. gate' \subseteq Logins \cup Terminals /\ callbacks' \subseteq Logins
  BY <1>1 DEF IInv, TypeOK
<1>7. /\ scope' \in [Logins -> Scopes \cup {None}] /\ driver' \in [Logins -> Drivers \cup {None}]
      /\ UNCHANGED <<consumed, shell, late>>
  BY DEF Start, IInv, TypeOK
<1> QED BY <1>2, <1>3, <1>4, <1>5, <1>6, <1>7 DEF IInv, TypeOK, Statuses, Lives

LEMMA TerminalType ==
  ASSUME IInv, NEW t \in Terminals,
         OpenTerminal(t) \/ OpenRollsBack(t) \/ OpenBreaks(t)
  PROVE  TypeOK'
<1>1. Reaped(StaleTerminal) \in [Logins \cup Terminals -> Lives]
  BY ReapedType DEF IInv
<1>2. process' \in [Logins \cup Terminals -> Lives]
  BY <1>1 DEF OpenTerminal, OpenRollsBack, OpenBreaks, Lives
<1>3. gate' \subseteq Logins \cup Terminals /\ shell' \in Terminals \cup {None}
  BY DEF OpenTerminal, OpenRollsBack, OpenBreaks, IInv, TypeOK
<1>4. UNCHANGED <<registry, oauth, late>>
  BY DEF OpenTerminal, OpenRollsBack, OpenBreaks
<1> QED BY <1>2, <1>3, <1>4 DEF IInv, TypeOK, Lives, registry, oauth

LEMMA TypeStep == ASSUME IInv, [Next]_vars PROVE TypeOK'
<1>1. ASSUME NEW id \in Logins, Get(id) PROVE TypeOK'
  <2>1. PICK s \in Refreshed(id) : status' = [status EXCEPT ![id] = s] /\ Finalized(Ending(id, s))
    BY <1>1 DEF Get
  <2>2. s \in Statuses
    BY <2>1, RefreshedType DEF IInv, Gated
  <2> QED BY <1>1, <2>1, <2>2, LoginType DEF Get, IInv
<1>2. ASSUME NEW id \in Logins, Cancel(id) PROVE TypeOK'
  <2>1. PICK s \in Refreshed(id) :
           LET final == IF s \in Live THEN "canceled" ELSE s IN
           status' = [status EXCEPT ![id] = final] /\ Finalized(Ending(id, final))
    BY <1>2 DEF Cancel
  <2>2. (IF s \in Live THEN "canceled" ELSE s) \in Statuses
    BY <2>1, RefreshedType DEF IInv, Gated, Statuses, Terminal
  <2> QED BY <1>2, <2>1, <2>2, LoginType DEF Cancel, IInv
<1>3. ASSUME NEW id \in Logins, InputToCli(id) PROVE TypeOK'
  BY <1>3 DEF InputToCli, IInv, TypeOK, Live, oauth
<1>4. ASSUME NEW id \in Logins, InputOfCode(id) PROVE TypeOK'
  <2>1. PICK s \in {"succeeded", "failed"} : status' = [status EXCEPT ![id] = s]
    BY <1>4 DEF InputOfCode
  <2>2. s \in Statuses
    BY <2>1 DEF Statuses, Terminal
  <2> QED BY <1>4, <2>1, <2>2, LoginType DEF InputOfCode, IInv
<1>5. ASSUME NEW id \in Logins, Callback(id) PROVE TypeOK'
  <2>1. PICK final \in {"succeeded", "failed"} \cup Terminal :
           status' = [status EXCEPT ![id] = final] /\ Finalized(Ending(id, final))
    BY <1>5 DEF Callback
  <2>2. final \in Statuses
    BY <2>1 DEF Statuses, Terminal
  <2> QED BY <1>5, <2>1, <2>2, LoginType DEF Callback, IInv
<1>6. ASSUME NEW id \in Logins, NEW sc \in Scopes, StartBreaks(id, sc) PROVE TypeOK'
  BY <1>6 DEF StartBreaks, IInv, TypeOK, oauth
<1>7. ASSUME NEW sc \in Scopes, StartRefused(sc) PROVE TypeOK'
  <2>1. \E s \in Live : status' = [status EXCEPT ![active[sc]] = s]
    BY <1>7 DEF StartRefused
  <2>2. status' \in [Logins -> Statuses]
    BY <2>1 DEF IInv, TypeOK, Statuses
  <2> QED BY <1>7, <2>2 DEF StartRefused, IInv, TypeOK, Statuses, oauth
<1>8. ASSUME LookAtTerminal \/ StopTerminal PROVE TypeOK'
  <2>1. process' \in [Logins \cup Terminals -> Lives]
    BY <1>8, ReapedType DEF LookAtTerminal, StopTerminal, Closed, IInv
  <2>2. gate' \subseteq gate /\ shell' = None /\ UNCHANGED <<registry, oauth, late>>
    BY <1>8 DEF LookAtTerminal, StopTerminal, Closed
  <2> QED BY <2>1, <2>2 DEF IInv, TypeOK, Lives, registry, oauth
<1>9. ASSUME NEW p \in Logins \cup Terminals, ProcessExits(p) PROVE TypeOK'
  BY <1>9 DEF ProcessExits, IInv, TypeOK, registry, oauth
<1>10. ASSUME NEW p \in Logins \cup Terminals, TimeIsUp(p) PROVE TypeOK'
  BY <1>10 DEF TimeIsUp, IInv, TypeOK, registry, oauth
<1>11. CASE UNCHANGED vars
  BY <1>11 DEF vars, registry, oauth, IInv, TypeOK
<1> QED
  BY <1>1, <1>2, <1>3, <1>4, <1>5, <1>6, <1>7, <1>8, <1>9, <1>10, <1>11,
     StartFailsType, StartType, TerminalType DEF Next

-----------------------------------------------------------------------------
(* The theorems *)

LEMMA Initially == Init => IInv
<1> SUFFICES ASSUME Init PROVE IInv
  OBVIOUS
<1>1. TypeOK
  BY DEF Init, TypeOK
<1>2. LiveLogins = {}
  BY DEF Init, LiveLogins, Live
<1>3. GateIsOwned /\ RedirectsExpected
  BY <1>2 DEF Init, GateIsOwned, RedirectsExpected
<1>4. TerminalIsAlone /\ ScopesApart
  BY <1>2 DEF Init, TerminalIsAlone, ScopesApart
<1>5. ProcessesAreOwned /\ Begun
  BY DEF Init, ProcessesAreOwned, Begun, Live
<1> QED BY <1>1, <1>3, <1>4, <1>5 DEF IInv, Gated

LEMMA GatedStep == ASSUME IInv, [Next]_vars PROVE Gated'
<1>1. ASSUME LookAtTerminal \/ StopTerminal PROVE Gated'
  BY <1>1, TerminalCloses DEF LookAtTerminal, StopTerminal
<1>2. ASSUME NEW p \in Logins \cup Terminals, TimeIsUp(p) PROVE Gated'
  BY <1>2, Untouched DEF TimeIsUp
<1>3. CASE UNCHANGED vars
  BY <1>3, Untouched DEF vars
<1> QED
  BY <1>1, <1>2, <1>3, GetStep, CancelStep, InputToCliStep, InputOfCodeStep, CallbackStep,
     StartBreaksStep, StartStep, StartRefusedStep, StartFailsStep,
     OpenTerminalStep, OpenRollsBackStep, OpenBreaksStep, ProcessExitsStep DEF Next

LEMMA Inductive == Spec => []IInv
<1>1. IInv /\ [Next]_vars => IInv'
  BY TypeStep, GatedStep DEF IInv
<1> QED BY <1>1, Initially, PTL DEF Spec

\* The tables of the flow manager, of the gate and of the shell manager keep
\* their types.
THEOREM TypeCorrect == Spec => []TypeOK
  BY Inductive, PTL DEF IInv

\* A terminal runs beside no login, and a scope has one login under way, for
\* any number of sessions and however they end.
THEOREM SessionsExclusive == Spec => []Exclusive
<1>1. IInv => Exclusive
  <2> SUFFICES ASSUME IInv PROVE Exclusive
    OBVIOUS
  <2>1. ASSUME NEW t \in Terminals, process[t] = "alive"
        PROVE  /\ LiveLogins = {}
               /\ \A u \in Terminals : process[u] = "alive" => u = t
    <3>1. t = shell /\ t # None
      BY <2>1, IdsAssumption DEF IInv, Gated, ProcessesAreOwned
    <3> QED BY <3>1, NoLoginBesideTerminal DEF IInv, Gated, ProcessesAreOwned
  <2> QED BY <2>1 DEF IInv, Gated, ScopesApart, Exclusive
<1> QED BY <1>1, Inductive, PTL

\* The gate is held by the sessions under way, and by starts that broke
\* before their rollback was in place; by nothing that has ended.
THEOREM GateOwned == Spec => []GateIsOwned
  BY Inductive, PTL DEF IInv, Gated

\* The states a redirect is accepted for are those of the callback logins
\* under way, and none was accepted before.
THEOREM RedirectsKnown == Spec => []RedirectsExpected
  BY Inductive, PTL DEF IInv, Gated

\* A redirect after the end of its login's lifetime expires it.
THEOREM LateRedirects == Spec => LateRedirectRefused
<1>1. ASSUME IInv, [Next]_vars, NEW id \in late \cap LiveLogins, id \in consumed' \ consumed
      PROVE  status'[id] = "expired"
  <2>1. Callback(id)
    <3>1. PICK i \in Logins : Callback(i)
      <4>1. \A i \in Logins : Get(i) \/ Cancel(i) \/ InputToCli(i) \/ InputOfCode(i) =>
              consumed' = consumed
        BY DEF Get, Cancel, InputToCli, InputOfCode, oauth
      <4>2. \A i \in Logins, sc \in Scopes :
              StartBreaks(i, sc) \/ (\E d \in Drivers : Start(i, sc, d)) => consumed' = consumed
        BY DEF StartBreaks, Start, oauth
      <4>3. \A sc \in Scopes : StartRefused(sc) \/ StartFails(sc) => consumed' = consumed
        BY DEF StartRefused, StartFails, oauth
      <4>4. LookAtTerminal \/ StopTerminal => consumed' = consumed
        BY DEF LookAtTerminal, StopTerminal, oauth
      <4>5. \A t \in Terminals :
              OpenTerminal(t) \/ OpenRollsBack(t) \/ OpenBreaks(t) => consumed' = consumed
        BY DEF OpenTerminal, OpenRollsBack, OpenBreaks, oauth
      <4>6. \A p \in Logins \cup Terminals :
              ProcessExits(p) \/ TimeIsUp(p) => consumed' = consumed
        BY DEF ProcessExits, TimeIsUp, oauth
      <4>7. UNCHANGED vars => consumed' = consumed
        BY DEF vars, oauth
      <4> QED BY <1>1, <4>1, <4>2, <4>3, <4>4, <4>5, <4>6, <4>7 DEF Next
    <3> QED BY <1>1, <3>1 DEF Callback
  <2>2. id \in Logins /\ status[id] \in Live /\ id \in late
    BY <1>1 DEF LiveLogins
  <2>3. Refreshed(id) = {"expired"}
    BY <2>2 DEF Refreshed
  <2>4. status' = [status EXCEPT ![id] = "expired"]
    BY <2>1, <2>3 DEF Callback, Live
  <2>5. status \in [Logins -> Statuses]
    BY <1>1 DEF IInv, TypeOK, Statuses
  <2> QED BY <2>2, <2>4, <2>5
<1>2. IInv /\ [Next]_vars =>
        [\A id \in late \cap LiveLogins : id \in consumed' \ consumed => status'[id] = "expired"]_vars
  BY <1>1
<1> QED BY <1>2, Inductive, PTL DEF Spec, LateRedirectRefused

=============================================================================
