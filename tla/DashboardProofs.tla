-------------------------- MODULE DashboardProofs ---------------------------
(***************************************************************************)
(* Theorems of Dashboard, for any number of refreshes under way, sessions, *)
(* teams and changes of rows.                                              *)
(***************************************************************************)
EXTENDS Dashboard, TLAPS

USE DashboardAssumption

-----------------------------------------------------------------------------
(* The inductive invariant.  What makes the disabled buttons and the command *)
(* agree is that the refresh which ends a command is one, and is the only    *)
(* one: a second would end a command that was sent after it.                 *)

Ending(i) == refreshes[i] # None /\ refreshes[i].cmd

OneEnding ==
    /\ \A i \in Slots : Ending(i) => command # None /\ command.phase = "refresh"
    /\ \A i, j \in Slots : Ending(i) /\ Ending(j) => i = j

\* Nothing is asked for, and nothing is executed, without a session.
SessionBound ==
    /\ \A i \in Slots : refreshes[i] # None => refreshes[i].scope.ses # 0
    /\ command # None => command.scope.ses # 0
    /\ busy = "session" => fresh < MaxSes

DashboardInv == TypeOK /\ BusyIsCommand /\ OneEnding /\ SessionBound

\* The tab starts with nothing under way.
LEMMA DashboardInit == Init => DashboardInv
<1> SUFFICES ASSUME Init PROVE DashboardInv
  OBVIOUS
<1>1. TypeOK
  BY DEF Init, TypeOK, Sessions, Scopes, Rows, Blank
<1>2. BusyIsCommand /\ OneEnding /\ SessionBound
  BY DEF Init, BusyIsCommand, OneEnding, Ending, SessionBound
<1> QED
  BY <1>1, <1>2 DEF DashboardInv

\* A number that is not the last one may be followed by another.
LEMMA OneMore ==
    ASSUME NEW m \in Nat, NEW n \in 0..m, n < m
    PROVE  n + 1 \in 0..m /\ n + 1 \in 1..m
  OBVIOUS

-----------------------------------------------------------------------------
(* What the steps on requests do, slot by slot. *)

\* A refresh is sent in a free slot: of a scope with a session, and as the end
\* of a command only when the command has no other.
LEMMA Sent ==
    ASSUME DashboardInv, NEW i \in Slots, refreshes[i] = None,
           NEW s \in Scopes, s.ses # 0, NEW c \in BOOLEAN,
           refreshes' = [refreshes EXCEPT ![i] = [scope |-> s, ver |-> None, cmd |-> c]],
           c => command' # None /\ command'.phase = "refresh" /\ \A j \in Slots : ~Ending(j),
           ~c => UNCHANGED command
    PROVE  /\ refreshes' \in [Slots -> Requests \cup {None}]
           /\ OneEnding'
           /\ \A j \in Slots : refreshes'[j] # None => refreshes'[j].scope.ses # 0
<1> DEFINE r == [scope |-> s, ver |-> None, cmd |-> c]
<1>1. r \in Requests /\ r # None /\ r.cmd = c /\ r.scope = s
  BY DEF Requests
<1>2. refreshes \in [Slots -> Requests \cup {None}]
  BY DEF DashboardInv, TypeOK
<1> HIDE DEF r
<1>3. refreshes' = [refreshes EXCEPT ![i] = r]
  BY DEF r
<1>4. refreshes'[i] = r /\ \A j \in Slots \ {i} : refreshes'[j] = refreshes[j]
  BY <1>2, <1>3
<1>5. \A j \in Slots : Ending(j)' <=> IF j = i THEN c ELSE Ending(j)
  BY <1>1, <1>4 DEF Ending
<1>6. OneEnding'
  BY <1>5 DEF OneEnding, DashboardInv
<1> QED
  BY <1>1, <1>2, <1>3, <1>4, <1>6 DEF DashboardInv, SessionBound

\* The rows that a refresh reads leave it what it was otherwise.
LEMMA Read ==
    ASSUME DashboardInv, NEW i \in Slots, ServerRead(i)
    PROVE  /\ refreshes' \in [Slots -> Requests \cup {None}]
           /\ OneEnding'
           /\ \A j \in Slots : refreshes'[j] # None => refreshes'[j].scope.ses # 0
<1>1. /\ refreshes \in [Slots -> Requests \cup {None}]
      /\ version \in [Sessions -> 0..MaxVer]
      /\ refreshes[i] # None /\ refreshes[i].scope.ses # 0
  BY DEF DashboardInv, TypeOK, SessionBound, ServerRead
<1> DEFINE n == version[refreshes[i].scope.ses]
           r == [refreshes[i] EXCEPT !.ver = n]
<1>2. refreshes[i] \in Requests
  BY <1>1
<1>3. refreshes[i].scope.ses \in Sessions
  BY <1>1, <1>2 DEF Requests, Scopes, Sessions
<1>4. n \in 0..MaxVer
  BY <1>1, <1>3
<1> HIDE DEF n
<1>5. /\ r \in Requests /\ r # None
      /\ r.cmd = refreshes[i].cmd /\ r.scope = refreshes[i].scope
  BY <1>2, <1>4 DEF Requests
<1>6. refreshes' = [refreshes EXCEPT ![i] = r] /\ UNCHANGED command
  BY DEF ServerRead, n
<1> HIDE DEF r
<1>7. refreshes'[i] = r /\ \A j \in Slots \ {i} : refreshes'[j] = refreshes[j]
  BY <1>1, <1>6
<1>8. \A j \in Slots : Ending(j)' <=> Ending(j)
  BY <1>1, <1>5, <1>7 DEF Ending
<1>9. OneEnding'
  BY <1>6, <1>8 DEF OneEnding, DashboardInv
<1> QED
  BY <1>1, <1>5, <1>6, <1>7, <1>9 DEF DashboardInv, SessionBound

\* A refresh that is over frees its slot, and ends the command whose refresh it
\* is: no other refresh is left that would end one.
LEMMA Ended ==
    ASSUME DashboardInv, NEW i \in Slots, refreshes[i] # None, EndRefresh(i)
    PROVE  /\ refreshes' \in [Slots -> Requests \cup {None}]
           /\ busy' \in {"no", "command", "session"}
           /\ command' \in Commands \cup {None}
           /\ BusyIsCommand' /\ OneEnding' /\ SessionBound'
<1>1. /\ refreshes \in [Slots -> Requests \cup {None}]
      /\ busy \in {"no", "command", "session"} /\ command \in Commands \cup {None}
      /\ BusyIsCommand /\ OneEnding /\ SessionBound
  BY DEF DashboardInv, TypeOK
<1>2. refreshes' = [refreshes EXCEPT ![i] = None] /\ UNCHANGED fresh
  BY DEF EndRefresh
<1>3. /\ refreshes'[i] = None
      /\ \A j \in Slots \ {i} : refreshes'[j] = refreshes[j]
      /\ refreshes' \in [Slots -> Requests \cup {None}]
  BY <1>1, <1>2
<1>4. \A j \in Slots : Ending(j)' <=> (j # i /\ Ending(j))
  BY <1>3 DEF Ending
<1>5. CASE refreshes[i].cmd
  <2>1. busy' = "no" /\ command' = None
    BY <1>5 DEF EndRefresh
  <2>2. \A j \in Slots : ~Ending(j)'
    BY <1>1, <1>4, <1>5 DEF OneEnding, Ending
  <2> QED
    BY <1>1, <1>2, <1>3, <2>1, <2>2 DEF BusyIsCommand, OneEnding, SessionBound
<1>6. CASE ~refreshes[i].cmd
  <2>1. UNCHANGED <<busy, command>>
    BY <1>6 DEF EndRefresh
  <2> QED
    BY <1>1, <1>2, <1>3, <1>4, <2>1 DEF BusyIsCommand, OneEnding, SessionBound
<1> QED
  BY <1>5, <1>6

-----------------------------------------------------------------------------
(* The invariant is inductive. *)

\* A scope chosen, rendered or replaced: nothing under way changes.
LEMMA ScopeSteps ==
    ASSUME DashboardInv, BootAnswer \/ ChooseTeam \/ NewSessionAnswer
    PROVE  DashboardInv'
<1>1. TypeOK /\ BusyIsCommand /\ OneEnding /\ SessionBound
  BY DEF DashboardInv
<1>2. scope \in Scopes /\ fresh \in 1..MaxSes
  BY <1>1 DEF TypeOK, Sessions
<1>3. CASE BootAnswer
  <2>1. scope' \in Scopes /\ boot' \in {"sent", "done", "failed"}
    BY <1>2, <1>3 DEF BootAnswer, Scopes
  <2>2. UNCHANGED <<version, fresh, current, view, refreshes, busy, command>>
    BY <1>3 DEF BootAnswer
  <2>3. TypeOK'
    BY <1>1, <2>1, <2>2 DEF TypeOK
  <2>4. BusyIsCommand' /\ OneEnding' /\ SessionBound'
    BY <1>1, <2>2 DEF BusyIsCommand, OneEnding, Ending, SessionBound
  <2> QED
    BY <2>3, <2>4 DEF DashboardInv
<1>4. CASE ChooseTeam
  <2>1. scope' \in Scopes
    BY <1>2, <1>4 DEF ChooseTeam, Scopes
  <2>2. UNCHANGED <<version, boot, fresh, current, view, refreshes, busy, command>>
    BY <1>4 DEF ChooseTeam
  <2>3. TypeOK'
    BY <1>1, <2>1, <2>2 DEF TypeOK
  <2>4. BusyIsCommand' /\ OneEnding' /\ SessionBound'
    BY <1>1, <2>2 DEF BusyIsCommand, OneEnding, Ending, SessionBound
  <2> QED
    BY <2>3, <2>4 DEF DashboardInv
<1>5. CASE NewSessionAnswer
  <2>1. fresh < MaxSes /\ command = None /\ busy' = "no"
    BY <1>1, <1>5 DEF NewSessionAnswer, BusyIsCommand, SessionBound
  <2>2. /\ fresh' \in Sessions
        /\ scope' \in Scopes /\ scope' = [ses |-> fresh + 1, team |-> Every]
    BY <1>2, <1>5, <2>1 DEF NewSessionAnswer, Sessions, Scopes
  <2>3. view' \in Rows
    BY <1>5, <2>2 DEF NewSessionAnswer, Rows, Blank
  <2>4. UNCHANGED <<version, boot, current, refreshes, command>>
    BY <1>5 DEF NewSessionAnswer
  <2>5. TypeOK'
    BY <1>1, <2>1, <2>2, <2>3, <2>4 DEF TypeOK
  <2>6. BusyIsCommand' /\ OneEnding' /\ SessionBound'
    BY <1>1, <2>1, <2>4 DEF BusyIsCommand, OneEnding, Ending, SessionBound
  <2> QED
    BY <2>5, <2>6 DEF DashboardInv
<1> QED
  BY <1>3, <1>4, <1>5

\* A refresh is sent, reads its rows, is answered or fails.
LEMMA RefreshSteps ==
    ASSUME DashboardInv,
           \/ Render \/ Refresh
           \/ \E i \in Slots : ServerRead(i) \/ Answer(i) \/ RefreshFails(i)
    PROVE  DashboardInv'
<1>1. TypeOK /\ BusyIsCommand /\ OneEnding /\ SessionBound
  BY DEF DashboardInv
<1>2. CASE Render
  <2>1. UNCHANGED <<version, boot, fresh, scope, view, busy, command>> /\ current' = scope
    BY <1>2 DEF Render
  <2>2. /\ refreshes' \in [Slots -> Requests \cup {None}] /\ OneEnding'
        /\ \A j \in Slots : refreshes'[j] # None => refreshes'[j].scope.ses # 0
    <3>1. CASE scope.ses = 0
      <4>1. refreshes' = refreshes
        BY <1>1, <1>2, <3>1 DEF Render, TypeOK
      <4> QED
        BY <1>1, <2>1, <4>1 DEF TypeOK, OneEnding, Ending, SessionBound
    <3>2. CASE scope.ses # 0
      BY <1>1, <1>2, <3>2, Sent DEF Render, TypeOK
    <3> QED
      BY <3>1, <3>2
  <2>3. TypeOK'
    BY <1>1, <2>1, <2>2 DEF TypeOK
  <2> QED
    BY <1>1, <2>1, <2>2, <2>3 DEF DashboardInv, BusyIsCommand, SessionBound
<1>3. CASE Refresh
  <2>1. UNCHANGED <<version, boot, fresh, scope, current, view, busy, command>>
    BY <1>3 DEF Refresh
  <2>2. /\ refreshes' \in [Slots -> Requests \cup {None}] /\ OneEnding'
        /\ \A j \in Slots : refreshes'[j] # None => refreshes'[j].scope.ses # 0
    BY <1>1, <1>3, Sent DEF Refresh, Polling, TypeOK
  <2>3. TypeOK'
    BY <1>1, <2>1, <2>2 DEF TypeOK
  <2> QED
    BY <1>1, <2>1, <2>2, <2>3 DEF DashboardInv, BusyIsCommand, SessionBound
<1>4. ASSUME NEW i \in Slots, ServerRead(i) PROVE DashboardInv'
  <2>1. UNCHANGED <<version, boot, fresh, scope, current, view, busy, command>>
    BY <1>4 DEF ServerRead
  <2>2. /\ refreshes' \in [Slots -> Requests \cup {None}] /\ OneEnding'
        /\ \A j \in Slots : refreshes'[j] # None => refreshes'[j].scope.ses # 0
    BY <1>4, Read
  <2>3. TypeOK'
    BY <1>1, <2>1, <2>2 DEF TypeOK
  <2> QED
    BY <1>1, <2>1, <2>2, <2>3 DEF DashboardInv, BusyIsCommand, SessionBound
<1>5. ASSUME NEW i \in Slots, Answer(i) \/ RefreshFails(i) PROVE DashboardInv'
  <2>1. refreshes[i] # None /\ EndRefresh(i)
    BY <1>5 DEF Answer, RefreshFails
  <2>2. UNCHANGED <<version, boot, fresh, scope, current>>
    BY <2>1 DEF EndRefresh
  <2>3. view' \in Rows
    <3>1. refreshes[i] \in Requests /\ view \in Rows
      BY <1>1, <2>1 DEF TypeOK
    <3>2. CASE RefreshFails(i)
      BY <3>1, <3>2 DEF RefreshFails
    <3>3. CASE Answer(i)
      BY <3>1, <3>3 DEF Answer, Requests, Rows
    <3> QED
      BY <1>5, <3>2, <3>3
  <2>4. TypeOK'
    BY <1>1, <2>1, <2>2, <2>3, Ended DEF TypeOK
  <2> QED
    BY <2>1, <2>4, Ended DEF DashboardInv
<1> QED
  BY <1>2, <1>3, <1>4, <1>5

\* A command or a new session is asked for; a command is executed, answered or
\* fails; the simulation goes on.
LEMMA CommandSteps ==
    ASSUME DashboardInv,
           \/ NewSession \/ NewSessionFails \/ Simulate
           \/ RunCommand \/ Execute \/ CommandAnswer \/ CommandFails
    PROVE  DashboardInv'
<1>1. TypeOK /\ BusyIsCommand /\ OneEnding /\ SessionBound
  BY DEF DashboardInv
<1>2. CASE NewSession \/ NewSessionFails
  BY <1>1, <1>2 DEF NewSession, NewSessionFails, FreeToSwitch, DashboardInv, TypeOK,
                    BusyIsCommand, OneEnding, Ending, SessionBound
<1>3. CASE Simulate
  <2>1. PICK s \in Sessions : /\ version[s] < MaxVer
                              /\ version' = [version EXCEPT ![s] = @ + 1]
    BY <1>3 DEF Simulate
  <2>2. version' \in [Sessions -> 0..MaxVer]
    BY <1>1, <2>1, OneMore DEF TypeOK
  <2>3. UNCHANGED <<boot, fresh, scope, current, view, refreshes, busy, command>>
    BY <1>3 DEF Simulate
  <2> QED
    BY <1>1, <2>2, <2>3 DEF DashboardInv, TypeOK, BusyIsCommand, OneEnding, Ending,
                            SessionBound
<1>4. CASE RunCommand
  <2> DEFINE c == [scope |-> scope, phase |-> "sent"]
  <2>1. /\ command = None /\ command' = c /\ busy' = "command" /\ scope.ses # 0
        /\ UNCHANGED <<version, boot, fresh, scope, current, view, refreshes>>
    BY <1>1, <1>4 DEF RunCommand, BusyIsCommand
  <2>2. c \in Commands /\ c # None /\ c.scope = scope
    BY <1>1 DEF TypeOK, Commands
  <2> HIDE DEF c
  <2>3. \A i \in Slots : ~Ending(i)'
    BY <1>1, <2>1 DEF OneEnding, Ending
  <2>4. TypeOK'
    BY <1>1, <2>1, <2>2 DEF TypeOK
  <2> QED
    BY <1>1, <2>1, <2>2, <2>3, <2>4
       DEF DashboardInv, BusyIsCommand, OneEnding, SessionBound
<1>5. CASE Execute
  <2> DEFINE s == command.scope.ses
             c == [command EXCEPT !.phase = "executed"]
  <2>1. /\ command # None /\ command.phase = "sent" /\ version[s] < MaxVer
        /\ version' = [version EXCEPT ![s] = @ + 1] /\ command' = c
        /\ UNCHANGED <<boot, fresh, scope, current, view, refreshes, busy>>
    BY <1>5 DEF Execute
  <2>2. command \in Commands /\ command.scope.ses # 0
    BY <1>1, <2>1 DEF TypeOK, SessionBound
  <2>3. s \in Sessions
    BY <2>2 DEF Commands, Scopes, Sessions
  <2>4. c \in Commands /\ c # None /\ c.scope = command.scope
    BY <2>2 DEF Commands
  <2> HIDE DEF s, c
  <2>5. version' \in [Sessions -> 0..MaxVer]
    BY <1>1, <2>1, <2>3, OneMore DEF TypeOK
  <2>6. \A i \in Slots : ~Ending(i)'
    BY <1>1, <2>1 DEF OneEnding, Ending
  <2>7. TypeOK'
    BY <1>1, <2>1, <2>4, <2>5 DEF TypeOK
  <2> QED
    BY <1>1, <2>1, <2>2, <2>4, <2>6, <2>7
       DEF DashboardInv, BusyIsCommand, OneEnding, SessionBound
<1>6. CASE CommandAnswer
  <2> DEFINE c == [command EXCEPT !.phase = "refresh"]
  <2>1. /\ command # None /\ command.phase = "executed" /\ command' = c
        /\ UNCHANGED <<version, boot, fresh, scope, current, view, busy>>
    BY <1>6 DEF CommandAnswer
  <2>2. command \in Commands /\ command.scope.ses # 0
    BY <1>1, <2>1 DEF TypeOK, SessionBound
  <2>3. /\ c \in Commands /\ c # None /\ c.scope = command.scope /\ c.phase = "refresh"
        /\ command.scope \in Scopes
    BY <2>2 DEF Commands
  <2> HIDE DEF c
  <2>4. \A i \in Slots : ~Ending(i)
    BY <1>1, <2>1 DEF OneEnding
  <2>5. /\ refreshes' \in [Slots -> Requests \cup {None}] /\ OneEnding'
        /\ \A j \in Slots : refreshes'[j] # None => refreshes'[j].scope.ses # 0
    BY <1>6, <2>1, <2>2, <2>3, <2>4, Sent DEF CommandAnswer
  <2>6. TypeOK'
    BY <1>1, <2>1, <2>3, <2>5 DEF TypeOK
  <2> QED
    BY <1>1, <2>1, <2>2, <2>3, <2>5, <2>6 DEF DashboardInv, BusyIsCommand, SessionBound
<1>7. CASE CommandFails
  <2>1. /\ command # None /\ command.phase # "refresh" /\ command' = None /\ busy' = "no"
        /\ UNCHANGED <<version, boot, fresh, scope, current, view, refreshes>>
    BY <1>7 DEF CommandFails, AfterFailure
  <2>2. \A i \in Slots : ~Ending(i)'
    BY <1>1, <2>1 DEF OneEnding, Ending
  <2> QED
    BY <1>1, <2>1, <2>2 DEF DashboardInv, TypeOK, BusyIsCommand, OneEnding, SessionBound
<1> QED
  BY <1>2, <1>3, <1>4, <1>5, <1>6, <1>7

\* Every step keeps the invariant.
LEMMA DashboardStep == DashboardInv /\ [Next]_vars => DashboardInv'
<1> SUFFICES ASSUME DashboardInv, [Next]_vars PROVE DashboardInv'
  OBVIOUS
<1>1. CASE UNCHANGED vars
  BY <1>1 DEF vars, DashboardInv, TypeOK, BusyIsCommand, OneEnding, Ending, SessionBound
<1> QED
  BY <1>1, ScopeSteps, RefreshSteps, CommandSteps DEF Next

-----------------------------------------------------------------------------
(* The theorems. *)

\* Every variable of the tab keeps its type; in particular, no request is sent
\* and no row is read or changed for a session that does not exist.
THEOREM TabTyped == Spec => []TypeOK
<1>1. DashboardInv => TypeOK
  BY DEF DashboardInv
<1> QED
  BY <1>1, DashboardInit, DashboardStep, PTL DEF Spec

\* The buttons are disabled for a command exactly while one is under way, in
\* whatever order the refreshes that overlap it are answered or fail.
THEOREM ButtonsFollowCommand == Spec => []BusyIsCommand
<1>1. DashboardInv => BusyIsCommand
  BY DEF DashboardInv
<1> QED
  BY <1>1, DashboardInit, DashboardStep, PTL DEF Spec

\* A command is ended by its own refresh only: at most one refresh under way ends
\* a command, and while there is one, that command waits for it.
THEOREM OwnRefreshEnds == Spec => []OneEnding
<1>1. DashboardInv => OneEnding
  BY DEF DashboardInv
<1> QED
  BY <1>1, DashboardInit, DashboardStep, PTL DEF Spec

\* While a scope is rendered, what is shown is replaced by rows of that scope
\* only: a late answer for another session or team is dropped.
THEOREM AnswersOfOthersDropped == Spec => NoForeignRows
<1>1. [Next]_vars => (current = scope /\ view' # view => view'.scope = scope')
  <2> SUFFICES ASSUME [Next]_vars, current = scope, view' # view
               PROVE  view'.scope = scope'
    OBVIOUS
  <2>1. CASE NewSessionAnswer
    BY <2>1 DEF NewSessionAnswer, Blank
  <2>2. ASSUME NEW i \in Slots, Answer(i) PROVE view'.scope = scope'
    BY <2>2 DEF Answer, StillWanted, EndRefresh
  <2> QED
    BY <2>1, <2>2 DEF Next, vars, BootAnswer, Render, ChooseTeam, NewSession,
       NewSessionFails, Refresh, RunCommand, Execute, Simulate, CommandAnswer,
       CommandFails, ServerRead, RefreshFails
<1> QED
  BY <1>1, PTL DEF Spec, NoForeignRows

\* While a command is under way only the late answer to the tab's first request
\* for a session moves the tab to another one.
THEOREM CommandKeepsSession == Spec => SessionKept
<1>1. DashboardInv /\ [Next]_vars =>
        (command # None /\ scope'.ses # scope.ses => boot # boot')
  <2> SUFFICES ASSUME DashboardInv, [Next]_vars, command # None, scope'.ses # scope.ses
               PROVE  boot # boot'
    OBVIOUS
  <2>1. busy # "session"
    BY DEF DashboardInv, BusyIsCommand
  <2>2. CASE BootAnswer
    BY <2>2 DEF BootAnswer
  <2>3. ~ChooseTeam
    BY DEF ChooseTeam, DashboardInv, TypeOK, Scopes
  <2> QED
    BY <2>1, <2>2, <2>3 DEF Next, vars, Render, NewSession, NewSessionAnswer,
       NewSessionFails, Refresh, RunCommand, Execute, Simulate, CommandAnswer,
       CommandFails, ServerRead, Answer, RefreshFails, EndRefresh
<1> QED
  BY <1>1, DashboardInit, DashboardStep, PTL DEF Spec, SessionKept

=============================================================================
