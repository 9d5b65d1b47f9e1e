----------------------------- MODULE Dashboard ------------------------------
(***************************************************************************)
(* One browser tab of the operator dashboard.  The tab shows the rows of a *)
(* scope, which is a session and a team.  It asks the control plane for    *)
(* them in refreshes that overlap and are answered in any order, sends     *)
(* commands one at a time and switches to fresh sessions.  State that a    *)
(* callback sets is rendered a moment later; what a callback compares its  *)
(* own scope with is the scope last rendered.                              *)
(***************************************************************************)
EXTENDS Naturals

CONSTANTS
    Teams,     \* team scopes of a session, Every among them
    Every,     \* the scope of all teams
    Slots,     \* bound: refreshes under way at once
    MaxSes,    \* bound: sessions of the tab
    MaxVer,    \* bound: changes of a session's rows
    None

Sessions == 1..MaxSes
Scopes   == [ses : 0..MaxSes, team : Teams]   \* session 0: none yet
Rows     == [scope : Scopes, ver : 0..MaxVer] \* rows of a scope, and how recent

\* A refresh that is under way, unread or with the rows it read; a command.
Requests == [scope : Scopes, ver : 0..MaxVer \cup {None}, cmd : BOOLEAN]
Commands == [scope : Scopes, phase : {"sent", "executed", "refresh"}]

ASSUME DashboardAssumption ==
    /\ Every \in Teams /\ MaxSes \in Nat \ {0} /\ MaxVer \in Nat
    /\ None \notin Requests \cup Commands

VARIABLES
    version,   \* how often the rows of a session have changed on the server
    boot,      \* the request for the first session: sent, done or failed
    fresh,     \* sessions created so far
    scope,     \* the scope chosen, rendered or not
    current,   \* the scope last rendered: current.current
    view,      \* the rows set for display
    refreshes, \* refreshes under way
    busy,      \* what keeps the buttons disabled: a command, a new session
    command    \* the command under way

vars == <<version, boot, fresh, scope, current, view, refreshes, busy, command>>

BlankBug == [scope |-> [ses |-> 0, team |-> None], ver |-> 0]
Blank == [scope |-> [ses |-> 0, team |-> Every], ver |-> 0]

Init ==
    /\ version = [s \in Sessions |-> 0]
    /\ boot = "sent" /\ fresh = 1
    /\ scope = Blank.scope /\ current = Blank.scope /\ view = Blank
    /\ refreshes = [i \in Slots |-> None]
    /\ busy = "no" /\ command = None

-----------------------------------------------------------------------------
(* Sessions and rendering. *)

\* The tab's first session arrives, or the request fails.
BootAnswer ==
    /\ boot = "sent"
    /\ \/ boot' = "done" /\ scope' = [scope EXCEPT !.ses = 1]
       \/ boot' = "failed" /\ UNCHANGED scope
    /\ UNCHANGED <<version, fresh, current, view, refreshes, busy, command>>

\* The scope that is set is rendered; a new one gets its first refresh.
Render ==
    /\ current # scope
    /\ current' = scope
    /\ \E i \in Slots :
         /\ refreshes[i] = None
         /\ refreshes' = [refreshes EXCEPT ![i] =
                IF scope.ses = 0 THEN None ELSE [scope |-> scope, ver |-> None, cmd |-> FALSE]]
    /\ UNCHANGED <<version, boot, fresh, scope, view, busy, command>>

ChooseTeam ==
    /\ scope.ses # 0 /\ current = scope
    /\ \E t \in Teams \ {scope.team} : scope' = [scope EXCEPT !.team = t]
    /\ UNCHANGED <<version, boot, fresh, current, view, refreshes, busy, command>>

FreeToSwitchBug == TRUE
FreeToSwitch == busy = "no"

NewSession ==
    /\ FreeToSwitch /\ fresh < MaxSes
    /\ busy' = "session"
    /\ UNCHANGED <<version, boot, fresh, scope, current, view, refreshes, command>>

NewSessionAnswer ==
    /\ busy = "session"
    /\ fresh' = fresh + 1
    /\ scope' = [ses |-> fresh + 1, team |-> Every]
    /\ view' = [Blank EXCEPT !.scope = scope']
    /\ busy' = "no"
    /\ UNCHANGED <<version, boot, current, refreshes, command>>

NewSessionFails ==
    /\ busy = "session"
    /\ busy' = "no"
    /\ UNCHANGED <<version, boot, fresh, scope, current, view, refreshes, command>>

-----------------------------------------------------------------------------
(* Refreshes. *)

\* Every five seconds, on an event of the stream, at the press of a button: a
\* refresh of the rendered scope is sent.
PollingBug == FALSE
Polling == current.ses # 0

Refresh ==
    /\ Polling /\ current = scope
    /\ \E i \in Slots :
         /\ refreshes[i] = None
         /\ refreshes' = [refreshes EXCEPT ![i] =
                              [scope |-> current, ver |-> None, cmd |-> FALSE]]
    /\ UNCHANGED <<version, boot, fresh, scope, current, view, busy, command>>

\* The control plane reads the rows of the request's scope.
ServerRead(i) ==
    /\ refreshes[i] # None /\ refreshes[i].ver = None
    /\ refreshes' = [refreshes EXCEPT ![i].ver = version[refreshes[i].scope.ses]]
    /\ UNCHANGED <<version, boot, fresh, scope, current, view, busy, command>>

\* An answer is dropped when another scope has been rendered meanwhile.
StillWantedBug(r) == TRUE
StillWanted(r) == current = r.scope

\* The refresh of a command ends the command, whether it worked or not.
EndRefresh(i) ==
    /\ refreshes' = [refreshes EXCEPT ![i] = None]
    /\ IF refreshes[i].cmd
       THEN busy' = "no" /\ command' = None
       ELSE UNCHANGED <<busy, command>>
    /\ UNCHANGED <<version, boot, fresh, scope, current>>

Answer(i) ==
    /\ refreshes[i] # None /\ refreshes[i].ver # None
    /\ view' = IF StillWanted(refreshes[i])
               THEN [scope |-> refreshes[i].scope, ver |-> refreshes[i].ver]
               ELSE view
    /\ EndRefresh(i)

RefreshFails(i) ==
    /\ refreshes[i] # None
    /\ EndRefresh(i)
    /\ UNCHANGED view

-----------------------------------------------------------------------------
(* Commands. *)

\* A command takes the session and the refresh of the moment it was sent.
RunCommand ==
    /\ scope.ses # 0 /\ current = scope /\ busy = "no"
    /\ busy' = "command"
    /\ command' = [scope |-> scope, phase |-> "sent"]
    /\ UNCHANGED <<version, boot, fresh, scope, current, view, refreshes>>

\* The control plane executes the command; its simulation changes rows, too.
Execute ==
    /\ command # None /\ command.phase = "sent"
    /\ version[command.scope.ses] < MaxVer
    /\ version' = [version EXCEPT ![command.scope.ses] = @ + 1]
    /\ command' = [command EXCEPT !.phase = "executed"]
    /\ UNCHANGED <<boot, fresh, scope, current, view, refreshes, busy>>

Simulate ==
    /\ \E s \in Sessions :
         /\ s <= fresh /\ version[s] < MaxVer
         /\ version' = [version EXCEPT ![s] = @ + 1]
    /\ UNCHANGED <<boot, fresh, scope, current, view, refreshes, busy, command>>

\* The answer is awaited together with a refresh of the command's scope.
CommandAnswer ==
    /\ command # None /\ command.phase = "executed"
    /\ \E i \in Slots :
         /\ refreshes[i] = None
         /\ refreshes' = [refreshes EXCEPT ![i] =
                              [scope |-> command.scope, ver |-> None, cmd |-> TRUE]]
    /\ command' = [command EXCEPT !.phase = "refresh"]
    /\ UNCHANGED <<version, boot, fresh, scope, current, view, busy>>

\* The command is refused, or its answer is lost; the buttons are enabled again.
AfterFailureBug == "command"
AfterFailure == "no"

CommandFails ==
    /\ command # None /\ command.phase # "refresh"
    /\ command' = None /\ busy' = AfterFailure
    /\ UNCHANGED <<version, boot, fresh, scope, current, view, refreshes>>

-----------------------------------------------------------------------------

Next ==
    \/ BootAnswer \/ Render \/ ChooseTeam
    \/ NewSession \/ NewSessionAnswer \/ NewSessionFails
    \/ Refresh \/ RunCommand \/ Execute \/ Simulate \/ CommandAnswer \/ CommandFails
    \/ \E i \in Slots : ServerRead(i) \/ Answer(i) \/ RefreshFails(i)

\* The browser renders and its timer fires; every request is answered or fails,
\* and a refresh that is repeated for ever does not fail for ever.
Fairness ==
    /\ WF_vars(Render) /\ SF_vars(Refresh)
    /\ WF_vars(NewSessionAnswer \/ NewSessionFails)
    /\ WF_vars(CommandFails)
    /\ \A i \in Slots : SF_vars(ServerRead(i)) /\ SF_vars(Answer(i))

Spec == Init /\ [][Next]_vars /\ Fairness

-----------------------------------------------------------------------------
(* Correctness. *)

TypeOK ==
    /\ version \in [Sessions -> 0..MaxVer]
    /\ boot \in {"sent", "done", "failed"} /\ fresh \in Sessions
    /\ scope \in Scopes /\ current \in Scopes /\ view \in Rows
    /\ refreshes \in [Slots -> Requests \cup {None}]
    /\ busy \in {"no", "command", "session"} /\ command \in Commands \cup {None}

\* Once a scope is rendered, no answer for another session or team replaces
\* what it shows: the comparison of refresh with current.current.
NoForeignRows ==
    [][current = scope /\ view' # view => view'.scope = scope']_vars

\* A command's buttons and its session last as long as the command: nothing but
\* a late answer to the tab's first request moves the tab to another session.
SessionKept ==
    [][command # None /\ scope'.ses # scope.ses => boot # boot']_vars

\* The buttons are disabled exactly while something is under way.
BusyIsCommand == (busy = "command") <=> (command # None)

\* Whatever fails, the operator can act again.
AlwaysUsable == []<>(busy = "no")

\* When the operator stays with a scope, the tab comes to show its latest rows,
\* although answers may arrive out of order, be dropped or fail.
Settled == <>[](current = scope) /\ <>[][scope' = scope]_vars
EventuallyCurrent ==
    Settled => <>[](scope.ses # 0 => view = [scope |-> scope, ver |-> version[scope.ses]])
=============================================================================
