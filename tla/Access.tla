------------------------------ MODULE Access --------------------------------
(***************************************************************************)
(* How the tabs of one browser reach their demo workspaces.  The browser   *)
(* has one session cookie, which every answer to a session request sets.   *)
(* The proxy refuses a request for a workspace the cookie does not name,   *)
(* and signs the others with an assertion that is good for a short window  *)
(* of the function's clock.  Each tab keeps one event stream open: it asks *)
(* for a token, opens a source with it, renews it before the token ends    *)
(* and tries again after an error.                                         *)
(***************************************************************************)
EXTENDS Integers

CONSTANTS
    Tabs,     \* tabs of the browser
    MaxWs,    \* bound: workspaces created
    Window,   \* how long an assertion is good (30 s)
    Leeway,   \* how far the proxy's clock may be ahead (5 s)
    Skews,    \* how far the functions' clocks are ahead of the proxy's
    MaxAge,   \* bound: how long a command travels
    None

Workspaces == 1..MaxWs

\* What a tab asks a session for: on loading, and at the press of New session.
Kinds == {"load", "fresh"}

ASSUME AccessAssumption ==
    /\ MaxWs \in Nat /\ Window \in Nat /\ Leeway \in Nat /\ MaxAge \in Nat
    /\ Skews \subseteq -Leeway..Leeway
    /\ None \notin [ws : Workspaces, made : BOOLEAN]
    /\ None \notin [ws : Workspaces, age : 0..MaxAge]

VARIABLES
    cookie,    \* the workspace the browser's cookie names, 0: none or expired
    issued,    \* workspace ids given out
    seeded,    \* how often the rows of a workspace were inserted
    entering,  \* the session requests of a tab
    shown,     \* the workspace a tab shows
    asks,      \* the stream token requests of a tab
    source,    \* the workspace of its open event source
    rotation,  \* its timer to renew the source is set
    retry,     \* its timer to connect again is set
    live,      \* it says Live: setConnected
    command,   \* a signed command on its way to the function
    answer     \* how the last command was answered

sessionVars == <<cookie, issued, seeded, entering, shown>>
streamVars  == <<asks, source, rotation, retry, live>>
commandVars == <<command, answer>>
vars == <<cookie, issued, seeded, entering, shown, asks, source, rotation, retry,
          live, command, answer>>

Init ==
    /\ cookie = 0 /\ issued = 0
    /\ seeded = [w \in Workspaces |-> 0]
    /\ entering = [t \in Tabs |-> [k \in Kinds |-> None]] /\ shown = [t \in Tabs |-> 0]
    /\ asks = [t \in Tabs |-> {}] /\ source = [t \in Tabs |-> 0]
    /\ rotation = [t \in Tabs |-> FALSE] /\ retry = [t \in Tabs |-> FALSE]
    /\ live = [t \in Tabs |-> FALSE]
    /\ command = None /\ answer = "none"

-----------------------------------------------------------------------------
(* Sessions. *)

\* The browser sends the cookie of the moment; the proxy compares it with the
\* workspace of the request.
VouchedForBug(w) == cookie # 0
VouchedFor(w) == cookie = w

Enter(t, k, w) ==
    /\ entering[t][k] = None
    /\ issued' = IF w > issued THEN w ELSE issued
    /\ entering' = [entering EXCEPT ![t][k] = [ws |-> w, made |-> FALSE]]
    /\ UNCHANGED <<cookie, seeded, shown>> /\ UNCHANGED <<streamVars, commandVars>>

\* A tab that is loaded enters the workspace of the cookie, or a fresh one.
Load(t) ==
    /\ shown[t] = 0
    /\ \E w \in Workspaces :
         /\ w = IF cookie # 0 THEN cookie ELSE issued + 1
         /\ Enter(t, "load", w)

NewSession(t) == \E w \in Workspaces : w = issued + 1 /\ Enter(t, "fresh", w)

\* createDemoSession inserts the rows of a workspace that has none.
SeedBug(w) == [seeded EXCEPT ![w] = @ + 1]
Seed(w) == IF seeded[w] > 0 THEN seeded ELSE [seeded EXCEPT ![w] = @ + 1]

Create(t, k) ==
    /\ entering[t][k] # None /\ ~entering[t][k].made
    /\ seeded' = Seed(entering[t][k].ws)
    /\ entering' = [entering EXCEPT ![t][k].made = TRUE]
    /\ UNCHANGED <<cookie, issued, shown>> /\ UNCHANGED <<streamVars, commandVars>>

\* The tab leaves its stream: the effect of the old session is cleaned up and
\* what its callbacks still receive is dropped.
Leave(t) ==
    /\ source' = [source EXCEPT ![t] = 0]
    /\ rotation' = [rotation EXCEPT ![t] = FALSE]
    /\ retry' = [retry EXCEPT ![t] = FALSE]
    /\ live' = [live EXCEPT ![t] = FALSE]

\* The answer sets the cookie and the tab's session, and the tab connects its
\* stream a moment later, when another tab may have replaced the cookie.
Entered(t, k) ==
    /\ entering[t][k] # None /\ entering[t][k].made
    /\ cookie' = entering[t][k].ws
    /\ shown' = [shown EXCEPT ![t] = entering[t][k].ws]
    /\ entering' = [entering EXCEPT ![t][k] = None]
    /\ Leave(t)
    /\ \E v \in BOOLEAN :
         asks' = [asks EXCEPT ![t] = @ \cup {[ws |-> entering[t][k].ws, vouched |-> v]}]
    /\ UNCHANGED <<issued, seeded>> /\ UNCHANGED commandVars

\* The request or its answer is lost, before the rows exist or after.
EnterFails(t, k) ==
    /\ entering[t][k] # None
    /\ entering' = [entering EXCEPT ![t][k] = None]
    /\ UNCHANGED <<cookie, issued, seeded, shown>> /\ UNCHANGED <<streamVars, commandVars>>

\* The cookie ends after a day.
Expire ==
    /\ cookie # 0 /\ cookie' = 0
    /\ UNCHANGED <<issued, seeded, entering, shown>> /\ UNCHANGED <<streamVars, commandVars>>

\* The operator closes or reloads the tab: nothing of it is left.
Unload(t) ==
    /\ shown[t] # 0
    /\ shown' = [shown EXCEPT ![t] = 0]
    /\ entering' = [entering EXCEPT ![t] = [k \in Kinds |-> None]]
    /\ Leave(t) /\ asks' = [asks EXCEPT ![t] = {}]
    /\ UNCHANGED <<cookie, issued, seeded>> /\ UNCHANGED commandVars

-----------------------------------------------------------------------------
(* The stream of a tab. *)

\* connect: ask for a token, with the cookie of the moment.
TokenRequest(t) == [ws |-> shown[t], vouched |-> VouchedFor(shown[t])]
Asked(t) == asks' = [asks EXCEPT ![t] = @ \cup {TokenRequest(t)}]

\* The answer of a session the tab has left is dropped.
CurrentBug(t, a) == TRUE
Current(t, a) == a.ws = shown[t]

\* The function signs a token only for a request the proxy has signed.
Granted(a) == a.vouched

TokenAnswer(t) ==
    /\ \E a \in asks[t] :
         /\ Granted(a)
         /\ asks' = [asks EXCEPT ![t] = @ \ {a}]
         /\ IF Current(t, a)
            THEN /\ source' = [source EXCEPT ![t] = a.ws]
                 /\ rotation' = [rotation EXCEPT ![t] = TRUE]
            ELSE UNCHANGED <<source, rotation>>
    /\ UNCHANGED <<retry, live>> /\ UNCHANGED <<sessionVars, commandVars>>

\* The function has accepted the token and the source is open.
StreamOpens(t) ==
    /\ source[t] # 0 /\ ~live[t]
    /\ live' = [live EXCEPT ![t] = TRUE]
    /\ UNCHANGED <<asks, source, rotation, retry>> /\ UNCHANGED <<sessionVars, commandVars>>

\* The token is refused or the request fails: try again later.
TokenFails(t) ==
    /\ \E a \in asks[t] :
         /\ asks' = [asks EXCEPT ![t] = @ \ {a}]
         /\ retry' = [retry EXCEPT ![t] = @ \/ Current(t, a)]
         /\ live' = [live EXCEPT ![t] = @ /\ ~Current(t, a)]
    /\ UNCHANGED <<source, rotation>> /\ UNCHANGED <<sessionVars, commandVars>>

Retry(t) ==
    /\ retry[t]
    /\ retry' = [retry EXCEPT ![t] = FALSE] /\ Asked(t)
    /\ UNCHANGED <<source, rotation, live>> /\ UNCHANGED <<sessionVars, commandVars>>

\* An error of the source, a stream the function has ended among them.
RotationAfterErrorBug(t) == rotation
RotationAfterError(t) == [rotation EXCEPT ![t] = FALSE]

SourceError(t) ==
    /\ source[t] # 0
    /\ source' = [source EXCEPT ![t] = 0]
    /\ rotation' = RotationAfterError(t)
    /\ retry' = [retry EXCEPT ![t] = TRUE]
    /\ live' = [live EXCEPT ![t] = FALSE]
    /\ UNCHANGED asks /\ UNCHANGED <<sessionVars, commandVars>>

\* Before the token ends the source is replaced by one with a new token; the
\* tab goes on saying Live meanwhile.
Rotate(t) ==
    /\ rotation[t]
    /\ rotation' = [rotation EXCEPT ![t] = FALSE]
    /\ source' = [source EXCEPT ![t] = 0] /\ Asked(t)
    /\ UNCHANGED <<retry, live>> /\ UNCHANGED <<sessionVars, commandVars>>

-----------------------------------------------------------------------------
(* Commands. *)

HasSessionBug(t) == TRUE
HasSession(t) == shown[t] # 0

\* The assertion is bound to the request and to the time of the proxy's clock.
Signed(w) == [ws |-> w, age |-> 0]

\* sessionScope fails without a cookie, the route with that of another session.
Refusal == IF cookie = 0 THEN "unauthorized" ELSE "forbidden"

\* The proxy refuses the command, or signs it now.
Send(t) ==
    /\ HasSession(t) /\ command = None
    /\ IF VouchedFor(shown[t])
       THEN command' = Signed(shown[t]) /\ answer' = "none"
       ELSE UNCHANGED command /\ answer' = Refusal
    /\ UNCHANGED <<sessionVars, streamVars>>

Travel ==
    /\ command # None /\ command.age < MaxAge
    /\ command' = [command EXCEPT !.age = @ + 1]
    /\ UNCHANGED answer /\ UNCHANGED <<sessionVars, streamVars>>

\* What the function finds between the time signed and its own clock.
TimelyBug(d) == 0 <= d /\ d < Window
Timely(d) == -Leeway <= d /\ d < Window

Arrive ==
    /\ command # None /\ command' = None
    /\ \E s \in Skews :
         answer' = IF Timely(command.age + s) THEN "done" ELSE "unauthorized"
    /\ UNCHANGED <<sessionVars, streamVars>>

-----------------------------------------------------------------------------

Next ==
    \/ \E t \in Tabs :
         \/ Load(t) \/ NewSession(t) \/ Unload(t)
         \/ \E k \in Kinds : Create(t, k) \/ Entered(t, k) \/ EnterFails(t, k)
         \/ TokenAnswer(t) \/ StreamOpens(t) \/ TokenFails(t) \/ Retry(t)
         \/ SourceError(t) \/ Rotate(t)
         \/ Send(t)
    \/ Expire \/ Travel \/ Arrive

\* Timers fire, token requests end, and one that is repeated for ever and would
\* be granted is granted; sources that are opened again and again open once.
Fairness ==
    \A t \in Tabs :
        /\ WF_vars(Rotate(t)) /\ WF_vars(Retry(t))
        /\ WF_vars(TokenAnswer(t) \/ TokenFails(t)) /\ SF_vars(TokenAnswer(t))
        /\ SF_vars(StreamOpens(t))

Spec == Init /\ [][Next]_vars /\ Fairness

-----------------------------------------------------------------------------
(* Correctness. *)

TypeOK ==
    /\ cookie \in 0..MaxWs /\ issued \in 0..MaxWs
    /\ seeded \in [Workspaces -> Nat]
    /\ entering \in [Tabs -> [Kinds -> [ws : Workspaces, made : BOOLEAN] \cup {None}]]
    /\ shown \in [Tabs -> 0..MaxWs]
    /\ asks \in [Tabs -> SUBSET [ws : Workspaces, vouched : BOOLEAN]]
    /\ source \in [Tabs -> 0..MaxWs]
    /\ rotation \in [Tabs -> BOOLEAN] /\ retry \in [Tabs -> BOOLEAN]
    /\ live \in [Tabs -> BOOLEAN]
    /\ command \in [ws : Workspaces, age : 0..MaxAge] \cup {None}
    /\ answer \in {"none", "done", "unauthorized", "forbidden"}

\* A workspace is seeded at most once however often its session is entered, and
\* the cookie and the tabs name seeded workspaces only.
SeededOnce ==
    /\ \A w \in Workspaces : seeded[w] <= 1
    /\ \A w \in {cookie} \cup {shown[t] : t \in Tabs} : w # 0 => seeded[w] = 1

\* A tab's stream is one chain: a token is being asked for, a source is open or
\* a retry is set, exactly one of them, and an open source alone has a rotation;
\* a tab that waits for its retry does not say Live.
Chain(t) ==
    /\ shown[t] # 0 =>
         \/ (\E a \in asks[t] : Current(t, a)) /\ source[t] = 0 /\ ~retry[t]
         \/ source[t] # 0 /\ ~retry[t] /\ \A a \in asks[t] : a.ws # shown[t]
         \/ retry[t] /\ ~live[t] /\ source[t] = 0 /\ \A a \in asks[t] : a.ws # shown[t]
    /\ shown[t] = 0 => source[t] = 0 /\ ~retry[t] /\ ~live[t]
    /\ rotation[t] <=> source[t] # 0
OneChain == \A t \in Tabs : Chain(t)

\* The open source of a tab is of the session the tab shows, although tokens of
\* earlier sessions are answered late.
StreamIsOwn == \A t \in Tabs : source[t] \in {0, shown[t]}

\* With clocks that differ by the leeway at most, a prompt command is not
\* refused as unauthorized, and one that has travelled too long has no effect.
WindowHolds ==
    [][command # None /\ command' = None =>
         /\ answer' = "unauthorized" => command.age >= Window - Leeway
         /\ answer' = "done" => command.age < Window + Leeway]_vars

\* A tab is live for ever again if the cookie stays with its session, and ends its
\* stream for good, and says so, if the cookie stays with another or has expired.
FollowsCookie ==
    \A t \in Tabs :
        /\ <>[](cookie # 0 /\ cookie = shown[t]) => []<>(source[t] # 0 /\ live[t])
        /\ <>[](cookie # shown[t]) => <>[](source[t] = 0 /\ ~live[t])
=============================================================================
