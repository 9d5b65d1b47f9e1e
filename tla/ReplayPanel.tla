---------------------------- MODULE ReplayPanel -----------------------------
(***************************************************************************)
(* The reasoning replay of the operator dashboard: the operator selects an *)
(* agent and how many of its last steps to show, the tab asks for them and *)
(* shows what is answered, in whatever order the answers arrive.           *)
(***************************************************************************)
EXTENDS Naturals

CONSTANTS
    Agents,    \* agents of a session
    Limits,    \* replay lengths offered, the default of 20 among them
    Lookups,   \* bound: replay requests under way at once
    MaxSes,    \* bound: sessions of the tab
    None

Replays == [ses : 1..MaxSes, agent : Agents, limit : Limits]

VARIABLES
    ses,       \* the tab's session
    started,   \* its agents that are shown with a run: current_run_id
    selected,  \* the agent selected
    limit,     \* the length selected: replayLimit
    lookups,   \* replay requests under way
    steps,     \* whose steps are shown: the replay they answer
    failed     \* a replay request of the session failed, which is shown

vars == <<ses, started, selected, limit, lookups, steps, failed>>

Init ==
    /\ ses = 1 /\ started = {} /\ selected = None /\ limit = 20
    /\ lookups = [k \in Lookups |-> None] /\ steps = None /\ failed = FALSE

\* An agent is first shown with a run.
Start ==
    /\ \E a \in Agents \ started : started' = started \cup {a}
    /\ UNCHANGED <<ses, selected, limit, lookups, steps, failed>>

\* Every caller has an agent with a run, so that openReplay always asks.
OpenReplay(a, n) ==
    /\ selected' = a
    /\ \E k \in Lookups :
         /\ lookups[k] = None
         /\ lookups' = [lookups EXCEPT ![k] = [ses |-> ses, agent |-> a, limit |-> n]]
    /\ UNCHANGED <<ses, started, steps, failed>>

\* The button of an agent, disabled until the agent has a run.
Replay(a) == a \in started /\ OpenReplay(a, limit) /\ UNCHANGED limit

\* Another length, which asks again if an agent is selected.
ChooseLength(n) ==
    /\ n # limit /\ limit' = n
    /\ IF selected # None
       THEN OpenReplay(selected, n)
       ELSE UNCHANGED <<ses, started, selected, lookups, steps, failed>>

RefreshReplay == selected # None /\ OpenReplay(selected, limit) /\ UNCHANGED limit

\* An answer is shown without a comparison with the selection.
ReplayAnswer(k) ==
    /\ lookups[k] # None
    /\ steps' = lookups[k]
    /\ lookups' = [lookups EXCEPT ![k] = None]
    /\ UNCHANGED <<ses, started, selected, limit, failed>>

ReplayFails(k) ==
    /\ lookups[k] # None
    /\ lookups' = [lookups EXCEPT ![k] = None]
    /\ failed' = TRUE
    /\ UNCHANGED <<ses, started, selected, limit, steps>>

\* The length is kept, and so is what is under way.
NewSession ==
    /\ ses < MaxSes
    /\ ses' = ses + 1 /\ started' = {}
    /\ selected' = None /\ steps' = None /\ failed' = FALSE
    /\ UNCHANGED <<limit, lookups>>

Next ==
    \/ Start \/ RefreshReplay \/ NewSession
    \/ \E a \in Agents : Replay(a)
    \/ \E n \in Limits : ChooseLength(n)
    \/ \E k \in Lookups : ReplayAnswer(k) \/ ReplayFails(k)

Spec == Init /\ [][Next]_vars

\* With an agent selected, no request under way and none failed, the steps shown
\* are those of the selected agent and number: "Select N, inspect ordered
\* summaries" of the requirements.
ReplayIsSelection ==
    selected # None /\ (\A k \in Lookups : lookups[k] = None) /\ ~failed =>
        steps = [ses |-> ses, agent |-> selected, limit |-> limit]
=============================================================================
