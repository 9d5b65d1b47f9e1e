------------------------------- MODULE Fleet --------------------------------
(***************************************************************************)
(* What operators are promised of a fleet of agents, without the requests, *)
(* transactions, row locks and streams that bring it about.  An agent has  *)
(* at most one job in hand; it works on it only while it runs, asks before *)
(* it takes a gated effect, keeps the job through a pause and loses it for *)
(* good by a kill.                                                         *)
(***************************************************************************)
EXTENDS Naturals

CONSTANTS Agents,
          Jobs,
          Owner    \* the agent a job is for

VARIABLES mode,    \* what an agent is seen to be doing
          hand,    \* the job an agent has in hand, as a set
          over,    \* jobs that have ended, one way or another
          work,    \* steps done on a job
          asked,   \* jobs whose gated effect waits for a decision
          applied  \* how often the gated effect of a job was applied

vars == <<mode, hand, over, work, asked, applied>>

Init ==
    /\ mode = [a \in Agents |-> "idle"]
    /\ hand = [a \in Agents |-> {}]
    /\ over = {} /\ asked = {}
    /\ work = [j \in Jobs |-> 0]
    /\ applied = [j \in Jobs |-> 0]

-----------------------------------------------------------------------------
(* Jobs. *)

Fresh(j) == j \notin over /\ \A a \in Agents : j \notin hand[a]

\* Fresh jobs are given to idle agents, one each.
Assign(J) ==
    /\ \A j \in J : Fresh(j) /\ mode[Owner[j]] = "idle"
    /\ \A i, j \in J : Owner[i] = Owner[j] => i = j
    /\ mode' = [a \in Agents |-> IF \E j \in J : Owner[j] = a THEN "running" ELSE mode[a]]
    /\ hand' = [a \in Agents |-> hand[a] \cup {j \in J : Owner[j] = a}]
    /\ UNCHANGED <<over, work, asked, applied>>

\* One more step of the job in hand.
Step(j) ==
    /\ j \in hand[Owner[j]]
    /\ work' = [work EXCEPT ![j] = @ + 1]

\* The agent with job j in hand goes from one mode to another, and keeps it.
Keeps(j, from, to) ==
    /\ mode[Owner[j]] = from
    /\ mode' = [mode EXCEPT ![Owner[j]] = to]
    /\ UNCHANGED <<hand, over>>

\* The job leaves the agent's hand: the agent is idle again.
Ends(j, from) ==
    /\ mode[Owner[j]] = from
    /\ mode' = [mode EXCEPT ![Owner[j]] = "idle"]
    /\ hand' = [hand EXCEPT ![Owner[j]] = {}]
    /\ over' = over \cup {j}

Work(j)    == Step(j) /\ Keeps(j, "running", "running") /\ UNCHANGED <<asked, applied>>
Contain(j) == Step(j) /\ Keeps(j, "running", "paused") /\ UNCHANGED <<asked, applied>>
Finish(j)  == Step(j) /\ Ends(j, "running") /\ UNCHANGED <<asked, applied>>

-----------------------------------------------------------------------------
(* The gate. *)

Ask(j) ==
    /\ Step(j) /\ Keeps(j, "running", "waiting_approval")
    /\ asked' = asked \cup {j}
    /\ UNCHANGED applied

\* The answer to a question ends the job; only a yes has the effect.
Answer(j) ==
    /\ j \in asked /\ asked' = asked \ {j}
    /\ Step(j) /\ Ends(j, "waiting_approval")

Approve(j) == Answer(j) /\ applied' = [applied EXCEPT ![j] = @ + 1]
Reject(j)  == Answer(j) /\ UNCHANGED applied

-----------------------------------------------------------------------------
(* Interventions. *)

Pause(a) ==
    /\ mode[a] \in {"running", "waiting_approval"}
    /\ mode' = [mode EXCEPT ![a] = "paused"]
    /\ UNCHANGED <<hand, over, work, asked, applied>>

\* The agent goes on where it was: at its gate if that is still open.
Resume(a) ==
    /\ mode[a] = "paused"
    /\ mode' = [mode EXCEPT ![a] = IF hand[a] \cap asked = {} THEN "running"
                                   ELSE "waiting_approval"]
    /\ UNCHANGED <<hand, over, work, asked, applied>>

Kill(a) ==
    /\ mode[a] \in {"running", "waiting_approval", "paused"}
    /\ mode' = [mode EXCEPT ![a] = "killed"]
    /\ hand' = [hand EXCEPT ![a] = {}]
    /\ over' = over \cup hand[a]
    /\ asked' = asked \ hand[a]
    /\ UNCHANGED <<work, applied>>

-----------------------------------------------------------------------------

Next ==
    \/ \E J \in SUBSET Jobs : Assign(J)
    \/ \E j \in Jobs : Work(j) \/ Contain(j) \/ Finish(j) \/ Ask(j) \/ Approve(j) \/ Reject(j)
    \/ \E a \in Agents : Pause(a) \/ Resume(a) \/ Kill(a)

Spec == Init /\ [][Next]_vars
=============================================================================
