---------------------- MODULE ControlPlaneFleetProofs -----------------------
(***************************************************************************)
(* The control plane implements the fleet its operators are promised: each *)
(* of the kinds of change that steps make to rows is one step of the fleet *)
(* or none.                                                                *)
(***************************************************************************)
EXTENDS ControlPlaneOutcomeProofs

USE DEF Statuses, Active

-----------------------------------------------------------------------------
(* Two more facts about the rows.  The fleet has no queue: the statuses      *)
(* queued and blocked, from which the rules would let an agent run or be     *)
(* killed, are never those of an agent.  And a run that has not begun has no *)
(* step on record that its start would forget.                               *)

NeverQueued == \A a \in Agents : agent[a].status \notin {"queued", "blocked"}
FreshRuns   == \A r \in Tasks : run[r].status = "absent" => run[r].steps = 0

FleetInv == TypeOK /\ RowsSound /\ GateSound /\ NeverQueued /\ FreshRuns

\* What is in hand has not ended, and what is not in hand is not asked for.
LEMMA InHand ==
    ASSUME FleetInv, NEW r \in Tasks, run[r].status \in Active
    PROVE  /\ AgentOf(r) \in Agents /\ ShownOwner[r] = AgentOf(r)
           /\ ShownHand[AgentOf(r)] = {r}
           /\ ShownMode[AgentOf(r)] = run[r].status
           /\ \A s \in Tasks : run[s].status \in Active /\ s # r => AgentOf(s) # AgentOf(r)
<1>1. AgentOf(r) \in Agents
  BY AgentOfTask
<1>2. \A s \in Tasks : run[s].status \in Active /\ s # r => AgentOf(s) # AgentOf(r)
  BY DEF FleetInv, RowsSound, OneActiveRun
<1>3. Context(AgentOf(r)) = {r}
  BY <1>2 DEF Context
<1> QED
  BY <1>1, <1>2, <1>3, ActiveAgent DEF FleetInv, ShownOwner, ShownHand, ShownMode

-----------------------------------------------------------------------------
(* What a change of rows makes of the fleet shown. *)

\* One agent goes to a mode.
LEMMA ModeOfOne ==
    ASSUME NEW a \in Agents, \A b \in Agents \ {a} : agent'[b] = agent[b]
    PROVE  ShownMode' = [ShownMode EXCEPT ![a] = agent'[a].status]
  BY DEF ShownMode

\* One run records a step.
LEMMA WorkOfOne ==
    ASSUME NEW r \in Tasks, run'[r].steps = run[r].steps + 1,
           \A s \in Tasks \ {r} : run'[s].steps = run[s].steps
    PROVE  ShownWork' = [ShownWork EXCEPT ![r] = @ + 1]
  BY DEF ShownWork

\* No run records a step.
LEMMA WorkKept ==
    ASSUME \A r \in Tasks : run'[r].steps = run[r].steps
    PROVE  ShownWork' = ShownWork
  BY DEF ShownWork

\* Runs stay in hand as long as they stay active, and none begins or ends.
LEMMA HandKept ==
    ASSUME \A r \in Tasks : /\ run'[r].status \in Active <=> run[r].status \in Active
                            /\ run'[r].status = "absent" <=> run[r].status = "absent"
    PROVE  ShownHand' = ShownHand /\ ShownOver' = ShownOver
<1>1. \A a \in Agents : Context(a)' = Context(a)
  BY DEF Context
<1>2. ShownHand' = ShownHand
  BY <1>1 DEF ShownHand
<1>3. ShownOver' = ShownOver
  BY DEF ShownOver
<1> QED
  BY <1>2, <1>3

\* The one run in an agent's hand ends.
LEMMA HandEmptied ==
    ASSUME FleetInv, NEW r \in Tasks, run[r].status \in Active,
           run'[r].status \notin Active \cup {"absent"},
           \A s \in Tasks \ {r} : run'[s].status = run[s].status
    PROVE  /\ ShownHand' = [ShownHand EXCEPT ![AgentOf(r)] = {}]
           /\ ShownOver' = ShownOver \cup {r}
<1>1. \A s \in Tasks : run[s].status \in Active /\ s # r => AgentOf(s) # AgentOf(r)
  BY InHand
<1>2. Context(AgentOf(r))' = {}
  BY <1>1 DEF Context
<1>3. \A a \in Agents \ {AgentOf(r)} : Context(a)' = Context(a)
  BY DEF Context
<1>4. ShownHand' = [ShownHand EXCEPT ![AgentOf(r)] = {}]
  BY <1>2, <1>3 DEF ShownHand
<1>5. ShownOver' = ShownOver \cup {r}
  BY DEF ShownOver
<1> QED
  BY <1>4, <1>5

-----------------------------------------------------------------------------
(* Steps of runs.                                                          *)

\* A step of a running run that leaves it active, in some status.
LEMMA StepShown ==
    ASSUME FleetInv, NEW r \in Tasks, run[r].status = "running",
           NEW to \in {"running", "paused", "waiting_approval"},
           \E drift \in 0..100 : MoveAll(AgentOf(r), r, to, drift)
    PROVE  Promise!Step(r) /\ Promise!Keeps(r, "running", to)
<1>1. PICK drift \in 0..100 : MoveAll(AgentOf(r), r, to, drift)
  OBVIOUS
<1>2. TypeOK /\ to \in Statuses
  BY DEF FleetInv
<1>3. /\ run'[r].status = to /\ agent'[AgentOf(r)].status = to
      /\ \A s \in Tasks \ {r} : run'[s] = run[s]
      /\ \A a \in Agents \ {AgentOf(r)} : agent'[a] = agent[a]
  BY <1>1, <1>2, MoveAllRows
<1>4. run'[r].steps = run[r].steps + 1
  BY <1>1, <1>2, StepCounted
<1>5. ShownWork' = [ShownWork EXCEPT ![r] = @ + 1]
  BY <1>3, <1>4, WorkOfOne
<1>6. ShownHand' = ShownHand /\ ShownOver' = ShownOver
  BY <1>3, HandKept
<1>7. ShownMode' = [ShownMode EXCEPT ![AgentOf(r)] = to]
  BY <1>3, AgentOfTask, ModeOfOne
<1>8. /\ ShownOwner[r] = AgentOf(r) /\ r \in ShownHand[AgentOf(r)]
      /\ ShownMode[AgentOf(r)] = "running"
  BY InHand
<1> QED
  BY <1>5, <1>6, <1>7, <1>8 DEF Promise!Step, Promise!Keeps

\* The last step of a run, at work or at its gate.
LEMMA EndShown ==
    ASSUME FleetInv, NEW r \in Tasks, run[r].status \in {"running", "waiting_approval"},
           Complete(r)
    PROVE  Promise!Step(r) /\ Promise!Ends(r, run[r].status)
<1>1. TypeOK
  BY DEF FleetInv
<1>2. /\ run'[r].status = "completed" /\ agent'[AgentOf(r)].status = "idle"
      /\ \A s \in Tasks \ {r} : run'[s] = run[s]
      /\ \A a \in Agents \ {AgentOf(r)} : agent'[a] = agent[a]
  BY <1>1, CompleteRows
<1>3. run'[r].steps = run[r].steps + 1
  BY <1>1, StepCounted
<1>4. ShownWork' = [ShownWork EXCEPT ![r] = @ + 1]
  BY <1>2, <1>3, WorkOfOne
<1>5. /\ ShownHand' = [ShownHand EXCEPT ![AgentOf(r)] = {}]
      /\ ShownOver' = ShownOver \cup {r}
  BY <1>2, HandEmptied
<1>6. ShownMode' = [ShownMode EXCEPT ![AgentOf(r)] = "idle"]
  BY <1>2, AgentOfTask, ModeOfOne
<1>7. /\ ShownOwner[r] = AgentOf(r) /\ r \in ShownHand[AgentOf(r)]
      /\ ShownMode[AgentOf(r)] = run[r].status
  BY InHand
<1> QED
  BY <1>4, <1>5, <1>6, <1>7 DEF Promise!Step, Promise!Ends

\* A run that records a tool step or finishes, and one that is warned,
\* contained or brought to its gate.
LEMMA RunShown ==
    ASSUME FleetInv, NEW r \in Tasks,
           Finishes(r) \/ Gates(r) \/ \E status \in Statuses : Moves(r, status)
    PROVE  Promise!Next
<1>1. CASE Finishes(r)
  <2>1. Promise!Step(r) /\ Promise!Ends(r, "running")
    BY <1>1, EndShown DEF Finishes
  <2>2. ShownAsked' = ShownAsked /\ effects' = effects
    BY <1>1 DEF Finishes, ShownAsked
  <2>3. Promise!Finish(r)
    BY <2>1, <2>2 DEF Promise!Finish
  <2> QED
    BY <2>3 DEF Promise!Next
<1>2. CASE Gates(r)
  <2>1. Promise!Step(r) /\ Promise!Keeps(r, "running", "waiting_approval")
    BY <1>2, StepShown DEF Gates
  <2>2. ShownAsked' = ShownAsked \cup {r} /\ effects' = effects
    BY <1>2, ApprovalTypes DEF Gates, ShownAsked, FleetInv
  <2>3. Promise!Ask(r)
    BY <2>1, <2>2 DEF Promise!Ask
  <2> QED
    BY <2>3 DEF Promise!Next
<1>3. ASSUME NEW status \in Statuses, Moves(r, status) PROVE Promise!Next
  <2>1. Promise!Step(r) /\ Promise!Keeps(r, "running", status)
    BY <1>3, StepShown DEF Moves
  <2>2. ShownAsked' = ShownAsked /\ effects' = effects
    BY <1>3 DEF Moves, ShownAsked
  <2>3. status \in {"running", "paused"}
    BY <1>3 DEF Moves
  <2>4. Promise!Work(r) \/ Promise!Contain(r)
    BY <2>1, <2>2, <2>3 DEF Promise!Work, Promise!Contain
  <2> QED
    BY <2>4 DEF Promise!Next
<1> QED
  BY <1>1, <1>2, <1>3

\* A decision is the answer to what the agent asked.
LEMMA DecisionShown ==
    ASSUME FleetInv, NEW r \in Tasks,
           Decides(r, "approved", "succeeded", 1) \/ Decides(r, "rejected", "cancelled", 0)
    PROVE  Promise!Next
<1>1. PICK decision \in {"approved", "rejected"} :
        /\ run[r].status = "waiting_approval" /\ approval[r] = "pending" /\ Complete(r)
        /\ approval' = [approval EXCEPT ![r] = decision]
        /\ effects' = [effects EXCEPT ![r] = @ + IF decision = "approved" THEN 1 ELSE 0]
  BY DEF Decides
<1>2. Promise!Step(r) /\ Promise!Ends(r, "waiting_approval")
  BY <1>1, EndShown
<1>3. /\ approval \in [Tasks -> ApprovalStatuses] /\ effects \in [Tasks -> Nat]
  BY ApprovalTypes DEF FleetInv
<1>4. r \in ShownAsked /\ ShownAsked' = ShownAsked \ {r}
  BY <1>1, <1>3 DEF ShownAsked
<1>5. Promise!Answer(r)
  BY <1>2, <1>4 DEF Promise!Answer
<1>6. CASE decision = "approved"
  <2>1. Promise!Approve(r)
    BY <1>1, <1>5, <1>6 DEF Promise!Approve
  <2> QED
    BY <2>1 DEF Promise!Next
<1>7. CASE decision = "rejected"
  <2>1. effects' = effects
    BY <1>1, <1>3, <1>7
  <2>2. Promise!Reject(r)
    BY <1>5, <2>1 DEF Promise!Reject
  <2> QED
    BY <2>2 DEF Promise!Next
<1> QED
  BY <1>6, <1>7

\* A step that moves no status is a tool step of one job, or nothing.
LEMMA RestShown ==
    ASSUME FleetInv, Rests
    PROVE  Promise!Next \/ UNCHANGED Promise!vars
<1>1. /\ UNCHANGED <<agent, approval, effects>>
      /\ \A r \in Tasks : run'[r].status = run[r].status
  BY DEF Rests
<1>2. /\ ShownMode' = ShownMode /\ ShownAsked' = ShownAsked
      /\ ShownHand' = ShownHand /\ ShownOver' = ShownOver
  BY <1>1, HandKept DEF ShownMode, ShownAsked
<1>3. CASE \A r \in Tasks : run'[r].steps = run[r].steps
  <2>1. ShownWork' = ShownWork
    BY <1>3, WorkKept
  <2> QED
    BY <1>1, <1>2, <2>1 DEF Promise!vars
<1>4. ASSUME NEW r \in Tasks, run'[r].steps # run[r].steps PROVE Promise!Next
  <2>1. /\ run[r].status = "running" /\ run'[r].steps = run[r].steps + 1
        /\ \A s \in Tasks \ {r} : run'[s].steps = run[s].steps
    BY <1>4 DEF Rests
  <2>2. ShownWork' = [ShownWork EXCEPT ![r] = @ + 1]
    BY <2>1, WorkOfOne
  <2>3. /\ ShownOwner[r] = AgentOf(r) /\ r \in ShownHand[AgentOf(r)]
        /\ ShownMode[AgentOf(r)] = "running"
    BY <2>1, InHand
  <2>4. ShownMode' = [ShownMode EXCEPT ![AgentOf(r)] = "running"]
    BY <1>2, <2>3 DEF ShownMode
  <2>5. Promise!Work(r)
    BY <1>1, <1>2, <2>2, <2>3, <2>4 DEF Promise!Work, Promise!Step, Promise!Keeps
  <2> QED
    BY <2>5 DEF Promise!Next
<1> QED
  BY <1>3, <1>4

-----------------------------------------------------------------------------
(* Starts. *)

\* The runs that begin are fresh jobs given to idle agents, one each.
LEMMA StartShown ==
    ASSUME FleetInv, NEW R \in SUBSET Tasks, Starts(R)
    PROVE  Promise!Next
<1>1. /\ \A r \in R : run[r].status = "absent" /\ agent[AgentOf(r)].status = "idle"
      /\ \A r, s \in R : AgentOf(r) = AgentOf(s) => r = s
      /\ UNCHANGED <<approval, effects>>
  BY DEF Starts
<1>2. /\ \A r \in R : run'[r].status = "running" /\ run'[r].steps = 0
      /\ \A r \in Tasks \ R : run'[r] = run[r]
      /\ \A a \in Agents :
           /\ (\E r \in R : AgentOf(r) = a) => agent'[a].status = "running"
           /\ (\A r \in R : AgentOf(r) # a) => agent'[a] = agent[a]
  BY BeginRows DEF Starts, FleetInv
<1>3. \A r \in R : ShownOwner[r] = AgentOf(r) /\ AgentOf(r) \in Agents
  BY AgentOfTask DEF ShownOwner
<1>4. \A r \in R : /\ r \notin ShownOver
                   /\ \A a \in Agents : r \notin ShownHand[a]
                   /\ ShownMode[ShownOwner[r]] = "idle"
  BY <1>1, <1>3 DEF ShownOver, ShownHand, ShownMode, Context
<1>5. \A r, s \in R : ShownOwner[r] = ShownOwner[s] => r = s
  BY <1>1, <1>3
<1>6. ShownMode' = [a \in Agents |-> IF \E r \in R : ShownOwner[r] = a
                                     THEN "running" ELSE ShownMode[a]]
  <2>1. ASSUME NEW a \in Agents
        PROVE  agent'[a].status = IF \E r \in R : ShownOwner[r] = a
                                  THEN "running" ELSE ShownMode[a]
    BY <1>2, <1>3 DEF ShownMode
  <2> QED
    BY <2>1 DEF ShownMode
<1>7. ShownHand' = [a \in Agents |-> ShownHand[a] \cup {r \in R : ShownOwner[r] = a}]
  <2>1. ASSUME NEW a \in Agents
        PROVE  Context(a)' = ShownHand[a] \cup {r \in R : ShownOwner[r] = a}
    <3>1. ShownHand[a] = Context(a)
      BY DEF ShownHand
    <3>2. ASSUME NEW r \in Tasks
          PROVE  r \in Context(a)' <=> r \in Context(a) \/ (r \in R /\ ShownOwner[r] = a)
      <4>1. CASE r \in R
        BY <1>1, <1>2, <1>3, <4>1 DEF Context
      <4>2. CASE r \notin R
        BY <1>2, <4>2 DEF Context
      <4> QED
        BY <4>1, <4>2
    <3>3. Context(a)' \subseteq Tasks /\ Context(a) \subseteq Tasks
      BY DEF Context
    <3> QED
      BY <3>1, <3>2, <3>3
  <2> QED
    BY <2>1 DEF ShownHand
<1>8. ShownOver' = ShownOver
  BY <1>1, <1>2 DEF ShownOver
<1>9. ShownWork' = ShownWork
  <2>1. \A r \in Tasks : run'[r].steps = run[r].steps
    BY <1>1, <1>2 DEF FleetInv, FreshRuns
  <2> QED
    BY <2>1, WorkKept
<1>10. ShownAsked' = ShownAsked
  BY <1>1 DEF ShownAsked
<1>11. Promise!Assign(R)
  BY <1>1, <1>4, <1>5, <1>6, <1>7, <1>8, <1>9, <1>10 DEF Promise!Assign, Promise!Fresh
<1> QED
  BY <1>11 DEF Promise!Next

-----------------------------------------------------------------------------
(* Interventions. *)

\* What an intervention finds, and what it makes of the fleet in any case.
LEMMA InterventionShown ==
    ASSUME FleetInv, NEW h \in Handlers, Intervenes(h), NEW a, a = hreq[h].target
    PROVE  /\ a \in Agents
           /\ ShownMode[a] \in {"running", "waiting_approval", "paused"}
           /\ ShownMode[a] # Goal[hreq[h].cmd] /\ CanMove(ShownMode[a], Goal[hreq[h].cmd])
           /\ \E r \in Tasks : /\ ShownHand[a] = {r}
                               /\ run[r].status = ShownMode[a] /\ AgentOf(r) = a
                               /\ \A s \in Tasks \ {r} : run'[s] = run[s]
                               /\ run'[r].status = Landing(hreq[h].cmd, a)
           /\ ShownMode' = [ShownMode EXCEPT ![a] = Landing(hreq[h].cmd, a)]
           /\ UNCHANGED <<ShownWork, effects>>
<1> DEFINE to == Landing(hreq[h].cmd, a)
<1> HIDE DEF to
<1>1. /\ a \in Agents /\ agent[a].status \in Active
      /\ agent'[a].status = to
      /\ \A b \in Agents \ {a} : agent'[b] = agent[b]
      /\ \A r \in Context(a) : run'[r].status = to /\ run'[r].steps = run[r].steps
      /\ \A r \in Tasks \ Context(a) : run'[r] = run[r]
  BY IntervenedRows DEF to, FleetInv
<1>2. /\ agent[a].status # Goal[hreq[h].cmd]
      /\ CanMove(agent[a].status, Goal[hreq[h].cmd])
      /\ effects' = effects
  BY DEF Intervenes, Intervene, MayIntervene
<1>3. ShownMode[a] = agent[a].status
  BY <1>1 DEF ShownMode
<1>4. agent[a].status \in {"running", "waiting_approval", "paused"}
  BY <1>1 DEF FleetInv, NeverQueued
<1>5. PICK r \in Tasks : AgentOf(r) = a /\ run[r].status \in Active
  BY <1>1, <1>4 DEF FleetInv, RowsSound, RowsAgree, Context
<1>6. ShownHand[a] = {r} /\ ShownMode[a] = run[r].status
  BY <1>5, InHand
<1>7. Context(a) = {r}
  BY <1>1, <1>6 DEF ShownHand
<1>8. /\ run'[r].status = to /\ run'[r].steps = run[r].steps
      /\ \A s \in Tasks \ {r} : run'[s] = run[s]
  BY <1>1, <1>7
<1>9. ShownMode' = [ShownMode EXCEPT ![a] = to]
  BY <1>1, ModeOfOne
<1>10. ShownWork' = ShownWork
  BY <1>8, WorkKept
<1> QED
  BY <1>1, <1>2, <1>3, <1>4, <1>5, <1>6, <1>8, <1>9, <1>10 DEF to

\* A pause halts a running or waiting agent, with its job in hand.
LEMMA PauseShown ==
    ASSUME FleetInv, NEW h \in Handlers, Intervenes(h), hreq[h].cmd = "pause"
    PROVE  Promise!Next
<1> DEFINE a == hreq[h].target
<1> HIDE DEF a
<1>1. Landing(hreq[h].cmd, a) = "paused"
  BY Goals DEF Landing
<1>2. /\ a \in Agents /\ ShownMode[a] \in {"running", "waiting_approval", "paused"}
      /\ ShownMode[a] # "paused"
      /\ ShownMode' = [ShownMode EXCEPT ![a] = "paused"]
      /\ UNCHANGED <<ShownWork, effects>>
  BY <1>1, Goals, InterventionShown DEF a
<1>3. PICK r \in Tasks : /\ run[r].status \in {"running", "waiting_approval"}
                         /\ run'[r].status = "paused"
                         /\ \A s \in Tasks \ {r} : run'[s] = run[s]
  BY <1>1, <1>2, InterventionShown DEF a
<1>4. ShownHand' = ShownHand /\ ShownOver' = ShownOver
  BY <1>3, HandKept
<1>5. ShownAsked' = ShownAsked
  BY DEF Intervenes, ShownAsked
<1>6. Promise!Pause(a)
  BY <1>2, <1>4, <1>5 DEF Promise!Pause
<1> QED
  BY <1>2, <1>6 DEF Promise!Next

\* A resume sets a paused agent going again, or leaves one at its gate alone.
LEMMA ResumeShown ==
    ASSUME FleetInv, NEW h \in Handlers, Intervenes(h), hreq[h].cmd = "resume"
    PROVE  Promise!Next \/ UNCHANGED Promise!vars
<1> DEFINE a == hreq[h].target
           to == Landing(hreq[h].cmd, a)
<1> HIDE DEF a, to
<1>1. /\ a \in Agents /\ ShownMode[a] \in {"waiting_approval", "paused"}
      /\ ShownMode' = [ShownMode EXCEPT ![a] = to]
      /\ UNCHANGED <<ShownWork, effects>>
  BY Goals, InterventionShown DEF a, to
<1>2. PICK r \in Tasks : /\ ShownHand[a] = {r} /\ run[r].status = ShownMode[a]
                         /\ run'[r].status = to
                         /\ \A s \in Tasks \ {r} : run'[s] = run[s]
  BY InterventionShown DEF a, to
<1>3. to = IF approval[r] = "pending" THEN "waiting_approval" ELSE "running"
  <2>1. Context(a) = {r}
    BY <1>1, <1>2 DEF ShownHand
  <2> QED
    BY <2>1, Goals DEF to, Landing
<1>4. ShownHand' = ShownHand /\ ShownOver' = ShownOver
  BY <1>1, <1>2, <1>3, HandKept
<1>5. ShownAsked' = ShownAsked
  BY DEF Intervenes, ShownAsked
<1>6. CASE ShownMode[a] = "paused"
  <2>1. ShownHand[a] \cap ShownAsked = {} <=> approval[r] # "pending"
    BY <1>2 DEF ShownAsked
  <2>2. Promise!Resume(a)
    BY <1>1, <1>3, <1>4, <1>5, <1>6, <2>1 DEF Promise!Resume
  <2> QED
    BY <1>1, <2>2 DEF Promise!Next
<1>7. CASE ShownMode[a] = "waiting_approval"
  <2>1. to = "waiting_approval"
    BY <1>2, <1>3, <1>7 DEF FleetInv, GateSound
  <2>2. ShownMode' = ShownMode
    BY <1>1, <1>7, <2>1 DEF ShownMode
  <2> QED
    BY <1>1, <1>4, <1>5, <2>2 DEF Promise!vars
<1> QED
  BY <1>1, <1>6, <1>7

\* A kill takes the job out of a busy agent's hand, with what it asked.
LEMMA KillShown ==
    ASSUME FleetInv, NEW h \in Handlers, Intervenes(h), hreq[h].cmd = "kill"
    PROVE  Promise!Next
<1> DEFINE a == hreq[h].target
<1> HIDE DEF a
<1>1. Landing(hreq[h].cmd, a) = "killed"
  BY Goals DEF Landing
<1>2. /\ a \in Agents /\ ShownMode[a] \in {"running", "waiting_approval", "paused"}
      /\ ShownMode' = [ShownMode EXCEPT ![a] = "killed"]
      /\ UNCHANGED <<ShownWork, effects>>
  BY <1>1, InterventionShown DEF a
<1>3. PICK r \in Tasks : /\ ShownHand[a] = {r} /\ run[r].status = ShownMode[a]
                         /\ AgentOf(r) = a /\ run'[r].status = "killed"
                         /\ \A s \in Tasks \ {r} : run'[s] = run[s]
  BY <1>1, InterventionShown DEF a
<1>4. ShownHand' = [ShownHand EXCEPT ![a] = {}] /\ ShownOver' = ShownOver \cup ShownHand[a]
  BY <1>2, <1>3, HandEmptied
<1>5. ShownAsked' = ShownAsked \ ShownHand[a]
  <2>1. Context(a) = {r}
    BY <1>2, <1>3 DEF ShownHand
  <2>2. approval' = [s \in Tasks |-> IF s \in Context(a) THEN CancelledApproval(approval[s])
                                     ELSE approval[s]]
    BY DEF Intervenes, a
  <2>3. approval'[r] # "pending" /\ \A s \in Tasks \ {r} : approval'[s] = approval[s]
    BY <2>1, <2>2 DEF CancelledApproval
  <2> QED
    BY <1>3, <2>3 DEF ShownAsked
<1>6. Promise!Kill(a)
  BY <1>2, <1>4, <1>5 DEF Promise!Kill
<1> QED
  BY <1>2, <1>6 DEF Promise!Next

-----------------------------------------------------------------------------
(* The invariant is inductive.                                             *)

\* Initially no agent is queued and no run has begun.
LEMMA FleetInit == Init => FleetInv
<1>1. Init => NeverQueued /\ FreshRuns
  BY DEF Init, NeverQueued, FreshRuns
<1> QED
  BY <1>1, TypeInit, RowsInit, GateInit DEF FleetInv

\* No step queues or blocks an agent.
LEMMA NeverQueuedStep ==
    ASSUME FleetInv, RowStep PROVE NeverQueued'
<1>1. TypeOK /\ RowsSound /\ NeverQueued
  BY DEF FleetInv
<1>2. CASE Rests
  BY <1>1, <1>2 DEF Rests, NeverQueued
<1>3. ASSUME NEW R \in SUBSET Tasks, Starts(R) PROVE NeverQueued'
  <2>1. \A a \in Agents : agent'[a].status = "running" \/ agent'[a] = agent[a]
    BY <1>1, <1>3, BeginRows DEF Starts
  <2> QED
    BY <1>1, <2>1 DEF NeverQueued
<1>4. ASSUME NEW h \in Handlers, Intervenes(h) PROVE NeverQueued'
  BY <1>1, <1>4, IntervenedRows DEF NeverQueued
<1>5. ASSUME NEW r \in Tasks, Complete(r) PROVE NeverQueued'
  BY <1>1, <1>5, CompleteRows DEF NeverQueued
<1>6. ASSUME NEW r \in Tasks, NEW to \in {"running", "paused", "waiting_approval"},
             NEW drift \in 0..100, MoveAll(AgentOf(r), r, to, drift)
      PROVE  NeverQueued'
  <2>1. to \in Statuses
    OBVIOUS
  <2>2. /\ agent'[AgentOf(r)].status = to
        /\ \A a \in Agents \ {AgentOf(r)} : agent'[a] = agent[a]
    <3> HIDE DEF Statuses
    <3> QED
      BY <1>1, <1>6, <2>1, MoveAllRows
  <2> QED
    BY <1>1, <2>2 DEF NeverQueued
<1>7. ASSUME NEW r \in Tasks, Finishes(r) \/ Decides(r, "approved", "succeeded", 1)
                                \/ Decides(r, "rejected", "cancelled", 0)
      PROVE  NeverQueued'
  BY <1>5, <1>7 DEF Finishes, Decides
<1>8. ASSUME NEW r \in Tasks, Gates(r) \/ \E status \in Statuses : Moves(r, status)
      PROVE  NeverQueued'
  BY <1>6, <1>8 DEF Gates, Moves
<1> QED
  BY <1>2, <1>3, <1>4, <1>7, <1>8 DEF RowStep

\* A run that is still absent after a step has recorded none.
LEMMA FreshRunsStep ==
    ASSUME FleetInv, RowStep PROVE FreshRuns'
<1> SUFFICES ASSUME NEW r \in Tasks, run'[r].status = "absent" PROVE run'[r].steps = 0
  BY DEF FreshRuns
<1>1. TypeOK /\ RowsSound /\ FreshRuns
  BY DEF FleetInv
<1>2. Goes(r) \/ Begins(r) \/ Intervened(r) \/ Advances(r) \/ Decided(r)
  BY <1>1, RunKinds
<1>3. ASSUME Intervened(r) PROVE FALSE
  <2>1. PICK h \in Handlers : /\ Intervenes(h)
                              /\ run'[r].status = Landing(hreq[h].cmd, hreq[h].target)
    BY <1>3 DEF Intervened
  <2> QED
    BY <1>1, <2>1, IntervenedRows
<1> QED
  BY <1>1, <1>2, <1>3 DEF FreshRuns, Goes, Begins, Advances, Decided

\* Every step keeps the invariant.
LEMMA FleetStep == FleetInv /\ [Next]_vars => FleetInv'
<1>1. FleetInv /\ [Next]_vars => RowStep
  BY Classification DEF FleetInv
<1>2. FleetInv /\ [Next]_vars => NeverQueued' /\ FreshRuns'
  BY <1>1, NeverQueuedStep, FreshRunsStep
<1> QED
  BY <1>2, TypeStep, RowsStep, GateStep DEF FleetInv

-----------------------------------------------------------------------------
(* The refinement. *)

\* The fleet shown starts idle, with nothing done.
LEMMA FleetShownInit == Init => Promise!Init
<1> SUFFICES ASSUME Init PROVE Promise!Init
  OBVIOUS
<1>1. /\ \A a \in Agents : agent[a].status = "idle"
      /\ \A r \in Tasks : run[r].status = "absent" /\ run[r].steps = 0 /\ approval[r] = "none"
      /\ effects = [r \in Tasks |-> 0]
  BY DEF Init
<1>2. ShownMode = [a \in Agents |-> "idle"] /\ ShownWork = [r \in Tasks |-> 0]
  BY <1>1 DEF ShownMode, ShownWork
<1>3. \A a \in Agents : Context(a) = {}
  BY <1>1 DEF Context
<1>4. ShownHand = [a \in Agents |-> {}] /\ ShownOver = {} /\ ShownAsked = {}
  BY <1>1, <1>3 DEF ShownHand, ShownOver, ShownAsked
<1> QED
  BY <1>1, <1>2, <1>4 DEF Promise!Init

\* Whatever requests, streams, workers and crashes interleave, the control
\* plane shows its operators a fleet in which agents take fresh jobs one at a
\* time, work only while they run, ask before a gated effect, keep their job
\* through a pause and lose it for good by a kill.
THEOREM FleetRefinement == Spec => ImplementsFleet
<1>1. FleetInv /\ [Next]_vars => [Promise!Next]_(Promise!vars)
  <2> SUFFICES ASSUME FleetInv, [Next]_vars PROVE Promise!Next \/ UNCHANGED Promise!vars
    OBVIOUS
  <2>1. RowStep
    BY Classification DEF FleetInv
  <2>2. ASSUME NEW h \in Handlers, Intervenes(h)
        PROVE  Promise!Next \/ UNCHANGED Promise!vars
    <3>1. hreq[h].cmd \in {"pause", "resume", "kill"}
      BY <2>2 DEF Intervenes, Interventions
    <3> QED
      BY <2>2, <3>1, PauseShown, ResumeShown, KillShown
  <2>3. ASSUME NEW r \in Tasks,
               \/ Finishes(r) \/ Gates(r) \/ \E status \in Statuses : Moves(r, status)
               \/ Decides(r, "approved", "succeeded", 1) \/ Decides(r, "rejected", "cancelled", 0)
        PROVE  Promise!Next
    BY <2>3, RunShown, DecisionShown
  <2> QED
    BY <2>1, <2>2, <2>3, RestShown, StartShown DEF RowStep
<1> QED
  BY <1>1, FleetShownInit, FleetInit, FleetStep, PTL DEF Spec, ImplementsFleet, Promise!Spec

-----------------------------------------------------------------------------
(* Outcomes are final.  KillTerminal says so of a killed agent; the same is    *)
(* true of every run that has ended, and of every approval that was decided or *)
(* cancelled, while its agent goes on to other jobs.                           *)

Decisive == {"approved", "rejected", "cancelled"}

DecidedRunOver ==
    \A r \in Tasks : approval[r] \in Decisive => run[r].status \in {"completed", "killed"}

\* A step leaves a run that has ended, its approval and its effect alone.
LEMMA EndedStays ==
    ASSUME TypeOK, RowsSound, RowStep, NEW r \in Tasks,
           run[r].status \notin Active \cup {"absent"}
    PROVE  /\ run'[r] = run[r] /\ approval'[r] = approval[r]
           /\ action'[r] = action[r] /\ effects'[r] = effects[r]
<1>1. CASE Rests
  BY <1>1 DEF Rests
<1>2. ASSUME NEW R \in SUBSET Tasks, Starts(R)
      PROVE  /\ run'[r] = run[r] /\ approval'[r] = approval[r]
             /\ action'[r] = action[r] /\ effects'[r] = effects[r]
  <2>1. r \notin R
    BY <1>2 DEF Starts
  <2> QED
    BY <1>2, <2>1, BeginRows DEF Starts
<1>3. ASSUME NEW h \in Handlers, Intervenes(h)
      PROVE  /\ run'[r] = run[r] /\ approval'[r] = approval[r]
             /\ action'[r] = action[r] /\ effects'[r] = effects[r]
  <2>1. r \notin Context(hreq[h].target)
    BY DEF Context
  <2>2. run'[r] = run[r]
    BY <1>3, <2>1, IntervenedRows
  <2>3. approval'[r] = approval[r] /\ UNCHANGED <<action, effects>>
    BY <1>3, <2>1 DEF Intervenes, Intervene
  <2> QED
    BY <2>2, <2>3
<1>4. ASSUME NEW s \in Tasks,
             \/ Finishes(s)
             \/ Decides(s, "approved", "succeeded", 1)
             \/ Decides(s, "rejected", "cancelled", 0)
             \/ \E status \in Statuses : Moves(s, status)
             \/ Gates(s)
      PROVE  /\ run'[r] = run[r] /\ approval'[r] = approval[r]
             /\ action'[r] = action[r] /\ effects'[r] = effects[r]
  <2>1. run[s].status \in {"running", "waiting_approval"}
    BY <1>4, StepOfOneRun
  <2>2. r \in Tasks \ {s}
    BY <2>1
  <2> QED
    BY <1>4, <2>2, StepOfOneRun
<1> QED
  BY <1>1, <1>2, <1>3, <1>4 DEF RowStep

\* No approval is decided initially.
LEMMA DecidedInit == Init => DecidedRunOver
  BY DEF Init, DecidedRunOver, Decisive

\* An approval is decided, or cancelled, only in a step that ends its run.
LEMMA DecidedStep ==
    TypeOK /\ RowsSound /\ DecidedRunOver /\ [Next]_vars => DecidedRunOver'
<1> SUFFICES ASSUME TypeOK, RowsSound, DecidedRunOver, RowStep,
                    NEW r \in Tasks, approval'[r] \in Decisive
             PROVE  run'[r].status \in {"completed", "killed"}
  BY Classification DEF DecidedRunOver
<1>1. Goes(r) \/ Begins(r) \/ Intervened(r) \/ Advances(r) \/ Decided(r)
  BY RunKinds
<1>2. approval[r] \in Decisive => run[r].status \in {"completed", "killed"}
  BY DEF DecidedRunOver
<1>3. CASE Intervened(r)
  <2>1. PICK h \in Handlers :
          /\ r \in Context(hreq[h].target)
          /\ run'[r].status = Landing(hreq[h].cmd, hreq[h].target)
          /\ approval'[r] = IF hreq[h].cmd = "kill" THEN CancelledApproval(approval[r])
                            ELSE approval[r]
    BY <1>3 DEF Intervened
  <2>2. approval[r] \notin Decisive
    BY <1>2, <2>1 DEF Context
  <2>3. hreq[h].cmd = "kill"
    BY <2>1, <2>2
  <2> QED
    BY <2>1, <2>3, Goals DEF Landing
<1> QED
  BY <1>1, <1>2, <1>3 DEF Goes, Begins, Advances, Decided, Decisive

\* Whatever a run came to, by its script, a decision or a kill, no later step,
\* late decision or retry changes; nor is an approval decided twice.
THEOREM OutcomesAreFinal ==
    Spec => [][\A r \in Tasks :
                 run[r].status \notin Active \cup {"absent"} \/ approval[r] \in Decisive =>
                   /\ run'[r] = run[r] /\ approval'[r] = approval[r]
                   /\ action'[r] = action[r] /\ effects'[r] = effects[r]]_vars
<1> DEFINE Final == \A r \in Tasks :
                 run[r].status \notin Active \cup {"absent"} \/ approval[r] \in Decisive =>
                   /\ run'[r] = run[r] /\ approval'[r] = approval[r]
                   /\ action'[r] = action[r] /\ effects'[r] = effects[r]
<1>1. TypeOK /\ RowsSound /\ DecidedRunOver /\ [Next]_vars => Final
  <2> SUFFICES ASSUME TypeOK, RowsSound, DecidedRunOver, [Next]_vars, NEW r \in Tasks,
                      run[r].status \notin Active \cup {"absent"} \/ approval[r] \in Decisive
               PROVE  /\ run'[r] = run[r] /\ approval'[r] = approval[r]
                      /\ action'[r] = action[r] /\ effects'[r] = effects[r]
    OBVIOUS
  <2>1. RowStep
    BY Classification
  <2>2. run[r].status \notin Active \cup {"absent"}
    BY DEF DecidedRunOver
  <2> QED
    BY <2>1, <2>2, EndedStays
<1>2. TypeOK /\ RowsSound /\ DecidedRunOver /\ [Next]_vars => [Final]_vars
  BY <1>1
<1> HIDE DEF Final
<1>3. Spec => [][Final]_vars
  BY <1>2, TypeInit, TypeStep, RowsInit, RowsStep, DecidedInit, DecidedStep, PTL DEF Spec
<1> QED
  BY <1>3 DEF Final

=============================================================================
