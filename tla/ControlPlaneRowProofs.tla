------------------------ MODULE ControlPlaneRowProofs ------------------------
(***************************************************************************)
(* What steps make of the rows of agents, runs and tasks: every step is    *)
(* one of seven kinds of change, and the invariants and action properties  *)
(* on rows follow kind by kind.                                            *)
(***************************************************************************)
EXTENDS ControlPlaneProofs

USE DEF Statuses, Active

RowsSound == OneActiveRun /\ RowsAgree

\* A run that was due takes a step of one of these stages of its script, and
\* is not due any more.
Scripted(r, stages) ==
    Stage(r, run[r].steps) \in stages /\ r \in due /\ r \notin due'

\* All the seed runs that are missing begin, or none does.
WholeOrNone(R) == R = ToStart \/ R \cap Agents = {}

\* At most one run, of a running agent, records a tool step.
Rests ==
    /\ UNCHANGED <<agent, task, approval, action, effects, interventions>>
    /\ \A r \in Tasks :
         /\ run'[r].status = run[r].status
         /\ run'[r].epoch = run[r].epoch
         /\ run'[r] # run[r] => run[r].status = "running"
         /\ run'[r].steps # run[r].steps =>
              run'[r].steps = run[r].steps + 1 /\ Scripted(r, {"tool"})
    /\ \A r, s \in Tasks :
         run'[r].steps # run[r].steps /\ run'[s].steps # run[s].steps => r = s

\* Fresh runs, one for an idle agent, begin.
Starts(R) ==
    /\ R \in SUBSET Tasks
    /\ \A r \in R : run[r].status = "absent" /\ agent[AgentOf(r)].status = "idle"
    /\ \A r1, r2 \in R : AgentOf(r1) = AgentOf(r2) => r1 = r2
    /\ WholeOrNone(R)
    /\ Begin(R)
    /\ UNCHANGED <<approval, action, effects, interventions>>

Intervenes(h) ==
    LET q == hreq[h]
    IN /\ q.cmd \in Interventions /\ q.target \in Agents /\ q.key \in Keys
       /\ Intervene(h)
       /\ approval' = [r \in Tasks |->
                         IF q.cmd = "kill" /\ r \in Context(q.target)
                         THEN CancelledApproval(approval[r]) ELSE approval[r]]

Finishes(r) ==
    /\ run[r].status = "running" /\ Complete(r) /\ Scripted(r, {"finish"})
    /\ UNCHANGED <<approval, action, effects, interventions>>

\* A pending approval is decided; the mutation is applied n times.
Decides(r, decision, outcome, n) ==
    /\ run[r].status = "waiting_approval" /\ approval[r] = "pending"
    /\ Complete(r)
    /\ approval' = [approval EXCEPT ![r] = decision]
    /\ action' = [action EXCEPT ![r].status = outcome]
    /\ effects' = [effects EXCEPT ![r] = @ + n]
    /\ UNCHANGED interventions

\* A step leaves its run in a status, of which none is the gate's.
Moves(r, status) ==
    /\ run[r].status = "running" /\ status \in {"running", "paused"}
    /\ IF status = "running" THEN Scripted(r, {"warn"}) ELSE Scripted(r, {"contain"})
    /\ \E drift \in 0..100 : MoveAll(AgentOf(r), r, status, drift)
    /\ UNCHANGED <<approval, action, effects, interventions>>

Gates(r) ==
    /\ run[r].status = "running" /\ Scripted(r, {"gate"})
    /\ \E drift \in 0..100 : MoveAll(AgentOf(r), r, "waiting_approval", drift)
    /\ approval' = [approval EXCEPT ![r] = "pending"]
    /\ action' = [action EXCEPT ![r] = [status |-> "waiting_approval",
                                        epoch |-> agent[AgentOf(r)].epoch]]
    /\ UNCHANGED <<effects, interventions>>

RowStep ==
    \/ Rests
    \/ \E R \in SUBSET Tasks : Starts(R)
    \/ \E h \in Handlers : Intervenes(h)
    \/ \E r \in Tasks :
         \/ Finishes(r)
         \/ Decides(r, "approved", "succeeded", 1)
         \/ Decides(r, "rejected", "cancelled", 0)
         \/ \E status \in Statuses : Moves(r, status)
         \/ Gates(r)

-----------------------------------------------------------------------------
(* The classification. *)

\* An agent that may start is idle: a completed or failed one would have a run.
LEMMA StartsIdle ==
    ASSUME RowsSound, NEW a \in Agents, MayStart(a)
    PROVE  agent[a].status = "idle" /\ Context(a) = {}
<1>1. agent[a].status \notin Active
  BY DEF MayStart
<1>2. Context(a) = {}
  BY <1>1 DEF RowsSound, RowsAgree, Context
<1> QED
  BY <1>2 DEF RowsSound, RowsAgree, MayStart

\* A task that does not exist has no run.
LEMMA RunOfTask ==
    ASSUME TypeOK, RowsSound, NEW r \in Tasks, task[r] = "absent"
    PROVE  run[r].status = "absent"
  BY DEF RowsSound, RowsAgree, TypeOK, RunRows

\* Every action is one of seven kinds of change to rows.
LEMMA Classification == TypeOK /\ RowsSound /\ [Next]_vars => RowStep
<1> SUFFICES ASSUME TypeOK, RowsSound, [Next]_vars PROVE RowStep
  OBVIOUS
<1>1. CASE UNCHANGED rows
  BY <1>1 DEF RowStep, Rests, rows
<1>2. ASSUME NEW h \in Handlers, StartAll(h) PROVE RowStep
  <2>1. ToStart \in SUBSET Tasks /\ ToStart \subseteq Agents
    BY DEF ToStart, Tasks
  <2>2. \A r \in ToStart : run[r].status = "absent" /\ agent[AgentOf(r)].status = "idle"
    BY <1>2, <2>1, StartsIdle DEF StartAll, StartAllAccepted, ToStart, AgentOf
  <2>3. \A r1, r2 \in ToStart : AgentOf(r1) = AgentOf(r2) => r1 = r2
    BY <2>1 DEF AgentOf
  <2>4. Starts(ToStart)
    BY <1>2, <2>1, <2>2, <2>3 DEF StartAll, Starts, WholeOrNone
  <2> QED
    BY <2>1, <2>4 DEF RowStep
<1>3. ASSUME NEW h \in Handlers, StartRogue(h) PROVE RowStep
  <2> DEFINE r == hreq[h].target
  <2>1. r \in Tasks /\ r \in RogueTasks /\ AgentOf(r) = Infra
    BY <1>3, RequestTarget, Distinct DEF StartRogue, Locked, TypeOK, Tasks, AgentOf
  <2>2. run[r].status = "absent" /\ agent[AgentOf(r)].status = "idle"
    BY <1>3, <2>1, RunOfTask, StartsIdle
       DEF StartRogue, StartRogueAccepted, Agents
  <2>3. WholeOrNone({r})
    BY <2>1, Distinct DEF WholeOrNone
  <2>4. Starts({r})
    BY <1>3, <2>1, <2>2, <2>3 DEF StartRogue, Starts
  <2> QED
    BY <2>1, <2>4 DEF RowStep
<1>4. ASSUME NEW h \in Handlers, Pause(h) \/ Resume(h) \/ Kill(h) PROVE RowStep
  <2>1. hreq[h].cmd \in Interventions /\ Intervene(h)
    BY <1>4 DEF Pause, Resume, Kill, Locked, Interventions
  <2>2. hreq[h].target \in Agents /\ hreq[h].key \in Keys
    BY <2>1, RequestTarget DEF TypeOK
  <2>3. approval = [r \in Tasks |-> approval[r]]
    BY DEF TypeOK
  <2>4. approval' = [r \in Tasks |->
                       IF hreq[h].cmd = "kill" /\ r \in Context(hreq[h].target)
                       THEN CancelledApproval(approval[r]) ELSE approval[r]]
    BY <1>4, <2>3 DEF Pause, Resume, Kill, Locked
  <2> QED
    BY <2>1, <2>2, <2>4 DEF RowStep, Intervenes
<1>5. ASSUME NEW h \in Handlers, Approve(h) PROVE RowStep
  <2> DEFINE r == hreq[h].target
  <2>1. r \in Tasks
    BY <1>5, RequestTarget DEF Approve, AppliedMutation, Locked, TypeOK, Decisions
  <2>2. Decides(r, "approved", "succeeded", 1)
    BY <1>5 DEF Approve, AppliedMutation, Decides, Decide, Approvable, Decidable
  <2> QED
    BY <2>1, <2>2 DEF RowStep
<1>6. ASSUME NEW h \in Handlers, Reject(h) PROVE RowStep
  <2> DEFINE r == hreq[h].target
  <2>1. r \in Tasks
    BY <1>6, RequestTarget DEF Reject, Locked, TypeOK, Decisions
  <2>2. effects' = [effects EXCEPT ![r] = @ + 0]
    BY <1>6, <2>1 DEF Reject, TypeOK
  <2>3. Decides(r, "rejected", "cancelled", 0)
    BY <1>6, <2>2 DEF Reject, Decides, Decide, Decidable
  <2> QED
    BY <2>1, <2>3 DEF RowStep
<1>7. ASSUME NEW v \in Viewers, StepTool(v) PROVE RowStep
  <2>1. PICK r \in Tasks :
          /\ run[r].status = "running" /\ r \in due /\ due' = due \ {r}
          /\ run' = [run EXCEPT ![r].steps =
                       IF Stage(r, run[r].steps) = "tool" THEN @ + 1 ELSE @]
          /\ UNCHANGED <<agent, task, approval, action, effects, interventions>>
    BY <1>7 DEF StepTool, AtStage, DueStep, Visited, Stamped
  <2>2. \A s \in Tasks : /\ run'[s].status = run[s].status
                         /\ run'[s].epoch = run[s].epoch
                         /\ s # r => run'[s] = run[s]
                         /\ run'[s].steps # run[s].steps =>
                              /\ s = r /\ run'[s].steps = run[s].steps + 1
                              /\ Stage(s, run[s].steps) = "tool"
    <3>1. run \in [Tasks -> RunRows]
      BY DEF TypeOK
    <3> DEFINE n == IF Stage(r, run[r].steps) = "tool" THEN run[r].steps + 1
                    ELSE run[r].steps
    <3>2. run' = [run EXCEPT ![r] = [run[r] EXCEPT !.steps = n]]
      BY <2>1
    <3>3. /\ n # run[r].steps => Stage(r, run[r].steps) = "tool"
          /\ n # run[r].steps => n = run[r].steps + 1
      OBVIOUS
    <3> HIDE DEF n
    <3>4. run'[r] = [run[r] EXCEPT !.steps = n]
      BY <3>1, <3>2
    <3>5. run'[r].steps = n
      BY <3>1, <3>4 DEF RunRows
    <3> QED
      BY <3>1, <3>2, <3>3, <3>4, <3>5 DEF RunRows
  <2>3. \A s \in Tasks : run'[s].steps # run[s].steps => Scripted(s, {"tool"})
    BY <2>1, <2>2 DEF Scripted
  <2> QED
    BY <2>1, <2>2, <2>3 DEF RowStep, Rests
<1>8. ASSUME NEW v \in Viewers, StepFinish(v) PROVE RowStep
  BY <1>8 DEF StepFinish, AtStage, DueStep, Visited, Finishes, Scripted, Stamped, RowStep
<1>9. ASSUME NEW v \in Viewers, StepGate(v) PROVE RowStep
  <2>1. PICK a \in Agents, r \in Tasks :
          /\ AtStage(v, a, r, {"gate"})
          /\ MoveAll(a, r, "waiting_approval", agent[a].drift)
          /\ approval' = [approval EXCEPT ![r] = "pending"]
          /\ action' = [action EXCEPT ![r] = [status |-> "waiting_approval",
                                              epoch |-> agent[a].epoch]]
          /\ due' = Stamped(r)
          /\ Visited(v, a)
    BY <1>9 DEF StepGate
  <2>2. /\ a = AgentOf(r) /\ run[r].status = "running" /\ agent[a].drift \in 0..100
        /\ Scripted(r, {"gate"})
    BY <2>1 DEF AtStage, DueStep, Scripted, Stamped, TypeOK, AgentRows
  <2>3. Gates(r)
    BY <2>1, <2>2 DEF Gates, Visited
  <2> QED
    BY <2>3 DEF RowStep
<1>10. ASSUME NEW v \in Viewers, StepWarn(v) \/ StepContain(v) PROVE RowStep
  <2>1. PICK a \in Agents, r \in Tasks, status \in {"running", "paused"},
             drift \in 0..100 :
          /\ a = AgentOf(r) /\ run[r].status = "running"
          /\ IF status = "running" THEN Scripted(r, {"warn"}) ELSE Scripted(r, {"contain"})
          /\ MoveAll(a, r, status, drift)
          /\ Visited(v, a)
          /\ UNCHANGED <<approval, action>>
    BY <1>10 DEF StepWarn, StepContain, BlockedProposal, Contained, AtStage, DueStep,
                Scripted, Stamped
  <2>2. Moves(r, status)
    BY <2>1 DEF Moves, Visited
  <2> QED
    BY <2>2 DEF RowStep
<1>11. ASSUME NEW v \in Viewers, NothingDue(v) PROVE UNCHANGED rows
  BY <1>11 DEF NothingDue, Visited, rows
<1>12. ASSUME NEW r \in Tasks, Tick(r) PROVE RowStep
  BY <1>12 DEF Tick, RowStep, Rests
<1> QED
  BY <1>1, <1>2, <1>3, <1>4, <1>5, <1>6, <1>7, <1>8, <1>9, <1>10, <1>11, <1>12
     DEF Next, HandlerNext, HandlerCommit, ViewerNext, ViewerCommit, WorkerNext,
         vars, ReceiveStartAll, ReceiveStartRogue, ReceiveIntervention,
         ReceiveDecision, Serve, LockAgents, Refuse, Crash, Probe, RecordDenial,
         Open, Close, Poll, LockCandidate, SkipLocked,
         Dispatch, GuardTool, ExecuteTool, EndTool

-----------------------------------------------------------------------------
(* The changes, row by row. *)

\* What starting the runs R does to each row.
LEMMA BeginRows ==
    ASSUME TypeOK, NEW R \in SUBSET Tasks, Begin(R)
    PROVE  /\ \A r \in Tasks :
                /\ r \in R => /\ run'[r].status = "running"
                              /\ run'[r].epoch = agent[AgentOf(r)].epoch
                              /\ run'[r].steps = 0
                              /\ task'[r] = "running"
                /\ r \notin R => run'[r] = run[r] /\ task'[r] = task[r]
           /\ \A a \in Agents :
                /\ agent'[a].epoch = agent[a].epoch
                /\ (\E r \in R : AgentOf(r) = a) => agent'[a].status = "running"
                /\ (\A r \in R : AgentOf(r) # a) => agent'[a] = agent[a]
<1>1. \A r \in Tasks :
        /\ r \in R => /\ run'[r].status = "running"
                      /\ run'[r].epoch = agent[AgentOf(r)].epoch
                      /\ run'[r].steps = 0
                      /\ task'[r] = "running"
        /\ r \notin R => run'[r] = run[r] /\ task'[r] = task[r]
  BY DEF Begin
<1>2. ASSUME NEW a \in Agents
      PROVE  /\ agent'[a].epoch = agent[a].epoch
             /\ (\E r \in R : AgentOf(r) = a) => agent'[a].status = "running"
             /\ (\A r \in R : AgentOf(r) # a) => agent'[a] = agent[a]
  <2>1. CASE \E r \in R : AgentOf(r) = a
    <3>1. agent'[a] = [agent[a] EXCEPT !.status = "running", !.drift = 0]
      BY <2>1 DEF Begin
    <3>2. agent[a] \in [status : Statuses, epoch : Nat, drift : 0..100]
      BY DEF TypeOK, AgentRows
    <3> QED
      BY <2>1, <3>1, <3>2
  <2>2. CASE \A r \in R : AgentOf(r) # a
    BY <2>2 DEF Begin
  <2> QED
    BY <2>1, <2>2
<1> QED
  BY <1>1, <1>2

\* What completing a run does to each row.
LEMMA CompleteRows ==
    ASSUME TypeOK, NEW r \in Tasks, Complete(r)
    PROVE  /\ run'[r].status = "completed" /\ run'[r].epoch = run[r].epoch
           /\ task'[r] = "completed"
           /\ agent'[AgentOf(r)].status = "idle"
           /\ \A a \in Agents : agent'[a].epoch = agent[a].epoch
           /\ \A s \in Tasks \ {r} : run'[s] = run[s] /\ task'[s] = task[s]
           /\ \A a \in Agents \ {AgentOf(r)} : agent'[a] = agent[a]
<1>1. /\ run \in [Tasks -> RunRows] /\ task \in [Tasks -> Statuses \cup {"absent"}]
      /\ agent \in [Agents -> AgentRows] /\ AgentOf(r) \in Agents
  BY AgentOfTask DEF TypeOK
<1> QED
  BY <1>1 DEF Complete, RunRows, AgentRows

\* What moving an agent, its run and its task does to each row.
LEMMA MoveAllRows ==
    ASSUME TypeOK, NEW r \in Tasks, NEW status \in Statuses, NEW drift \in 0..100,
           MoveAll(AgentOf(r), r, status, drift)
    PROVE  /\ run'[r].status = status /\ run'[r].epoch = run[r].epoch
           /\ task'[r] = status
           /\ agent'[AgentOf(r)].status = status
           /\ \A a \in Agents : agent'[a].epoch = agent[a].epoch
           /\ \A s \in Tasks \ {r} : run'[s] = run[s] /\ task'[s] = task[s]
           /\ \A a \in Agents \ {AgentOf(r)} : agent'[a] = agent[a]
<1>1. /\ run \in [Tasks -> RunRows] /\ task \in [Tasks -> Statuses \cup {"absent"}]
      /\ agent \in [Agents -> AgentRows] /\ AgentOf(r) \in Agents
  BY AgentOfTask DEF TypeOK
<1> HIDE DEF Statuses
<1>2. /\ run'[r].status = status /\ run'[r].epoch = run[r].epoch
      /\ \A s \in Tasks \ {r} : run'[s] = run[s]
  BY <1>1 DEF MoveAll, RunRows
<1>3. task'[r] = status /\ \A s \in Tasks \ {r} : task'[s] = task[s]
  BY <1>1 DEF MoveAll
<1>4. /\ agent'[AgentOf(r)].status = status
      /\ \A a \in Agents : agent'[a].epoch = agent[a].epoch
      /\ \A a \in Agents \ {AgentOf(r)} : agent'[a] = agent[a]
  BY <1>1 DEF MoveAll, AgentRows
<1> QED
  BY <1>2, <1>3, <1>4

\* The status each intervention leads to.
LEMMA Goals == Goal["pause"] = "paused" /\ Goal["resume"] = "running" /\ Goal["kill"] = "killed"
  BY DEF Goal

\* An intervention moves an agent that has a run, with this run, and cannot
\* leave the agent idle.
LEMMA IntervenedRows ==
    ASSUME TypeOK, RowsSound, NEW h \in Handlers, Intervenes(h),
           NEW a, a = hreq[h].target, NEW to, to = Landing(hreq[h].cmd, a)
    PROVE  /\ a \in Agents /\ agent[a].status \in Active
           /\ to \in {"paused", "running", "waiting_approval", "killed"}
           /\ to = "killed" <=> hreq[h].cmd = "kill"
           /\ agent'[a].status = to
           /\ agent'[a].epoch = NewEpoch(hreq[h].cmd, agent[a].epoch)
           /\ \A b \in Agents \ {a} : agent'[b] = agent[b]
           /\ \A r \in Context(a) : /\ run'[r].status = to
                                    /\ run'[r].epoch = agent'[a].epoch
                                    /\ run'[r].steps = run[r].steps
                                    /\ task'[r] = to
           /\ \A r \in Tasks \ Context(a) : run'[r] = run[r] /\ task'[r] = task[r]
<1> DEFINE e == NewEpoch(hreq[h].cmd, agent[a].epoch)
<1>1. /\ a \in Agents /\ hreq[h].cmd \in Interventions
      /\ agent' = [agent EXCEPT ![a].status = to, ![a].epoch = e]
      /\ run' = [r \in Tasks |->
                   IF r \in Context(a)
                   THEN [run[r] EXCEPT !.status = to, !.epoch = e]
                   ELSE run[r]]
      /\ task' = [r \in Tasks |-> IF r \in Context(a) THEN to ELSE task[r]]
  BY DEF Intervenes, Intervene
<1>2. /\ agent[a].status # "killed"
      /\ CanMove(agent[a].status, Goal[hreq[h].cmd])
  BY DEF Intervenes, Intervene, MayIntervene
<1>3. to \in {"paused", "running", "waiting_approval", "killed"}
  BY <1>1, Goals DEF Landing, Interventions
<1>4. to = "killed" <=> hreq[h].cmd = "kill"
  BY <1>1, Goals DEF Landing, Interventions
<1>5. agent[a].status # "idle"
  BY <1>1, <1>2, Goals DEF CanMove, TransitionRules, Interventions
<1>6. agent[a].status \in Active
  <2>1. PICK r \in Tasks : AgentOf(r) = a /\ run[r].status \in Active
    BY <1>1, <1>2, <1>5 DEF RowsSound, RowsAgree, Context
  <2> QED
    BY <2>1 DEF RowsSound, RowsAgree
<1> HIDE DEF e
<1>7. /\ agent'[a].status = to /\ agent'[a].epoch = e
      /\ \A b \in Agents \ {a} : agent'[b] = agent[b]
  <2>1. agent \in [Agents -> AgentRows]
    BY DEF TypeOK
  <2> HIDE DEF Statuses
  <2> QED
    BY <1>1, <2>1 DEF AgentRows
<1>8. ASSUME NEW r \in Context(a)
      PROVE  /\ run'[r].status = to /\ run'[r].epoch = e
             /\ run'[r].steps = run[r].steps /\ task'[r] = to
  <2>1. r \in Tasks /\ run[r] \in RunRows
    BY DEF Context, TypeOK
  <2> HIDE DEF Statuses
  <2> QED
    BY <1>1, <2>1 DEF RunRows
<1>9. \A r \in Tasks \ Context(a) : run'[r] = run[r] /\ task'[r] = task[r]
  BY <1>1
<1> QED
  BY <1>1, <1>3, <1>4, <1>6, <1>7, <1>8, <1>9 DEF e

-----------------------------------------------------------------------------
(* The three rows agree, and an agent has one active run.                  *)

\* The types of statuses, without the rest of TypeOK.
LEMMA StatusTypes ==
    ASSUME TypeOK
    PROVE  /\ \A r \in Tasks : run[r].status \in Statuses \cup {"absent"}
           /\ \A a \in Agents : agent[a].status \in Statuses
  BY DEF TypeOK, RunRows, AgentRows

\* The rows agree initially.
LEMMA RowsInit == Init => RowsSound
<1> SUFFICES ASSUME Init PROVE RowsSound
  OBVIOUS
<1>1. /\ \A r \in Tasks : run[r].status = "absent"
      /\ \A a \in Agents : agent[a].status = "idle"
  BY DEF Init
<1> QED
  BY <1>1 DEF RowsSound, OneActiveRun, RowsAgree, Context

\* They go on to agree when no status changes.
LEMMA RowsRest == ASSUME TypeOK, RowsSound, Rests PROVE RowsSound'
  BY AgentOfTask DEF RowsSound, OneActiveRun, RowsAgree, Context, Rests

\* They agree after a start: idle agents have no active run.
LEMMA RowsStart ==
    ASSUME TypeOK, RowsSound, NEW R \in SUBSET Tasks, Starts(R) PROVE RowsSound'
<1>1. \A r \in R : run[r].status = "absent" /\ agent[AgentOf(r)].status = "idle"
  BY DEF Starts
<1>2. ASSUME NEW r \in R, NEW s \in Tasks, AgentOf(s) = AgentOf(r)
      PROVE  run[s].status \notin Active
  BY <1>1, <1>2 DEF RowsSound, RowsAgree
<1>3. OneActiveRun'
  BY <1>2, BeginRows DEF RowsSound, OneActiveRun, Starts
<1>4. ASSUME NEW r \in Tasks
      PROVE  /\ run'[r].status \in Active =>
                  /\ agent'[AgentOf(r)].status = run'[r].status
                  /\ agent'[AgentOf(r)].epoch = run'[r].epoch
             /\ run'[r].status # "absent" => task'[r] = run'[r].status
  <2>1. CASE r \in R
    BY <2>1, BeginRows, AgentOfTask DEF Starts
  <2>2. CASE r \notin R
    BY <1>2, <2>2, BeginRows, AgentOfTask DEF Starts, RowsSound, RowsAgree
  <2> QED
    BY <2>1, <2>2
<1>5. ASSUME NEW a \in Agents
      PROVE  agent'[a].status \in {"idle", "killed"} <=> Context(a)' = {}
  <2>1. CASE \E r \in R : AgentOf(r) = a
    BY <2>1, BeginRows DEF Starts, Context
  <2>2. CASE \A r \in R : AgentOf(r) # a
    <3>1. agent'[a] = agent[a] /\ \A r \in Tasks : AgentOf(r) = a => run'[r] = run[r]
      BY <2>2, BeginRows DEF Starts
    <3>2. Context(a)' = Context(a)
      BY <3>1 DEF Context
    <3> QED
      BY <3>1, <3>2 DEF RowsSound, RowsAgree
  <2> QED
    BY <2>1, <2>2
<1> QED
  BY <1>3, <1>4, <1>5 DEF RowsSound, RowsAgree

\* They agree after an intervention on the agent's one active run.
LEMMA RowsIntervene ==
    ASSUME TypeOK, RowsSound, NEW h \in Handlers, Intervenes(h) PROVE RowsSound'
<1> DEFINE a  == hreq[h].target
           to == Landing(hreq[h].cmd, a)
<1> HIDE DEF a, to
<1>1. /\ a \in Agents
      /\ to \in {"paused", "running", "waiting_approval", "killed"}
      /\ agent'[a].status = to
      /\ \A b \in Agents \ {a} : agent'[b] = agent[b]
      /\ \A r \in Context(a) : /\ run'[r].status = to
                               /\ run'[r].epoch = agent'[a].epoch
                               /\ task'[r] = to
      /\ \A r \in Tasks \ Context(a) : run'[r] = run[r] /\ task'[r] = task[r]
      /\ agent[a].status \in Active
  BY IntervenedRows DEF a, to
<1>2. \A r \in Context(a) : r \in Tasks /\ AgentOf(r) = a /\ run[r].status \in Active
  BY DEF Context
<1>3. OneActiveRun'
  BY <1>1, <1>2 DEF RowsSound, OneActiveRun
<1>4. ASSUME NEW r \in Tasks
      PROVE  /\ run'[r].status \in Active =>
                  /\ agent'[AgentOf(r)].status = run'[r].status
                  /\ agent'[AgentOf(r)].epoch = run'[r].epoch
             /\ run'[r].status # "absent" => task'[r] = run'[r].status
  <2>1. CASE r \in Context(a)
    BY <1>1, <1>2, <2>1
  <2>2. CASE r \notin Context(a)
    BY <1>1, <2>2, AgentOfTask DEF RowsSound, RowsAgree, Context
  <2> QED
    BY <2>1, <2>2
<1>5. ASSUME NEW b \in Agents
      PROVE  agent'[b].status \in {"idle", "killed"} <=> Context(b)' = {}
  <2>1. CASE b = a
    <3>1. Context(a) # {}
      BY <1>1 DEF RowsSound, RowsAgree
    <3>2. CASE to = "killed"
      BY <1>1, <2>1, <3>2 DEF Context
    <3>3. CASE to # "killed"
      BY <1>1, <1>2, <2>1, <3>1, <3>3 DEF Context
    <3> QED
      BY <3>2, <3>3
  <2>2. CASE b # a
    <3>1. agent'[b] = agent[b] /\ \A r \in Tasks : AgentOf(r) = b => run'[r] = run[r]
      BY <1>1, <1>2, <2>2
    <3>2. Context(b)' = Context(b)
      BY <3>1 DEF Context
    <3> QED
      BY <3>1, <3>2 DEF RowsSound, RowsAgree
  <2> QED
    BY <2>1, <2>2
<1> QED
  BY <1>3, <1>4, <1>5 DEF RowsSound, RowsAgree

\* They agree after a completion: the run completed was the only one.
LEMMA RowsComplete ==
    ASSUME TypeOK, RowsSound, NEW r \in Tasks, run[r].status \in Active, Complete(r)
    PROVE  RowsSound'
<1>1. OneActiveRun'
  BY CompleteRows DEF RowsSound, OneActiveRun
<1>2. ASSUME NEW s \in Tasks, s # r, AgentOf(s) = AgentOf(r)
      PROVE  run'[s].status \notin Active
  BY <1>2, CompleteRows DEF RowsSound, OneActiveRun
<1>3. ASSUME NEW s \in Tasks
      PROVE  /\ run'[s].status \in Active =>
                  /\ agent'[AgentOf(s)].status = run'[s].status
                  /\ agent'[AgentOf(s)].epoch = run'[s].epoch
             /\ run'[s].status # "absent" => task'[s] = run'[s].status
  BY <1>2, CompleteRows, AgentOfTask DEF RowsSound, RowsAgree
<1>4. ASSUME NEW a \in Agents
      PROVE  agent'[a].status \in {"idle", "killed"} <=> Context(a)' = {}
  <2>1. CASE a = AgentOf(r)
    BY <1>2, <2>1, CompleteRows DEF Context
  <2>2. CASE a # AgentOf(r)
    <3>1. agent'[a] = agent[a] /\ \A s \in Tasks : AgentOf(s) = a => run'[s] = run[s]
      BY <2>2, CompleteRows
    <3>2. Context(a)' = Context(a)
      BY <3>1 DEF Context
    <3> QED
      BY <3>1, <3>2 DEF RowsSound, RowsAgree
  <2> QED
    BY <2>1, <2>2
<1> QED
  BY <1>1, <1>3, <1>4 DEF RowsSound, RowsAgree

\* They agree after a move of the agent's one running run.
LEMMA RowsMove ==
    ASSUME TypeOK, RowsSound, NEW r \in Tasks, run[r].status = "running",
           NEW status \in Active, NEW drift \in 0..100,
           MoveAll(AgentOf(r), r, status, drift)
    PROVE  RowsSound'
<1>0. /\ run'[r].status = status /\ run'[r].epoch = run[r].epoch
      /\ task'[r] = status
      /\ agent'[AgentOf(r)].status = status
      /\ \A a \in Agents : agent'[a].epoch = agent[a].epoch
      /\ \A s \in Tasks \ {r} : run'[s] = run[s] /\ task'[s] = task[s]
      /\ \A a \in Agents \ {AgentOf(r)} : agent'[a] = agent[a]
  <2>1. status \in Statuses
    OBVIOUS
  <2> HIDE DEF Statuses, Active
  <2> QED
    BY <2>1, MoveAllRows
<1>1. OneActiveRun'
  BY <1>0 DEF RowsSound, OneActiveRun
<1>2. ASSUME NEW s \in Tasks, s # r, AgentOf(s) = AgentOf(r)
      PROVE  run'[s].status \notin Active
  BY <1>2, <1>0 DEF RowsSound, OneActiveRun
<1>3. ASSUME NEW s \in Tasks
      PROVE  /\ run'[s].status \in Active =>
                  /\ agent'[AgentOf(s)].status = run'[s].status
                  /\ agent'[AgentOf(s)].epoch = run'[s].epoch
             /\ run'[s].status # "absent" => task'[s] = run'[s].status
  BY <1>0, <1>2, AgentOfTask DEF RowsSound, RowsAgree
<1>4. ASSUME NEW a \in Agents
      PROVE  agent'[a].status \in {"idle", "killed"} <=> Context(a)' = {}
  <2>1. CASE a = AgentOf(r)
    BY <1>0, <2>1 DEF Context
  <2>2. CASE a # AgentOf(r)
    <3>1. agent'[a] = agent[a] /\ \A s \in Tasks : AgentOf(s) = a => run'[s] = run[s]
      BY <1>0, <2>2
    <3>2. Context(a)' = Context(a)
      BY <3>1 DEF Context
    <3> QED
      BY <3>1, <3>2 DEF RowsSound, RowsAgree
  <2> QED
    BY <2>1, <2>2
<1> QED
  BY <1>1, <1>3, <1>4 DEF RowsSound, RowsAgree

\* They agree after every action.
LEMMA RowsStep == TypeOK /\ RowsSound /\ [Next]_vars => RowsSound'
<1> SUFFICES ASSUME TypeOK, RowsSound, RowStep PROVE RowsSound'
  BY Classification
<1>1. ASSUME NEW r \in Tasks,
             \/ Finishes(r)
             \/ Decides(r, "approved", "succeeded", 1)
             \/ Decides(r, "rejected", "cancelled", 0)
      PROVE  RowsSound'
  BY <1>1, RowsComplete DEF Finishes, Decides
<1>2. ASSUME NEW r \in Tasks, NEW status \in Statuses, Moves(r, status)
      PROVE  RowsSound'
  BY <1>2, RowsMove DEF Moves
<1>3. ASSUME NEW r \in Tasks, Gates(r) PROVE RowsSound'
  BY <1>3, RowsMove DEF Gates
<1> QED
  BY <1>1, <1>2, <1>3, RowsRest, RowsStart, RowsIntervene DEF RowStep

\* However starts, steps, decisions and interventions interleave, an agent has
\* at most one active run, though no constraint of the schema says so.
THEOREM OneRunPerAgent == Spec => []OneActiveRun
<1>1. RowsSound => OneActiveRun
  BY DEF RowsSound
<1> QED
  BY <1>1, TypeInit, TypeStep, RowsInit, RowsStep, PTL DEF Spec

\* The rows of an agent, its run and its task never contradict each other.
THEOREM RowsNeverDisagree == Spec => []RowsAgree
<1>1. RowsSound => RowsAgree
  BY DEF RowsSound
<1> QED
  BY <1>1, TypeInit, TypeStep, RowsInit, RowsStep, PTL DEF Spec

=============================================================================
