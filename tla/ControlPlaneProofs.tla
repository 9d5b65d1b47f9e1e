------------------------- MODULE ControlPlaneProofs -------------------------
(***************************************************************************)
(* Theorems of ControlPlane, for any agents, tasks, keys and processes.    *)
(***************************************************************************)
EXTENDS ControlPlane, TLAPS

USE DEF Statuses, Active

-----------------------------------------------------------------------------
(* Types.  The rows and the processes are typed apart: most steps change     *)
(* rows in one of a few ways (they begin, complete or move runs, or record   *)
(* an intervention) and processes in one of a few others.                    *)

RowTypes ==
    /\ agent \in [Agents -> AgentRows]
    /\ run \in [Tasks -> RunRows]
    /\ task \in [Tasks -> Statuses \cup {"absent"}]
    /\ due \subseteq Tasks
    /\ approval \in [Tasks -> ApprovalStatuses]
    /\ action \in [Tasks -> [status : ActionStatuses, epoch : Nat]]
    /\ effects \in [Tasks -> Nat]
    /\ interventions \subseteq InterventionRows
    /\ leaked \subseteq Tasks /\ denied \subseteq Tasks

ProcessTypes ==
    /\ xlock \in [Agents -> Handlers \cup Viewers \cup {None}]
    /\ slock \in [Agents -> SUBSET Workers]
    /\ hpc \in [Handlers -> {"idle", "waiting", "locked", "probe", "deny"}]
    /\ hreq \in [Handlers -> Requests]
    /\ hstale \in [Handlers -> SUBSET Contexts]
    /\ open \subseteq Viewers
    /\ vcand \in [Viewers -> SUBSET Agents]
    /\ wpc \in [Workers -> {"idle", "dispatched", "allowed", "executing"}]
    /\ wctx \in [Workers -> Contexts]

\* The types of rows and of processes make up TypeOK.
LEMMA TypeParts == TypeOK <=> RowTypes /\ ProcessTypes
  BY DEF TypeOK, RowTypes, ProcessTypes

\* The same for the next state.
LEMMA TypePartsNext == TypeOK' <=> RowTypes' /\ ProcessTypes'
  BY DEF TypeOK, RowTypes, ProcessTypes

\* Every task is of an agent.
LEMMA AgentOfTask == ASSUME NEW r PROVE AgentOf(r) \in Agents
  BY DEF AgentOf, Agents

\* The request of an idle handler is well typed.
LEMMA IdleIsRequest == Idle \in Requests
  BY DEF Idle, Requests

\* A request that changes agents or runs names one of the workspace.
LEMMA RequestTarget ==
    ASSUME NEW q \in Requests
    PROVE  /\ q.cmd \in Interventions => q.target \in Agents /\ q.key \in Keys
           /\ q.cmd \in Decisions => q.target \in Tasks
           /\ q.cmd = "rogue" => q.target \in RogueTasks
  BY DEF Requests, Interventions, Decisions

\* Rows that do not change keep their types.
LEMMA RowsUnchanged ==
    ASSUME RowTypes, UNCHANGED rows, UNCHANGED evidence PROVE RowTypes'
  BY DEF RowTypes, rows, evidence

\* A handler that responds keeps the types of processes.
LEMMA RespondTyped ==
    ASSUME ProcessTypes, NEW h \in Handlers, Respond(h) PROVE ProcessTypes'
<1>1. xlock' \in [Agents -> Handlers \cup Viewers \cup {None}]
  BY DEF ProcessTypes, Respond, Released
<1>2. hpc' \in [Handlers -> {"idle", "waiting", "locked", "probe", "deny"}]
  BY DEF ProcessTypes, Respond
<1>3. hreq' \in [Handlers -> Requests]
  BY IdleIsRequest DEF ProcessTypes, Respond
<1>4. hstale' \in [Handlers -> SUBSET Contexts]
  BY DEF ProcessTypes, Respond
<1> QED
  BY <1>1, <1>2, <1>3, <1>4 DEF ProcessTypes, Respond, viewer, worker

\* A handler that receives a request keeps all types.
LEMMA ServeTyped ==
    ASSUME TypeOK, NEW h \in Handlers, NEW cmd, NEW target, NEW key,
           [cmd |-> cmd, target |-> target, key |-> key] \in Requests,
           Serve(h, cmd, target, key)
    PROVE  TypeOK'
<1>1. RowTypes'
  BY TypeParts, RowsUnchanged DEF Serve
<1>2. ProcessTypes'
  BY DEF TypeOK, ProcessTypes, Serve, locks, viewer, worker
<1> QED
  BY <1>1, <1>2, TypePartsNext

\* Starting runs keeps the types of rows.
LEMMA BeginTyped ==
    ASSUME RowTypes, NEW R \in SUBSET Tasks, Begin(R)
    PROVE  /\ agent' \in [Agents -> AgentRows]
           /\ run' \in [Tasks -> RunRows]
           /\ task' \in [Tasks -> Statuses \cup {"absent"}]
<1>1. agent' \in [Agents -> AgentRows]
  <2> DEFINE A == {AgentOf(r) : r \in R}
  <2>1. ASSUME NEW a \in Agents
        PROVE  [agent[a] EXCEPT !.status = "running", !.drift = 0] \in AgentRows
    <3>1. agent[a] \in AgentRows /\ 0 \in 0..100 /\ "running" \in Statuses
      BY DEF RowTypes
    <3>2. ASSUME NEW d \in 0..100
          PROVE  [agent[a] EXCEPT !.status = "running", !.drift = d] \in AgentRows
      BY <3>1 DEF AgentRows
    <3> QED
      BY <3>1, <3>2
  <2>2. agent' = [a \in Agents |->
                    IF a \in A
                    THEN [agent[a] EXCEPT !.status = "running", !.drift = 0]
                    ELSE agent[a]]
    BY DEF Begin
  <2> HIDE DEF A
  <2> QED
    BY <2>1, <2>2 DEF RowTypes
<1>2. run' \in [Tasks -> RunRows]
  BY AgentOfTask DEF RowTypes, Begin, AgentRows, RunRows
<1>3. task' \in [Tasks -> Statuses \cup {"absent"}]
  BY DEF RowTypes, Begin
<1> QED
  BY <1>1, <1>2, <1>3

\* Completing a run keeps the types of rows.
LEMMA CompleteTyped ==
    ASSUME RowTypes, NEW r \in Tasks, Complete(r)
    PROVE  /\ agent' \in [Agents -> AgentRows]
           /\ run' \in [Tasks -> RunRows]
           /\ task' \in [Tasks -> Statuses \cup {"absent"}]
<1>1. agent' \in [Agents -> AgentRows]
  BY AgentOfTask DEF RowTypes, Complete, AgentRows
<1>2. run' \in [Tasks -> RunRows]
  BY DEF RowTypes, Complete, RunRows
<1>3. task' \in [Tasks -> Statuses \cup {"absent"}]
  BY DEF RowTypes, Complete
<1> QED
  BY <1>1, <1>2, <1>3

\* Moving an agent, its run and its task to a status keeps the types of rows.
LEMMA MoveAllTyped ==
    ASSUME RowTypes, NEW a \in Agents, NEW r \in Tasks,
           NEW status \in Statuses, NEW drift \in 0..100,
           MoveAll(a, r, status, drift)
    PROVE  /\ agent' \in [Agents -> AgentRows]
           /\ run' \in [Tasks -> RunRows]
           /\ task' \in [Tasks -> Statuses \cup {"absent"}]
<1>1. agent' \in [Agents -> AgentRows]
  <2> HIDE DEF Statuses
  <2>1. /\ agent \in [Agents -> AgentRows]
        /\ agent' = [agent EXCEPT ![a].status = status, ![a].drift = drift]
    BY DEF RowTypes, MoveAll
  <2> QED
    BY <2>1 DEF AgentRows
<1>2. run' \in [Tasks -> RunRows]
  BY DEF RowTypes, MoveAll, RunRows
<1>3. task' \in [Tasks -> Statuses \cup {"absent"}]
  BY DEF RowTypes, MoveAll
<1> QED
  BY <1>1, <1>2, <1>3

\* A pause, resume or kill keeps the types of rows.
LEMMA InterveneTyped ==
    ASSUME RowTypes, ProcessTypes, NEW h \in Handlers, Intervene(h),
           hreq[h].cmd \in Interventions, approval' \in [Tasks -> ApprovalStatuses]
    PROVE  RowTypes'
<1> DEFINE q  == hreq[h]
           a  == q.target
           to == Landing(q.cmd, a)
           e  == NewEpoch(q.cmd, agent[a].epoch)
<1>1. q \in Requests /\ a \in Agents /\ q.key \in Keys
  BY RequestTarget DEF ProcessTypes
<1>2. to \in Statuses
  BY DEF Landing, Goal, Interventions
<1>3. e \in Nat
  BY <1>1 DEF NewEpoch, RowTypes, AgentRows
<1>4. /\ agent' = [agent EXCEPT ![a].status = to, ![a].epoch = e]
      /\ run' = [r \in Tasks |->
                   IF r \in Context(a)
                   THEN [run[r] EXCEPT !.status = to, !.epoch = e]
                   ELSE run[r]]
      /\ task' = [r \in Tasks |-> IF r \in Context(a) THEN to ELSE task[r]]
      /\ due' = due \ Context(a)
      /\ interventions' = interventions \cup
           {[key |-> q.key, cmd |-> q.cmd, agent |-> a,
             tasks |-> Context(a), epoch |-> e]}
      /\ UNCHANGED <<action, effects, evidence>>
  BY DEF Intervene
<1>5. Context(a) \in SUBSET Tasks
  BY DEF Context
<1> HIDE DEF to, e
<1>6. agent' \in [Agents -> AgentRows]
  <2>1. /\ agent \in [Agents -> AgentRows]
        /\ agent' = [agent EXCEPT ![a].status = to, ![a].epoch = e]
    BY <1>4 DEF RowTypes
  <2> HIDE DEF Statuses, a
  <2> QED
    BY <1>1, <1>2, <1>3, <2>1 DEF AgentRows
<1>7. run' \in [Tasks -> RunRows]
  BY <1>2, <1>3, <1>4 DEF RowTypes, RunRows
<1>8. task' \in [Tasks -> Statuses \cup {"absent"}]
  BY <1>2, <1>4 DEF RowTypes
<1>9. interventions' \subseteq InterventionRows
  <2>1. [key |-> q.key, cmd |-> q.cmd, agent |-> a,
         tasks |-> Context(a), epoch |-> e] \in InterventionRows
    BY <1>1, <1>3, <1>5 DEF InterventionRows
  <2> QED
    BY <1>4, <2>1 DEF RowTypes
<1> QED
  BY <1>4, <1>6, <1>7, <1>8, <1>9 DEF RowTypes, evidence

\* An approval or rejection keeps the types of rows.
LEMMA DecideTyped ==
    ASSUME RowTypes, ProcessTypes, NEW h \in Handlers,
           hreq[h].cmd \in Decisions,
           NEW decision \in ApprovalStatuses, NEW outcome \in ActionStatuses,
           Decide(h, decision, outcome), effects' \in [Tasks -> Nat]
    PROVE  RowTypes'
<1> DEFINE r == hreq[h].target
<1>1. r \in Tasks
  BY RequestTarget DEF ProcessTypes
<1>2. /\ approval' = [approval EXCEPT ![r] = decision]
      /\ action' = [action EXCEPT ![r].status = outcome]
      /\ Complete(r)
      /\ UNCHANGED <<due, interventions, evidence>>
  BY DEF Decide
<1> HIDE DEF r
<1>3. /\ agent' \in [Agents -> AgentRows]
      /\ run' \in [Tasks -> RunRows]
      /\ task' \in [Tasks -> Statuses \cup {"absent"}]
  BY <1>1, <1>2, CompleteTyped
<1>4. approval' \in [Tasks -> ApprovalStatuses]
  BY <1>1, <1>2 DEF RowTypes
<1>5. action' \in [Tasks -> [status : ActionStatuses, epoch : Nat]]
  BY <1>1, <1>2 DEF RowTypes
<1> QED
  BY <1>2, <1>3, <1>4, <1>5 DEF RowTypes, evidence

\* A stream that has visited an agent keeps the types of processes.
LEMMA VisitedTyped ==
    ASSUME ProcessTypes, NEW v \in Viewers, NEW a \in Agents, Visited(v, a)
    PROVE  ProcessTypes'
  BY DEF ProcessTypes, Visited, handler, worker

\* Stamping a run leaves a set of tasks due.
LEMMA StampedTyped ==
    ASSUME RowTypes, NEW r \in Tasks PROVE Stamped(r) \subseteq Tasks
  BY DEF Stamped, RowTypes

-----------------------------------------------------------------------------
\* The initial state is well typed.
LEMMA TypeInit == Init => TypeOK
  BY DEF Init, TypeOK, AgentRows, RunRows, ApprovalStatuses, ActionStatuses,
         Idle, Requests, Contexts, Tasks, Agents

\* Every action keeps the types.
LEMMA TypeStep == TypeOK /\ [Next]_vars => TypeOK'
<1> SUFFICES ASSUME TypeOK, [Next]_vars PROVE TypeOK'
  OBVIOUS
<1>0. RowTypes /\ ProcessTypes
  BY TypeParts
<1>1. CASE UNCHANGED vars
  BY <1>1 DEF TypeOK, vars, rows, evidence, locks, handler, viewer, worker
<1>2. ASSUME NEW h \in Handlers, ReceiveStartAll(h) PROVE TypeOK'
  BY <1>2, ServeTyped DEF ReceiveStartAll, Requests
<1>3. ASSUME NEW h \in Handlers, ReceiveStartRogue(h) PROVE TypeOK'
  BY <1>3, ServeTyped DEF ReceiveStartRogue, Requests
<1>4. ASSUME NEW h \in Handlers, ReceiveIntervention(h) PROVE TypeOK'
  BY <1>4, ServeTyped DEF ReceiveIntervention, Requests
<1>5. ASSUME NEW h \in Handlers, ReceiveDecision(h) PROVE TypeOK'
  BY <1>5, ServeTyped DEF ReceiveDecision, Requests
<1>6. ASSUME NEW h \in Handlers, LockAgents(h) PROVE TypeOK'
  BY <1>6 DEF TypeOK, LockAgents, rows, evidence, viewer, worker
<1>7. ASSUME NEW h \in Handlers, StartAll(h) PROVE TypeOK'
  <2>1. ToStart \in SUBSET Tasks
    BY DEF ToStart, Tasks
  <2>2. RowTypes'
    BY <1>0, <1>7, <2>1, BeginTyped DEF RowTypes, StartAll, evidence
  <2>3. ProcessTypes'
    BY <1>0, <1>7, RespondTyped DEF StartAll
  <2> QED
    BY <2>2, <2>3, TypePartsNext
<1>8. ASSUME NEW h \in Handlers, StartRogue(h) PROVE TypeOK'
  <2>1. {hreq[h].target} \in SUBSET Tasks
    BY <1>0, <1>8, RequestTarget DEF StartRogue, Locked, ProcessTypes, Tasks
  <2>2. RowTypes'
    BY <1>0, <1>8, <2>1, BeginTyped DEF RowTypes, StartRogue, evidence
  <2>3. ProcessTypes'
    BY <1>0, <1>8, RespondTyped DEF StartRogue
  <2> QED
    BY <2>2, <2>3, TypePartsNext
<1>9. ASSUME NEW h \in Handlers, Pause(h) \/ Resume(h) PROVE TypeOK'
  <2>1. /\ Intervene(h) /\ Respond(h) /\ UNCHANGED approval
        /\ hreq[h].cmd \in Interventions
    BY <1>9 DEF Pause, Resume, Locked, Interventions
  <2>2. RowTypes'
    BY <1>0, <2>1, InterveneTyped DEF RowTypes
  <2>3. ProcessTypes'
    BY <1>0, <2>1, RespondTyped
  <2> QED
    BY <2>2, <2>3, TypePartsNext
<1>10. ASSUME NEW h \in Handlers, Kill(h) PROVE TypeOK'
  <2> DEFINE a == hreq[h].target
  <2>1. Intervene(h) /\ hreq[h].cmd \in Interventions
    BY <1>10 DEF Kill, Locked, Interventions
  <2>2. a \in Agents
    BY <1>0, <2>1, RequestTarget DEF ProcessTypes
  <2>3. approval' \in [Tasks -> ApprovalStatuses]
    BY <1>0, <1>10 DEF Kill, CancelledApproval, RowTypes, ApprovalStatuses
  <2>4. RowTypes'
    BY <1>0, <2>1, <2>3, InterveneTyped
  <2>5. StaleContexts(a) \in SUBSET Contexts
    BY <1>0, <2>2 DEF StaleContexts, Contexts, Tasks, RowTypes, AgentRows
  <2>6. /\ hstale' = [hstale EXCEPT ![h] = StaleContexts(a)]
        /\ hpc' = [hpc EXCEPT ![h] = IF StaleContexts(a) = {} THEN "idle" ELSE "probe"]
        /\ hreq' = [hreq EXCEPT ![h] = Idle]
        /\ xlock' = Released(h)
        /\ UNCHANGED <<slock, viewer, worker>>
    BY <1>10 DEF Kill
  <2>7. ProcessTypes'
    <3>1. xlock' \in [Agents -> Handlers \cup Viewers \cup {None}]
      BY <1>0, <2>6 DEF ProcessTypes, Released
    <3>2. hreq' \in [Handlers -> Requests]
      BY <1>0, <2>6, IdleIsRequest DEF ProcessTypes
    <3>3. /\ hstale' \in [Handlers -> SUBSET Contexts]
          /\ hpc' \in [Handlers -> {"idle", "waiting", "locked", "probe", "deny"}]
      BY <1>0, <2>5, <2>6 DEF ProcessTypes
    <3> QED
      BY <1>0, <2>6, <3>1, <3>2, <3>3 DEF ProcessTypes, viewer, worker
  <2> QED
    BY <2>4, <2>7, TypePartsNext
<1>11. ASSUME NEW h \in Handlers, Approve(h) PROVE TypeOK'
  <2>1. /\ Decide(h, "approved", "succeeded")
        /\ hreq[h].cmd \in Decisions
        /\ effects' = [effects EXCEPT ![hreq[h].target] = @ + 1]
    BY <1>11 DEF Approve, AppliedMutation, Locked, Decisions
  <2>2. effects' \in [Tasks -> Nat]
    <3>1. hreq[h].target \in Tasks
      BY <1>0, <2>1, RequestTarget DEF ProcessTypes
    <3> QED
      BY <1>0, <2>1, <3>1 DEF RowTypes
  <2>3. RowTypes'
    BY <1>0, <2>1, <2>2, DecideTyped DEF ApprovalStatuses, ActionStatuses
  <2>4. ProcessTypes'
    BY <1>0, <2>1, RespondTyped DEF Decide
  <2> QED
    BY <2>3, <2>4, TypePartsNext
<1>12. ASSUME NEW h \in Handlers, Reject(h) PROVE TypeOK'
  <2>1. /\ Decide(h, "rejected", "cancelled")
        /\ hreq[h].cmd \in Decisions
        /\ UNCHANGED effects
    BY <1>12 DEF Reject, Locked, Decisions
  <2>2. effects' \in [Tasks -> Nat]
    BY <1>0, <2>1 DEF RowTypes
  <2>3. RowTypes'
    BY <1>0, <2>1, <2>2, DecideTyped DEF ApprovalStatuses, ActionStatuses
  <2>4. ProcessTypes'
    BY <1>0, <2>1, RespondTyped DEF Decide
  <2> QED
    BY <2>3, <2>4, TypePartsNext
<1>13. ASSUME NEW h \in Handlers, Refuse(h) \/ Crash(h) PROVE TypeOK'
  <2>1. Respond(h) /\ UNCHANGED <<rows, evidence>>
    BY <1>13 DEF Refuse, Crash
  <2> QED
    BY <1>0, <2>1, RespondTyped, RowsUnchanged, TypePartsNext
<1>14. ASSUME NEW h \in Handlers, Probe(h) PROVE TypeOK'
  <2>1. RowTypes'
    BY <1>0, <1>14 DEF Probe, RowTypes, ProcessTypes, Contexts, rows
  <2>2. ProcessTypes'
    BY <1>0, <1>14 DEF Probe, ProcessTypes, locks, viewer, worker
  <2> QED
    BY <2>1, <2>2, TypePartsNext
<1>15. ASSUME NEW h \in Handlers, RecordDenial(h) PROVE TypeOK'
  BY <1>15 DEF TypeOK, RecordDenial, Contexts, rows, evidence, locks, viewer, worker
<1>16. ASSUME NEW v \in Viewers, Open(v) \/ Close(v) PROVE TypeOK'
  BY <1>16 DEF TypeOK, Open, Close, Released, rows, evidence, locks, handler, worker
<1>17. ASSUME NEW v \in Viewers, Poll(v) \/ SkipLocked(v) \/ LockCandidate(v)
       PROVE  TypeOK'
  BY <1>17 DEF TypeOK, Poll, SkipLocked, LockCandidate, rows, evidence, locks,
               handler, viewer, worker
<1>18. ASSUME NEW v \in Viewers, NothingDue(v) PROVE TypeOK'
  BY <1>18 DEF TypeOK, NothingDue, Visited, rows, evidence, handler, worker
<1>19. ASSUME NEW v \in Viewers, StepTool(v) PROVE TypeOK'
  <2>1. PICK a \in Agents, r \in Tasks :
          /\ run' = [run EXCEPT ![r].steps =
                       IF Stage(r, run[r].steps) = "tool" THEN @ + 1 ELSE @]
          /\ due' = Stamped(r)
          /\ Visited(v, a)
          /\ UNCHANGED <<agent, task, approval, action>>
    BY <1>19 DEF StepTool
  <2>2. run' \in [Tasks -> RunRows]
    BY <1>0, <2>1 DEF RowTypes, RunRows
  <2>3. RowTypes'
    BY <1>0, <2>1, <2>2, StampedTyped DEF RowTypes, Visited, evidence
  <2> QED
    BY <1>0, <2>1, <2>3, VisitedTyped, TypePartsNext
<1>20. ASSUME NEW v \in Viewers, StepFinish(v) PROVE TypeOK'
  <2>1. PICK a \in Agents, r \in Tasks :
          Complete(r) /\ due' = Stamped(r) /\ Visited(v, a)
            /\ UNCHANGED <<approval, action>>
    BY <1>20 DEF StepFinish
  <2>2. RowTypes'
    BY <1>0, <2>1, CompleteTyped, StampedTyped DEF RowTypes, Visited, evidence
  <2> QED
    BY <1>0, <2>1, <2>2, VisitedTyped, TypePartsNext
<1>21. ASSUME NEW v \in Viewers, StepGate(v) PROVE TypeOK'
  <2>1. PICK a \in Agents, r \in Tasks :
          /\ MoveAll(a, r, "waiting_approval", agent[a].drift)
          /\ approval' = [approval EXCEPT ![r] = "pending"]
          /\ action' = [action EXCEPT ![r] = [status |-> "waiting_approval",
                                              epoch |-> agent[a].epoch]]
          /\ due' = Stamped(r)
          /\ Visited(v, a)
    BY <1>21 DEF StepGate
  <2>2. agent[a].drift \in 0..100 /\ agent[a].epoch \in Nat
    BY <1>0 DEF RowTypes, AgentRows
  <2>3. approval' \in [Tasks -> ApprovalStatuses]
    BY <1>0, <2>1 DEF RowTypes, ApprovalStatuses
  <2>4. action' \in [Tasks -> [status : ActionStatuses, epoch : Nat]]
    BY <1>0, <2>1, <2>2 DEF RowTypes, ActionStatuses
  <2>5. RowTypes'
    BY <1>0, <2>1, <2>2, <2>3, <2>4, MoveAllTyped, StampedTyped
       DEF RowTypes, Visited, evidence
  <2> QED
    BY <1>0, <2>1, <2>5, VisitedTyped, TypePartsNext
<1>22. ASSUME NEW v \in Viewers, StepWarn(v) \/ StepContain(v) PROVE TypeOK'
  <2>1. PICK a \in Agents, r \in Tasks, status \in Statuses, drift \in 0..100 :
          /\ MoveAll(a, r, status, drift)
          /\ due' = Stamped(r)
          /\ Visited(v, a)
          /\ UNCHANGED <<approval, action>>
    BY <1>22 DEF StepWarn, StepContain, BlockedProposal, Contained
  <2>2. RowTypes'
    BY <1>0, <2>1, MoveAllTyped, StampedTyped DEF RowTypes, Visited, evidence
  <2> QED
    BY <1>0, <2>1, <2>2, VisitedTyped, TypePartsNext
<1>23. ASSUME NEW w \in Workers, Dispatch(w) \/ GuardTool(w) PROVE TypeOK'
  <2>1. RowTypes'
    BY <1>0, <1>23, RowsUnchanged DEF Dispatch, GuardTool
  <2>2. wctx' \in [Workers -> Contexts]
    <3>1. CASE Dispatch(w)
      <4>1. PICK r \in Tasks :
              wctx' = [wctx EXCEPT ![w] = [task |-> r, epoch |-> run[r].epoch]]
        BY <3>1 DEF Dispatch
      <4>2. [task |-> r, epoch |-> run[r].epoch] \in Contexts
        BY <1>0 DEF RowTypes, RunRows, Contexts
      <4> QED
        BY <1>0, <4>1, <4>2 DEF ProcessTypes
    <3>2. CASE GuardTool(w)
      BY <1>0, <3>2 DEF GuardTool, ProcessTypes
    <3> QED
      BY <1>23, <3>1, <3>2
  <2>3. wpc' \in [Workers -> {"idle", "dispatched", "allowed", "executing"}]
    BY <1>0, <1>23 DEF Dispatch, GuardTool, ProcessTypes
  <2>4. ProcessTypes'
    BY <1>0, <1>23, <2>2, <2>3 DEF Dispatch, GuardTool, ProcessTypes, locks, handler, viewer
  <2> QED
    BY <2>1, <2>4, TypePartsNext
<1>24. ASSUME NEW w \in Workers, ExecuteTool(w) PROVE TypeOK'
  BY <1>24, AgentOfTask DEF TypeOK, ExecuteTool, rows, evidence, handler, viewer
<1>25. ASSUME NEW w \in Workers, EndTool(w) PROVE TypeOK'
  BY <1>25 DEF TypeOK, EndTool, rows, evidence, handler, viewer
<1>26. ASSUME NEW r \in Tasks, Tick(r) PROVE TypeOK'
  BY <1>26 DEF TypeOK, Tick, evidence, locks, handler, viewer, worker
<1> QED
  BY <1>1, <1>2, <1>3, <1>4, <1>5, <1>6, <1>7, <1>8, <1>9, <1>10, <1>11, <1>12,
     <1>13, <1>14, <1>15, <1>16, <1>17, <1>18, <1>19, <1>20, <1>21, <1>22, <1>23,
     <1>24, <1>25, <1>26
     DEF Next, HandlerNext, HandlerCommit, ViewerNext, ViewerCommit, WorkerNext

\* Rows keep to the CHECK constraints of their tables and processes to the
\* stages of their requests, whatever the agents, tasks, keys and processes.
THEOREM TypeCorrect == Spec => []TypeOK
  BY TypeInit, TypeStep, PTL DEF Spec

-----------------------------------------------------------------------------
(* The fence under concurrency: the row locks exclude each other, and a tool *)
(* mutation in flight keeps its agent live at the epoch of its worker.         *)

\* None owns no lock: it is no process, and handlers are no streams.
LEMMA NoneIsNoProcess ==
    /\ None \notin Handlers /\ None \notin Viewers
    /\ \A h \in Handlers, v \in Viewers : h # v
  BY Distinct

\* A request locks rows of agents.
LEMMA LockedAgents ==
    ASSUME NEW q \in Requests PROVE Locks(q) \subseteq Agents
  BY AgentOfTask DEF Locks

\* The rows of an intervention and of a decision are those the request locked.
LEMMA LockedTarget ==
    ASSUME TypeOK, LocksSound, NEW h \in Handlers, hpc[h] = "locked",
           hreq[h].cmd # "start_all"
    PROVE  xlock[AgentOf(hreq[h].target)] = h
  BY DEF LocksSound, Locks

\* The target of an intervention is an agent, which stands for itself.
LEMMA TargetOfIntervention ==
    ASSUME NEW q \in Requests, q.cmd \in Interventions
    PROVE  AgentOf(q.target) = q.target
  BY RequestTarget DEF AgentOf

-----------------------------------------------------------------------------
(* The lock discipline is inductive. *)

\* No row is locked initially.
LEMMA LocksInit == Init => LocksSound
  BY DEF Init, LocksSound

\* Steps that leave the locks and their claims alone.
LEMMA LocksKept ==
    ASSUME LocksSound, UNCHANGED <<locks, worker>>,
           \A h \in Handlers :
              hpc'[h] = "locked" => hpc[h] = "locked" /\ hreq'[h] = hreq[h]
    PROVE  LocksSound'
  BY DEF LocksSound, Locks, locks, worker

\* The end of a transaction gives back the locks of its process only.
LEMMA LocksReleased ==
    ASSUME TypeOK, LocksSound, NEW p, p # None,
           xlock' = Released(p), UNCHANGED <<slock, worker>>,
           \A h \in Handlers :
              hpc'[h] = "locked" => hpc[h] = "locked" /\ hreq'[h] = hreq[h] /\ h # p
    PROVE  LocksSound'
<1>1. \A a \in Agents : xlock'[a] # None => slock'[a] = {}
  BY DEF LocksSound, Released
<1>2. \A w \in Workers : wpc'[w] = "executing" => w \in slock'[AgentOf(wctx'[w].task)]
  BY DEF LocksSound, worker
<1>3. ASSUME NEW h \in Handlers, hpc'[h] = "locked", NEW a \in Locks(hreq'[h])
      PROVE  xlock'[a] = h
  <2>1. /\ a \in Agents /\ xlock[a] = h /\ h # p
    BY <1>3, LockedAgents DEF LocksSound, TypeOK, Locks
  <2> QED
    BY <2>1 DEF Released
<1> QED
  BY <1>1, <1>2, <1>3 DEF LocksSound, Locks

\* LocksSound is kept: a lock is taken when it is free and released by its owner.
LEMMA LocksStep == TypeOK /\ LocksSound /\ [Next]_vars => LocksSound'
<1> SUFFICES ASSUME TypeOK, LocksSound, [Next]_vars PROVE LocksSound'
  OBVIOUS
<1>1. CASE UNCHANGED vars
  BY <1>1, LocksKept DEF vars, handler
<1>2. ASSUME NEW h \in Handlers,
             ReceiveStartAll(h) \/ ReceiveStartRogue(h)
               \/ ReceiveIntervention(h) \/ ReceiveDecision(h)
      PROVE  LocksSound'
  <2>1. PICK cmd, target, key : Serve(h, cmd, target, key)
    BY <1>2 DEF ReceiveStartAll, ReceiveStartRogue, ReceiveIntervention, ReceiveDecision
  <2> QED
    BY <2>1, LocksKept DEF Serve, TypeOK
<1>3. ASSUME NEW h \in Handlers, LockAgents(h) PROVE LocksSound'
  <2>1. /\ \A a \in Locks(hreq[h]) : LockFree(a)
        /\ xlock' = [a \in Agents |-> IF a \in Locks(hreq[h]) THEN h ELSE xlock[a]]
        /\ hpc' = [hpc EXCEPT ![h] = "locked"]
        /\ UNCHANGED <<slock, hreq, worker>>
    BY <1>3 DEF LockAgents
  <2>2. \A a \in Agents : xlock'[a] # None => slock'[a] = {}
    BY <2>1 DEF LockFree, LocksSound
  <2>3. \A w \in Workers : wpc'[w] = "executing" => w \in slock'[AgentOf(wctx'[w].task)]
    BY <2>1 DEF LocksSound, worker
  <2>4. ASSUME NEW g \in Handlers, hpc'[g] = "locked", NEW a \in Locks(hreq'[g])
        PROVE  xlock'[a] = g
    <3>1. a \in Agents /\ a \in Locks(hreq[g])
      BY <2>1, <2>4, LockedAgents DEF TypeOK, Locks
    <3>2. CASE g = h
      BY <2>1, <3>1, <3>2
    <3>3. CASE g # h
      <4>1. xlock[a] = g /\ xlock[a] # None
        BY <2>1, <2>4, <3>1, <3>3, NoneIsNoProcess DEF LocksSound, TypeOK
      <4> QED
        BY <2>1, <3>1, <4>1 DEF LockFree
    <3> QED
      BY <3>2, <3>3
  <2> QED
    BY <2>2, <2>3, <2>4 DEF LocksSound, Locks
<1>4. ASSUME NEW h \in Handlers, HandlerCommit(h) \/ Crash(h) PROVE LocksSound'
  <2>1. CASE Respond(h)
    BY <2>1, LocksReleased, NoneIsNoProcess DEF Respond, TypeOK
  <2>2. CASE Kill(h)
    <3>1. /\ hpc'[h] # "locked"
          /\ \A g \in Handlers : g # h => hpc'[g] = hpc[g] /\ hreq'[g] = hreq[g]
          /\ xlock' = Released(h)
          /\ UNCHANGED <<slock, worker>>
      BY <2>2 DEF Kill, TypeOK
    <3> QED
      BY <3>1, LocksReleased, NoneIsNoProcess
  <2>3. CASE Probe(h) \/ RecordDenial(h)
    <3>1. /\ UNCHANGED <<locks, worker, hreq>>
          /\ \A g \in Handlers : hpc'[g] = "locked" => hpc[g] = "locked"
      BY <2>3 DEF Probe, RecordDenial, TypeOK
    <3> QED
      BY <3>1, LocksKept
  <2> QED
    BY <1>4, <2>1, <2>2, <2>3
       DEF HandlerCommit, StartAll, StartRogue, Pause, Resume, Approve, AppliedMutation, Reject,
           Decide, Refuse, Crash
<1>5. ASSUME NEW v \in Viewers, Open(v) \/ Poll(v) \/ SkipLocked(v) PROVE LocksSound'
  BY <1>5, LocksKept DEF Open, Poll, SkipLocked, handler
<1>6. ASSUME NEW v \in Viewers, Close(v) PROVE LocksSound'
  BY <1>6, LocksReleased, NoneIsNoProcess DEF Close, handler
<1>7. ASSUME NEW v \in Viewers, LockCandidate(v) PROVE LocksSound'
  <2>1. PICK a \in Agents :
          /\ xlock[a] = None /\ slock[a] = {}
          /\ xlock' = [xlock EXCEPT ![a] = v]
          /\ UNCHANGED <<slock, handler, worker>>
    BY <1>7 DEF LockCandidate, LockFree, TypeOK
  <2>2. \A b \in Agents : xlock'[b] # None => slock'[b] = {}
    BY <2>1 DEF LocksSound, TypeOK
  <2>3. \A w \in Workers : wpc'[w] = "executing" => w \in slock'[AgentOf(wctx'[w].task)]
    BY <2>1 DEF LocksSound, worker
  <2>4. ASSUME NEW h \in Handlers, hpc'[h] = "locked", NEW b \in Locks(hreq'[h])
        PROVE  xlock'[b] = h
    <3>1. b \in Locks(hreq[h]) /\ b \in Agents /\ xlock[b] = h /\ h # None
      BY <2>1, <2>4, LockedAgents, NoneIsNoProcess DEF handler, LocksSound, TypeOK, Locks
    <3> QED
      BY <2>1, <3>1 DEF TypeOK
  <2> QED
    BY <2>2, <2>3, <2>4 DEF LocksSound, Locks
<1>8. ASSUME NEW v \in Viewers, ViewerCommit(v) PROVE LocksSound'
  <2>1. PICK a \in Agents : xlock[a] = v /\ Visited(v, a)
    BY <1>8 DEF ViewerCommit, NothingDue, StepTool, StepFinish, StepGate, StepWarn,
                StepContain, BlockedProposal, AtStage
  <2>2. \A b \in Agents : xlock'[b] # None => slock'[b] = {}
    BY <2>1 DEF Visited, LocksSound, TypeOK
  <2>3. \A w \in Workers : wpc'[w] = "executing" => w \in slock'[AgentOf(wctx'[w].task)]
    BY <2>1 DEF Visited, LocksSound, worker
  <2>4. ASSUME NEW h \in Handlers, hpc'[h] = "locked", NEW b \in Locks(hreq'[h])
        PROVE  xlock'[b] = h
    <3>1. b \in Locks(hreq[h]) /\ b \in Agents /\ xlock[b] = h /\ h # v
      BY <2>1, <2>4, LockedAgents, NoneIsNoProcess
         DEF Visited, handler, LocksSound, TypeOK, Locks
    <3> QED
      BY <2>1, <3>1 DEF Visited, TypeOK
  <2> QED
    BY <2>2, <2>3, <2>4 DEF LocksSound, Locks
<1>9. ASSUME NEW w \in Workers, Dispatch(w) \/ GuardTool(w) PROVE LocksSound'
  <2>1. /\ UNCHANGED <<locks, handler>>
        /\ wpc'[w] # "executing"
        /\ \A u \in Workers : u # w => wpc'[u] = wpc[u] /\ wctx'[u] = wctx[u]
    BY <1>9 DEF Dispatch, GuardTool, TypeOK
  <2> QED
    BY <2>1 DEF LocksSound, Locks, locks, handler
<1>10. ASSUME NEW w \in Workers, ExecuteTool(w) PROVE LocksSound'
  <2> DEFINE a == AgentOf(wctx[w].task)
  <2>0. a \in Agents
    BY AgentOfTask
  <2>1. /\ UNCHANGED <<xlock, handler, wctx>>
        /\ xlock[a] = None
        /\ \A u \in Workers : u # w => wpc'[u] = wpc[u]
        /\ \/ wpc'[w] = "executing" /\ slock' = [slock EXCEPT ![a] = @ \cup {w}]
           \/ wpc'[w] # "executing" /\ UNCHANGED slock
    BY <1>10 DEF ExecuteTool, TypeOK
  <2> HIDE DEF a
  <2>2. \A b \in Agents : xlock'[b] # None => slock'[b] = {}
    BY <2>0, <2>1 DEF LocksSound, TypeOK
  <2>3. ASSUME NEW u \in Workers, wpc'[u] = "executing"
        PROVE  u \in slock'[AgentOf(wctx'[u].task)]
    <3>1. CASE u = w
      BY <2>0, <2>1, <2>3, <3>1 DEF a, TypeOK
    <3>2. CASE u # w
      <4>1. u \in slock[AgentOf(wctx[u].task)]
        BY <2>1, <2>3, <3>2 DEF LocksSound
      <4> QED
        BY <2>0, <2>1, <4>1, AgentOfTask DEF TypeOK
    <3> QED
      BY <3>1, <3>2
  <2> QED
    BY <2>1, <2>2, <2>3 DEF LocksSound, Locks, handler
<1>11. ASSUME NEW w \in Workers, EndTool(w) PROVE LocksSound'
  <2>1. /\ UNCHANGED <<xlock, handler, wctx>>
        /\ wpc'[w] # "executing"
        /\ \A u \in Workers : u # w => wpc'[u] = wpc[u]
        /\ slock' = [a \in Agents |-> slock[a] \ {w}]
    BY <1>11 DEF EndTool, TypeOK
  <2>2. \A b \in Agents : xlock'[b] # None => slock'[b] = {}
    BY <2>1 DEF LocksSound
  <2>3. \A u \in Workers : wpc'[u] = "executing" => u \in slock'[AgentOf(wctx'[u].task)]
    BY <2>1, AgentOfTask DEF LocksSound
  <2> QED
    BY <2>1, <2>2, <2>3 DEF LocksSound, Locks, handler
<1>12. ASSUME NEW r \in Tasks, Tick(r) PROVE LocksSound'
  BY <1>12, LocksKept DEF Tick, handler
<1> QED
  BY <1>1, <1>2, <1>3, <1>4, <1>5, <1>6, <1>7, <1>8, <1>9, <1>10, <1>11, <1>12
     DEF Next, HandlerNext, ViewerNext, WorkerNext

\* Whatever requests, streams and workers share the workspace, their row locks
\* exclude each other and are held to the end of each transaction.
THEOREM LocksCorrect == Spec => []LocksSound
  BY TypeInit, TypeStep, LocksInit, LocksStep, PTL DEF Spec

-----------------------------------------------------------------------------
(* The fence.                                                              *)

\* An agent row changes only in a step of the process that owns its lock.
LEMMA AgentsChangeLocked ==
    ASSUME TypeOK, LocksSound, [Next]_vars,
           NEW a \in Agents, xlock[a] = None
    PROVE  agent'[a] = agent[a]
<1>1. CASE UNCHANGED agent
  BY <1>1
<1>2. ASSUME NEW h \in Handlers, StartAll(h) PROVE agent'[a] = agent[a]
  <2>1. a \in Locks(hreq[h]) /\ hpc[h] = "locked"
    BY <1>2 DEF StartAll, Locked, Locks
  <2> QED
    BY <2>1, NoneIsNoProcess DEF LocksSound
<1>3. ASSUME NEW h \in Handlers, StartRogue(h) PROVE agent'[a] = agent[a]
  <2>1. xlock[AgentOf(hreq[h].target)] = h
    BY <1>3, LockedTarget DEF StartRogue, Locked
  <2>2. a # AgentOf(hreq[h].target)
    BY <2>1, NoneIsNoProcess
  <2> QED
    BY <1>3, <2>2 DEF StartRogue, Begin
<1>4. ASSUME NEW h \in Handlers, Pause(h) \/ Resume(h) \/ Kill(h)
      PROVE  agent'[a] = agent[a]
  <2>1. Intervene(h) /\ hpc[h] = "locked" /\ hreq[h].cmd \in Interventions
    BY <1>4 DEF Pause, Resume, Kill, Locked, Interventions
  <2>2. hreq[h] \in Requests /\ hreq[h].cmd # "start_all"
    BY <2>1 DEF TypeOK, Interventions
  <2>3. a # hreq[h].target
    BY <2>1, <2>2, LockedTarget, TargetOfIntervention, NoneIsNoProcess
  <2> QED
    BY <2>1, <2>3 DEF Intervene, TypeOK
<1>5. ASSUME NEW h \in Handlers, Approve(h) \/ Reject(h) PROVE agent'[a] = agent[a]
  <2>1. /\ Complete(hreq[h].target)
        /\ hpc[h] = "locked" /\ hreq[h].cmd # "start_all"
    BY <1>5 DEF Approve, AppliedMutation, Reject, Decide, Locked
  <2>2. a # AgentOf(hreq[h].target)
    BY <2>1, LockedTarget, NoneIsNoProcess
  <2> QED
    BY <2>1, <2>2 DEF Complete, TypeOK
<1>6. ASSUME NEW v \in Viewers, StepFinish(v) PROVE agent'[a] = agent[a]
  <2>1. PICK b \in Agents, r \in Tasks :
          xlock[b] = v /\ AgentOf(r) = b /\ Complete(r)
    BY <1>6 DEF StepFinish, AtStage, DueStep
  <2> QED
    BY <2>1, NoneIsNoProcess DEF Complete, TypeOK
<1>7. ASSUME NEW v \in Viewers, StepGate(v) \/ StepWarn(v) \/ StepContain(v)
      PROVE  agent'[a] = agent[a]
  <2>1. PICK b \in Agents :
          xlock[b] = v /\ \E r, status, drift : MoveAll(b, r, status, drift)
    BY <1>7 DEF StepGate, StepWarn, StepContain, BlockedProposal, AtStage
  <2>2. a # b
    BY <2>1, NoneIsNoProcess
  <2> QED
    BY <2>1, <2>2 DEF MoveAll, TypeOK
<1> QED
  BY <1>1, <1>2, <1>3, <1>4, <1>5, <1>6, <1>7
     DEF Next, HandlerNext, HandlerCommit, ViewerNext, ViewerCommit, WorkerNext,
         vars, rows, ReceiveStartAll, ReceiveStartRogue, ReceiveIntervention,
         ReceiveDecision, Serve, LockAgents, Refuse, Crash, Probe, RecordDenial,
         Open, Close, Poll, LockCandidate, SkipLocked, NothingDue, StepTool,
         Dispatch, GuardTool, ExecuteTool, EndTool, Tick

\* No worker is in flight initially.
LEMMA FenceInit == Init => InFlightFenced
  BY DEF Init, InFlightFenced

\* InFlightFenced is kept: what a worker in flight holds shared, nobody changes.
LEMMA FenceStep ==
    TypeOK /\ LocksSound /\ InFlightFenced /\ [Next]_vars => InFlightFenced'
<1> SUFFICES ASSUME TypeOK, LocksSound, InFlightFenced, [Next]_vars,
                    NEW w \in Workers, wpc'[w] = "executing"
             PROVE  LET a == AgentOf(wctx'[w].task)
                    IN /\ agent'[a].status \in {"running", "waiting_approval"}
                       /\ agent'[a].epoch = wctx'[w].epoch
  BY DEF InFlightFenced
<1>1. CASE ExecuteTool(w)
  <2>1. FencePasses(wctx[w].task, wctx[w].epoch) /\ UNCHANGED <<rows, wctx>>
    BY <1>1 DEF ExecuteTool, TypeOK
  <2> QED
    BY <2>1 DEF FencePasses, rows
<1>2. CASE ~ExecuteTool(w)
  <2>1. wpc[w] = "executing" /\ wctx'[w] = wctx[w]
    <3>1. ASSUME NEW h \in Handlers, HandlerNext(h) PROVE UNCHANGED worker
      <4>1. CASE HandlerCommit(h)
        BY <4>1 DEF HandlerCommit, StartAll, StartRogue, Pause, Resume, Kill,
             Approve, AppliedMutation, Reject, Decide, Refuse, Probe, RecordDenial, Respond
      <4> QED
        BY <3>1, <4>1 DEF HandlerNext, ReceiveStartAll, ReceiveStartRogue,
             ReceiveIntervention, ReceiveDecision, Serve, LockAgents, Crash, Respond
    <3>2. ASSUME NEW v \in Viewers, ViewerNext(v) PROVE UNCHANGED worker
      BY <3>2 DEF ViewerNext, ViewerCommit, Open, Close, Poll, LockCandidate,
           SkipLocked, NothingDue, StepTool, StepFinish, StepGate, StepWarn,
           StepContain, BlockedProposal, Visited
    <3>3. ASSUME NEW u \in Workers, WorkerNext(u)
          PROVE  wpc[w] = "executing" /\ wctx'[w] = wctx[w]
      <4>1. CASE u = w
        BY <1>2, <3>3, <4>1 DEF WorkerNext, Dispatch, GuardTool, EndTool, TypeOK
      <4>2. CASE u # w
        BY <3>3, <4>2 DEF WorkerNext, Dispatch, GuardTool, ExecuteTool, EndTool, TypeOK
      <4> QED
        BY <4>1, <4>2
    <3> QED
      BY <3>1, <3>2, <3>3 DEF Next, Tick, vars, worker
  <2> DEFINE a == AgentOf(wctx[w].task)
  <2>2. a \in Agents /\ w \in slock[a]
    BY <2>1, AgentOfTask DEF LocksSound
  <2>3. xlock[a] = None
    BY <2>2 DEF LocksSound
  <2>4. agent'[a] = agent[a]
    BY <2>2, <2>3, AgentsChangeLocked
  <2> QED
    BY <2>1, <2>4 DEF InFlightFenced
<1> QED
  BY <1>1, <1>2

\* A tool mutation in flight finds its agent live and at the epoch it was
\* checked against until it commits: a kill or a pause comes before or after.
THEOREM FenceHolds == Spec => []InFlightFenced
  BY TypeInit, TypeStep, LocksInit, LocksStep, FenceInit, FenceStep, PTL DEF Spec

=============================================================================
