---------------------------- MODULE ControlPlane ----------------------------
(***************************************************************************)
(* The control plane of one demo workspace: agents, their runs and tasks,  *)
(* the approval gate, operator interventions and the control epoch, as     *)
(* kept in PostgreSQL and changed by                                       *)
(*   - handlers, requests to the actcontrol function (start, intervene,    *)
(*     decide), each one transaction under the agent's row lock;           *)
(*   - viewers, open SSE streams whose loop advances due simulation steps; *)
(*   - workers, clients of the tool guard that execute a tool with the     *)
(*     control epoch they were dispatched with.                            *)
(*                                                                         *)
(* A transaction is three steps: the reads it makes before it owns the     *)
(* agent row, the acquisition of the row lock, and its commit, which reads *)
(* and writes under the lock.  Any process may fail in between: its        *)
(* transaction rolls back.                                                 *)
(***************************************************************************)
EXTENDS Naturals

CONSTANTS
    Infra,       \* the infrastructure agent; the only one that runs rogue tasks
    Gated,       \* the agents whose task ends in an approval (support, sales)
    RogueTasks,  \* rogue tasks, one per idempotency key of a rogue start
    Keys,        \* idempotency keys of interventions
    Handlers,    \* concurrent requests to the actcontrol function
    Viewers,     \* SSE streams that may be open
    Workers,     \* external executors of tools
    None         \* no owner, no target, no key

Agents == Gated \cup {Infra}

\* A seed task is named by the agent it is assigned to.  A task has one run.
Tasks == Agents \cup RogueTasks

ASSUME Distinct ==
    /\ Infra \notin Gated
    /\ RogueTasks \cap Agents = {}
    /\ Handlers \cap Viewers = {}
    /\ None \notin Handlers \cup Viewers \cup Workers \cup Tasks \cup Keys

VARIABLES
    agent,          \* row of agents: status, control epoch, drift score
    run,            \* row of agent_runs: status, control epoch, steps recorded
    task,           \* status of the row of tasks
    due,            \* runs whose updated_at is five seconds old
    approval,       \* status of the approval of a run's gated action
    action,         \* the gated tool_action: status, worker epoch
    effects,        \* how often the gated mutation was applied
    interventions,  \* rows of interventions
    leaked,         \* runs whose post-kill probe got through the fence
    denied,         \* runs with a recorded stale-worker denial
    xlock,          \* owner of the FOR UPDATE lock of an agent row
    slock,          \* workers that hold the FOR SHARE lock of an agent row
    hpc,            \* progress of a handler
    hreq,           \* the request a handler serves
    hstale,         \* stale-worker contexts a kill has yet to follow up
    open,           \* viewers whose stream is open
    vcand,          \* agents a viewer read as running, not yet visited
    wpc,            \* progress of a worker
    wctx            \* the context a worker was dispatched with

rows     == <<agent, run, task, due, approval, action, effects, interventions>>
evidence == <<leaked, denied>>
locks    == <<xlock, slock>>
handler  == <<hpc, hreq, hstale>>
viewer   == <<open, vcand>>
worker   == <<wpc, wctx>>
vars     == <<rows, evidence, locks, handler, viewer, worker>>

-----------------------------------------------------------------------------
(* Vocabulary of the schema. *)

Statuses == {"idle", "queued", "running", "waiting_approval", "paused",
             "blocked", "completed", "failed", "killed"}

Active == {"queued", "running", "waiting_approval", "paused", "blocked"}

ApprovalStatuses == {"none", "pending", "approved", "rejected", "cancelled"}
ActionStatuses   == {"none", "waiting_approval", "succeeded", "cancelled"}

Interventions == {"pause", "resume", "kill"}
Decisions     == {"approve", "reject"}

\* An intervention names an agent, a decision the run whose approval it decides.
Idle     == [cmd |-> "none", target |-> None, key |-> None]
Requests ==
    [cmd : Interventions, target : Agents, key : Keys]
    \cup [cmd : Decisions, target : Tasks, key : {None}]
    \cup [cmd : {"rogue"}, target : RogueTasks, key : {None}]
    \cup [cmd : {"start_all", "none"}, target : {None}, key : {None}]

\* What a worker is dispatched with: the run and the epoch it will present.
Contexts == [task : Tasks, epoch : Nat]

TransitionRules ==
    {<<"idle", "queued">>}
    \cup ({"queued"} \X {"running", "failed", "killed"})
    \cup ({"running"} \X {"waiting_approval", "paused", "blocked",
                          "completed", "failed", "killed"})
    \cup ({"waiting_approval"} \X {"running", "paused", "blocked",
                                   "failed", "killed"})
    \cup ({"paused", "blocked"} \X {"running", "failed", "killed"})

CanMove(from, to) == <<from, to>> \in TransitionRules

\* The trigger on agent_runs lets an update through that keeps the status.
RunMayMove(from, to) == from = to \/ CanMove(from, to)

AgentOf(r) == IF r \in Agents THEN r ELSE Infra

\* What step number i (from 0) of a run does.  A step past the last one of a
\* seed task falls through every branch of its script and does nothing.
Stage(r, i) ==
    IF r = Infra
    THEN IF i = 0 THEN "tool" ELSE IF i = 1 THEN "finish" ELSE "nothing"
    ELSE IF r \in Gated
    THEN IF i < 3 THEN "tool" ELSE IF i = 3 THEN "gate" ELSE "nothing"
    ELSE IF i = 0 THEN "tool"
         ELSE IF i = 1 THEN "warn"
         ELSE IF i = 2 THEN "contain" ELSE "finish"

\* The active run of an agent, as a set.  OneActiveRun shows that there is
\* never a choice to make between two.
Context(a) == {r \in Tasks : AgentOf(r) = a /\ run[r].status \in Active}

-----------------------------------------------------------------------------
(* A fresh demo session. *)

Init ==
    /\ agent = [a \in Agents |-> [status |-> "idle", epoch |-> 0, drift |-> 0]]
    /\ run = [r \in Tasks |-> [status |-> "absent", epoch |-> 0, steps |-> 0]]
    /\ task = [r \in Tasks |-> IF r \in Agents THEN "queued" ELSE "absent"]
    /\ due = {}
    /\ approval = [r \in Tasks |-> "none"]
    /\ action = [r \in Tasks |-> [status |-> "none", epoch |-> 0]]
    /\ effects = [r \in Tasks |-> 0]
    /\ interventions = {}
    /\ leaked = {} /\ denied = {}
    /\ xlock = [a \in Agents |-> None]
    /\ slock = [a \in Agents |-> {}]
    /\ hpc = [h \in Handlers |-> "idle"]
    /\ hreq = [h \in Handlers |-> Idle]
    /\ hstale = [h \in Handlers |-> {}]
    /\ open = {}
    /\ vcand = [v \in Viewers |-> {}]
    /\ wpc = [w \in Workers |-> "idle"]
    /\ wctx = [w \in Workers |-> [task |-> Infra, epoch |-> 0]]

-----------------------------------------------------------------------------
(* Row locks. *)

\* FOR UPDATE waits for every other lock of the row.
LockFreeIgnoringShares(a) == xlock[a] = None
LockFree(a) == xlock[a] = None /\ slock[a] = {}

\* The locks a process gives back when its transaction ends.
Released(p) == [a \in Agents |-> IF xlock[a] = p THEN None ELSE xlock[a]]

-----------------------------------------------------------------------------
(* Requests: what a handler reads before it owns the agent row. *)

Serve(h, cmd, target, key) ==
    /\ hpc[h] = "idle"
    /\ hpc' = [hpc EXCEPT ![h] = "waiting"]
    /\ hreq' = [hreq EXCEPT ![h] = [cmd |-> cmd, target |-> target, key |-> key]]
    /\ UNCHANGED <<rows, evidence, locks, hstale, viewer, worker>>

KeyUsed(k) == \E i \in interventions : i.key = k

\* A key that is on record is answered from its row, without an effect.
ReceiveIntervention(h) ==
    \E cmd \in Interventions, a \in Agents, k \in Keys :
        ~KeyUsed(k) /\ Serve(h, cmd, a, k)

ReceiveDecision(h) ==
    \E cmd \in Decisions, r \in Tasks :
        approval[r] # "none" /\ Serve(h, cmd, r, None)

ReceiveStartAll(h) == Serve(h, "start_all", None, None)

\* An existing task is answered as idempotent, without an effect.
ReceiveStartRogue(h) ==
    \E r \in RogueTasks : task[r] = "absent" /\ Serve(h, "rogue", r, None)

\* The agents a request locks: every agent of the workspace for start-all.
Locks(q) == IF q.cmd = "start_all" THEN Agents ELSE {AgentOf(q.target)}

LockAgents(h) ==
    /\ hpc[h] = "waiting"
    /\ \A a \in Locks(hreq[h]) : LockFree(a)
    /\ xlock' = [a \in Agents |-> IF a \in Locks(hreq[h]) THEN h ELSE xlock[a]]
    /\ hpc' = [hpc EXCEPT ![h] = "locked"]
    /\ UNCHANGED <<rows, evidence, slock, hreq, hstale, viewer, worker>>

\* End of the transaction and of the request.
Respond(h) ==
    /\ hpc' = [hpc EXCEPT ![h] = "idle"]
    /\ hreq' = [hreq EXCEPT ![h] = Idle]
    /\ hstale' = [hstale EXCEPT ![h] = {}]
    /\ xlock' = Released(h)
    /\ UNCHANGED <<slock, viewer, worker>>

Locked(h, cmd) == hpc[h] = "locked" /\ hreq[h].cmd = cmd

-----------------------------------------------------------------------------
(* Starting runs. *)

MayStartUnlessKilled(a) == agent[a].status # "killed"
MayStart(a) == agent[a].status \in {"idle", "completed", "failed"}

\* Runs and tasks R and their agents begin to run.
Begin(R) ==
    LET A == {AgentOf(r) : r \in R}
    IN /\ run' = [r \in Tasks |->
                    IF r \in R
                    THEN [status |-> "running",
                          epoch |-> agent[AgentOf(r)].epoch, steps |-> 0]
                    ELSE run[r]]
       /\ task' = [r \in Tasks |-> IF r \in R THEN "running" ELSE task[r]]
       /\ agent' = [a \in Agents |->
                      IF a \in A
                      THEN [agent[a] EXCEPT !.status = "running", !.drift = 0]
                      ELSE agent[a]]

\* The seed tasks without a run: start-all begins them, or fails as a whole.
ToStartIfFree == {a \in Agents : run[a].status = "absent" /\ MayStart(a)}
ToStart == {a \in Agents : run[a].status = "absent"}

StartAllAccepted == \A a \in ToStart : MayStart(a)

StartAll(h) ==
    /\ Locked(h, "start_all")
    /\ StartAllAccepted
    /\ Begin(ToStart)
    /\ Respond(h)
    /\ UNCHANGED <<due, approval, action, effects, interventions, evidence>>

\* Inserting the task fails when a request with the same key was faster.
StartRogueAccepted(r) == task[r] = "absent" /\ MayStart(Infra)

StartRogue(h) ==
    /\ Locked(h, "rogue")
    /\ StartRogueAccepted(hreq[h].target)
    /\ Begin({hreq[h].target})
    /\ Respond(h)
    /\ UNCHANGED <<due, approval, action, effects, interventions, evidence>>

-----------------------------------------------------------------------------
(* Interventions. *)

Goal == [pause |-> "paused", resume |-> "running", kill |-> "killed"]

\* Keys are unique in interventions: the insert of a second row fails.
KeyAccepted(k) == TRUE
KeyFree(k) == ~KeyUsed(k)

\* The conflicts, the transition rules, the run trigger and the unique key.
MayIntervene(q) ==
    LET a == q.target
    IN /\ agent[a].status # Goal[q.cmd]
       /\ agent[a].status # "killed"
       /\ CanMove(agent[a].status, Goal[q.cmd])
       /\ \A r \in Context(a) : RunMayMove(run[r].status, Goal[q.cmd])
       /\ KeyFree(q.key)

\* A resume with an undecided approval returns to the gate.
LandingAtGoal(cmd, a) == Goal[cmd]
Landing(cmd, a) ==
    IF cmd = "resume" /\ \E r \in Context(a) : approval[r] = "pending"
    THEN "waiting_approval"
    ELSE Goal[cmd]

NewEpochKept(cmd, e) == e
NewEpochBackwards(cmd, e) == IF cmd = "kill" THEN e - 1 ELSE e
NewEpoch(cmd, e) == IF cmd = "kill" THEN e + 1 ELSE e

\* The rows every intervention writes.
Intervene(h) ==
    LET q  == hreq[h]
        a  == q.target
        to == Landing(q.cmd, a)
        e  == NewEpoch(q.cmd, agent[a].epoch)
    IN /\ MayIntervene(q)
       /\ agent' = [agent EXCEPT ![a].status = to, ![a].epoch = e]
       /\ run' = [r \in Tasks |->
                    IF r \in Context(a)
                    THEN [run[r] EXCEPT !.status = to, !.epoch = e]
                    ELSE run[r]]
       /\ task' = [r \in Tasks |-> IF r \in Context(a) THEN to ELSE task[r]]
       /\ due' = due \ Context(a)
       /\ interventions' = interventions \cup
            {[key |-> q.key, cmd |-> q.cmd, agent |-> a,
              tasks |-> Context(a), epoch |-> e]}
       /\ UNCHANGED <<action, effects, evidence>>

Pause(h)  == Locked(h, "pause")  /\ Intervene(h) /\ Respond(h) /\ UNCHANGED approval
Resume(h) == Locked(h, "resume") /\ Intervene(h) /\ Respond(h) /\ UNCHANGED approval

\* What a kill makes of the approvals of the runs it ends.
UntouchedApproval(s) == s
CancelledApproval(s) == IF s = "pending" THEN "cancelled" ELSE s

\* The kill of a rogue run is followed, in two more transactions, by a probe
\* with the epoch of before the kill and by the evidence of its denial.
StaleContexts(a) ==
    {[task |-> r, epoch |-> agent[a].epoch] : r \in Context(a) \cap RogueTasks}

Kill(h) ==
    LET a == hreq[h].target
    IN /\ Locked(h, "kill")
       /\ Intervene(h)
       /\ approval' = [r \in Tasks |-> IF r \in Context(a)
                                       THEN CancelledApproval(approval[r])
                                       ELSE approval[r]]
       /\ hstale' = [hstale EXCEPT ![h] = StaleContexts(a)]
       /\ hpc' = [hpc EXCEPT ![h] = IF StaleContexts(a) = {} THEN "idle" ELSE "probe"]
       /\ hreq' = [hreq EXCEPT ![h] = Idle]
       /\ xlock' = Released(h)
       /\ UNCHANGED <<slock, viewer, worker>>

-----------------------------------------------------------------------------
(* The fence on tool execution (triggers of migrations 004 and 006). *)

\* A tool call of risk decision "allow" for run r by a worker of epoch e.
FencePassesOnStatus(r, e) == run[r].status \notin {"absent", "completed", "paused"}
FencePasses(r, e) ==
    LET a == AgentOf(r)
    IN /\ agent[a].status \in {"running", "waiting_approval"}
       /\ e = agent[a].epoch
       /\ run[r].status = "running"
       /\ run[r].epoch = agent[a].epoch

\* The fence takes FOR SHARE on the agent row: it waits for FOR UPDATE.
Probe(h) ==
    /\ hpc[h] = "probe"
    /\ \E c \in hstale[h] :
         /\ xlock[AgentOf(c.task)] = None
         /\ IF FencePasses(c.task, c.epoch)
            THEN /\ leaked' = leaked \cup {c.task}
                 /\ hpc' = [hpc EXCEPT ![h] = "idle"]
                 /\ hstale' = [hstale EXCEPT ![h] = {}]
            ELSE /\ hpc' = [hpc EXCEPT ![h] = "deny"]
                 /\ UNCHANGED <<leaked, hstale>>
    /\ UNCHANGED <<rows, denied, locks, hreq, viewer, worker>>

\* The evidence row references the agent row: it too waits for FOR UPDATE.
RecordDenial(h) ==
    /\ hpc[h] = "deny"
    /\ \E c \in hstale[h] :
         /\ xlock[AgentOf(c.task)] = None
         /\ denied' = denied \cup {c.task}
    /\ hpc' = [hpc EXCEPT ![h] = "idle"]
    /\ hstale' = [hstale EXCEPT ![h] = {}]
    /\ UNCHANGED <<rows, leaked, locks, hreq, viewer, worker>>

-----------------------------------------------------------------------------
(* Decisions on approvals. *)

DecidableByStatus(r) == approval[r] # "none" /\ action[r].status # "none"
Decidable(r) ==
    /\ agent[AgentOf(r)].status # "paused"
    /\ approval[r] = "pending"
    /\ run[r].status = "waiting_approval"
    /\ action[r].status = "waiting_approval"

\* Executing the gated action also passes the fence; by then the run and its
\* agent are running and the approval is approved.
Approvable(r) ==
    /\ Decidable(r)
    /\ action[r].epoch = agent[AgentOf(r)].epoch
    /\ run[r].epoch = agent[AgentOf(r)].epoch

\* The last step of a run and its completion: the agent is idle again.
CompleteRunOnly(r) ==
    /\ run' = [run EXCEPT ![r].status = "completed", ![r].steps = @ + 1]
    /\ task' = [task EXCEPT ![r] = "completed"]
    /\ UNCHANGED agent
Complete(r) ==
    /\ run' = [run EXCEPT ![r].status = "completed", ![r].steps = @ + 1]
    /\ task' = [task EXCEPT ![r] = "completed"]
    /\ agent' = [agent EXCEPT ![AgentOf(r)].status = "idle"]

Decide(h, decision, outcome) ==
    LET r == hreq[h].target
    IN /\ approval' = [approval EXCEPT ![r] = decision]
       /\ action' = [action EXCEPT ![r].status = outcome]
       /\ Complete(r)
       /\ Respond(h)
       /\ UNCHANGED <<due, interventions, evidence>>

\* applyApprovedMutation: the one effect the gate held back takes place.
AppliedMutation(r) == effects' = [effects EXCEPT ![r] = @ + 1]

Approve(h) ==
    LET r == hreq[h].target
    IN /\ Locked(h, "approve")
       /\ Approvable(r)
       /\ AppliedMutation(r)
       /\ Decide(h, "approved", "succeeded")

Reject(h) ==
    /\ Locked(h, "reject")
    /\ Decidable(hreq[h].target)
    /\ Decide(h, "rejected", "cancelled")
    /\ UNCHANGED effects

-----------------------------------------------------------------------------
(* A request that meets a conflict, and a request whose process dies. *)

Accepted(q) ==
    \/ q.cmd \in Interventions /\ MayIntervene(q)
    \/ q.cmd = "approve"   /\ Approvable(q.target)
    \/ q.cmd = "reject"    /\ Decidable(q.target)
    \/ q.cmd = "start_all" /\ StartAllAccepted
    \/ q.cmd = "rogue"     /\ StartRogueAccepted(q.target)

Refuse(h) ==
    /\ hpc[h] = "locked"
    /\ ~Accepted(hreq[h])
    /\ Respond(h)
    /\ UNCHANGED <<rows, evidence>>

Crash(h) ==
    /\ hpc[h] # "idle"
    /\ Respond(h)
    /\ UNCHANGED <<rows, evidence>>

-----------------------------------------------------------------------------
(* Viewers: the loop of an open stream. *)

Open(v) ==
    /\ v \notin open
    /\ open' = open \cup {v}
    /\ UNCHANGED <<rows, evidence, locks, handler, vcand, worker>>

\* The stream ends: the client leaves, or its function instance dies.
Close(v) ==
    /\ v \in open
    /\ open' = open \ {v}
    /\ vcand' = [vcand EXCEPT ![v] = {}]
    /\ xlock' = Released(v)
    /\ UNCHANGED <<rows, evidence, slock, handler, worker>>

HoldsNone(v) == \A a \in Agents : xlock[a] # v

\* Read without a lock, and visited one agent at a time.
Poll(v) ==
    /\ v \in open /\ vcand[v] = {}
    /\ vcand' = [vcand EXCEPT ![v] = {a \in Agents : agent[a].status = "running"}]
    /\ UNCHANGED <<rows, evidence, locks, handler, open, worker>>

LockCandidate(v) ==
    \E a \in vcand[v] :
        /\ HoldsNone(v) /\ LockFree(a)
        /\ xlock' = [xlock EXCEPT ![a] = v]
        /\ UNCHANGED <<rows, evidence, slock, handler, viewer, worker>>

\* SKIP LOCKED passes over an agent whose row another process has locked.
SkipLocked(v) ==
    \E a \in vcand[v] :
        /\ HoldsNone(v) /\ ~LockFree(a)
        /\ vcand' = [vcand EXCEPT ![v] = @ \ {a}]
        /\ UNCHANGED <<rows, evidence, locks, handler, open, worker>>

\* The end of the transaction on agent a.
Visited(v, a) ==
    /\ xlock' = [xlock EXCEPT ![a] = None]
    /\ vcand' = [vcand EXCEPT ![v] = @ \ {a}]
    /\ UNCHANGED <<slock, open, handler, worker, interventions, effects, evidence>>

\* What the code reads again under the lock before it takes a step.
DueUnchecked(a, r) ==
    /\ AgentOf(r) = a /\ run[r].status \in Active \ {"queued"}
    /\ run[r].epoch = agent[a].epoch
DueStep(a, r) ==
    /\ agent[a].status = "running"
    /\ AgentOf(r) = a /\ run[r].status = "running" /\ r \in due
    /\ run[r].epoch = agent[a].epoch

NothingDue(v) ==
    \E a \in Agents :
        /\ xlock[a] = v
        /\ ~\E r \in Tasks : DueStep(a, r)
        /\ Visited(v, a)
        /\ UNCHANGED <<agent, run, task, due, approval, action>>

\* The step due on agent a, whose row v has locked, is of one of these stages.
AtStage(v, a, r, stages) ==
    xlock[a] = v /\ DueStep(a, r) /\ Stage(r, run[r].steps) \in stages

\* Every step stamps updated_at, which opens the next five seconds.
Unstamped(r) == due
Stamped(r) == due \ {r}

\* A tool call passes the fence: it asks for what DueStep has just read.
StepTool(v) ==
    \E a \in Agents, r \in Tasks :
        /\ AtStage(v, a, r, {"tool", "nothing"})
        /\ run' = [run EXCEPT ![r].steps =
                     IF Stage(r, run[r].steps) = "tool" THEN @ + 1 ELSE @]
        /\ due' = Stamped(r)
        /\ Visited(v, a)
        /\ UNCHANGED <<agent, task, approval, action>>

StepFinish(v) ==
    \E a \in Agents, r \in Tasks :
        /\ AtStage(v, a, r, {"finish"})
        /\ Complete(r)
        /\ due' = Stamped(r)
        /\ Visited(v, a)
        /\ UNCHANGED <<approval, action>>

\* The run, its task and its agent go to one status together.
MoveAll(a, r, status, drift) ==
    /\ run' = [run EXCEPT ![r].status = status, ![r].steps = @ + 1]
    /\ task' = [task EXCEPT ![r] = status]
    /\ agent' = [agent EXCEPT ![a].status = status, ![a].drift = drift]

StepGate(v) ==
    \E a \in Agents, r \in Tasks :
        /\ AtStage(v, a, r, {"gate"})
        /\ MoveAll(a, r, "waiting_approval", agent[a].drift)
        /\ approval' = [approval EXCEPT ![r] = "pending"]
        /\ action' = [action EXCEPT ![r] = [status |-> "waiting_approval",
                                            epoch |-> agent[a].epoch]]
        /\ due' = Stamped(r)
        /\ Visited(v, a)

\* recordBlockedProposal: the rogue step is on record, what it proposed is
\* cancelled at once, without an approval and without an effect.
BlockedProposal == UNCHANGED <<approval, action>>

StepWarn(v) ==
    \E a \in Agents, r \in Tasks :
        /\ AtStage(v, a, r, {"warn"})
        /\ BlockedProposal
        /\ MoveAll(a, r, "running", 70)
        /\ due' = Stamped(r)
        /\ Visited(v, a)

\* Critical drift pauses the agent in the transaction that found it.
Uncontained == "running"
Contained == "paused"

StepContain(v) ==
    \E a \in Agents, r \in Tasks :
        /\ AtStage(v, a, r, {"contain"})
        /\ BlockedProposal
        /\ MoveAll(a, r, Contained, 92)
        /\ due' = Stamped(r)
        /\ Visited(v, a)

\* Five seconds pass for a running run.  (Every action that makes a run
\* running again, or takes it out of that status for good, stamps it.)
Tick(r) ==
    /\ run[r].status = "running" /\ r \notin due
    /\ due' = due \cup {r}
    /\ UNCHANGED <<agent, run, task, approval, action, effects, interventions,
                   evidence, locks, handler, viewer, worker>>

-----------------------------------------------------------------------------
(* Workers: executeTool with a context captured at dispatch. *)

Dispatch(w) ==
    \E r \in Tasks :
        /\ wpc[w] = "idle" /\ run[r].status = "running"
        /\ wctx' = [wctx EXCEPT ![w] = [task |-> r, epoch |-> run[r].epoch]]
        /\ wpc' = [wpc EXCEPT ![w] = "dispatched"]
        /\ UNCHANGED <<rows, evidence, locks, handler, viewer>>

\* The guard endpoint reads the agent without a lock; a paused agent passes.
GuardTool(w) ==
    LET a == AgentOf(wctx[w].task)
    IN /\ wpc[w] = "dispatched"
       /\ wpc' = [wpc EXCEPT ![w] =
                    IF agent[a].status # "killed" /\ agent[a].epoch = wctx[w].epoch
                    THEN "allowed" ELSE "idle"]
       /\ UNCHANGED <<rows, evidence, locks, handler, viewer, wctx>>

\* The insert of the tool action: the fence takes FOR SHARE and checks.
ExecuteTool(w) ==
    LET a == AgentOf(wctx[w].task)
    IN /\ wpc[w] = "allowed" /\ xlock[a] = None
       /\ IF FencePasses(wctx[w].task, wctx[w].epoch)
          THEN /\ wpc' = [wpc EXCEPT ![w] = "executing"]
               /\ slock' = [slock EXCEPT ![a] = @ \cup {w}]
          ELSE /\ wpc' = [wpc EXCEPT ![w] = "idle"]
               /\ UNCHANGED slock
       /\ UNCHANGED <<rows, evidence, xlock, handler, viewer, wctx>>

\* The mutation commits or, if the worker fails, rolls back; both end the lock.
EndTool(w) ==
    /\ wpc[w] = "executing"
    /\ wpc' = [wpc EXCEPT ![w] = "idle"]
    /\ slock' = [a \in Agents |-> slock[a] \ {w}]
    /\ UNCHANGED <<rows, evidence, xlock, handler, viewer, wctx>>

-----------------------------------------------------------------------------
(* The system. *)

HandlerCommit(h) ==
    \/ StartAll(h) \/ StartRogue(h)
    \/ Pause(h) \/ Resume(h) \/ Kill(h)
    \/ Approve(h) \/ Reject(h)
    \/ Refuse(h)
    \/ Probe(h) \/ RecordDenial(h)

HandlerNext(h) ==
    \/ ReceiveStartAll(h) \/ ReceiveStartRogue(h)
    \/ ReceiveIntervention(h) \/ ReceiveDecision(h)
    \/ LockAgents(h)
    \/ HandlerCommit(h)
    \/ Crash(h)

ViewerCommit(v) ==
    \/ NothingDue(v)
    \/ StepTool(v) \/ StepFinish(v) \/ StepGate(v) \/ StepWarn(v) \/ StepContain(v)

ViewerNext(v) ==
    \/ Open(v) \/ Close(v)
    \/ Poll(v) \/ LockCandidate(v) \/ SkipLocked(v)
    \/ ViewerCommit(v)

WorkerNext(w) == Dispatch(w) \/ GuardTool(w) \/ ExecuteTool(w) \/ EndTool(w)

Next ==
    \/ \E h \in Handlers : HandlerNext(h)
    \/ \E v \in Viewers : ViewerNext(v)
    \/ \E w \in Workers : WorkerNext(w)
    \/ \E r \in Tasks : Tick(r)

Spec == Init /\ [][Next]_vars

\* Time passes, an open stream keeps looping, and whoever holds a row lock
\* ends its transaction.
Fairness ==
    /\ \A r \in Tasks : WF_vars(Tick(r))
    /\ \A v \in Viewers :
         /\ WF_vars(Poll(v))
         /\ WF_vars(LockCandidate(v) \/ SkipLocked(v))
         /\ WF_vars(ViewerCommit(v))
    /\ \A h \in Handlers : WF_vars(HandlerCommit(h))
    /\ \A w \in Workers : WF_vars(EndTool(w))

FairSpec == Spec /\ Fairness

-----------------------------------------------------------------------------
(* Type invariant. *)

AgentRows == [status : Statuses, epoch : Nat, drift : 0..100]
RunRows   == [status : Statuses \cup {"absent"}, epoch : Nat, steps : Nat]
InterventionRows ==
    [key : Keys, cmd : Interventions, agent : Agents, tasks : SUBSET Tasks, epoch : Nat]

\* Every row keeps to the CHECK constraints of its table, every process to the
\* stages of its request.
TypeOK ==
    /\ agent \in [Agents -> AgentRows]
    /\ run \in [Tasks -> RunRows]
    /\ task \in [Tasks -> Statuses \cup {"absent"}]
    /\ due \subseteq Tasks
    /\ approval \in [Tasks -> ApprovalStatuses]
    /\ action \in [Tasks -> [status : ActionStatuses, epoch : Nat]]
    /\ effects \in [Tasks -> Nat]
    /\ interventions \subseteq InterventionRows
    /\ leaked \subseteq Tasks /\ denied \subseteq Tasks
    /\ xlock \in [Agents -> Handlers \cup Viewers \cup {None}]
    /\ slock \in [Agents -> SUBSET Workers]
    /\ hpc \in [Handlers -> {"idle", "waiting", "locked", "probe", "deny"}]
    /\ hreq \in [Handlers -> Requests]
    /\ hstale \in [Handlers -> SUBSET Contexts]
    /\ open \subseteq Viewers
    /\ vcand \in [Viewers -> SUBSET Agents]
    /\ wpc \in [Workers -> {"idle", "dispatched", "allowed", "executing"}]
    /\ wctx \in [Workers -> Contexts]

-----------------------------------------------------------------------------
(* Safety: invariants. *)

\* However starts, steps, decisions and interventions interleave, an agent has
\* at most one active run.  No constraint of the schema says so: it rests on
\* the agent's status, checked under its row lock (startRun, startRogueScenario).
OneActiveRun ==
    \A r1, r2 \in Tasks :
        /\ run[r1].status \in Active /\ run[r2].status \in Active
        /\ AgentOf(r1) = AgentOf(r2)
        => r1 = r2

\* The three rows the console shows never contradict each other: an active run
\* has the status of its agent and of its task and the agent's epoch, an ended
\* run the status of its task, and an agent is idle or killed exactly when it
\* has no active run.
RowsAgree ==
    /\ \A r \in Tasks :
         /\ run[r].status \in Active =>
              /\ agent[AgentOf(r)].status = run[r].status
              /\ agent[AgentOf(r)].epoch = run[r].epoch
         /\ run[r].status # "absent" => task[r] = run[r].status
    /\ \A a \in Agents : agent[a].status \in {"idle", "killed"} <=> Context(a) = {}

\* The gate is never lost or left behind by a pause, a resume or a kill: a run
\* waits only for a pending approval, and an approval is pending only while
\* its run is live and its action still waits at the agent's epoch, so that
\* the decision can be carried out once the agent is not paused.
GateSound ==
    \A r \in Tasks :
        /\ run[r].status = "waiting_approval" => approval[r] = "pending"
        /\ approval[r] = "pending" =>
             /\ run[r].status \in {"waiting_approval", "paused"}
             /\ action[r] = [status |-> "waiting_approval",
                             epoch |-> agent[AgentOf(r)].epoch]

\* A gated mutation is applied once if its approval is approved and never
\* otherwise, whatever decisions, pauses and kills race for it.
ExactlyOnce ==
    \A r \in Tasks :
        /\ effects[r] = IF approval[r] = "approved" THEN 1 ELSE 0
        /\ approval[r] = "approved" <=> action[r].status = "succeeded"

\* A running run always has a step left: no sequence of interventions leads
\* back into a script that is over, where the agent would stay busy forever.
NextStepExists ==
    \A r \in Tasks :
        run[r].status = "running" => Stage(r, run[r].steps) # "nothing"

\* The row locks do their work: nobody owns a row exclusively while a worker
\* shares it, a worker shares its agent's row for as long as it executes, and a
\* request keeps every row it locked until it ends.
LocksSound ==
    /\ \A a \in Agents : xlock[a] # None => slock[a] = {}
    /\ \A w \in Workers : wpc[w] = "executing" => w \in slock[AgentOf(wctx[w].task)]
    /\ \A h \in Handlers :
         hpc[h] = "locked" => \A a \in Locks(hreq[h]) : xlock[a] = h

\* While a worker's mutation is in flight its agent is live at the worker's
\* epoch: a kill, a pause or a decision waits for the commit.  What the guard
\* endpoint answered earlier does not matter.
InFlightFenced ==
    \A w \in Workers :
        wpc[w] = "executing" =>
            LET a == AgentOf(wctx[w].task)
            IN /\ agent[a].status \in {"running", "waiting_approval"}
               /\ agent[a].epoch = wctx[w].epoch

\* Start-all is all or nothing: a busy or killed agent leaves no seed task of
\* another agent started.
StartAllWhole ==
    \A a, b \in Agents : run[a].status = "absent" <=> run[b].status = "absent"

\* A rogue run that drift containment has paused takes a further step only
\* when a resume that names the run is on record.
ContainedUntilResumed ==
    \A r \in RogueTasks :
        run[r].steps > 3 =>
            \E i \in interventions : i.cmd = "resume" /\ r \in i.tasks

\* The epoch of an agent counts its kills, of which there is at most one,
\* whatever duplicates and retries arrive, and each is on record.
KillOnRecord ==
    \A a \in Agents :
        LET kills == {i \in interventions : i.cmd = "kill" /\ i.agent = a}
        IN /\ agent[a].status = "killed" <=> kills # {}
           /\ agent[a].epoch = IF kills = {} THEN 0 ELSE 1
           /\ \A i, j \in kills : i = j

\* An idempotency key has one effect, also when two requests with it have both
\* read, before either held the agent row, that it is new.
OncePerKey == \A i, j \in interventions : i.key = j.key => i = j

\* The probe that follows the kill of a rogue run never gets through the fence,
\* however late it comes, and evidence of a denial names a killed run only.
ProbeDenied ==
    /\ leaked = {}
    /\ \A r \in denied : run[r].status = "killed"

-----------------------------------------------------------------------------
(* Safety: what a step may never do. *)

\* Once killed, an agent, its runs, their approvals and their gated effects
\* never change again.
KillTerminal ==
    [][\A a \in Agents : agent[a].status = "killed" =>
         /\ agent'[a] = agent[a]
         /\ \A r \in Tasks : AgentOf(r) = a =>
              /\ run'[r] = run[r]
              /\ approval'[r] = approval[r]
              /\ action'[r] = action[r]
              /\ effects'[r] = effects[r]]_vars

\* A paused or killed agent records no step and applies no gated mutation,
\* though a viewer listed it as running or a decision was already on its way.
HaltedIsInert ==
    [][\A r \in Tasks :
         agent[AgentOf(r)].status \in {"paused", "killed"} =>
            run'[r].steps = run[r].steps /\ effects'[r] = effects[r]]_vars

\* Two open streams never take two steps of a run within five seconds: a step
\* of a running run consumes the window it found open.
OneStepPerWindow ==
    [][\A r \in Tasks :
         run[r].status = "running" /\ run'[r].steps > run[r].steps =>
            /\ run'[r].steps = run[r].steps + 1
            /\ r \in due /\ r \notin due']_vars

-----------------------------------------------------------------------------
(* Liveness. *)

\* Requests and workers have come to rest.
Quiet ==
    /\ \A h \in Handlers : hpc[h] = "idle"
    /\ \A w \in Workers : wpc[w] # "executing"

\* Once operators leave the workspace alone and the open streams stay open (at
\* least one of them; nobody reconnects forever in the middle of a step), every
\* running run ends its script: it completes, waits for approval or is paused.
Progress ==
    (<>[]Quiet /\ \E S \in SUBSET Viewers \ {{}} : <>[](open = S))
        => \A r \in Tasks : (run[r].status = "running") ~> (run[r].status # "running")

-----------------------------------------------------------------------------
(* Refinement. *)

\* The fleet as the console shows it: an agent's mode is the status of its row,
\* what it has in hand is its active run, and a run that is neither absent nor
\* active is over.
ShownOwner == [r \in Tasks |-> AgentOf(r)]
ShownMode  == [a \in Agents |-> agent[a].status]
ShownHand  == [a \in Agents |-> Context(a)]
ShownOver  == {r \in Tasks : run[r].status \notin Active \cup {"absent"}}
ShownWork  == [r \in Tasks |-> run[r].steps]
ShownAsked == {r \in Tasks : approval[r] = "pending"}

Promise == INSTANCE Fleet WITH
    Jobs <- Tasks, Owner <- ShownOwner, mode <- ShownMode, hand <- ShownHand,
    over <- ShownOver, work <- ShownWork, asked <- ShownAsked, applied <- effects

\* Whatever requests, streams, workers and crashes interleave, operators see a
\* fleet of agents that start, work, ask, pause, go on and are killed one step
\* at a time: every transaction is one step of the promise or none.
ImplementsFleet == Promise!Spec

-----------------------------------------------------------------------------
(* What docs/OPERATIONS_MODEL.md says of resume; the code does otherwise. *)

\* "Resume requires a paused non-killed run and no unresolved blocking
\* approval": a resume that takes effect found its agent paused and no
\* approval of the run pending.
ResumeNeedsDecidedGate ==
    [][\A i \in interventions' \ interventions : i.cmd = "resume" =>
         /\ agent[i.agent].status = "paused"
         /\ \A r \in i.tasks : approval[r] # "pending"]_vars

=============================================================================
