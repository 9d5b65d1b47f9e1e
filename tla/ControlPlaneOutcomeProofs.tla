---------------------- MODULE ControlPlaneOutcomeProofs ----------------------
(***************************************************************************)
(* What operators rely on: a kill is terminal and counted once, a halted   *)
(* agent is inert, an idempotency key has one effect; the approval gate is *)
(* neither lost nor left behind, and the gated mutation is applied exactly *)
(* as often as its approval is approved.                                   *)
(***************************************************************************)
EXTENDS ControlPlaneRowProofs

USE DEF Statuses, Active

\* A step on the run of an agent finds the agent running, at its gate or idle.
LEMMA ActiveAgent ==
    ASSUME RowsSound, NEW r \in Tasks, run[r].status \in Active
    PROVE  agent[AgentOf(r)].status = run[r].status
  BY DEF RowsSound, RowsAgree

\* The steps that complete or move run s leave the other agents' rows alone.
LEMMA StepOfOneRun ==
    ASSUME TypeOK, RowsSound, NEW s \in Tasks,
           \/ Finishes(s)
           \/ Decides(s, "approved", "succeeded", 1)
           \/ Decides(s, "rejected", "cancelled", 0)
           \/ \E status \in Statuses : Moves(s, status)
           \/ Gates(s)
    PROVE  /\ run[s].status \in {"running", "waiting_approval"}
           /\ agent[AgentOf(s)].status \in {"running", "waiting_approval"}
           /\ agent'[AgentOf(s)].status # "killed"
           /\ \A a \in Agents : agent'[a].epoch = agent[a].epoch
           /\ \A a \in Agents \ {AgentOf(s)} : agent'[a] = agent[a]
           /\ \A r \in Tasks \ {s} : /\ run'[r] = run[r]
                                     /\ approval'[r] = approval[r]
                                     /\ action'[r] = action[r]
                                     /\ effects'[r] = effects[r]
           /\ UNCHANGED interventions
<1>1. /\ run[s].status \in {"running", "waiting_approval"}
      /\ UNCHANGED interventions
  BY DEF Finishes, Decides, Moves, Gates
<1>2. agent[AgentOf(s)].status \in {"running", "waiting_approval"}
  BY <1>1, ActiveAgent
<1>3. \A r \in Tasks \ {s} : /\ approval'[r] = approval[r]
                             /\ action'[r] = action[r]
                             /\ effects'[r] = effects[r]
  BY DEF Finishes, Decides, Moves, Gates, TypeOK
<1>4. CASE Complete(s)
  BY <1>1, <1>2, <1>3, <1>4, CompleteRows
<1>5. ASSUME NEW status \in {"running", "paused", "waiting_approval"},
             NEW drift \in 0..100, MoveAll(AgentOf(s), s, status, drift)
      PROVE  /\ agent'[AgentOf(s)].status # "killed"
             /\ \A a \in Agents : agent'[a].epoch = agent[a].epoch
             /\ \A a \in Agents \ {AgentOf(s)} : agent'[a] = agent[a]
             /\ \A r \in Tasks \ {s} : run'[r] = run[r]
  <2>1. status \in Statuses /\ status # "killed"
    OBVIOUS
  <2> HIDE DEF Statuses, Active
  <2> QED
    BY <1>5, <2>1, MoveAllRows
<1>6. CASE \E status \in {"running", "paused", "waiting_approval"}, drift \in 0..100 :
             MoveAll(AgentOf(s), s, status, drift)
  BY <1>1, <1>2, <1>3, <1>5, <1>6
<1> QED
  BY <1>4, <1>6 DEF Finishes, Decides, Moves, Gates

-----------------------------------------------------------------------------
(* A kill is terminal.                                                     *)

\* No step changes the rows of a killed agent.
LEMMA KillTerminalStep ==
    ASSUME TypeOK, RowsSound, [Next]_vars,
           NEW a \in Agents, agent[a].status = "killed"
    PROVE  /\ agent'[a] = agent[a]
           /\ \A r \in Tasks : AgentOf(r) = a =>
                /\ run'[r] = run[r]
                /\ approval'[r] = approval[r]
                /\ action'[r] = action[r]
                /\ effects'[r] = effects[r]
<1>1. \A r \in Tasks : AgentOf(r) = a => run[r].status \notin Active
  BY DEF RowsSound, RowsAgree
<1>2. CASE Rests
  BY <1>1, <1>2 DEF Rests
<1>3. ASSUME NEW R \in SUBSET Tasks, Starts(R)
      PROVE  /\ agent'[a] = agent[a]
             /\ \A r \in Tasks : AgentOf(r) = a => run'[r] = run[r]
             /\ UNCHANGED <<approval, action, effects>>
  <2>1. \A r \in R : AgentOf(r) # a
    BY <1>3 DEF Starts
  <2> QED
    BY <1>3, <2>1, BeginRows DEF Starts
<1>4. ASSUME NEW h \in Handlers, Intervenes(h)
      PROVE  /\ agent'[a] = agent[a]
             /\ \A r \in Tasks : AgentOf(r) = a =>
                  run'[r] = run[r] /\ approval'[r] = approval[r]
             /\ UNCHANGED <<action, effects>>
  <2> DEFINE b == hreq[h].target
  <2>1. /\ b \in Agents /\ agent[b].status \in Active
        /\ \A c \in Agents \ {b} : agent'[c] = agent[c]
        /\ \A r \in Tasks \ Context(b) : run'[r] = run[r]
    BY <1>4, IntervenedRows
  <2>2. a # b /\ \A r \in Tasks : AgentOf(r) = a => r \notin Context(b)
    BY <2>1 DEF Context
  <2>3. /\ \A r \in Tasks : r \notin Context(b) => approval'[r] = approval[r]
        /\ UNCHANGED <<action, effects>>
    BY <1>4 DEF Intervenes, Intervene
  <2> HIDE DEF b
  <2> QED
    BY <2>1, <2>2, <2>3
<1>5. ASSUME NEW s \in Tasks,
             \/ Finishes(s)
             \/ Decides(s, "approved", "succeeded", 1)
             \/ Decides(s, "rejected", "cancelled", 0)
             \/ \E status \in Statuses : Moves(s, status)
             \/ Gates(s)
      PROVE  /\ agent'[a] = agent[a]
             /\ \A r \in Tasks : AgentOf(r) = a =>
                  /\ run'[r] = run[r]
                  /\ approval'[r] = approval[r]
                  /\ action'[r] = action[r]
                  /\ effects'[r] = effects[r]
  <2>1. AgentOf(s) # a
    BY <1>5, StepOfOneRun
  <2> QED
    BY <1>5, <2>1, StepOfOneRun
<1> QED
  BY <1>2, <1>3, <1>4, <1>5, Classification DEF RowStep

\* Once killed, an agent, its runs, their approvals and their gated effects
\* never change again, whichever requests and streams were already under way.
THEOREM KillIsTerminal == Spec => KillTerminal
<1>1. TypeOK /\ RowsSound /\ [Next]_vars =>
        [\A a \in Agents : agent[a].status = "killed" =>
           /\ agent'[a] = agent[a]
           /\ \A r \in Tasks : AgentOf(r) = a =>
                /\ run'[r] = run[r]
                /\ approval'[r] = approval[r]
                /\ action'[r] = action[r]
                /\ effects'[r] = effects[r]]_vars
  BY KillTerminalStep
<1> QED
  BY <1>1, TypeInit, TypeStep, RowsInit, RowsStep, PTL DEF Spec, KillTerminal

-----------------------------------------------------------------------------
(* A halted agent is inert.                                                *)

\* No step advances a run of a paused or killed agent.
LEMMA HaltedStep ==
    ASSUME TypeOK, RowsSound, [Next]_vars,
           NEW r \in Tasks, agent[AgentOf(r)].status \in {"paused", "killed"}
    PROVE  run'[r].steps = run[r].steps /\ effects'[r] = effects[r]
<1>1. CASE Rests
  BY <1>1, ActiveAgent DEF Rests
<1>2. ASSUME NEW R \in SUBSET Tasks, Starts(R)
      PROVE  run'[r].steps = run[r].steps /\ effects'[r] = effects[r]
  BY <1>2, BeginRows DEF Starts
<1>3. ASSUME NEW h \in Handlers, Intervenes(h)
      PROVE  run'[r].steps = run[r].steps /\ effects'[r] = effects[r]
  BY <1>3, IntervenedRows DEF Intervenes, Intervene
<1>4. ASSUME NEW s \in Tasks,
             \/ Finishes(s)
             \/ Decides(s, "approved", "succeeded", 1)
             \/ Decides(s, "rejected", "cancelled", 0)
             \/ \E status \in Statuses : Moves(s, status)
             \/ Gates(s)
      PROVE  run'[r].steps = run[r].steps /\ effects'[r] = effects[r]
  <2>1. s # r
    BY <1>4, StepOfOneRun
  <2> QED
    BY <1>4, <2>1, StepOfOneRun
<1> QED
  BY <1>1, <1>2, <1>3, <1>4, Classification DEF RowStep

\* A paused or killed agent records no step and applies no gated mutation.
THEOREM HaltedStaysInert == Spec => HaltedIsInert
<1>1. TypeOK /\ RowsSound /\ [Next]_vars =>
        [\A r \in Tasks : agent[AgentOf(r)].status \in {"paused", "killed"} =>
           run'[r].steps = run[r].steps /\ effects'[r] = effects[r]]_vars
  BY HaltedStep
<1> QED
  BY <1>1, TypeInit, TypeStep, RowsInit, RowsStep, PTL DEF Spec, HaltedIsInert

-----------------------------------------------------------------------------
(* Interventions on record.                                                *)

\* Only an intervention kills, counts an epoch or is put on record.
LEMMA OnlyInterventions ==
    ASSUME TypeOK, RowsSound, RowStep, \A h \in Handlers : ~Intervenes(h)
    PROVE  /\ UNCHANGED interventions
           /\ \A a \in Agents :
                /\ agent'[a].epoch = agent[a].epoch
                /\ agent'[a].status = "killed" <=> agent[a].status = "killed"
<1>1. CASE Rests
  BY <1>1 DEF Rests
<1>2. ASSUME NEW R \in SUBSET Tasks, Starts(R)
      PROVE  /\ UNCHANGED interventions
             /\ \A a \in Agents :
                  /\ agent'[a].epoch = agent[a].epoch
                  /\ agent'[a].status = "killed" <=> agent[a].status = "killed"
  BY <1>2, BeginRows DEF Starts
<1>3. ASSUME NEW s \in Tasks,
             \/ Finishes(s)
             \/ Decides(s, "approved", "succeeded", 1)
             \/ Decides(s, "rejected", "cancelled", 0)
             \/ \E status \in Statuses : Moves(s, status)
             \/ Gates(s)
      PROVE  /\ UNCHANGED interventions
             /\ \A a \in Agents :
                  /\ agent'[a].epoch = agent[a].epoch
                  /\ agent'[a].status = "killed" <=> agent[a].status = "killed"
  BY <1>3, StepOfOneRun
<1> QED
  BY <1>1, <1>2, <1>3 DEF RowStep

\* The row an intervention puts on record.
LEMMA Recorded ==
    ASSUME NEW h \in Handlers, Intervenes(h)
    PROVE  \E i : /\ interventions' = interventions \cup {i}
                  /\ i.key = hreq[h].key /\ i.cmd = hreq[h].cmd
                  /\ i.agent = hreq[h].target
                  /\ \A j \in interventions : j.key # i.key
<1> DEFINE q == hreq[h]
           a == q.target
           i == [key |-> q.key, cmd |-> q.cmd, agent |-> a, tasks |-> Context(a),
                 epoch |-> NewEpoch(q.cmd, agent[a].epoch)]
<1>1. interventions' = interventions \cup {i}
  BY DEF Intervenes, Intervene
<1>2. i.key = q.key /\ i.cmd = q.cmd /\ i.agent = a
  OBVIOUS
<1>3. \A j \in interventions : j.key # q.key
  BY DEF Intervenes, Intervene, MayIntervene, KeyFree, KeyUsed
<1> HIDE DEF i
<1> QED
  BY <1>1, <1>2, <1>3

\* No key is used initially.
LEMMA KeyInit == Init => OncePerKey
  BY DEF Init, OncePerKey

\* OncePerKey is kept: an intervention checks its key under the lock.
LEMMA KeyStep == TypeOK /\ RowsSound /\ OncePerKey /\ [Next]_vars => OncePerKey'
<1> SUFFICES ASSUME TypeOK, RowsSound, OncePerKey, RowStep PROVE OncePerKey'
  BY Classification
<1>1. ASSUME NEW h \in Handlers, Intervenes(h) PROVE OncePerKey'
  BY <1>1, Recorded DEF OncePerKey
<1>2. CASE \A h \in Handlers : ~Intervenes(h)
  BY <1>2, OnlyInterventions DEF OncePerKey
<1> QED
  BY <1>1, <1>2

\* An idempotency key has one effect, also when two requests with the key have
\* both read that it is new.
THEOREM KeysAreIdempotent == Spec => []OncePerKey
  BY TypeInit, TypeStep, RowsInit, RowsStep, KeyInit, KeyStep, PTL DEF Spec

\* There are no kills initially.
LEMMA KillCountInit == Init => KillOnRecord
<1> SUFFICES ASSUME Init PROVE KillOnRecord
  OBVIOUS
<1>1. interventions = {} /\ \A a \in Agents : agent[a].status = "idle" /\ agent[a].epoch = 0
  BY DEF Init
<1> QED
  BY <1>1 DEF KillOnRecord

\* KillOnRecord is kept: a kill raises the epoch and writes its record at once.
LEMMA KillCountStep == TypeOK /\ RowsSound /\ KillOnRecord /\ [Next]_vars => KillOnRecord'
<1> SUFFICES ASSUME TypeOK, RowsSound, KillOnRecord, RowStep PROVE KillOnRecord'
  BY Classification
<1> DEFINE Kills(a) == {i \in interventions : i.cmd = "kill" /\ i.agent = a}
<1>0. \A a \in Agents : /\ agent[a].status = "killed" <=> Kills(a) # {}
                        /\ agent[a].epoch = IF Kills(a) = {} THEN 0 ELSE 1
                        /\ \A i, j \in Kills(a) : i = j
  BY DEF KillOnRecord
<1>1. ASSUME NEW h \in Handlers, Intervenes(h), NEW a \in Agents
      PROVE  /\ agent'[a].status = "killed" <=> Kills(a)' # {}
             /\ agent'[a].epoch = IF Kills(a)' = {} THEN 0 ELSE 1
             /\ \A i, j \in Kills(a)' : i = j
  <2> DEFINE b == hreq[h].target
  <2>1. PICK i : /\ interventions' = interventions \cup {i}
                 /\ i.cmd = hreq[h].cmd /\ i.agent = b
    BY <1>1, Recorded
  <2>2. /\ b \in Agents /\ agent[b].status \in Active
        /\ agent'[b].status = "killed" <=> hreq[h].cmd = "kill"
        /\ agent'[b].epoch = NewEpoch(hreq[h].cmd, agent[b].epoch)
        /\ \A c \in Agents \ {b} : agent'[c] = agent[c]
    BY <1>1, IntervenedRows
  <2> HIDE DEF b
  <2>3. CASE a = b /\ hreq[h].cmd = "kill"
    <3>1. Kills(a) = {} /\ agent[a].epoch = 0
      BY <1>0, <2>2, <2>3
    <3>2. Kills(a)' = {i}
      BY <2>1, <2>3, <3>1
    <3>3. agent'[a].epoch = 1
      BY <2>2, <2>3, <3>1 DEF NewEpoch
    <3> QED
      BY <2>2, <2>3, <3>2, <3>3
  <2>4. CASE a = b /\ hreq[h].cmd # "kill"
    <3>1. Kills(a)' = Kills(a)
      BY <2>1, <2>4
    <3>2. agent'[a].epoch = agent[a].epoch /\ agent[a].status # "killed"
      BY <2>2, <2>4 DEF NewEpoch
    <3> QED
      BY <1>0, <2>2, <2>4, <3>1, <3>2
  <2>5. CASE a # b
    <3>1. Kills(a)' = Kills(a)
      BY <2>1, <2>5
    <3> QED
      BY <1>0, <2>2, <2>5, <3>1
  <2> QED
    BY <2>3, <2>4, <2>5
<1>2. CASE \A h \in Handlers : ~Intervenes(h)
  <2>1. \A a \in Agents : Kills(a)' = Kills(a)
    BY <1>2, OnlyInterventions
  <2> QED
    BY <1>0, <1>2, <2>1, OnlyInterventions DEF KillOnRecord
<1>3. CASE \E h \in Handlers : Intervenes(h)
  BY <1>1, <1>3 DEF KillOnRecord
<1> QED
  BY <1>2, <1>3

\* The epoch of an agent counts its kills, of which there is at most one, and
\* each is on record, whatever duplicates and retries arrive.
THEOREM KillsAreCounted == Spec => []KillOnRecord
  BY TypeInit, TypeStep, RowsInit, RowsStep, KillCountInit, KillCountStep, PTL DEF Spec

-----------------------------------------------------------------------------
(* The stale worker of a killed run.  Inductive with the fact that a context *)
(* kept for a probe is one of a killed run.                                  *)

StaleIsKilled ==
    \A h \in Handlers : \A c \in hstale[h] : run[c.task].status = "killed"

\* A killed run stays killed in every kind of change to rows.
LEMMA KilledRunStays ==
    ASSUME TypeOK, RowsSound, RowStep, NEW r \in Tasks, run[r].status = "killed"
    PROVE  run'[r].status = "killed"
<1>1. CASE Rests
  BY <1>1 DEF Rests
<1>2. ASSUME NEW R \in SUBSET Tasks, Starts(R) PROVE run'[r].status = "killed"
  BY <1>2, BeginRows DEF Starts
<1>3. ASSUME NEW h \in Handlers, Intervenes(h) PROVE run'[r].status = "killed"
  BY <1>3, IntervenedRows DEF Context
<1>4. ASSUME NEW s \in Tasks,
             \/ Finishes(s)
             \/ Decides(s, "approved", "succeeded", 1)
             \/ Decides(s, "rejected", "cancelled", 0)
             \/ \E status \in Statuses : Moves(s, status)
             \/ Gates(s)
      PROVE  run'[r].status = "killed"
  BY <1>4, StepOfOneRun
<1> QED
  BY <1>1, <1>2, <1>3, <1>4 DEF RowStep

\* The contexts of a kill are those of the runs it ends.
LEMMA StaleOfKill ==
    ASSUME TypeOK, RowsSound, NEW h \in Handlers, Kill(h),
           NEW c \in StaleContexts(hreq[h].target)
    PROVE  run'[c.task].status = "killed"
<1>1. hreq[h].cmd = "kill" /\ Intervene(h)
  BY DEF Kill, Locked
<1>2. hreq[h].target \in Agents /\ hreq[h].key \in Keys
  BY <1>1, RequestTarget DEF TypeOK, Interventions
<1>3. approval' = [r \in Tasks |->
                     IF hreq[h].cmd = "kill" /\ r \in Context(hreq[h].target)
                     THEN CancelledApproval(approval[r]) ELSE approval[r]]
  BY <1>1 DEF Kill
<1>4. Intervenes(h)
  BY <1>1, <1>2, <1>3 DEF Intervenes, Interventions
<1>5. c.task \in Context(hreq[h].target)
  BY DEF StaleContexts
<1> QED
  BY <1>1, <1>4, <1>5, IntervenedRows

\* There are no probes initially.
LEMMA ProbeInit == Init => ProbeDenied /\ StaleIsKilled
  BY DEF Init, ProbeDenied, StaleIsKilled

\* A probe of a killed run's context leaks nothing, and what is kept to probe is killed.
LEMMA ProbeStep ==
    TypeOK /\ RowsSound /\ ProbeDenied /\ StaleIsKilled /\ [Next]_vars
        => ProbeDenied' /\ StaleIsKilled'
<1> SUFFICES ASSUME TypeOK, RowsSound, ProbeDenied, StaleIsKilled, [Next]_vars
             PROVE  ProbeDenied' /\ StaleIsKilled'
  OBVIOUS
<1>0. /\ \A r \in Tasks : run[r].status = "killed" => run'[r].status = "killed"
      /\ \A h \in Handlers : \A c \in hstale[h] : c.task \in Tasks
      /\ denied \subseteq Tasks
  BY KilledRunStays, Classification DEF TypeOK, Contexts
<1>1. ASSUME NEW h \in Handlers, Kill(h) PROVE ProbeDenied' /\ StaleIsKilled'
  <2>1. /\ UNCHANGED evidence
        /\ hstale' = [hstale EXCEPT ![h] = StaleContexts(hreq[h].target)]
    BY <1>1 DEF Kill, Intervene
  <2>2. \A c \in StaleContexts(hreq[h].target) : run'[c.task].status = "killed"
    BY <1>1, StaleOfKill
  <2> QED
    BY <1>0, <2>1, <2>2 DEF ProbeDenied, StaleIsKilled, evidence, TypeOK
<1>2. ASSUME NEW h \in Handlers, Probe(h) PROVE ProbeDenied' /\ StaleIsKilled'
  <2>1. PICK c \in hstale[h] :
          IF FencePasses(c.task, c.epoch)
          THEN leaked' = leaked \cup {c.task}
          ELSE UNCHANGED <<leaked, hstale>>
    BY <1>2 DEF Probe
  <2>2. ~FencePasses(c.task, c.epoch)
    BY DEF StaleIsKilled, FencePasses
  <2> QED
    BY <1>0, <1>2, <2>1, <2>2 DEF Probe, ProbeDenied, StaleIsKilled
<1>3. ASSUME NEW h \in Handlers, RecordDenial(h) PROVE ProbeDenied' /\ StaleIsKilled'
  <2>1. PICK c \in hstale[h] : denied' = denied \cup {c.task}
    BY <1>3 DEF RecordDenial
  <2>2. \A g \in Handlers : hstale'[g] \subseteq hstale[g]
    BY <1>3 DEF RecordDenial, TypeOK
  <2> QED
    BY <1>0, <1>3, <2>1, <2>2 DEF RecordDenial, ProbeDenied, StaleIsKilled
<1>4. ASSUME UNCHANGED evidence, \A h \in Handlers : hstale'[h] \subseteq hstale[h]
      PROVE  ProbeDenied' /\ StaleIsKilled'
  BY <1>0, <1>4 DEF ProbeDenied, StaleIsKilled, evidence
<1>5. ASSUME NEW h \in Handlers, Respond(h), UNCHANGED evidence
      PROVE  ProbeDenied' /\ StaleIsKilled'
  BY <1>4, <1>5 DEF Respond, TypeOK
<1>6. ASSUME NEW h \in Handlers, HandlerNext(h) PROVE ProbeDenied' /\ StaleIsKilled'
  <2>1. CASE HandlerCommit(h)
    BY <1>1, <1>2, <1>3, <1>5, <2>1
       DEF HandlerCommit, StartAll, StartRogue, Pause, Resume, Approve, AppliedMutation, Reject,
           Decide, Intervene, Refuse
  <2> QED
    BY <1>4, <1>5, <1>6, <2>1
       DEF HandlerNext, ReceiveStartAll, ReceiveStartRogue, ReceiveIntervention,
           ReceiveDecision, Serve, LockAgents, Crash
<1>7. ASSUME NEW v \in Viewers, ViewerNext(v) PROVE ProbeDenied' /\ StaleIsKilled'
  BY <1>4, <1>7
     DEF ViewerNext, ViewerCommit, Open, Close, Poll, LockCandidate, SkipLocked,
         NothingDue, StepTool, StepFinish, StepGate, StepWarn, StepContain, BlockedProposal, Visited,
         handler
<1>8. ASSUME NEW w \in Workers, WorkerNext(w) PROVE ProbeDenied' /\ StaleIsKilled'
  BY <1>4, <1>8 DEF WorkerNext, Dispatch, GuardTool, ExecuteTool, EndTool, handler
<1> QED
  BY <1>4, <1>6, <1>7, <1>8 DEF Next, Tick, vars, handler

\* The probe with the epoch of before the kill never passes the fence, and
\* evidence of a denial names a killed run only.
THEOREM StaleWorkerDenied == Spec => []ProbeDenied
  BY TypeInit, TypeStep, RowsInit, RowsStep, ProbeInit, ProbeStep, PTL DEF Spec

-----------------------------------------------------------------------------
(* The gate.                                                               *)

\* The types of the gate's rows, without the rest of TypeOK.
LEMMA ApprovalTypes ==
    ASSUME TypeOK
    PROVE  /\ approval \in [Tasks -> ApprovalStatuses]
           /\ action \in [Tasks -> [status : ActionStatuses, epoch : Nat]]
           /\ effects \in [Tasks -> Nat]
  BY DEF TypeOK

\* A landing at the gate is that of the run whose approval is pending.
LEMMA LandsAtGate ==
    ASSUME TypeOK, RowsSound, NEW h \in Handlers, Intervenes(h),
           NEW r \in Context(hreq[h].target)
    PROVE  LET to == Landing(hreq[h].cmd, hreq[h].target)
           IN  /\ to = "waiting_approval" => approval[r] = "pending"
               /\ approval[r] = "pending" =>
                    to \in {"waiting_approval", "paused", "killed"}
<1> DEFINE a == hreq[h].target
<1>1. \A s \in Context(a) : s = r
  BY DEF RowsSound, OneActiveRun, Context
<1>2. hreq[h].cmd \in Interventions
  BY DEF Intervenes
<1> QED
  BY <1>1, <1>2, Goals DEF Landing, Interventions

\* No run waits and no approval is pending initially.
LEMMA GateInit == Init => GateSound
<1> SUFFICES ASSUME Init PROVE GateSound
  OBVIOUS
<1>1. \A r \in Tasks : run[r].status = "absent" /\ approval[r] = "none"
  BY DEF Init
<1> QED
  BY <1>1 DEF GateSound

\* GateSound is kept, one kind of change to rows at a time.
LEMMA GateStep == TypeOK /\ RowsSound /\ GateSound /\ [Next]_vars => GateSound'
<1> SUFFICES ASSUME TypeOK, RowsSound, GateSound, RowStep, NEW r \in Tasks
             PROVE  /\ run'[r].status = "waiting_approval" => approval'[r] = "pending"
                    /\ approval'[r] = "pending" =>
                         /\ run'[r].status \in {"waiting_approval", "paused"}
                         /\ action'[r] = [status |-> "waiting_approval",
                                          epoch |-> agent'[AgentOf(r)].epoch]
  BY Classification DEF GateSound
<1>0. /\ run[r].status = "waiting_approval" => approval[r] = "pending"
      /\ approval[r] = "pending" =>
           /\ run[r].status \in {"waiting_approval", "paused"}
           /\ action[r] = [status |-> "waiting_approval",
                           epoch |-> agent[AgentOf(r)].epoch]
      /\ AgentOf(r) \in Agents
  BY AgentOfTask DEF GateSound
<1>1. CASE Rests
  BY <1>0, <1>1 DEF Rests
<1>2. ASSUME NEW R \in SUBSET Tasks, Starts(R)
      PROVE  /\ run'[r].status = "waiting_approval" => approval'[r] = "pending"
             /\ approval'[r] = "pending" =>
                  /\ run'[r].status \in {"waiting_approval", "paused"}
                  /\ action'[r] = [status |-> "waiting_approval",
                                   epoch |-> agent'[AgentOf(r)].epoch]
  BY <1>0, <1>2, BeginRows DEF Starts
<1>3. ASSUME NEW h \in Handlers, Intervenes(h)
      PROVE  /\ run'[r].status = "waiting_approval" => approval'[r] = "pending"
             /\ approval'[r] = "pending" =>
                  /\ run'[r].status \in {"waiting_approval", "paused"}
                  /\ action'[r] = [status |-> "waiting_approval",
                                   epoch |-> agent'[AgentOf(r)].epoch]
  <2> DEFINE a  == hreq[h].target
             to == Landing(hreq[h].cmd, a)
  <2>1. /\ a \in Agents
        /\ to = "killed" <=> hreq[h].cmd = "kill"
        /\ agent'[a].epoch = NewEpoch(hreq[h].cmd, agent[a].epoch)
        /\ \A b \in Agents \ {a} : agent'[b] = agent[b]
        /\ \A s \in Context(a) : run'[s].status = to
        /\ \A s \in Tasks \ Context(a) : run'[s] = run[s]
    BY <1>3, IntervenedRows
  <2>2. /\ action' = action
        /\ approval'[r] = IF hreq[h].cmd = "kill" /\ r \in Context(a)
                          THEN CancelledApproval(approval[r]) ELSE approval[r]
    BY <1>3 DEF Intervenes, Intervene
  <2>3. CASE r \in Context(a)
    <3>1. /\ to = "waiting_approval" => approval[r] = "pending"
          /\ approval[r] = "pending" => to \in {"waiting_approval", "paused", "killed"}
          /\ AgentOf(r) = a
      BY <1>3, <2>3, LandsAtGate DEF Context
    <3> HIDE DEF a, to
    <3>2. CASE hreq[h].cmd = "kill"
      BY <2>1, <2>2, <2>3, <3>2 DEF CancelledApproval
    <3>3. CASE hreq[h].cmd # "kill"
      <4>1. agent'[a].epoch = agent[a].epoch
        BY <2>1, <3>3 DEF NewEpoch
      <4> QED
        BY <1>0, <2>1, <2>2, <2>3, <3>1, <3>3, <4>1
    <3> QED
      BY <3>2, <3>3
  <2>4. CASE r \notin Context(a)
    <3> HIDE DEF a, to
    <3>1. run'[r] = run[r] /\ approval'[r] = approval[r]
      BY <2>1, <2>2, <2>4
    <3>2. approval[r] = "pending" => agent'[AgentOf(r)].epoch = agent[AgentOf(r)].epoch
      BY <1>0, <2>1, <2>4 DEF Context
    <3> QED
      BY <1>0, <2>2, <3>1, <3>2
  <2> QED
    BY <2>3, <2>4
<1>4. ASSUME NEW s \in Tasks, s # r,
             \/ Finishes(s)
             \/ Decides(s, "approved", "succeeded", 1)
             \/ Decides(s, "rejected", "cancelled", 0)
             \/ \E status \in Statuses : Moves(s, status)
             \/ Gates(s)
      PROVE  /\ run'[r].status = "waiting_approval" => approval'[r] = "pending"
             /\ approval'[r] = "pending" =>
                  /\ run'[r].status \in {"waiting_approval", "paused"}
                  /\ action'[r] = [status |-> "waiting_approval",
                                   epoch |-> agent'[AgentOf(r)].epoch]
  BY <1>0, <1>4, StepOfOneRun
<1>5. CASE Finishes(r)
  BY <1>0, <1>5, CompleteRows DEF Finishes
<1>6. CASE Decides(r, "approved", "succeeded", 1) \/ Decides(r, "rejected", "cancelled", 0)
  BY <1>6, CompleteRows, ApprovalTypes DEF Decides
<1>7. ASSUME NEW status \in Statuses, Moves(r, status)
      PROVE  run'[r].status # "waiting_approval" /\ approval'[r] # "pending"
  BY <1>0, <1>7, MoveAllRows DEF Moves
<1>8. CASE Gates(r)
  <2>1. run'[r].status = "waiting_approval"
        /\ agent'[AgentOf(r)].epoch = agent[AgentOf(r)].epoch
    BY <1>0, <1>8, MoveAllRows DEF Gates
  <2>2. /\ approval'[r] = "pending"
        /\ action'[r] = [status |-> "waiting_approval", epoch |-> agent[AgentOf(r)].epoch]
    BY <1>8, ApprovalTypes DEF Gates
  <2> QED
    BY <2>1, <2>2
<1> QED
  BY <1>1, <1>2, <1>3, <1>4, <1>5, <1>6, <1>7, <1>8 DEF RowStep

\* A run waits only for a pending approval, and a pending approval can be
\* decided and carried out: its run is live and its action at the agent's epoch.
THEOREM GateIsSound == Spec => []GateSound
  BY TypeInit, TypeStep, RowsInit, RowsStep, GateInit, GateStep, PTL DEF Spec

-----------------------------------------------------------------------------
(* Exactly once.  Inductive with the fact that an approved run is over.    *)

ApprovedRunOver ==
    \A r \in Tasks : approval[r] = "approved" => run[r].status = "completed"

\* Nothing is approved or applied initially.
LEMMA OnceInit == Init => ExactlyOnce /\ ApprovedRunOver
<1> SUFFICES ASSUME Init PROVE ExactlyOnce /\ ApprovedRunOver
  OBVIOUS
<1>1. \A r \in Tasks : approval[r] = "none" /\ action[r].status = "none" /\ effects[r] = 0
  BY DEF Init
<1> QED
  BY <1>1 DEF ExactlyOnce, ApprovedRunOver

\* ExactlyOnce is kept: only a decision applies an effect, and it ends its run.
LEMMA OnceStep ==
    TypeOK /\ RowsSound /\ ExactlyOnce /\ ApprovedRunOver /\ [Next]_vars
        => ExactlyOnce' /\ ApprovedRunOver'
<1> DEFINE Once(r) == /\ effects[r] = IF approval[r] = "approved" THEN 1 ELSE 0
                      /\ approval[r] = "approved" <=> action[r].status = "succeeded"
                      /\ approval[r] = "approved" => run[r].status = "completed"
<1> SUFFICES ASSUME TypeOK, RowsSound, ExactlyOnce, ApprovedRunOver, RowStep,
                    NEW r \in Tasks
             PROVE  Once(r)'
  BY Classification DEF ExactlyOnce, ApprovedRunOver
<1>0. Once(r)
  BY DEF ExactlyOnce, ApprovedRunOver
<1>1. CASE Rests
  BY <1>0, <1>1 DEF Rests
<1>2. ASSUME NEW R \in SUBSET Tasks, Starts(R) PROVE Once(r)'
  BY <1>0, <1>2, BeginRows DEF Starts
<1>3. ASSUME NEW h \in Handlers, Intervenes(h) PROVE Once(r)'
  <2> DEFINE a == hreq[h].target
  <2>1. /\ UNCHANGED <<action, effects>>
        /\ approval'[r] = "approved" <=> approval[r] = "approved"
    BY <1>3 DEF Intervenes, Intervene, CancelledApproval
  <2>2. run[r].status = "completed" => run'[r] = run[r]
    <3>1. \A s \in Tasks \ Context(a) : run'[s] = run[s]
      BY <1>3, IntervenedRows
    <3> QED
      BY <3>1 DEF Context
  <2> QED
    BY <1>0, <2>1, <2>2
<1>4. ASSUME NEW s \in Tasks, s # r,
             \/ Finishes(s)
             \/ Decides(s, "approved", "succeeded", 1)
             \/ Decides(s, "rejected", "cancelled", 0)
             \/ \E status \in Statuses : Moves(s, status)
             \/ Gates(s)
      PROVE  Once(r)'
  BY <1>0, <1>4, StepOfOneRun
<1>5. CASE Finishes(r)
  BY <1>0, <1>5, CompleteRows DEF Finishes
<1>6. CASE Decides(r, "approved", "succeeded", 1)
  <2>1. effects[r] = 0 /\ effects'[r] = effects[r] + 1
    BY <1>0, <1>6, ApprovalTypes DEF Decides
  <2>2. approval'[r] = "approved" /\ action'[r].status = "succeeded"
    BY <1>6, ApprovalTypes DEF Decides
  <2>3. run'[r].status = "completed"
    BY <1>6, CompleteRows DEF Decides
  <2> QED
    BY <2>1, <2>2, <2>3
<1>7. CASE Decides(r, "rejected", "cancelled", 0)
  <2>1. effects[r] = 0 /\ effects'[r] = effects[r] + 0
    BY <1>0, <1>7, ApprovalTypes DEF Decides
  <2>2. approval'[r] = "rejected" /\ action'[r].status = "cancelled"
    BY <1>7, ApprovalTypes DEF Decides
  <2> QED
    BY <2>1, <2>2
<1>8. ASSUME NEW status \in Statuses, Moves(r, status) PROVE Once(r)'
  BY <1>0, <1>8 DEF Moves
<1>9. CASE Gates(r)
  <2>1. effects'[r] = 0
    BY <1>0, <1>9 DEF Gates
  <2>2. approval'[r] = "pending" /\ action'[r].status = "waiting_approval"
    BY <1>9, ApprovalTypes DEF Gates
  <2> QED
    BY <2>1, <2>2
<1> QED
  BY <1>1, <1>2, <1>3, <1>4, <1>5, <1>6, <1>7, <1>8, <1>9 DEF RowStep

\* A gated mutation is applied once if its approval is approved and never
\* otherwise, whatever decisions, pauses and kills race for it.
THEOREM AppliedExactlyOnce == Spec => []ExactlyOnce
  BY TypeInit, TypeStep, RowsInit, RowsStep, OnceInit, OnceStep, PTL DEF Spec

-----------------------------------------------------------------------------
(* Scripts.  What a step makes of one run, with its script and its gate.   *)

\* A completion or a move is a step of the run.
LEMMA StepCounted ==
    ASSUME TypeOK, NEW r \in Tasks,
           Complete(r) \/ \E status \in Statuses, drift \in 0..100 :
                             MoveAll(AgentOf(r), r, status, drift)
    PROVE  run'[r].steps = run[r].steps + 1
<1> HIDE DEF Statuses
<1>1. run \in [Tasks -> RunRows]
  BY DEF TypeOK
<1>2. CASE Complete(r)
  BY <1>1, <1>2 DEF Complete, RunRows
<1>3. CASE \E status \in Statuses, drift \in 0..100 : MoveAll(AgentOf(r), r, status, drift)
  BY <1>1, <1>3 DEF MoveAll, RunRows
<1> QED
  BY <1>2, <1>3

\* The run is left as it is, or takes a tool step; its approval stays.
Goes(r) ==
    /\ run'[r].status = run[r].status /\ approval'[r] = approval[r]
    /\ \/ run'[r].steps = run[r].steps
       \/ /\ run[r].status = "running" /\ Scripted(r, {"tool"})
          /\ run'[r].steps = run[r].steps + 1

Begins(r) ==
    /\ run[r].status = "absent" /\ run'[r].status = "running" /\ run'[r].steps = 0
    /\ approval'[r] = approval[r]

Intervened(r) ==
    \E h \in Handlers :
        /\ Intervenes(h) /\ r \in Context(hreq[h].target)
        /\ run'[r].status = Landing(hreq[h].cmd, hreq[h].target)
        /\ run'[r].steps = run[r].steps
        /\ approval'[r] = IF hreq[h].cmd = "kill" THEN CancelledApproval(approval[r])
                          ELSE approval[r]

\* A step of the script that completes, moves or gates the run.
Advances(r) ==
    /\ run[r].status = "running" /\ run'[r].steps = run[r].steps + 1
    /\ \/ /\ approval'[r] = approval[r]
          /\ \/ Scripted(r, {"finish"}) /\ run'[r].status = "completed"
             \/ Scripted(r, {"warn"}) /\ run'[r].status = "running"
             \/ Scripted(r, {"contain"}) /\ run'[r].status = "paused"
       \/ /\ Scripted(r, {"gate"}) /\ run'[r].status = "waiting_approval"
          /\ approval'[r] = "pending"

Decided(r) ==
    /\ run[r].status = "waiting_approval" /\ run'[r].status = "completed"
    /\ approval[r] = "pending" /\ approval'[r] \in {"approved", "rejected"}
    /\ run'[r].steps = run[r].steps + 1

\* Every step is one of these to every run, and takes no intervention back.
LEMMA RunKinds ==
    ASSUME TypeOK, RowsSound, RowStep, NEW r \in Tasks
    PROVE  /\ Goes(r) \/ Begins(r) \/ Intervened(r) \/ Advances(r) \/ Decided(r)
           /\ interventions \subseteq interventions'
<1>1. CASE Rests
  BY <1>1 DEF Rests, Goes
<1>2. ASSUME NEW R \in SUBSET Tasks, Starts(R)
      PROVE  (Goes(r) \/ Begins(r)) /\ UNCHANGED interventions
  BY <1>2, BeginRows DEF Starts, Goes, Begins
<1>3. ASSUME NEW h \in Handlers, Intervenes(h)
      PROVE  (Goes(r) \/ Intervened(r)) /\ interventions \subseteq interventions'
  <2> DEFINE a  == hreq[h].target
             to == Landing(hreq[h].cmd, a)
  <2>1. /\ \A s \in Context(a) : run'[s].status = to /\ run'[s].steps = run[s].steps
        /\ \A s \in Tasks \ Context(a) : run'[s] = run[s]
    BY <1>3, IntervenedRows
  <2>2. approval'[r] = IF hreq[h].cmd = "kill" /\ r \in Context(a)
                       THEN CancelledApproval(approval[r]) ELSE approval[r]
    BY <1>3 DEF Intervenes
  <2>3. interventions \subseteq interventions'
    BY <1>3 DEF Intervenes, Intervene
  <2>4. CASE r \in Context(a)
    BY <1>3, <2>1, <2>2, <2>3, <2>4 DEF Intervened
  <2>5. CASE r \notin Context(a)
    BY <2>1, <2>2, <2>3, <2>5 DEF Goes
  <2> QED
    BY <2>4, <2>5
<1>4. ASSUME NEW s \in Tasks, s # r,
             \/ Finishes(s)
             \/ Decides(s, "approved", "succeeded", 1)
             \/ Decides(s, "rejected", "cancelled", 0)
             \/ \E status \in Statuses : Moves(s, status)
             \/ Gates(s)
      PROVE  Goes(r) /\ UNCHANGED interventions
  BY <1>4, StepOfOneRun DEF Goes
<1>5. CASE Finishes(r)
  BY <1>5, CompleteRows, StepCounted DEF Finishes, Advances
<1>6. CASE Decides(r, "approved", "succeeded", 1) \/ Decides(r, "rejected", "cancelled", 0)
  <2>1. run'[r].status = "completed" /\ run'[r].steps = run[r].steps + 1
    BY <1>6, CompleteRows, StepCounted DEF Decides
  <2>2. approval'[r] \in {"approved", "rejected"}
    BY <1>6, ApprovalTypes DEF Decides
  <2> QED
    BY <1>6, <2>1, <2>2 DEF Decides, Decided
<1>7. ASSUME NEW status \in Statuses, Moves(r, status)
      PROVE  Advances(r) /\ UNCHANGED interventions
  <2>1. PICK drift \in 0..100 : MoveAll(AgentOf(r), r, status, drift)
    BY <1>7 DEF Moves
  <2> HIDE DEF Statuses
  <2>2. run'[r].status = status /\ run'[r].steps = run[r].steps + 1
    BY <2>1, MoveAllRows, StepCounted
  <2> QED
    BY <1>7, <2>2 DEF Moves, Advances
<1>8. CASE Gates(r)
  <2>1. PICK drift \in 0..100 : MoveAll(AgentOf(r), r, "waiting_approval", drift)
    BY <1>8 DEF Gates
  <2>2. "waiting_approval" \in Statuses
    OBVIOUS
  <2> HIDE DEF Statuses
  <2>3. run'[r].status = "waiting_approval" /\ run'[r].steps = run[r].steps + 1
    BY <2>1, <2>2, MoveAllRows, StepCounted
  <2>4. approval'[r] = "pending"
    BY <1>8, ApprovalTypes DEF Gates
  <2> QED
    BY <1>8, <2>3, <2>4 DEF Gates, Advances
<1> QED
  BY <1>1, <1>2, <1>3, <1>4, <1>5, <1>6, <1>7, <1>8 DEF RowStep, Finishes, Decides

\* A resume that names the run is on record.
Resumed(r) == \E i \in interventions : i.cmd = "resume" /\ r \in i.tasks

\* A live run has a step left or waits for a decision, which only gated runs
\* do; a contained run that has not been resumed is over or does not run.
ScriptSound ==
    \A r \in Tasks :
        /\ run[r].status \in Active => Stage(r, run[r].steps) # "nothing" \/ approval[r] = "pending"
        /\ approval[r] = "pending" => r \in Gated
        /\ r \in RogueTasks /\ run[r].steps >= 3 =>
             Resumed(r) \/ (run[r].steps = 3 /\ run[r].status # "running")

\* No run has begun its script initially.
LEMMA ScriptInit == Init => ScriptSound
<1> SUFFICES ASSUME Init PROVE ScriptSound
  OBVIOUS
<1>1. \A r \in Tasks : run[r].status = "absent" /\ run[r].steps = 0 /\ approval[r] = "none"
  BY DEF Init
<1> QED
  BY <1>1 DEF ScriptSound

\* What comes after a step of a script, and what a fresh script begins with.
LEMMA Stages ==
    ASSUME NEW r \in Tasks, NEW n \in Nat
    PROVE  /\ Stage(r, 0) # "nothing"
           /\ Stage(r, n) \in {"tool", "warn", "contain"} => Stage(r, n + 1) # "nothing"
           /\ Stage(r, n) = "gate" => r \in Gated
           /\ r \in RogueTasks =>
                /\ r \notin Gated
                /\ Stage(r, n) = "tool" => n = 0
                /\ Stage(r, n) = "warn" => n = 1
                /\ Stage(r, n) = "contain" => n = 2
                /\ Stage(r, n) = "finish" => n >= 3
           /\ r \notin RogueTasks => Stage(r, n) \notin {"warn", "contain"}
<1>1. r = Infra \/ r \in Gated \/ r \in RogueTasks
  BY DEF Tasks, Agents
<1>2. /\ r \in Gated => r # Infra
      /\ r \in RogueTasks => r # Infra /\ r \notin Gated
  BY Distinct DEF Agents
<1>3. CASE r = Infra
  BY <1>2, <1>3 DEF Stage
<1>4. CASE r \in Gated
  BY <1>2, <1>4 DEF Stage
<1>5. CASE r \in RogueTasks
  BY <1>2, <1>5 DEF Stage
<1> QED
  BY <1>1, <1>3, <1>4, <1>5

\* A contained run runs again only by a resume that names it.
LEMMA ResumeRecorded ==
    ASSUME TypeOK, RowsSound, NEW r \in Tasks, Intervened(r), run'[r].status = "running"
    PROVE  Resumed(r)'
<1>1. PICK h \in Handlers :
        /\ Intervenes(h) /\ r \in Context(hreq[h].target)
        /\ run'[r].status = Landing(hreq[h].cmd, hreq[h].target)
  BY DEF Intervened
<1>2. hreq[h].cmd = "resume"
  BY <1>1, Goals DEF Intervenes, Landing, Interventions
<1> DEFINE q == hreq[h]
           i == [key |-> q.key, cmd |-> q.cmd, agent |-> q.target, tasks |-> Context(q.target),
                 epoch |-> NewEpoch(q.cmd, agent[q.target].epoch)]
<1>3. i \in interventions'
  BY <1>1 DEF Intervenes, Intervene
<1>4. i.cmd = "resume" /\ r \in i.tasks
  BY <1>1, <1>2
<1> QED
  BY <1>3, <1>4 DEF Resumed

\* ScriptSound is kept, one kind of change to rows at a time.
LEMMA ScriptStep == TypeOK /\ RowsSound /\ ScriptSound /\ [Next]_vars => ScriptSound'
<1> SUFFICES ASSUME TypeOK, RowsSound, ScriptSound, RowStep, NEW r \in Tasks
             PROVE  /\ run'[r].status \in Active =>
                         Stage(r, run'[r].steps) # "nothing" \/ approval'[r] = "pending"
                    /\ approval'[r] = "pending" => r \in Gated
                    /\ r \in RogueTasks /\ run'[r].steps >= 3 =>
                         Resumed(r)' \/ (run'[r].steps = 3 /\ run'[r].status # "running")
  BY Classification DEF ScriptSound
<1>0. /\ run[r].status \in Active => Stage(r, run[r].steps) # "nothing" \/ approval[r] = "pending"
      /\ approval[r] = "pending" => r \in Gated
      /\ r \in RogueTasks /\ run[r].steps >= 3 =>
           Resumed(r) \/ (run[r].steps = 3 /\ run[r].status # "running")
      /\ run[r].steps \in Nat
  BY DEF ScriptSound, TypeOK, RunRows
<1>1. Resumed(r) => Resumed(r)'
  BY RunKinds DEF Resumed
<1>2. CASE Goes(r)
  <2>1. CASE run'[r].steps = run[r].steps
    BY <1>0, <1>1, <1>2, <2>1 DEF Goes
  <2>2. CASE run'[r].steps # run[r].steps
    <3>1. /\ Stage(r, run[r].steps) = "tool" /\ run'[r].steps = run[r].steps + 1
          /\ approval'[r] = approval[r]
      BY <1>2, <2>2 DEF Goes, Scripted
    <3>2. Stage(r, run'[r].steps) # "nothing" /\ (r \in RogueTasks => run'[r].steps = 1)
      BY <1>0, <3>1, Stages
    <3> QED
      BY <1>0, <3>1, <3>2
  <2> QED
    BY <2>1, <2>2
<1>3. CASE Begins(r)
  BY <1>0, <1>3, Stages DEF Begins
<1>4. CASE Intervened(r)
  <2>1. /\ run'[r].steps = run[r].steps /\ run[r].status \in Active
        /\ approval'[r] = approval[r] \/ run'[r].status = "killed"
        /\ approval'[r] = "pending" => approval[r] = "pending"
    <3>1. PICK h \in Handlers :
            /\ Intervenes(h) /\ r \in Context(hreq[h].target)
            /\ run'[r].status = Landing(hreq[h].cmd, hreq[h].target)
            /\ run'[r].steps = run[r].steps
            /\ approval'[r] = IF hreq[h].cmd = "kill" THEN CancelledApproval(approval[r])
                              ELSE approval[r]
      BY <1>4 DEF Intervened
    <3>2. hreq[h].cmd = "kill" => run'[r].status = "killed"
      BY <3>1, Goals DEF Landing
    <3> QED
      BY <3>1, <3>2 DEF Context, CancelledApproval
  <2>2. run'[r].status = "running" => Resumed(r)'
    BY <1>4, ResumeRecorded
  <2> QED
    BY <1>0, <1>1, <2>1, <2>2
<1>5. CASE Advances(r)
  <2>1. /\ run[r].status = "running" /\ run'[r].steps = run[r].steps + 1
        /\ \/ /\ approval'[r] = approval[r]
              /\ \/ Stage(r, run[r].steps) = "finish" /\ run'[r].status = "completed"
                 \/ Stage(r, run[r].steps) = "warn" /\ run'[r].status = "running"
                 \/ Stage(r, run[r].steps) = "contain" /\ run'[r].status = "paused"
           \/ /\ Stage(r, run[r].steps) = "gate" /\ run'[r].status = "waiting_approval"
              /\ approval'[r] = "pending"
    BY <1>5 DEF Advances, Scripted
  <2>2. CASE Stage(r, run[r].steps) = "finish"
    <3>1. r \in RogueTasks => Resumed(r)
      BY <1>0, <2>1, <2>2, Stages
    <3> QED
      BY <1>0, <1>1, <2>1, <2>2, <3>1
  <2>3. CASE Stage(r, run[r].steps) = "warn"
    BY <1>0, <2>1, <2>3, Stages
  <2>4. CASE Stage(r, run[r].steps) = "contain"
    BY <1>0, <2>1, <2>4, Stages
  <2>5. CASE Stage(r, run[r].steps) = "gate"
    BY <1>0, <2>1, <2>5, Stages
  <2> QED
    BY <2>1, <2>2, <2>3, <2>4, <2>5
<1>6. CASE Decided(r)
  <2>1. r \notin RogueTasks
    BY <1>0, <1>6, Stages DEF Decided
  <2> QED
    BY <1>6, <2>1 DEF Decided
<1> QED
  BY <1>2, <1>3, <1>4, <1>5, <1>6, RunKinds

\* A running run of advanceDueStep always has a step left: no sequence of
\* interventions and decisions leads back into a script that is over.
THEOREM ScriptsNeverStuck == Spec => []NextStepExists
<1>1. GateSound /\ ScriptSound => NextStepExists
  BY DEF GateSound, ScriptSound, NextStepExists
<1> QED
  BY <1>1, GateIsSound, TypeInit, TypeStep, RowsInit, RowsStep, ScriptInit, ScriptStep, PTL DEF Spec

\* The steps of a script: two of the infrastructure run, five of a gated one,
\* the decision included, and four of a rogue run.
ScriptLength(r) == IF r = Infra THEN 2 ELSE IF r \in Gated THEN 5 ELSE 4

WithinScript ==
    \A r \in Tasks :
        /\ run[r].steps <= ScriptLength(r)
        /\ run[r].status \in Active => run[r].steps < ScriptLength(r)

\* A stage that leaves the run active is not the last one of its script.
LEMMA NotTheLast ==
    ASSUME NEW r \in Tasks, NEW n \in Nat,
           Stage(r, n) \in {"tool", "warn", "contain", "gate"}
    PROVE  n + 1 < ScriptLength(r)
  BY Distinct DEF Stage, ScriptLength, Tasks, Agents

\* WithinScript holds initially.
LEMMA WithinInit == Init => WithinScript
<1> SUFFICES ASSUME Init, NEW r \in Tasks
             PROVE  /\ run[r].steps <= ScriptLength(r)
                    /\ run[r].status \in Active => run[r].steps < ScriptLength(r)
  BY DEF WithinScript
<1>1. run[r].steps = 0 /\ run[r].status = "absent"
  BY DEF Init
<1>2. ScriptLength(r) \in {2, 4, 5}
  BY DEF ScriptLength
<1> QED
  BY <1>1, <1>2

\* WithinScript is kept: only stages with a successor leave a run active.
LEMMA WithinStep == TypeOK /\ RowsSound /\ WithinScript /\ [Next]_vars => WithinScript'
<1> SUFFICES ASSUME TypeOK, RowsSound, WithinScript, RowStep, NEW r \in Tasks
             PROVE  /\ run'[r].steps <= ScriptLength(r)
                    /\ run'[r].status \in Active => run'[r].steps < ScriptLength(r)
  BY Classification DEF WithinScript
<1>1. Goes(r) \/ Begins(r) \/ Intervened(r) \/ Advances(r) \/ Decided(r)
  BY RunKinds
<1>2. /\ run[r].steps \in Nat /\ ScriptLength(r) \in {2, 4, 5}
      /\ run[r].steps <= ScriptLength(r)
      /\ run[r].status \in Active => run[r].steps < ScriptLength(r)
  BY DEF TypeOK, RunRows, ScriptLength, WithinScript
<1>3. CASE Goes(r)
  <2>1. CASE run'[r].steps = run[r].steps
    BY <1>2, <1>3, <2>1 DEF Goes
  <2>2. CASE Scripted(r, {"tool"}) /\ run'[r].steps = run[r].steps + 1
    <3>1. run[r].steps + 1 < ScriptLength(r)
      BY <1>2, <2>2, NotTheLast DEF Scripted
    <3> QED
      BY <1>2, <2>2, <3>1
  <2> QED
    BY <1>3, <2>1, <2>2 DEF Goes
<1>4. CASE Begins(r)
  BY <1>2, <1>4 DEF Begins
<1>5. CASE Intervened(r)
  <2>1. run'[r].steps = run[r].steps /\ run[r].status \in Active
    BY <1>5 DEF Intervened, Context
  <2> QED
    BY <1>2, <2>1
<1>6. CASE Advances(r)
  <2>1. run[r].status = "running" /\ run'[r].steps = run[r].steps + 1
    BY <1>6 DEF Advances
  <2>2. CASE run'[r].status = "completed"
    BY <1>2, <2>1, <2>2
  <2>3. CASE run'[r].status # "completed"
    <3>1. Stage(r, run[r].steps) \in {"tool", "warn", "contain", "gate"}
      BY <1>6, <2>3 DEF Advances, Scripted
    <3>2. run[r].steps + 1 < ScriptLength(r)
      BY <1>2, <3>1, NotTheLast
    <3> QED
      BY <1>2, <2>1, <3>2
  <2> QED
    BY <2>2, <2>3
<1>7. CASE Decided(r)
  BY <1>2, <1>7 DEF Decided
<1> QED
  BY <1>1, <1>3, <1>4, <1>5, <1>6, <1>7

\* However often a run is paused, resumed and stepped by several streams, it
\* records no more steps than its script has, and an active run has one left:
\* every step is one of boundedly many, which is what its progress rests on.
THEOREM ScriptsEnd == Spec => []WithinScript
  BY TypeInit, TypeStep, RowsInit, RowsStep, WithinInit, WithinStep, PTL DEF Spec

\* A rogue run that drift has paused goes on only after a resume that names it.
THEOREM ContainmentHolds == Spec => []ContainedUntilResumed
<1>1. TypeOK /\ ScriptSound => ContainedUntilResumed
  <2> SUFFICES ASSUME TypeOK, ScriptSound, NEW r \in RogueTasks, run[r].steps > 3
               PROVE  Resumed(r)
    BY DEF ContainedUntilResumed, Resumed
  <2>1. r \in Tasks /\ run[r].steps \in Nat
    BY DEF Tasks, TypeOK, RunRows
  <2> QED
    BY <2>1 DEF ScriptSound
<1> QED
  BY <1>1, TypeInit, TypeStep, RowsInit, RowsStep, ScriptInit, ScriptStep, PTL DEF Spec

\* A step of a running run uses up the five seconds that had passed for it.
THEOREM StepsAreSpaced == Spec => OneStepPerWindow
<1>1. ASSUME TypeOK, RowsSound, [Next]_vars, NEW r \in Tasks,
             run[r].status = "running", run'[r].steps > run[r].steps
      PROVE  run'[r].steps = run[r].steps + 1 /\ r \in due /\ r \notin due'
  <2>1. Goes(r) \/ Begins(r) \/ Intervened(r) \/ Advances(r) \/ Decided(r)
    BY <1>1, Classification, RunKinds
  <2>2. run[r].steps \in Nat
    BY <1>1 DEF TypeOK, RunRows
  <2> QED
    BY <1>1, <2>1, <2>2 DEF Goes, Begins, Intervened, Advances, Decided, Scripted
<1>2. TypeOK /\ RowsSound /\ [Next]_vars =>
        [\A r \in Tasks :
           run[r].status = "running" /\ run'[r].steps > run[r].steps =>
              /\ run'[r].steps = run[r].steps + 1
              /\ r \in due /\ r \notin due']_vars
  BY <1>1
<1> QED
  BY <1>2, TypeInit, TypeStep, RowsInit, RowsStep, PTL DEF Spec, OneStepPerWindow

\* StartAllWhole is kept: only a start gives a seed task its run.
LEMMA WholeStep == TypeOK /\ RowsSound /\ StartAllWhole /\ [Next]_vars => StartAllWhole'
<1> SUFFICES ASSUME TypeOK, RowsSound, StartAllWhole, RowStep PROVE StartAllWhole'
  BY Classification
<1>1. \A a \in Agents : a \in Tasks
  BY DEF Tasks
<1>2. ASSUME NEW R \in SUBSET Tasks, Starts(R) PROVE StartAllWhole'
  <2>1. CASE R = ToStart
    <3>1. \A a \in Agents : run'[a].status # "absent"
      BY <1>1, <1>2, <2>1, BeginRows DEF Starts, ToStart
    <3> QED
      BY <3>1 DEF StartAllWhole
  <2>2. CASE R \cap Agents = {}
    <3>1. \A a \in Agents : run'[a] = run[a]
      BY <1>1, <1>2, <2>2, BeginRows DEF Starts
    <3> QED
      BY <3>1 DEF StartAllWhole
  <2> QED
    BY <1>2, <2>1, <2>2 DEF Starts, WholeOrNone
<1>3. CASE ~\E R \in SUBSET Tasks : Starts(R)
  <2>1. ASSUME NEW a \in Agents
        PROVE  run'[a].status = "absent" <=> run[a].status = "absent"
    <3>1. CASE Rests
      BY <1>1, <3>1 DEF Rests
    <3>2. ASSUME NEW h \in Handlers, Intervenes(h)
          PROVE  run'[a].status = "absent" <=> run[a].status = "absent"
      <4> DEFINE b  == hreq[h].target
                 to == Landing(hreq[h].cmd, b)
      <4>1. /\ to # "absent" /\ \A s \in Context(b) : run'[s].status = to
            /\ \A s \in Tasks \ Context(b) : run'[s] = run[s]
        BY <3>2, IntervenedRows
      <4> HIDE DEF to
      <4> QED
        BY <1>1, <4>1 DEF Context
    <3>3. ASSUME NEW s \in Tasks,
                 \/ Finishes(s)
                 \/ Decides(s, "approved", "succeeded", 1)
                 \/ Decides(s, "rejected", "cancelled", 0)
                 \/ \E status \in Statuses : Moves(s, status)
                 \/ Gates(s)
          PROVE  run'[a].status = "absent" <=> run[a].status = "absent"
      <4>1. CASE s # a
        BY <1>1, <3>3, <4>1, StepOfOneRun
      <4>2. CASE s = a
        <5>1. run[a].status # "absent"
          BY <3>3, <4>2, StepOfOneRun
        <5>2. ASSUME NEW status \in Statuses, NEW drift \in 0..100,
                     MoveAll(AgentOf(a), a, status, drift)
              PROVE  run'[a].status # "absent"
          <6>1. status # "absent"
            OBVIOUS
          <6> HIDE DEF Statuses
          <6> QED
            BY <1>1, <5>2, <6>1, MoveAllRows
        <5>3. Complete(a) => run'[a].status # "absent"
          BY <1>1, CompleteRows
        <5> QED
          BY <3>3, <4>2, <5>1, <5>2, <5>3 DEF Finishes, Decides, Moves, Gates
      <4> QED
        BY <4>1, <4>2
    <3> QED
      BY <1>3, <3>1, <3>2, <3>3 DEF RowStep
  <2> QED
    BY <2>1 DEF StartAllWhole
<1> QED
  BY <1>2, <1>3

\* startAllStepped begins the seed runs of all agents together or none.
THEOREM StartsAreWhole == Spec => []StartAllWhole
<1>1. Init => StartAllWhole
  BY DEF Init, StartAllWhole, Tasks
<1> QED
  BY <1>1, TypeInit, TypeStep, RowsInit, RowsStep, WholeStep, PTL DEF Spec

=============================================================================
