# Agent Control Tower: TLA+ models and proofs

Agent Control Tower lets operators start, watch, pause, resume and kill three
simulated agents (sales, support, infrastructure), decide the approvals their
tasks end in, and prove afterwards what happened. Its promises are concurrency
promises: a kill is final even for a worker that is already running, a
double-clicked approval is carried out once, two browsers that watch the same
workspace do not step it twice, an event stream that breaks loses nothing. They are
kept by PostgreSQL row locks, a control epoch, a few constraints, cursors, and by the
order in which handlers and callbacks do things. This directory models that machinery
from the source, checks it with TLC on small instances, and proves its safety
properties with TLAPS for all instances.

Paths below are relative to `src/`.

## 1. Inventory

| Component | State it keeps | Operations | Modelled in |
|---|---|---|---|
| Control API, `functions/actcontrol/handler.mjs` | none of its own; one transaction per request | start-all, start rogue, pause, resume, kill, approve, reject, guard a tool, read endpoints | `ControlPlane` (all that change state) |
| Stepped runtime, `functions/shared/stepped-runtime.mjs` with `scenario-normal`, `scenario-rogue`, `scenario-runtime`, `scenario-approval` | `agents`, `agent_runs`, `tasks`, `approvals`, `tool_actions`, `reasoning_steps` | start runs, advance the due step of each agent, complete, open a gate, contain drift, carry out a decision | `ControlPlane` |
| Tool fence, `db/migrations/.../04_guards_triggers_binding.sql`, `006_authoritative_epoch_fence.sql` | triggers on `tool_actions` | refuse a tool whose agent is not live at the worker's epoch; bind an approval to its action | `ControlPlane` (status, epoch, locks) |
| Schema rules, `01`..`04` of `000_recovered_baseline` | transition rules, unique keys, append-only tables | accept or refuse an update | `ControlPlane` (rules and keys the handlers rely on) |
| Event log and stream, `functions/actevents/handler.mjs`, `shared/db.mjs`, `assign_workspace_event_sequence` | `agent_events`, a counter per workspace, a cursor per stream and per client | append in a transaction, page, resume from `Last-Event-ID` or `after_sequence`, end on an error | `EventStream`, which implements `Feed`; as the driver of steps in `ControlPlane` |
| Sessions, `shared/demo-session.mjs`, `demo-scope.mjs`, `session-cookie.mjs`, the session route of `sites/src/app/api` | a seeded workspace and one cookie per browser | create, enter, expire | `Access`; the rows seeded are the initial state of `ControlPlane` |
| Tokens and proxy, `stream-token.mjs`, `sites-workload.mjs`, the control and stream-token routes | none | vouch for a request, sign, verify in a window of time | `Access` |
| Dashboard, `sites/src/components/OperatorDashboard.tsx` | last answers, scope, busy flag, replay, an EventSource and its timers | refresh, command, new session, team, replay, connect, retry, rotate | `Dashboard` (refreshes and commands), `ReplayPanel`, `Access` (stream), `EventStream` (cursor) |
| Core rules, `src/core/drift.ts`, `risk.ts` | none, pure functions | score drift, decide about an action | `CoreRules` |
| Core `usage.ts`, `state-machine.ts`, `control-epoch.ts` | none | a sum, a table, a comparison | not modelled, section 7 |
| Read endpoints, replay | none | queries | as the reads of `Dashboard` and `ReplayPanel` |
| Audit export, OIDC, Vercel dashboard and proxies, scripts | a cache of keys | CSV, key sets, forwarding, tooling | not modelled, section 7 |

How they interact. A request is one function invocation and one transaction; the
state is only in PostgreSQL. An open event stream is also the clock of the
simulation: its loop calls `advanceWorkspace` before each read of events, so that
every open browser drives the agents it watches. Workers are separate processes
with a context (run, epoch) that may be old when they use it. Nothing coordinates
these processes except the row locks of `agents` (`FOR UPDATE` by requests,
`FOR UPDATE SKIP LOCKED` by streams, `FOR SHARE` by the tool fence), the lock of the
event counter, unique keys and the values they read under those locks. A browser tab
sends requests through the Sites proxy, which signs those its cookie vouches for; all
tabs of a browser share that cookie, and each tab's callbacks share its state.

What is hard here, and what makes each part correct:

- *Control plane.* Reads that precede the lock (idempotency key, list of running
  agents, existing task, approval) are stale under it. A decision, a kill, a
  pause and a step may meet on one agent in any order. Correct: one active run per
  agent; agent, run and task agree; a killed agent never changes; a halted agent
  is inert; a key has one effect; a running run always has a step left.
- *Gate.* The wait for an approval must survive pause and resume, and end in a
  kill. Correct: a waiting run has a pending approval, a pending approval can be
  carried out, and the mutation is applied once if and only if approved.
- *Fence.* The answer of `/tools/guard` is stale at once; the trigger checks again and
  holds the row to the commit. Correct: a mutation in flight excludes a kill.
- *Event log.* Sequence numbers are taken inside transactions that may roll back; a
  cursor must not pass a number that commits later; a backlog longer than a page, a broken
  stream and one ended by a failed step must lose and repeat nothing; row locks
  and the counter's lock must be taken in one order.
- *Sessions and tokens.* Two first requests of one browser; a new session in one tab
  takes the cookie from the other; timers of retry and rotation race with answers;
  a late token of a session that was left; clocks that differ, at the ends of a window.
- *Dashboard.* Refreshes overlap and are answered in any order, for a scope that
  may have been left; a command's answer may be lost; state set is not yet rendered.
- *Core rules.* Caps, rounding and thresholds: no single kind of signal may pause an
  agent, and more misconduct must never look better.

`PROJECT.json` lists every hazard at its line with the properties that cover it.

## 2. Modules

| Part | Specification | Instance | Proofs |
|---|---|---|---|
| Control plane | `ControlPlane`, abstractly `Fleet` | `MCControlPlane` (symmetry), 7 `.cfg` files | `ControlPlaneProofs` (types, locks, fence), `ControlPlaneRowProofs` (kinds of steps, agreement of rows), `ControlPlaneOutcomeProofs` (interventions, gate, scripts), `ControlPlaneFleetProofs` (refinement of `Fleet`); each extends the one before |
| Event log | `EventStream`, abstractly `Feed` | `MCEventStream` | `EventStreamProofs` |
| Dashboard | `Dashboard`, `ReplayPanel` | their own `.cfg` files | `DashboardProofs` |
| Sessions, tokens, streams of tabs | `Access` | `MCAccess` | `AccessProofs` |
| Core rules | `CoreRules` | `MCCoreRules` | `CoreRulesProofs` |

The modules meet at what one shows to another. `ControlPlane` contains the composition that
matters most: requests, streams and workers over the same rows. To it the stream of
`EventStream` is a viewer, whose loop may end at any time (`Close`), and to `EventStream` a
transaction of `ControlPlane` is one that locks one or all agents, appends, and ends.
`Access` decides when a tab has a stream; `EventStream` what arrives over it.
The version that a refresh of `Dashboard` reads stands for the rows of `ControlPlane`.

### ControlPlane

| Variable | In the program |
|---|---|
| `agent` | `agents.current_status`, `control_epoch`, `drift_score` |
| `run` | `agent_runs.status`, `control_epoch`, and the number of its `reasoning_steps` |
| `task` | `tasks.status` |
| `due` | runs with `updated_at <= clock_timestamp() - 5 seconds` |
| `approval`, `action` | `approvals.status`; status and worker epoch of the gated `tool_actions` row |
| `effects` | how often the gated mutation (refund, discount) was applied |
| `interventions` | rows of `interventions`, with the runs they moved |
| `denied`, `leaked` | runs with denial evidence; runs whose stale probe was let through |
| `xlock`, `slock` | owner of `FOR UPDATE`, owners of `FOR SHARE`, per agent row |
| `hpc`, `hreq`, `hstale` | a handler: before the lock, under it, or following up a kill; its request; the stale contexts it will probe with |
| `open`, `vcand` | streams that are open; candidates a stream has read and not visited |
| `wpc`, `wctx` | a worker: dispatched, allowed by the guard, executing; its context |

A seed task is named by its agent, a rogue task by its idempotency key; each has
one run, as in the program (the run id derives from the task id or the key).

A transaction is three steps: what it reads before it owns the row
(`ReceiveIntervention`, `ReceiveDecision`, `ReceiveStartAll`, `ReceiveStartRogue`, `Poll`), the
acquisition (`LockAgents`, `LockCandidate`, `SkipLocked`), and the commit with every read
and write under the lock (`StartAll`, `StartRogue`, `Pause`, `Resume`, `Kill`, `Approve`,
`Reject`, or `Refuse` when any check fails; `StepTool`, `StepFinish`, `StepGate`,
`StepWarn`, `StepContain` or `NothingDue`). A rogue kill goes on in two more
transactions, `Probe` and `RecordDenial`. `Crash` and `Close` roll back a process at any
point. `Dispatch`, `GuardTool`, `ExecuteTool` and `EndTool` are the life of a worker's tool
call. `Tick` lets five seconds pass for a run.

Abstractions, and why they lose nothing the properties speak of:

- Commits are atomic: every row a commit writes belongs to an agent it has locked, and
  every transaction that writes such rows locks the agent first. That the locks
  exclude each other is checked and proved (`LocksSound`), as is that agent rows change
  only under them (the lemma `AgentsChangeLocked`). Row locks other than the agent's
  are therefore not in this module.
- `LockAgents` takes the locks of start-all at once; the program takes them in the
  order of ids. Waiting half-way matters for deadlock only, and is in `EventStream`.
- A stream visits its candidates in any order; the program visits them by id. The
  model has more behaviours.
- A request answered without a change (a key on record, an existing rogue task) is
  a stutter and has no action.
- A tool step of the stream needs no fence test: `DueStep` has just read, under the
  lock, all that the fence compares.
- A worker of the model executes a tool of risk decision "allow". The one gated action
  of a run is executed by `Approve`.
- Domain rows (customers, tickets, metrics), usage, audit text and event payloads are
  data that no decision of the control plane reads.
- Drift scores are those of the stepped rogue script: 0, 70, 92.
- The guard answers yes for a paused agent, as the code does; that is why the fence,
  not the guard, carries the property.
- A kill cancels the pending approval and leaves the gated action waiting, as the
  code does; nothing can execute it any more (`KillTerminal`).

No counter needs a bound: keys and rogue tasks are used once, scripts end, and the
epoch counts kills, of which an agent has one. The state space of each instance is finite as it is.

### Fleet

`Fleet` is what operators are promised, with no requests, transactions, locks or streams in it: an
agent has a mode and at most one job in hand; it works on the job only while it runs; it asks
before a gated effect and waits at its gate until `Approve` or `Reject` answers; a `Pause`
keeps the job and a `Resume` goes on where the agent was, at the gate if that is still open; a
`Kill` ends the job, withdraws the question and is for good. `Assign` gives fresh jobs to idle
agents, all in one step. Scripts, epochs, idempotency keys and evidence are not in it, nor which
jobs are given together: that start-all is whole is `StartAllWhole`.

### EventStream and Feed

`Feed` is what a client is promised: a log that grows at its end and, for each
client, the entries of its team one by one, the earliest unseen next, each in the end.

`EventStream` has two halves. *Writers* are transactions: `Begin` wants the rows of one
agent, or of all (start-all), which `LockNext` takes in the order of ids; `BeginStep` takes
one row with `SKIP LOCKED`; `AppendEvent` takes the next sequence from the counter row, whose
lock it then owns to the end; `Commit` publishes, `Abort` takes the counter back
(`assign_workspace_event_sequence` of `04_guards_triggers_binding.sql`, `withTransaction` of
`db.mjs`). *Readers* are connections: `Connect` starts the server's cursor behind the larger of
query and header, `Poll` sends a page, `End` is the loop ended by an error, `Lose` a break at
any point with all that is on the way, `NoticeEnd` and the next `Connect` the client's retry.
Dashboards open a new URL with their cursor and drop what is not behind it; a native
`EventSource` repeats its URL and sends the header. An event is its sequence and its team;
payloads do not matter to delivery. A poll that finds nothing is a stutter.
`recordStaleWorkerDenial` takes its agent lock through the foreign key of `tool_actions`; here
it is one of the transactions that lock one agent.

### Dashboard and ReplayPanel

`Dashboard` separates what a callback has *set* (`scope`) from what is *rendered*
(`current`, the ref that `refresh` compares with), which the code must do, too. A refresh is
sent (`Refresh`, or with a command or a new scope), read on the server (`ServerRead`) and
answered or not (`Answer`, `RefreshFails`) in any order. `RunCommand`, `Execute`,
`CommandAnswer` and `CommandFails` are `runCommand`, whose `finally` clears the busy flag;
`NewSession` is `newSession`. The rows of a session are one version number: the three
endpoints of a refresh are read at one moment, so that a view mixed of two versions of one
session is not distinguished.

`ReplayPanel` is `openReplay`, which the same component does without that comparison, with its three
callers: the button of an agent (`Replay`, disabled until the agent has a run), the choice of a
length (`ChooseLength`) and `RefreshReplay`. The last two open the agent that is selected already, so
that `openReplay` never meets an agent without a run and its branch for one is not modelled.

### Access

One browser, its cookie, its tabs. `Load` and `NewSession` ask for a workspace, `Create` is
`createDemoSession` (rows are inserted if there are none), `Entered` the answer that sets
the cookie. `VouchedFor` is the proxy's comparison of cookie and workspace. `TokenRequest`,
`TokenAnswer`, `TokenFails`, `Retry`, `SourceError` and `Rotate` are the effect of the
component that keeps a stream: `connect`, its answer, its two timers, `onerror`. `Send`,
`Travel` and `Arrive` are a command with the age of its assertion, and a function whose clock
differs by at most the leeway. A change of team restarts the same effect as a new session and is
not an action of its own. The two minutes of a stream token are spent between
its answer and the opening of the source, which is at once; a source that the function
refuses is `SourceError`.

### CoreRules

`scoreDrift` and `assessRisk` as operators, with caps, half-up rounding and thresholds;
an agent at work observes signals one by one, which turns monotonicity in every
argument into properties of a step. Ratios are percents, as only whole points are scored.

## 3. Runs

| Run | Instance | Shows |
|---|---|---|
| `control_races` | 2 handlers, 1 stream, 2 agents, 1 rogue task, 2 keys | `GateSound`, `ExactlyOnce`, `OncePerKey`, `KillOnRecord`, `ProbeDenied`, `KillTerminal`, `ImplementsFleet`, `TypeOK`: two requests, also with one key, for one approval, for one rogue run or to kill one agent, and a stream in every order of their reads, locks, commits and crashes |
| `control_viewers` | 1 handler, 2 streams, 2 keys | `NextStepExists`, `HaltedIsInert`, `OneStepPerWindow`: streams with stale candidate lists |
| `control_workers` | 1 handler, 1 stream, 2 workers, 2 keys | `InFlightFenced`, `LocksSound`: tools in flight against kills, pauses and decisions |
| `control_sequences` | 1 handler, 1 stream, 2 rogue tasks, 4 keys | `OneActiveRun`, `RowsAgree`, `ContainedUntilResumed`: long sequences of legal commands |
| `control_workspace` | all 3 agents, 1 handler, 1 stream | `StartAllWhole`: start-all against agents in every state |
| `control_progress` | 1 handler, 2 streams, fairness | `Progress`: running runs end their scripts |
| `resume_claim` | 1 handler, 1 stream, 2 keys | expected violation, see section 6 |
| `event_stream` | 2 transactions, 2 agents, a dashboard of one team and a native client of all, pages of 2, 3 events | `SequencesDense`, `NothingSkipped`, `NoWaitCycle`, `ImplementsFeed` (with its liveness), `TypeOK` |
| `dashboard` | 2 sessions, 2 teams, 2 refreshes under way, 1 change per session | `NoForeignRows`, `SessionKept`, `BusyIsCommand`, `AlwaysUsable`, `EventuallyCurrent`, `TypeOK` |
| `replay_selection` | 2 agents, 2 lengths, 2 sessions, 2 requests under way | expected violation, see section 6 |
| `access` | 2 tabs, 2 workspaces, window 3, leeway 1 | `SeededOnce`, `OneChain`, `StreamIsOwn`, `WindowHolds`, `FollowsCookie`, `TypeOK` |
| `rules` | every count of signals to one beyond its cap, spending to 104 or 220 percent, 5 actions | `Corroborated`, `DriftGrows`, `DecisionHolds`, `DriftedNeedsApproval`, `TypeOK` |

Why these bounds are enough.

- *Control plane.* Agents interact only through start-all, so two agents
  show every interaction but that of start-all with two others, which has the instance
  with three. The support and sales scripts have the same shape, so one gated agent
  stands for both. Races are between two processes at one row: each
  kind of process is doubled in one run. A kill consumes an agent, so that four
  keys give pause, resume, pause, kill or pause, resume, pause, resume on one agent, so
  that a run is halted and resumed both before and at its gate or its containment.
  Handlers, streams, workers, keys and rogue tasks are interchangeable in every formula
  that is checked, which makes the symmetry sound; `control_progress` uses none. The epoch
  and the scripts are bounded by themselves.
- *Event log.* Two transactions race for the counter, and wait for each other if two can.
  Two agents make an order of locks and a team that is filtered out. Three events are
  one more than a page, so that a backlog takes two polls and a stream can break between
  them. `MaxSeq` is the only bound; clients do not interact.
- *Dashboard.* Two refreshes are answered out of order; two sessions and two teams make
  every kind of scope that was left.
- *Access.* Two tabs share a cookie; two workspaces let one be left. Window and
  leeway are 30 and 5 seconds scaled to 3 and 1, and commands travel up to 4, past both
  ends. The proofs are for all windows.
- *Rules.* The values are those of the code, so the thresholds are met exactly.

Deadlock is checked in the runs of the control plane, where a stream can always poll. The others
say `CHECK_DEADLOCK FALSE`, as their bounds let them stop: events, sessions,
workspaces or signals run out. That writers do not block each other is `NoWaitCycle`.
Every property has a mutant of a mapped definition (a missing
status check, a key accepted twice, an epoch that is kept, a lock that ignores
shares, a cursor that includes its own event, a comparison of scopes left out, a cap
forgotten, ...) that breaks it.

### Fairness

`ControlPlane` assumes that time passes (`Tick`), that an open stream goes on looping
(`Poll`, then `LockCandidate` or `SkipLocked`, then its commit: the loop of
`actevents/handler.mjs` awaits each call and ends only with the connection), and that
whoever is under a lock ends its transaction. Requests are never forced to
come, nor waiting ones to get a lock. `Progress` further assumes that requests and tool
calls come to rest and that the set of open streams settles with at least one
stream in it. Both are needed: with `SKIP LOCKED` a stream passes over a row that somebody
holds, and streams that connect, lock a row and disconnect forever, or
requests that never cease, can starve a due run. The code promises no more.

`EventStream` assumes that a client without a stream retries (weak fairness of `Connect` and
`NoticeEnd`: `onerror` sets a timer, and an `EventSource` reconnects by itself), and that streams
that break again and again do not always break before the next poll or before what was read
arrives (strong fairness of `Poll` and `Receive`). Weak fairness of these two would be worthless, because a
break disables them; without strong fairness nothing is ever delivered over
a connection that is cut before the first page. It excludes, too, an agent whose step throws at
every connection: that would end each loop of the workspace before its first read. Transactions
need no fairness.

`Dashboard` assumes that the browser renders, that a request for a session or a command is answered or
fails, that the timer goes on sending refreshes and that refreshes repeated for ever are not lost for
ever (`SF` of `Refresh`, `ServerRead`, `Answer`). Weak fairness of
`CommandFails` says that no command hangs: the browser ends a request without an answer.

`Access` assumes that timers fire (`Rotate`, `Retry`), that a token request ends, that one repeated for
ever and granted each time is answered once, and that sources opened again and again open
once. It does not assume that a cookie stays, nor that a tab is entered.

### Refinement

`ControlPlane` implements `Fleet` (`ImplementsFleet`). An agent's mode is the status of its row; what
it has in hand is its active runs (`Context`, the query of `activeContext`); a run that is neither
absent nor active is over; work is the steps recorded, asked are the runs with a pending
approval. TLC checks it in `control_races`, `FleetRefinement` proves it for all constants: each
transaction's commit is one step of `Fleet`, and every read, lock, rollback, probe and guard is
none. A resume of an agent at its gate is none either, as it changes nothing but the record.
`Fleet` states no fairness; that jobs end is `Progress`.

`EventStream` implements `Feed` with `log` mapped to the committed events and `seen` to what
the client has shown. TLC checks the whole of `Feed`, its fairness included (`ImplementsFeed`);
`FeedRefinement` proves the safety half for all constants: every commit is a `Publish` (of
nothing, perhaps), every `Receive` of a new event a `Deliver`, and every other step a stutter.

## 4. Proofs

Theorems hold for every value of the constants under the assumptions named in the modules,
which TLC evaluates on the instances. `Distinct` (control plane): the infrastructure agent
is not a gated one, rogue tasks are no seed tasks, handlers are no streams, `None` is none of
them. `StreamAssumption`: ids are numbers below some bound, a page has at least one event.
`AccessAssumption`: clocks differ by the leeway at most.
`DashboardAssumption`: the scope of all teams is one of the teams, there is a session, and `None` is
neither a request nor a command. `RulesAssumption`: risk inputs are
natural numbers and flags.

| Theorem | States | Inductive argument |
|---|---|---|
| `ControlPlaneProofs!TypeCorrect` | `TypeOK` | one step per action; rows and processes apart |
| `LocksCorrect` | `LocksSound` | inductive with the types |
| `FenceHolds` | `InFlightFenced` | an agent row changes only under its exclusive lock (`AgentsChangeLocked`), which excludes the share of a worker in flight |
| `OneRunPerAgent`, `RowsNeverDisagree` | `OneActiveRun`, `RowsAgree` | only together: a start needs an idle agent, idle means no active run (`RowsAgree`), and a completion leaves none because there was one (`OneActiveRun`) |
| `KillIsTerminal`, `HaltedStaysInert` | `KillTerminal`, `HaltedIsInert` | steps touch runs of agents that are live, by `RowsAgree` |
| `KeysAreIdempotent`, `KillsAreCounted` | `OncePerKey`, `KillOnRecord` | only interventions write what these compare |
| `StaleWorkerDenied` | `ProbeDenied` | with `StaleIsKilled`: contexts kept for a probe are of killed runs, which stay killed |
| `GateIsSound` | `GateSound` | a landing at the gate is that of the one run of the agent |
| `AppliedExactlyOnce` | `ExactlyOnce` | with `ApprovedRunOver`: an approved run is completed and never returns |
| `ScriptsNeverStuck`, `ContainmentHolds` | `NextStepExists`, `ContainedUntilResumed` | `ScriptSound`: a live run has a stage left or a pending approval, and a contained run does not run until a resume names it |
| `ScriptsEnd` | a run records no more steps than its script has, and an active run has one left (`WithinScript`) | a stage that leaves its run active is never the last of its script |
| `StepsAreSpaced` | `OneStepPerWindow` | a step needs its run due and leaves it not due |
| `StartsAreWhole` | `StartAllWhole` | a start begins all missing seed runs or no seed run, and no run becomes absent again |
| `OutcomesAreFinal` | a run that has ended, or whose gate is decided or cancelled, never changes in status, steps, approval, action or effect | `DecidedRunOver`: a decided or cancelled approval is of a run that is over |
| `ControlPlaneFleetProofs!FleetRefinement` | `ImplementsFleet` | `FleetInv`: types, rows and gate, that no agent is queued or blocked, and that a run not begun has no step; see below |
| `EventStreamProofs!TypeCorrect` | `TypeOK` | part of the next two |
| `Density` | `SequencesDense` | `WInv`: who owns the counter has appended exactly the sequences from `counter` to `next - 1`, nobody else has any pending |
| `Completeness` | `NothingSkipped` | `RInv`: no cursor is at or beyond the committed counter; what is on the way is ordered and has no gap against the client's cursor |
| `DeadlockFree` | `NoWaitCycle` | `LockOrder`; in a circle every agent waited for would be smaller than another one waited for, and a finite set has a largest |
| `FeedRefinement` | the safety half of `ImplementsFeed` | the same invariants, action by action |
| `AccessProofs!TypeCorrect`, `RowsOnce`, `ChainUnbroken`, `NoForeignStream` | `TypeOK`, `SeededOnce`, `OneChain`, `StreamIsOwn` | `IInv`: ids beyond `issued` are unused and those in use are seeded; fresh requests of two tabs ask for different workspaces, so a token request for the workspace shown is the only one |
| `ClocksForgiven` | `WindowHolds` | the arithmetic of window, leeway and skew |
| `DashboardProofs!TabTyped`, `ButtonsFollowCommand`, `OwnRefreshEnds` | `TypeOK`, `BusyIsCommand`; a refresh under way that ends a command is the only one, and its command waits for it (`OneEnding`) | `DashboardInv`: `BusyIsCommand` alone is not inductive, as a second refresh that ends a command could enable the buttons under the next one; nothing is requested without a session (`SessionBound`) |
| `AnswersOfOthersDropped`, `CommandKeepsSession` | `NoForeignRows`, `SessionKept` | `StillWanted` compares with what is rendered; a new session begins only while the buttons are enabled, and its answer is the only other way to one |
| `CoreRulesProofs!TypeCorrect`, `WarningCounts` | `TypeOK`, `DriftedNeedsApproval` | every term is bounded by its cap |
| `NoPauseWithoutCorroboration` | `Corroborated` | a kind without evidence adds nothing to the sum and one with evidence at most its cap; the evidence is counted kind by kind (`EvidenceCounted`), which leaves linear arithmetic over the caps |
| `DriftMonotone`, `DecisionMonotone` | `DriftGrows`, `DecisionHolds` | each term grows with its count, and the sum, the cap and the decision with it |

The lemma `Classification` is the hinge of the control plane: under types and agreement of
rows, each of the actions is one of seven kinds of change to rows (rest, start, intervene,
finish, decide, move, gate). Theorems on interventions, gates and scripts are then proved
kind by kind.

The refinement of `Fleet` uses the same kinds: each is shown to be one step of the promise from
any state of `FleetInv`. That an agent's hand holds one job needs `OneActiveRun`, that its mode
fits the job needs `RowsAgree`, that a resume lands where the promise says needs `GateSound`: a
pending approval is of the run in hand. A tool step of a script changes no status, so it is of the
kind that `Classification` calls rest, which therefore says that at most one run records a step.

Only model-checked: liveness (`Progress`, `FollowsCookie`, `AlwaysUsable`, `EventuallyCurrent`, the
fairness of `Feed` in `ImplementsFeed`), which is beyond the prover, as are `ENABLED` and what
recursive definitions compute. Every invariant and action property that a passing run checks is
proved.

## 5. Known behaviour that no property forbids

Control plane:

- If the function dies after a kill and before `RecordDenial`, the evidence of the denial is
  never written; a retry with the key is answered from the record.
- An infrastructure agent killed in a rogue run before the first start-all makes every later
  start-all fail, so the session's other agents never start.
- A client that resumes an agent at its gate without having paused it gets a success
  that changes nothing but the record.
- The unstepped start of the historical workspace locks a task before its agent and agents in
  another order; PostgreSQL would end a circle of waits with an error and a rollback. Demo
  workspaces do not use it.

Browser:

- The answer to a tab's first session request, if it comes after the operator has already
  begun a new session, moves the tab back to the first (`SessionKept` excepts it).
- Two overlapping refreshes of one scope may be shown in the wrong order, until the next one five
  seconds later.
- Two tabs loaded at once without a cookie are given two workspaces; the cookie names the
  one answered last, and the other tab is refused until it is reloaded or begins a new session.
- A tab goes on saying Live while its stream is rotated.

Rules:

- An action in production by an agent at the warning threshold, with nothing else against
  it, is allowed: 24 and 25 points are fewer than 55.
- The functions do not call `src/core`; their scripts carry scores of their own (0, 70, 92).
- The transition table of `src/core/state-machine.ts` has paused to blocked, which the rules of
  the schema lack.

## 6. Findings

`docs/OPERATIONS_MODEL.md:5` says that resume "requires a paused non-killed run and no
unresolved blocking approval". `intervene` accepts it in either case: from
`waiting_approval`, by the rule `waiting_approval -> running`, and with a pending approval,
after which it lands in `waiting_approval` (`functions/actcontrol/handler.mjs:197-200`).
`docs/DECISION_LOG.md:41` describes the landing as intended, so the sentence in the
operations model is out of date. Run `resume_claim` shows a resume of an agent at its gate.

`docs/REQUIREMENTS.md:10` says of the replay: "Select N, inspect ordered summaries". `openReplay`
(`sites/src/components/OperatorDashboard.tsx:93-98`) shows the answer that comes last, whatever is
selected by then, while `refresh` in the same file compares scopes. In run `replay_selection` an
operator opens the replay of a started agent, 20 steps long, and selects 5 steps before it is
answered; the two answers arrive in the other order, and 20 steps stay under the selection of 5, with
no request under way that would replace them and no error shown. Two agents that both have a run,
opened one after the other, race in the same way.

## 7. Not modelled

- *One-transaction scenarios* (`startAllScenario`, a rogue start that is not deferred) run only
  in the historical workspace; demo workspaces take the stepped path.
- *Binding of payloads.* Authority, environment, risk decision and payload hash are
  conditions of the trigger on immutable columns; a model of one payload per gate has nothing
  to confuse. An instance with two payloads would be the place to check "exactly the action
  that was reviewed".
- *Cryptography.* Signatures, request binding and parsing of tokens are taken as sound.
- *OIDC and the Vercel deployment*: library calls around a cache whose keys are accepted up to
  five minutes after they are withdrawn, by choice; proxies for one fixed workspace; an earlier
  dashboard without sessions.
- *Core usage, state machine and control epoch*: single expressions; what the system runs of
  them is in the database and in `ControlPlane`.
- *Audit export, build, install, acceptance and smoke scripts*: a query and tooling.

What would extend the project next: the fence with two payloads, for "exactly the action that was
reviewed"; the one-transaction scenarios beside the stepped ones; a promise of `Dashboard` that the rows
shown are those of `ControlPlane` at some moment.
