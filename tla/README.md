# Verification of jojo-agent

TLA+ models of the parts of jojo-agent whose correctness depends on the order in which
processes, timers, awaits and crashes meet, with the TLC configurations that check them
and TLAPS proofs of what matters most. Paths below are relative to the repository.

Run from this directory:

    tlc -workers 2 -config MCScheduleDelivery_race.cfg MCScheduleDelivery
    tlapm ScheduleDelivery_proof.tla

`PROJECT.json` lists every run, what each definition models (file and lines), the hazards
of the code and the findings.

## 1. The system

A TypeScript monorepo: an agent runtime that drives model calls and tools, application
services around it, an orchestration layer (teams, workflows, sub-agents), a durable
scheduler, messaging channels, and hosts (desktop, headless server, CLI).

| Part | State | Operations | Hard because | Model |
|---|---|---|---|---|
| **Delivery outbox** `packages/scheduler` store, `delivery/processor.ts`, desktop playback host | a row per run and destination with attempts, claim, expiry; attempts and deferred claims of a process; requests waiting in the host | insert, claim, renew, acknowledge, recover, replay, revoke, ask to start, start, end | claims run out under slow or dead workers; a sound cannot be unsaid | `ScheduleDelivery` |
| **Schedule engine** `packages/scheduler/src/engine.ts` | schedules and runs in SQLite; leader flag, timer, chain of target events | wake, claim an occurrence, dispatch, apply an event, run now, cancel, edit, recover, close | several processes under an expiring lease; every await lets another call in | `ScheduleEngine` |
| **Agent runtime** `packages/agent-runtime` | operation state, transcript tree, lane | answer, tool round, permission, effect, suspend, resume, abort, recover | a crash between an effect and its record | `AgentOperation` |
| **Application service, server** `packages/app-service`, `server-core` | run records, approvals, idempotency keys | start, cancel, ask, decide, close, resume, reconcile | three stores written apart; decision, abort and restart race | `RunService`, `ApprovalBroker` |
| **Channels** `packages/channel-runtime` | inbound claims, queue and binding of a chat, outbox, approval buttons | receive, bind, run, reply, press, flush, stop, start | redelivery, sends with unknown outcome, a press that needs the event loop its message blocks | `ChannelMessaging`, `ChannelOutbox` |
| **Workflows** `packages/orchestration/src/workflow` | step graph, attempts, timers, journal | start, run steps, retry, cancel, restore, resume | the journal lags behind the memory; executions drain after they were cancelled | `WorkflowRun`, `WorkflowEngine` |
| **Teams, sub-agents, slots** `packages/orchestration/src/team`, `subagent` | task and member rows, executions, semaphores | delegate, begin, approve, expire, cancel, disable, restart; spawn, continue, close | slots held while waiting; late results; old copies written over newer rows | `AgentTeams` |
| Turn loop, permission governance, hooks, memory, extensions, providers, tools, sandbox, browser, speech, storage plumbing, wire protocol, composition | | | I/O and data, little protocol | none (section 7) |

How they meet. The engine of schedules dispatches a run to a target (agent lane, team
member, workflow, reminder), hears of its end through events, and inserts its delivery
rows in the transaction that ends the run. A run of the application service is one
operation of the agent runtime on one lane: `RunService` keeps of it only how it ended,
`AgentOperation` is its inside. Its approvals go through the broker, whose answer may come
from a client of the server or from a button in a chat: `RunService` and
`ChannelMessaging` both extend `ApprovalBroker`. Team tasks, sub-agents and the agent
steps of workflows take their slots from one scheduler of the process.

What makes the parts correct: an occurrence is claimed once and dispatches settle; a row
sounds at most once and every row comes to rest; an effect that may not be repeated is
not, and the transcript says honestly what happened; one key starts one run that works,
and its record agrees with its operation; the waiter of an approval is answered as the
store was; a chat message is run once and its reply not sent twice; what a workflow
reports as completed survives a crash; a team task begins once and its outcome stands;
whoever holds a slot gives it back.

## 2. Plan

Done, in this order: the outbox with its proofs; the schedule engine; one agent operation;
approvals and runs on their hosts; channels; workflows; teams and slots; then the proofs of
the approvals, the channel, the service, the engine, the operation, the teams and the
workflows.

Next: the hazards that no property covers yet (`PROJECT.json`), the control lease first;
then what section 7 lists, permission governance first.

No module declares a RECURSIVE operator, so each can be proved about.

## 3. Modules

| Module | What it is | Code |
|---|---|---|
| `DeliveryContract` | abstract: a row is absent, open, held, sounding or settled; bounded tries; what sounded can only settle; only a voice row is reopened | |
| `DeliveryStore` | recover, claim, renew, acknowledge, replay, revoke one row, each with its guard | `scheduler/src/store.ts` |
| `ScheduleDelivery` | the table and its actors; implements `DeliveryContract` | `delivery/processor.ts`, `sqlite-schedule-store.ts`, desktop voice adapter and `playback-broker.ts` |
| `ScheduleEngine` | one schedule and its runs on several processes | `scheduler/src/engine.ts`, dispatchers |
| `AgentOperation` | one turn on one lane, through crashes | `harness/runner.ts`, `operation/`, `recovery/interrupted-operation.ts` |
| `ApprovalBroker` | approvals: store, waiting promise, races | `approval-service.ts`, `pending-approvals.ts` |
| `RunService` | runs of a session, keys, close and recovery; extends the broker | `jojo-app-service.ts`, `recovery-coordinator.ts`, `idempotency.ts`, `public/runtime.ts` |
| `ChannelOutbox` | messages to a platform | `outbound/outbox.ts` |
| `ChannelMessaging` | one chat; extends outbox and broker | `channel-runtime/src/manager.ts`, `inbound/queue.ts`, `approval/bridge.ts` |
| `WorkflowEngine` | one execution as a record, and what each move makes of it | `workflow/engine.ts`, `retry.ts`, `foreach.ts` |
| `WorkflowRun` | a run with its executions, journal, restoration | `workflow/manager.ts`, `workflow-store.ts` |
| `AgentTeams` | tasks, members, sub-agents, slots | `team/manager.ts`, `subagent/*.ts`, `sqlite-team-store.ts` |
| `..._proof` | inductive invariant and theorems of the module of that name; `ChannelMessaging_proof` covers `ChannelOutbox` too, `ScheduleDelivery_proof` covers `DeliveryStore` and the refinement, `WorkflowRun_proof` covers `WorkflowEngine` | |
| `NumberLemmas` | what four proofs need of sets of numbers: a least element, one element of each rank, and ranks that grow | |
| `MC...` | values for TLC | |

### ScheduleDelivery

A step is one SQLite transaction or one return of an awaited call. `rows` is the table,
`voice` the schedule's voice setting, and per process there is its life, its copy of the
leader flag, the pass of its pump (`pump`, `batch`), its attempts and its deferred claims.
`inbox` holds the play requests of the host; it survives the worker. Two ghosts count
since the last authorisation (insert or replay): `sounds`, permissions to sound granted,
and `calls`, attempts begun. Time is relative to the present: `Tick` brings every stored
instant one tick closer. A pump reads the clock once per pass, so its `clock` falls behind
by at most `MaxLag`. `expectedVersion` is modelled by its effect: a write takes the row
out of the batches that listed it. Conversation and system notification rows run the path
of channel rows, so two destinations stand for four. Abstracted: content, voice presets,
the priority queue of the playback broker (a request starts or is dropped at any time).

### ScheduleEngine

One schedule and all its runs. Each process has three chains of awaits: its wake, its
target events (one promise chain) and one user call. `chain[p][c]` says between which two
store or dispatcher calls the chain stands, and carries the copies it took. `Transition`
compares the version and the terminal guard as `transitionRunWithDeliveries` does, and a
conflict throws: a wake then ends without having set its timer, the event chain stays
rejected, the user gets an error. Targets are external: an execution starts, moves and
ends by itself on a host, and a crash leaves it unrecorded, interrupted, or recorded as
running without a host (the desktop, which preserves pending operations). Abstracted:
calendar arithmetic (an occurrence is a number), the delivery rows, edits of everything
but the timing. Every database call is a step of its own, so two chains of one process
interleave at every await, which is more than happens when only microtasks separate them.

### AgentOperation

`op` is the stored state, `state` the runner's copy, `entries` and `leaf` the transcript
tree and the end of the lane, and a list of pending writes makes each store write a step
between any two of which the process may die. Calls carry how far they came (planned,
effect pending, completed) and how they may be replayed. After a crash the operation is
resumed with the same state (desktop) or recovered: results are appended that say
"before execution" or "uncertain", and the state is made final. Saving a final state frees
the lane in the same transaction. Deliberately left out: the call status "interrupted",
which nothing writes; store writes and tools that throw (a failed operation may leave calls
open, which the next request to the model closes: `providers/src/chat-completions-request.ts:106`);
expiry of approvals (there is none); the entries of memory, recall and compaction are one
optional context note.

### ApprovalBroker, RunService

The store takes the first decision; the promise is answered in a later step by whichever
call comes back first. A run has a record, an operation and up to one approval, kept in
three stores; a request passes `Request`, `Accept`, `MarkStarting`, `LaneRun`,
`CompleteKey`, and the process may die after each. `host` chooses between the server,
which interrupts what it finds unfinished, and the desktop, which keeps it until the user
resumes. Runners can be "doomed" or "aborting" because `throwIfAborted` is looked at only at
await points. Left out: control leases, the expiry of keys after a day, the `interrupt` of
an operation that no application calls.

### ChannelOutbox, ChannelMessaging

One paired chat with one shared session. An event is claimed before it is processed; the
queue runs one message after the other; the session id is saved when the turn of the first
message comes. The outbox flushes in a single flight; the platform takes or refuses a
message and its answer may be lost. `Sequential` is the Telegram poll, which awaits each
event; `MaxAttempts` is two where the code has eight. Left out: pairing, administration, per-thread and
stateless routing, the queue mode "interrupt" (not implemented in the code), expiry of
button tokens, media parts.

### WorkflowEngine, WorkflowRun

An execution is a record with the state of every node and what every unit (agent, tool,
item of a foreach) is doing; `WorkflowEngine` says what a move makes of it, `WorkflowRun`
when a move happens and what the manager and the journal do. Snapshots wait in `writes` for
the journal; a crash loses them. A write may fail, and so may the first one, which bears
the request (`CreateFails`): the run settles as failed and stays known, but its journal is
`Headless` from then on, and a restart does not find it. `live.controls` are the executions
that the run's controller aborts: the last one resumed, and one that still waits for its
first record, because it looks the controller up only afterwards. Executors and the clock
are external: an executor answers any time, at the latest when aborted. Left out: budgets,
nested workflows, recorded steps, resource groups and provider limits, conditions other than
`exists`, empty lists, memory snapshots, the session limit and pruning, a changed definition.

### AgentTeams

`task` and `member` are rows of the database; `run` is the execution of a task: where it is
(`pc`), which semaphore it asks for (`next`), why it was aborted, how its turn ended, and
its copy of the member's state (`seen`). `slots` are the semaphores with their lines.
SQLite is synchronous, so a chain that awaits nothing else is over before the next event;
`Quiet` keeps events out until then. Where two chains really run beside one another, after
an abort, their steps interleave freely, which includes orders that the microtask queue
does not produce. Lines and lists are put in order by rank (`InOrder`), since tasks are numbered
in the order of their rows. Left out: creation, edits and removal of teams, messages, isolation
beyond its two awaits, output schemas, the limits per session, provider limits (none is
configured).

## 4. Runs

| Run | Instance | States | Shows |
|---|---|---|---|
| `delivery_race` | one voice row, two processes, two tokens, claims of one tick | 1 058 000 | `SoundsOnce`, `PlayedSounded`, `SilencedStaysSilent`, `OutcomesStand` |
| `delivery_settles` | a voice row with expiry or a channel row without (`OneRowStep`: one row per behaviour), one process, fairness | 66 000 | `TypeOK`, `ImplementsContract`, `EverySettles` |
| `engine_timers` | two processes, skip and queue, three runs, one disruption | 1 114 000 | `SkipNeverOverlaps`, `OneQueued`, `OccurrenceOnce` |
| `engine_user` | one process, a manual run, an edit, cancellation, one disruption | 1 812 000 | `RunsFinal` |
| `engine_progress` | one process, queue, two runs, two disruptions, fairness | 330 000 | `DispatchSettles`, `DueIsClaimed` |
| `operation_turn` | one operation, two tool calls, two disturbances (crash, cancel, longer limit, odd answer), fairness | 454 000 | `TypeOK`, `NeverReplayed`, `HonestInterruption`, `InterruptionPairs`, `RecoveryConverges`, `EffectPermitted`, `Settles` |
| `service_host` | two requests under one or two keys, one approval, one crash, both hosts, fairness | 270 000 | `RunTypeOK`, `AnswerIsRecorded`, `KeyRunsOnce`, `RecordMatchesOperation`, `RunsEnd`, `Closes` |
| `channel_chat` | two messages, one approval, a rightful and a foreign press, two attempts, one end of the process, fairness | 238 000 | `ChannelTypeOK`, `OutboxHonest`, `ConversationSerial`, `RunsOnce`, `PressHeard` |
| `workflow_lifecycle` | five steps with condition and foreach of two items, two attempts, two of cancel, crash, resume and failed create or write; clients wait for quiet; fairness | 128 000 | `WorkflowTypeOK`, `QuietWhenSettled`, `CompletedIsDurable`, `CompletedNeverReruns`, `EveryExecutionEnds` |
| `team_tasks` | two members, two tasks, a sub-agent, two slots of team and machine, one crash, one disabling or enabling, fairness | 83 000 | `TeamTypeOK`, `MemberSerial`, `TasksRunOnce`, `EverythingEnds` |
| `channel_polling` | as `channel_chat`, with a polling adapter | | violates `PressHeard` |
| `workflow_superseded` | as `workflow_lifecycle`, with a client that does not wait | | violates `QuietWhenSettled` |

Each property of a passing run has a mutant: a definition changed the way a plausible bug
would change the code, which violates it.

Why the bounds suffice. Rows of the outbox influence one another only through the capacity
of a processor, so one row with two processes has every race for a row, and the theorems
remove the bound. Two tokens are a live claim and an old one. For the engine, three runs
are one started, one queued, one coalesced; two processes are an old and a new leader; one
disruption is one lost lease, crash or close at any point; the second in `engine_progress`
is a crash during the recovery from a crash. For an operation, two calls are one settled
and one not, and two disturbances are a crash during the recovery from a crash or a cancel
after one. For the service, two requests are a retry or a second client. For a chat, two
messages are one running and one queued behind it. The workflow has each kind of step, a
branch not taken, and more units than slots; two events are a cancel or crash and its
resume. In `team_tasks` both members can hold all slots of the machine while the sub-agent
of one waits for a slot, and both tasks can belong to one member. Its turns end with a
result (`TurnEnds`); a worktree that cannot be prepared gives the failed ones.

Deadlock is checked in the runs of the outbox and in `engine_timers`, and off where the
system may stop: when the bounded events are used up, nothing is left to do.

### Fairness

* `ScheduleDelivery`: the event loop runs what is ready (weak), awaited adapters and the
  host answer or time out, a process that went down is started again, time goes on (strong,
  since a tick waits for pumps too far behind), and a channel asked again and again at last
  gives a final answer (strong). `EverySettles` assumes in addition that some processor
  stays up and leading from some point on.
* `ScheduleEngine`: the chains of a live process go on, a process that is down is started
  again, one that closes finishes, targets with a host end, a dead owner's lease runs out.
* `AgentOperation`, `RunService`: weak fairness of the machine as a whole. Models and tools
  answer; no person decides, cancels or resumes, which is why `Settles` and `RunsEnd` except
  a wait for one. `RunsEnd` also excepts a desktop run whose start raced the closing of the
  host (`Stranded`): its record is "shutdown", its operation active, and `resumeRun`
  refuses ended records.
* `ChannelMessaging`: weak fairness of the machine; the user presses what is shown, and the
  platform delivers the press until it is taken (strong).
* `WorkflowRun`: the engine, the journal and a restoration go on; the timer of a step fires
  and an executor hears an abort. Nothing else must end.
* `AgentTeams`: a chain runs to its end; a due timer and a turn that heard its abort get
  their turn in the event loop though other events come between (strong, because every
  event disables the others until its chain is over). A turn nobody aborts owes no answer.

## 5. Findings

In the runs:

1. **An approval in a polled chat cannot be given** (`channel_polling`;
   `channel-adapters/src/telegram/adapter.ts:172`). The poll awaits the handling of a
   message, the message awaits the run, the run awaits a press, and only the next poll
   brings the press. The webhook adapter delivers events beside one another, and there
   `PressHeard` holds.
2. **A resumed run is settled by its predecessor** (`workflow_superseded`;
   `workflow/manager.ts:256`). `resume` looks at the state of the run, not at whether its
   execution has drained; the end of the old execution then marks the run settled while
   the new one is under way.

Properties stated in the modules that the code does not keep. No run claims them; put the
property into the cfg named to see the counterexample.

3. **Calls without results** (`ResultsMatchCalls`, `MCAgentOperation_turn.cfg`). After a
   crash between the assistant entry and the saved tool round, a resumed operation asks the
   model again (`harness/runner.ts:1410`) and completes with the calls of the first answer
   unanswered, against the row "responseEntryId 被识别；工具调用配对完整" of
   `docs/p0-optimization/opt-02-runtime-recovery.md:306`. The request to the model pairs
   such calls itself.
4. **A manual run overlaps an occurrence** (`NoOverlap`). Overlap is decided from a list
   read before the claim (`scheduler/src/engine.ts:221`), against
   `docs/Jojo-Agent-Durable-Scheduler.md:1894`.
5. **The timer can be lost** (`TimerKept`). A run cancelled while its dispatch is in flight
   makes the dispatch conflict; `performWake` rejects before it sets the next timer
   (`engine.ts:203`), against `docs/technical-implementation/scheduler.md:13`.
   A recovery that meets a conflict loses it in the same way (`engine.ts:363`).
   `DispatchSettles` and `DueIsClaimed` therefore end in "or the timer is lost".
6. **A queued run can wait for ever** (`QueuedRunsBegin`). The queue is not drained after a
   dispatch that fails or is answered with a final state (`engine.ts:284`), against
   `docs/Jojo-Agent-Durable-Scheduler.md:1926`.
7. **An abandoned run stays running** (`AbandonedRunsEnd`). After a desktop crash the
   preserved operation is inspected as "running" though nobody executes it
   (`engine.ts:356`), against `docs/technical-implementation/scheduler.md:15`.

For 4 to 7 take `MCScheduleEngine_progress.cfg` with one process, `MaxLate = 1`,
`StartStates = {"running"}`, and: (4) `SPECIFICATION Spec`, a policy
`Policy("skip", "fire_once", FALSE)`, `MaxRuns = 2`, `MaxManual = 1`, `MaxDisruptions = 0`;
(5) `Spec`, `Cancels = TRUE`, `MaxRuns = 1`, `MaxDisruptions = 0`; (6) `MaxManual = 1`,
`MaxDisruptions = 0`; (7) `MaxRuns = 1`, `MaxDisruptions = 1`.

8. **A completed run that no restart finds** (`CompletedIsFound`, an invariant of
   `MCWorkflowRun_lifecycle.cfg`). A run whose first record was not written
   (`workflow/manager.ts:372`) settles as failed and can be resumed; it then completes
   without an error, but `load` needs the request (`storage/src/workflow-store.ts:139`), so
   nothing of the run is left after a restart. `CompletedIsDurable` excepts that journal.

Seen while reading, without a model of their own:

* Workflows. A condition marks the branch it does not take and completes in a later
  record; after a crash between them the dependency it reads, if failed and tolerated, is
  run again on resume, and the condition may flip: both branches are skipped and the run
  completes (`engine.ts:797`). Steps listed before what they depend on can be called a
  deadlock (`engine.ts:1089`). A budget that blocks a step leaves its dependants pending,
  which ends as a deadlock. A cancel during the last wait for the journal shows a completed
  run as cancelled; a timer after a user's cancel makes it timed out. A torn line of the
  journal merges with the next. A decision of a condition stays when its dependency is run
  again.
* Channels. A message captured before the first message of a fresh chat saved its session
  fails with `channel_binding_revision_conflict` and gets no reply (`manager.ts:340`). The
  server stops its channels before it closes its runs (`apps/server/src/index.ts:203`), so
  it waits for a run that waits for an approval. The reply of a run that ends while the
  manager drains is lost. A crash after the claim leaves the event "processing".
* Teams. `disableMember` writes the member after cancelling its tasks, whose ends read the
  member before and write "idle": with exactly one task waiting for a slot of team or
  machine the member ends enabled (`team/manager.ts:321`, `:455`). `setMemberState` writes
  all columns from an old copy, so an edit made while a task waits or runs is overwritten.
  Cancelling a queued task cancels the sub-agents of the member's running one
  (`cancelOwnedBy` goes by member). Deleting a team under a running task makes the catch
  block of `execute` throw: an unhandled rejection. A restart resets no member and forgets
  the request of a queued task (timeout, output schema). "waiting_approval" is never set
  back to "running". A sub-agent that was cancelled counts as done, and `quiesceSession`
  returns, before its turn has stopped.

## 6. Proofs

A theorem holds for every value of the constants that the named assumptions admit: any sets
of processes, rows, runs, keys, messages, tasks, members and sub-agents, any limits, and
any number of crashes, edits and cancels (the bounds of the runs are constants as well).
The assumptions give the parameters their types and tell distinct names apart; TLC
evaluates them in every run. Each safety theorem follows from an inductive invariant, which
TLC checked before it was proved, on the instance of the run.

| Module, assumption | Theorem | States |
|---|---|---|
| `ScheduleDelivery_proof` from `NoneAssumption`, `DeliveryAssumption` | `TypeCorrect` | `[]TypeOK`, with attempts within 0..3 |
| | `InvCorrect` | `[]DeliveryInv` |
| | `HeldCorrect`, `CallsBoundedCorrect` | `[]HeldIffClaimed`, `[]CallsBounded` |
| | `SoundsOnceCorrect`, `PlayedSoundedCorrect`, `SilencedCorrect` | `[]SoundsOnce`, `[]PlayedSounded`, `[]SilencedStaysSilent` |
| | `OutcomesStandCorrect` | `OutcomesStand`, an action property |
| | `ContractImplemented` | the outbox implements `DeliveryContract` |
| `ScheduleEngine_proof` from `EngineAssumption` | `EngineCorrect`, `EngineTypeCorrect` | `[]EngineInv`, `[]TypeOK` |
| | `OccurrenceOnceCorrect`, `SkipNeverOverlapsCorrect`, `OneQueuedCorrect` | the three invariants of `engine_timers` |
| | `RunsFinalCorrect` | `RunsFinal`, an action property |
| `AgentOperation_proof` from `LimitsAssumption` | `OperationCorrect`, `OperationTypeCorrect` | `[]OperationInv`, `[]TypeOK` |
| | `NeverReplayedCorrect`, `HonestInterruptionCorrect` | `[]NeverReplayed`, `[]HonestInterruption` |
| | `RecoveryConvergesCorrect`, `InterruptionPairsCorrect` | `[]RecoveryConverges`, `[]InterruptionPairs` |
| | `EffectIntendedCorrect`, `EffectPermittedCorrect` | no effect without a stored intent, nor without a permission of this life |
| `RunService_proof` from `RunServiceAssumption` | `RunsCorrect`, `RunTypeCorrect` | `[]RunInv`, `[]RunTypeOK` |
| | `AnswerIsRecordedCorrect`, `KeyRunsOnceCorrect`, `RecordMatchesCorrect` | the three invariants of `service_host` |
| `ChannelMessaging_proof` from `OutboxAssumption`, `MessagingAssumption`, `NoSessionAssumption` | `ChannelCorrect`, `ChannelTypeCorrect` | `[]ChannelInv`, `[]ChannelTypeOK` |
| | `OutboxHonestCorrect`, `ChatAnswerCorrect`, `ConversationSerialCorrect` | `[]OutboxHonest`, `[]AnswerIsRecorded`, `[]ConversationSerial` |
| | `RunsOnceCorrect` | `RunsOnce`, an action property |
| `AgentTeams_proof` from `TeamAssumption` | `TeamsCorrect`, `TeamTypeCorrect`, `MemberSerialCorrect` | `[]TeamInv`, `[]TeamTypeOK`, `[]MemberSerial` |
| | `TasksRunOnceCorrect` | `TasksRunOnce`, an action property |
| `WorkflowRun_proof` from `WorkflowAssumption`, `RunAssumption` | `WorkflowTypeCorrect` | `[]WorkflowTypeOK` |
| | `EngineReturnsAtRest` | `[]AtRestOnReturn`, the half of `QuietWhenSettled` that is about the engine alone |
| the same, and `Patient` | `QuietOnceSettled`, `SettledIsDurable` | `[]QuietWhenSettled`, `[]CompletedIsDurable` |
| | `CompletedStaysDone` | `CompletedNeverReruns`, an action property |

`ApprovalBroker` states its invariant, `BrokerInv`, beside its operations; the service and
the channel prove for their own steps that each operation keeps it. The one hypothesis
beyond types is `Patient`: a client resumes a run only once it has settled. Finding 2 of
section 5 is what happens otherwise, so the three theorems need it.

### The arguments

*Outbox.* Many actors write the table, but a row moves in few ways: it appears, is
recovered, claimed, renewed, acknowledged, replayed, revoked, starts to sound, or only
grows older. `RowMove` lists them with what happens to the ghosts, and `StepMovesRows`
shows that every step of the system moves every row in one of these ways. `MoveKeepsRow`
then needs one case per way, not per actor. `SoundsOnce` and the like are not inductive.
`DeliveryInv` adds, for each row: it is held exactly if it has a claim with an end
(`HeldOK`); a sound was granted at most once and then the row is in a state from which no
claim leads on (`SoundOK`); the count of calls *is* the durable count (`CountOK`); and a
play request whose claim still holds its row finds it "ready" (`InboxReady`). The last is
what the handshake rests on: without it a request of a dead worker could move a row from
"claimed" of a later attempt into "playing". `SilencedStaysSilent` is inductive with the
type invariant. The refinement shows that each way of moving is a step of the contract for
that row (`MoveRefines`), rows being independent in the contract.

*Engine.* A process acts on copies. `FrameOK` says of each chain what its copies may be: it
holds a run that exists and its reading of the schedule is not newer than the schedule.
`SkipNeverOverlaps` and `OneQueued` are about what is committed, but the decision was taken
some awaits before. `SkipInv` and `QueueInv` therefore add: a decision to dispatch whose
reading is still current finds no active run (or none that waits). A claim compares the
revision, so only current decisions commit, and each commit makes all others stale. Both
are under `NoManual`, as the properties are: a manual run makes them false.

*Operation.* A step of the runner is a list of writes with a crash possible between any
two. The invariant speaks of the stored state and of `Target`, the state once the pending
writes are done; `Recorded` holds of both, so a crash that drops the rest keeps it. It
says: a call still "planned" was never executed, no call of a later answer was, and one
that may not be replayed was executed once at most. `Lived` relates a living process to
permissions of its own life; an intent that was there before it came up is in `uncertain`,
which the replay gate looks at.

`RecoveryConverges` needs to know what a recovery can find in the transcript, and says
nothing of resumed operations (finding 3 of section 5 is about those). `TraceInv` holds as
long as nobody resumed: what is stored of the current answer is on the path of the lane or
can be connected to it, a result only after the answer and the results of the earlier
calls, and a call stored as completed has its result on the path (`TranscriptInv`). Two
parts speak of the writes under way, so that a crash between any two of them leaves no
more than that: each entry is new, comes in its turn and is followed by its leaf move
(`Ordered`), and at most one stored entry is off the path, the one the leaf is moved to
next (`Tidy`). `Round` ties the cursor to the results: calls before it have one, open
calls have none. A recovery looks at the answer and then at each result; the first entry
it misses is either the one dangling entry, which it can connect, or one of a call that
was not completed, which it may append.

`InterruptionPairs` compares two sequences read along the path of the lane, the calls of
its answers and its results, and is far from inductive: in the middle of a tool round they
differ. `PairInv` says how they may differ (`Half`): the results are those of the calls in
their order and end at the first call of the last answer that has none. It also says that
a result belongs to a call of the answer (`Within`), that a leaf move with which a list of
writes begins takes a new entry onto the path (`Heads`), and that a state saved as final
comes after the leaf moves to all results still missing (`Closes`), unless an error ends
the operation (`Excused`). Both readings use `FlattenSeq`; the lemmas on `Flattened` show
what appending to the path does to it, by the least place at which two readings would
differ, since the induction theorems cannot be used.

*Service.* `KeyInv` says who may work under a key: a run that works or may work belongs to
a key that is taken, is the only such run of that key, and if a request is in flight under
the key it is that request's own run. `RecordInv` says how far record and operation may be
apart, by where the execution stands (`ServedInv`) and once the process is gone
(`GoneInv`); "shutdown" records are the exception that the property makes, too.

*Channel.* `OutboxInv` counts arrivals by the status of a row, with the one in flight
apart. The conversation needs that only the first of the queue can be in a run, that a
handler under way has claimed its event, and that the session of the binding is set by the
first turn and never again.

*Teams.* `MemberSerial` follows from counting holders: `SlotsOK` bounds each semaphore,
and `Placed` says of each execution where it may wait and what it may hold: it waits only
where it asks, holds what it was granted before, and at work holds the slots of member and
team. The lemmas on `Drained`, `Asked`, `Released` and `Withdrawn` say what each does to
holders and lines. `TasksRunOnce` needs that whoever waits never began and, if its task is
final, was aborted. `DisablingOK` is what makes a cancel during a disabling safe: either
the sub-agents of the member are all cancelled, or nothing has moved since the call began.

*Workflows.* An engine's step, a timer, a slot and an executor's answer touch one
execution and what the manager holds of it. `Moved` says what all of them do to
the rest of the run: they publish the states of the execution, append snapshots of
them to the journal's queue, and end in an execution that is `ExecOK`. Each is shown once to be a
`Moved` step; every other part of the invariant then has one case for `Moved` and one for
each step of the manager and the journal. `ExecOK` is what the engine keeps of itself,
whoever resumes when: a unit at work belongs to a step the engine waits for and is not
completed, its attempts are below the limit when one may begin, and once the engine has
left its loop nothing is at work. Types and `EngineReturnsAtRest` follow. With patient
clients there is one execution at a time, and only of a run that has not settled
(`Alone`). `JournalOK` says that the last snapshot on its way to the journal is the
manager's, unless a write failed or the journal lost its first record, and that after a
completed run the manager waits for every snapshot in the queue: that makes completion
durable. An execution that throws (`Thrown`: its controller is gone, its create or a write
failed) leaves a snapshot that is not completed, last in the queue. `HistoryOK` orders the copies:
what is completed in the journal is completed in every snapshot of the queue, in the
manager, and in the execution, so a crash at any write leads back to states of which
nothing begins again. A pass over the steps (`Sweep`) is a recursive function along
`Order`; that it is defined, and that it only blocks or skips what was pending, is shown
by the least step for which it would fail.

### Only model-checked

* Liveness (`EverySettles`, `DispatchSettles`, `DueIsClaimed`, `Settles`, `RunsEnd`,
  `Closes`, `PressHeard`, `EveryExecutionEnds`, `EverythingEnds`): the prover does not
  reason about fairness.

Every safety invariant and action property that a passing run checks is proved, three of
`WorkflowRun` for patient clients only, as the run has them.

## 7. Not modelled

* Turn loop (`packages/agent`): model calls and tool batches; its durable part is
  `AgentOperation`.
* Permission governance: a pure decision over policy, mode, grants and floors.
* Schedule calculator: cron and time zones; an occurrence is a number here.
* Voice sessions and speech: turn taking over device events.
* Hooks, extensions and MCP, providers, tools, sandbox and browser, wire protocol and
  clients, composition: process and network I/O, formats and wiring. Together they are most
  of the code by lines, and have no protocol a model would tell more about than their tests.
* Memory and recall: text retrieval. Storage plumbing: each table belongs to the model of
  its component.
* Channel pairing and administration, team definitions and messages, control leases.

Within the modelled parts: failing SQLite calls (a busy database makes any handler throw),
a clock that moves backwards, and what the sections on the modules list as left out.
