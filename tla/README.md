# A TLA+ verification of the PinPawo agent

PinPawo runs *Pets*: language-model agents with checkpointed sessions and human review. A
*host* process serves one Pet to a terminal or a socket client; a *Studio* process keeps
several resident Pets, gives them one-way work (*dispatches*) and runs *Plugins* (a scheduler,
triggers, channels, notices) that produce that work. Everything is TypeScript on one event loop per
process, so there are no data races: what goes wrong is what happens *between two awaits*,
when state that was read before a promise settles is used after it, and what a crash leaves in
the stores. The project models that control and checks it with TLC; the results that matter most
are proved for every instance with TLAPS.

## 1. Inventory

### 1.1 Components, their state and their operations

| Component | State | Operations | Hard behaviour |
|---|---|---|---|
| `ResidentPetCoordinator` (`services/host/src/host`) | gate, dispatch queue, preferred entry, `active` slot, `refreshing` read, conversation counter, `closing`, `schedulingVersion` | `submitDispatch`, `prioritizePendingDispatch`, `holdForConversation`, `refreshState`, `drain`, `run`, `close` | reads that outlive the state they saw, joined refreshes, wake-ups, conversations against dispatches |
| Resident dispatch and continuation (`residentPetDispatch.ts`, `dispatchContinuation.ts`, `residentPetSessions.ts`) and the chat turns they run (`serverChatHandler.ts`, `chatSessionAdapter.ts`) | pending-dispatch record per session, review in flight, observers | dispatch, suspend, resume, settle, review, observe | a crash or a failing save between the checkpoint and the record, two answers to one review |
| Session admission (`session/sessionAdmission.ts`, `sessionCommandQueue.ts`, `agent/activeRunRegister.ts`, `serverHandlers.ts`) | transition tail, run count, command queue, active run | `transact`, `runInSession`, `enqueue`, `begin`/`finish`, every session command | transitions against turns, commands that outlive a turn, snapshots read across a run |
| Agent graph and orchestrator (`packages/pet-agent/src/agent/orchestrator`) | per thread: the plan, the transcript with its executions, the iteration count; per turn: the Supervisor's copy of the plan | entry, `submit_plan`, `adjust_plan`, `review_current`, delegation, boundary, compaction | runs that break between a delivery and its acceptance, refusals that must use up a budget |
| Review of tool calls (`orchestrator/toolkitReviewMiddleware.ts`, `interrupt/`, `autoReview/`) | the thread's grants; per task: the recorder's grants, the policy decision, the answers of the interrupt | review a batch, interrupt, settle, grant | the task is run again for every answer, and the Host's mode may have changed |
| Checkpoint store (`services/host/src/fileSaver.ts`) | per thread: objects, manifests of checkpoints and of pending writes, the ref; store lock, writer lease | `put`, `putWrites`, `list`, collection, startup maintenance, `deleteThread` | a crash between any two files, siblings of one task, a lock left by the dead |
| Agent session protocol (`packages/agent-session`) | none; events, snapshots and the projection of a stream to a view | parse, validate, project, snapshot | order and duplication of events |
| Wire transports (`services/host/src/wire`, `rsService`, `serverWsTransport.ts`) | sockets, request tables | connect, request, push, close | reconnects, late answers |
| TUI (`services/tui`) | screen, editor, overlays, session view | keys, rendering, session client | rendering is out of scope; the session client repeats the projection |
| Studio core (`packages/studio/src/createStudio.ts`) | `stopped`, activation and shutdown promises, idempotency records, context providers, started Plugins | `dispatch`, `activatePlugins`, `shutdown`, `registerContextProvider` | duplicate deliveries, shutdown during start, failed admission |
| Studio Pets (`packages/studio/src/pets/studioPets.ts`) | Pet rows, live runtimes, `changes` queue, `restored`, `closed` | `create`, `rename`, `restore`, `close` | a queue whose members wait for each other, partial failure, restart |
| Studio event bus and hooks (`studioEventBus.ts`, `studioPluginHooks.ts`) | subscriptions with a FIFO each, providers and contributions | publish, subscribe, release, close, expose, contribute | events of a released subscriber, order per subscriber |
| Studio Host (`packages/studio/src/host`) | capabilities, Studio, init and shutdown promises | `init`, `activatePlugins`, `shutdown` | being told to stop while it initializes, activates or rolls back |
| Scheduler Plugin (`plugins/scheduler`) | schedule rows with a status, poll loop | create, cancel, claim, dispatch, fail, recover | a crash between sending and recording, several Studios on one database |
| Trigger Plugin (`plugins/trigger`) | delivery rows with a status | receive, claim, dispatch, accept, fail, retry, redeliver, recover | duplicate deliveries, retry of work that was already sent |
| Channel Plugin (`plugins/channel`) | channels, members, messages, the session bound to each Pet | add and remove members, post, route, run | the last human of a Channel, two first runs, a message whose event comes twice |
| Notice, project-files and studio-http Plugins | notices; files; HTTP sessions | CRUD and streaming | I/O more than control |
| Toolkits (`toolkits`, `services/host/src/toolkits`) | browser bridge, shell jobs, inventory | tool calls | I/O |
| Configuration, commands, capabilities, prompts, packages of types | files | parse, load, format | none that is concurrent |
| Studio console (`apps/studio-console`), `infra`, `docs`, `skills` | browser state, deployment | rendering | not program logic of the agent |

### 1.2 How they interact

- A client's request reaches the handlers of `serverHandlers.ts`. For a resident Pet every
  handler that changes a session is wrapped by `holdForConversation`
  (`residentPetHost.ts`, `admitConversationHandlers`), so a conversation holds the Pet's gate
  from before the request until after it; inside, `SessionAdmission` keeps turns and session
  transitions apart.
- A Plugin calls `studio.dispatch`, which deduplicates, then `residentPetDispatch.dispatch`,
  which submits to the coordinator; the coordinator runs it when the slot is free and the session it
  is bound to has no pending review. The outcome travels back as a *lifecycle event*, from the Pet's
  runtime to Studio's event bus to the Plugins.
- Everything durable is in two places: the Pet's checkpoint file (sessions, pending
  reviews, continuation records) and the Studio database (Pets, schedules, deliveries, channels).
  The dispatch queue is in neither: it does not survive a restart.
- A turn of the Host invokes the graph of its thread. When a tool call needs a review the graph
  interrupts; the checkpoint holds the review, the Host shows it, and a later turn resumes the graph
  with the answer. A dispatch that stops there leaves a record of itself beside the session.

### 1.3 What makes each part correct

- *Coordinator*: a dispatch runs alone and goes behind every conversation that has claimed the
  gate; an answer that was read before an await is not used after it has become wrong; nothing is lost
  or doubled in the queue; whoever leaves the slot wakes whoever waits.
- *Dispatch lifecycle*: a dispatch that waits on a review is continued by exactly the turn that answers
  it, through restarts; no review of a dispatch is forgotten; the port that takes answers reopens.
- *Admission*: session transitions exclude turns and each other, nobody overtakes, every request
  ends, a snapshot agrees with the run it shows.
- *Agent*: what is accepted was delivered, by the last attempt; what a broken run delivered is still
  there for the run that goes on with its plan; every run ends or waits for a person.
- *Review*: no call that asks for a review runs without one, a refusal stops its batch, a grant of a
  person is remembered.
- *Studio core*: a key is dispatched once while its record lives, nothing is dispatched after the stop,
  Plugins start and stop in order and once, and nothing of theirs outlives the core; a contribution is
  installed exactly while its hook is there.
- *Studio Pets*: at most one runtime per Pet; records and runtimes agree; what was acknowledged is
  kept; close leaves nothing; changes settle.
- *Scheduler and Trigger*: work reaches a Pet at most as often as it was asked for, over crashes and
  several Studios; a row tells the truth; no claim is forgotten.
- *Channel*: a Channel keeps a human, a Pet runs in the one session bound to it, a mention runs once.
- *Checkpoint store*: one writer at a time, a store that opens after any crash, nothing accepted lost.

## 2. Plan

One module per component, with an MC module, its configurations and, where the control does
not hang on liveness, a proof module.

| Order | Module | What it is for | State |
|---|---|---|---|
| 1 | `ResidentPetCoordinator`, abstract `ExecutionGate` | admission of dispatches and conversations, what a scan starts | checked, safety and refinement proved |
| 2 | `StudioPets` | the queue of changes and restarts | checked, safety proved |
| 3 | `HostAdmission` (again an `ExecutionGate`) | commands, transitions, turns, snapshots | checked, safety and refinement proved |
| 4 | `SchedulerPlugin` | claim, send, record, recover on a shared database | checked, safety proved |
| 5 | `TriggerPlugin` with Studio's idempotency records | the same with duplicates and retries | checked, safety proved |
| 6 | `DispatchLifecycle` | reviews, pending-dispatch records, continuation, two answers, crash | checked, safety proved, one disagreement |
| 7 | `CheckpointStore` | files, pending writes, lock, crash and maintenance | checked, safety proved |
| 8 | `StudioCore` | activation, rollback and shutdown; event FIFOs; hooks; Studio Host | checked, safety proved |
| 9 | `ChannelPlugin` | last human, bound sessions, mentions | checked, safety proved |
| 10 | `ToolReview`, composed into `AgentRun` | reviews and grants of one task inside the runs of a thread | checked, safety proved |
| 11 | the writer lease's takeover; the projection of the session protocol | two processes that recover one lease; order and duplication of events | open |

Two proof modules serve two components each: `GateProofs` the coordinator and the admission, which implement the same
gate, and `StudioProofs` the core and the Channel.

Two compositions were considered and left out. `DispatchLifecycle` over the whole coordinator would only
add the states of the queue: what it needs of the gate is one turn at a time and how old the read may be that
opened it, which is its constant `StaleGate`. A ledger that the Scheduler and the Trigger both implement would promise no more than that
nothing is sent without a claim: the one never sends twice, the other may, by a retry, which is the point of each.

What step 11's session module has to answer was read out of the code and is not yet checked by any run:

- a stop that arrives while an answered review is still being read finds no run in flight
  (`agent/serverChatHandler.ts:296`), announces the review again, and the approved run then goes on out of the client's sight;
- the terminal event of a message leaves before the run is taken off `activeRuns` (`serverHandlers.ts:647`), so a snapshot
  taken between the two shows a run that no later event ends;
- the refusal of a second client carries an empty request id (`wire/messageDispatcher.ts:235`), which the client's parser
  rejects (`agent-session/src/protocol.ts:505`), so the client reconnects and does not learn that the Host is in use.

## 3. Modules

In every module an action is the code between two awaits, with every call it makes in that
stretch. What the code reads after an await is read in the later action. Operators marked
`Bug:` are wrong variants of the definition that follows them; nothing in a specification uses them, they
exist to show that each property can fail.

### 3.1 `ResidentPetCoordinator`

| State | Code |
|---|---|
| `gate` | `state` (`open`, `waiting`, `blocked`, `busy`) |
| `queue`, `preferred` | `dispatchQueue`, `preferredDispatch` |
| `phase`, `entry`, `rest`, `answer`, `ran`, `failed`, `rescan` | `active`: how far the promise that owns the slot is, its dispatch, the candidates left, what its last read sampled, the locals `ran` and `blocked`, whether `schedulingVersion` has moved |
| `refresh`, `refreshAnswer` | `refreshing` and what it has read |
| `stage`, `conv`, `conversations`, `closing` | the dispatches, the callers of `holdForConversation`, the counter, the flag |
| `review`, `selected` | the environment: which session has a pending review, which is active |

- A read of a session (`readSettledState`, `ready`) is three moments: it is issued, it samples at one
  instant, it delivers later. The sample is what goes stale.
- `rescan` stands for comparing two values of `schedulingVersion`: set by whatever increments it.
- A refresh's delivery and its `finally` are one step (no await between them); what follows the end
  of the slot's promise runs in callbacks of their own and is a step of its own (`SlotReturns`).
- A dispatch either is bound to a session (`TargetOf`) and has a `ready`, or follows the Pet.
- `holdForConversation` is started by clients at any time; several conversations may run together
  (the admission below sorts them out). With `MayThrow` an operation may throw.
- Left out: listeners and snapshots of the queue, which copy this state; whether `close()`'s promise
  resolves; `enqueueDispatch`, which differs from `submitDispatch` only in who awaits the result.

`ExecutionGate` is what this module promises, without queue, slot, reads or states: dispatches execute
alone and at most once; conversations may execute together; a conversation that asked goes first. It
is mapped by `started`, `executing`, `asking`, `talking` at the end of the module.

### 3.2 `StudioPets`

`at[r]` is where request `r` (creations, renames and the restore, `Boot`) stands in its function;
`jobs` is `changes`, the promise chain of `serialize`, `rows`/`named` the database, `live`/`shown`/`open` the registrations and
the runtimes, `restored` the memoised promise, `closer` the call of `close()`. A crash (`Restart`) keeps the
rows and loses the rest; the definitions the Studio lists are chosen again. A restore may fail
because a definition is gone or an assembly fails. `MaxFaults` bounds failing assemblies,
`MaxLostDeletes` failing `deletePet` calls and `MaxRestarts` crashes.

### 3.3 `HostAdmission`

What keeps a turn and a transition apart is the *order of callbacks*: `waitForIdle` compares promises,
`transact` checks the counter when its callback runs. So the queue of ready callbacks, `micro`, is part
of the state. A callback runs when it is first; a promise that settles appends the callbacks that wait for
it, in the order of registration. Work that awaits I/O settles whenever it likes, and a client may send a
request between any two callbacks. `chain` holds both promise chains (session commands, and
the transitions inside them), `seen` the tail `waitForIdle` last compared; `behind`, how many commands
were queued before a message, and `version`, how many turns have written their last checkpoint, are
ghosts. A command turns out to change the session or only to list when its turn in the queue comes; the ones that change it are the
members of the second chain. A failing operation settles its chain like any other.
`onNewSession` is outside both queues, as in the code. A turn's last checkpoint is written before the turn
ends, in a step of its own. Turns of the Host itself (`runHostTurn`) are left out: the coordinator runs
them only while no conversation does. The gate of `ExecutionGate` is mapped here too: transitions
are its exclusive work, turns the work that may go together.

### 3.4 `SchedulerPlugin`

Rows (`status`, `note`), one poll per Studio (`poll[u]`, the schedule in hand and how far it is), the life of
each Studio (`host`), the rows a recovery still has to visit (`listed`). A transaction is a step, since
the database makes it one; an await is a boundary. `sent` is a ghost that counts what the Pet accepted.
Which due schedule comes first is left open, so all orders of due times are covered. A Studio may stop
(`studio.stopped` is set before `stop()`) or crash between any two steps; a store call may fail before or
after its commit. A failing `recoverInterrupted` fails the Plugin's start and so counts as a crash.
Not covered: a poll that a creation starts in the single microtask between a finished `await polling` and
the rest of `stop()`.

### 3.5 `TriggerPlugin`

Rows (`status`, `keyOf`), the handlers of each Studio (`flow[u][h]`: where a handler is and which
delivery it holds) and the idempotency records of Studio's dispatch (`record[u][i]`), which die with the
process. One handler, `Events`, stands for the subscription, which works one event after another; the others
are concurrent HTTP requests. `asked`, `sent` and `here` are ghosts: claims and retries of a delivery,
dispatches a Pet accepted, and those of them that this process made.

- One rule: the table's key is the pair of rule and idempotency key, and rules do not interact.
- Delivery ids are fresh: they are taken from `Deliveries` in any order.
- A read that is followed by a compare-and-set on the same row, where it can only refuse, is one
  step with it. The read of `claim` is not: there the insert decides, a step later.
- `send` begins with the Channel's checks, whose awaits change nothing here; then Studio looks its
  record up and reserves in one synchronous stretch. A sharer is answered in the same step as
  the admission it shares.
- The Channel records that a session exists after the dispatch; its failure is one of the faults of
  `Accept`.
- `stop()` does not wait for handlers, so they go on between `stopped` and the end of the process.
  A Pet may then accept a dispatch whose `notify` throws, the event bus being closed.

### 3.6 `DispatchLifecycle`

| State | Code |
|---|---|
| `pending`, `record`, `active` | the review a session's checkpoint stops on, `session.pendingDispatch`, the selected session; they survive a crash |
| `life` | the lifecycle a dispatch last reported to its observers |
| `turn` | the one turn that holds the Pet: its session, the dispatch it is attributed to, the answer it carries, how far it is, whether it was aborted, what it announced and how it ended |
| `answer`, `reviewing` | the answers to reviews, from the port of `residentPetSessions.ts` or the connected client, and the port's claim |
| `raiser`, `hit` | ghosts: whose turn raised a review, and which dispatches a mishap has hit |

The turn is modelled at the grain of the checkpoints it leaves: it reads the thread, streams, may save a review before the
stream shows it, and ends with an outcome. Between any two of these it may be stopped, fail, or the Host may close or die.
A Pet runs one turn at a time, which `ResidentPetCoordinator` and `HostAdmission` show; here it is one variable. What this module needs of the
gate is how old the read may be that opened it: with `StaleGate` it may be older than a review that a conversation
raised, which is what `RefreshReads` of the coordinator's module allows (section 5).

### 3.7 `CheckpointStore`

One thread's files: `objects`, `manifests`, `writes` (the pending writes of each checkpoint), `ref`, and the lock directory
with its owner file. Each file is replaced whole (`atomicFile.ts`), so a step is one file, and a crash or a failing
operation may come between any two. `sync` names the call in whose synchronous section a process is: the calls of one process
interleave only where the code awaits (for the lock, between reading and merging pending writes, between the pages of a list). `Start` is the next
life of the Host with its maintenance; `kept` is what a call has read and uses later. Which objects a checkpoint refers to
is a constant. Assumed: one living process (the writer lease), and LangGraph's order of calls (`Asked`): puts one behind another,
and writes in the background of their step.

### 3.8 `StudioCore`

The life of a Studio in three layers: the Host (`init`, `caps`, `hostStop`), the core (`activation`, `coreStop`,
`phase` and `left` of whoever closes it: a failed activation or the shutdown), and its Plugins (`plugin`,
`provider`, `joined`, `context`, and the bus with `sub`, `queue`, `handling`). Whoever has the Studio may call its shutdown
past its Host. A start may fail, and a handler may never return. A Plugin subscribes, exposes, contributes and
provides from the call of its `start` to the return of its `stop`. Every event is published once at most
(`fresh`), which bounds the queues. Studio's `dispatch` is in `TriggerPlugin` and `SchedulerPlugin`.

### 3.9 `ChannelPlugin`

One Channel. `change` is how far the transaction of an addition or a removal is (it locks the Channel's row, reads,
writes); `run` how far a run of a Pet is, whether asked for directly or by a message that mentions the Pet; `post` how far the
record of a message is. `binding` is the row that binds a session to a Pet, `bound` what a run has read of it, `known` and
`saved` the Host's sessions in memory and in its file. Any statement may fail; a crash rolls back what is in a
transaction and forgets what only the process knew. Routing, where a model picks the Pet, is left out: it ends in the same run.

### 3.10 `ToolReview` and `AgentRun`

`ToolReview` is a component without a specification of its own: one task of a Capability's subagent, from its start to its
return, with the middleware that reviews the calls of each reply. `AgentRun` extends it, starts a task when the Supervisor delegates
and ends it when the task returns, so the two are checked together.

| State | Code |
|---|---|
| `plan`, `count`, `record` | the thread's checkpoint: the plan's items and their status, `runIterationCount`, the executions in the transcript (and which of them compaction has summarized) |
| `node`, `draft`, `turns` | the graph's next step; the Supervisor agent's copy of the plan and the decisions it has taken |
| `grants`, `active` | `sessionToolAuthorizations` of the thread, and the recorder that the task was given |
| `batch`, `memo`, `answers`, `shown` | the calls of the last reply, the stored policy decision, the values the interrupt was resumed with, the reviews it shows |
| `ctxMode` | the mode the current invocation was given; the Host's may change at any time, so each invocation chooses |
| `said`, `declined`, `judged`, `under`, `vetted`, `consent`, `accepted`, `items` | ghosts: what people and the reviewer decided; the items ever accepted; the ids used |

- A call is told apart by its key (tool and authorization matcher), its policy, whether a reviewer's grant may be used again, and whether
  the toolkit's own rule lets it through in `auto`.
- Models decide freely: which reply, which tool of the Supervisor, what the reviewer says, what compaction keeps as recent.
- A resumed task is *run again from its start*: the recorder is made anew from the thread's grants, the stored decision is reused, and
  the answers are tried in order against what is left to ask.
- The answers are those the Host passes on; it refuses the others before the graph sees them.
- The Supervisor's copy becomes the thread's plan only by a delegation or a reply. `RunBreaks` is a failing node, an
  interruption or a crash; a run that waits for a review does not break, it is resumed or never.

## 4. Runs that pass

| Run | Instance | Properties | What it shows |
|---|---|---|---|
| `coordinator_safety` | four dispatches (three bound to one session, two of them in one scope; one following the Pet), one conversation that may throw, two sessions, one failing read, close | `Accounting`, `ScansStartWhatTheyMay`, `ImplementsGate` | executions never overlap, a scan's answer is still true when used, overtaking has a reason |
| `coordinator_liveness` | one dispatch bound to each of two sessions and one following the Pet, two conversations, close, no failing reads, no throwing operations | `TargetedNotStranded`, `ImplementsFairGate` | no wake-up is lost |
| `pets` | three creations of two Pets, a rename, one failing assembly, one failing delete, one crash | `ServedAsRecorded`, `CloseLeavesNothing`, `RestoredPetsSettle` | records and runtimes agree, changes settle when the Pets are restored first |
| `admission` | two messages, two commands (each a transition or a listing), new sessions, one snapshot read | `StateIsSound`, `QueuesKeepTheirOrder`, `StateUnderARunIsSettled`, `ImplementsSessionGate`, `RequestsEnd` | exclusion and order, what a turn may rely on, every request ends |
| `scheduler` | two schedules, two Studios with two starts each, two failing calls | `NeverSentTwice`, `RowsTellTheTruth`, `SchedulesSettle` | nothing is sent twice, everything is settled |
| `trigger` | one external key, two delivery ids, two Studios (one ends and starts again), an event and a request handler each, one retry, one failing call | `RunsAreAccounted`, `ClaimsAreHeld` | duplicates, retries and crashes do not multiply the work |
| `dispatch_lifecycle` | two dispatches (one bound to a session, one following the Pet), two sessions, two answers, two reviews, one mishap | `WaitingIsResumable`, `ReviewsAreOwned`, `StateIsSound`, `PortReopens` | who says it waits can be resumed, no review of a dispatch is forgotten, the port answers one review at a time |
| `checkpoint_store` | two checkpoints that share an object, two pending writes of the second, a collection, a list, three lives, two mishaps | `StoreIsWhole`, `AcceptedStays`, `OneWriter`, `LocksAreRecovered` | the store opens after any crash and has lost nothing |
| `studio_core` | two Plugins, the first contributing to the second's hook, two subscribers, one event and the activation's own | `NothingOutlivesTheCore`, `HooksAreJoined`, `StoppedPluginsHearNothing`, `ShutdownSettles` | whoever stops whenever, everything stops once and in order |
| `channel` | two humans who remove each other while a Pet is added; two first runs of a Pet; a message of its received twice that mentions another; two crashes | `HumanRemains`, `BindingsAreKept`, `MentionsRunOnce` | the last human stays, one session per Pet, one run per mention |
| `agent_run` | two messages, two plan items, two delegations and two decisions of the Supervisor a run; tasks of two replies with three kinds of calls; two answers to an interrupt | `StateIsSound`, `AcceptedWasDelivered`, `EvidenceIsKept`, `NothingRunsUnasked`, `RefusalsStand`, `GrantsAreRemembered`, `RunsEnd` | what is accepted was delivered, what runs was asked for, runs end |

Some properties are conjunctions of named parts, each with its comment: `ScansStartWhatTheyMay` of
`CandidateStillQueued`, `ScanStartsWithoutReview`, `ClaimGoesFirst`, `ClosingTakesNoSlot` and `OvertakingIsExplained`,
`ServedAsRecorded` of what is recorded, assembled and acknowledged, `RunsAreAccounted` of `OneRowPerKey`, `SentAsAsked`, `OncePerLife` and
`AcceptedWasSent`, `QueuesKeepTheirOrder` of `TurnsFollowTheirCommands` and `CommandsInOrder`.

**Why the bounds are enough.** Overtaking a scope takes three dispatches of one session (one runs, one of
another scope waits first, one of its own scope is preferred), and the fourth follows the Pet, so that the slot is
also given away without a scan. A lost wake-up takes a scan that waits for one session while another
becomes free: `coordinator_liveness` has a dispatch for each session, and its second conversation makes the hold
counter exceed one (`ImplementsFairGate` implies `ImplementsGate` there; the safety properties are proved for
any number of conversations). One failing read suffices to pass a candidate over. Two creations of one Pet
conflict, the third is behind them. Two messages race for the register, two commands for each
chain. Two Studios suffice for every race on a row, since each step touches one row for one Studio; two
starts let a crash, a recovery and a third actor meet. Two delivery ids are a delivery and its redelivery.
Two dispatches, one bound and one following the Pet, meet on one session by selecting it, and a second review is
what a continuation may raise. Pending writes that arrive before their checkpoint, and an object that only an older checkpoint and they refer to, need
two checkpoints and two writes; two mishaps are a crash and another in the maintenance that follows, and the third life is the one that must then open. Two Plugins have an order and
its reverse, and a hook on the later of them is exposed after and removed before its contribution. In `agent_run` two runs are a run that breaks
and the one that goes on; two items, one accepted and one open; two answers, one that fits and one left from before; the three kinds of calls are one
that may be granted, one that no matcher covers and the toolkit lets through in `auto`, and one that is blocked.

The *named bounds* are `MaxFaults`, `MaxLostDeletes`, `MaxRestarts`, `MaxStarts`, `MaxAsks`, `MaxReviews`, `MaxMishaps`, `Lives`, `MaxCrashes`, `MaxRuns`,
`MaxItems`, `MaxAnswers` and the code's own limits with smaller values: `MaxAttempts` (5), `MaxReplies` (99), `MaxPlan` (24), `MaxIterations` (25), `MaxTurns` (about 20);
the small values keep the cases where the code gives up in reach. The guard "the last start of a Studio stays up" keeps a Studio from being down for good at
the bound, which would satisfy a property for the wrong reason; `Redeliver` leaves an id for each
key not yet received for the same reason. `SYMMETRY` is used in `trigger` only, on delivery ids, and no temporal
property is checked there.

Deadlock is checked in `dispatch_lifecycle`, where a Host can be closed and opened again or the person can talk. It is not checked elsewhere: requests,
schedules, calls and starts are used up, and a system with nothing to do rests.

**Fairness.** Weak fairness of the steps the event loop takes by itself: a promise that is settled has its
callbacks run, a pending read returns, a turn ends (a model call has a timeout), a queued callback is
reached. No fairness is given to clients: nobody has to send, prefer, answer or close. In particular:

- `admission`: one condition for the whole event loop (`LoopStep`), since there are finitely many callbacks at a time.
- `SchedulesSettle` also assumes that a Studio that is down is started again, that it activates, and that its poll timer fires, which is what the interval
  is for.
- `PortReopens`: a turn goes on, settles, and an answer that holds the gate gets it before a dispatch. Nobody has to answer.
- `LocksAreRecovered`: a living process goes on while one of its calls can; the store polls for its lock. A crash is never fair.
- `ShutdownSettles`: the Host's and the core's own steps, and every start and stop of a Plugin, return. Handlers do not have to.
- `RunsEnd`: models and tools answer. The person owes nothing, so a run may wait for a review for ever.

No strong fairness is used anywhere. Conditions are stated in the properties: no failing calls
(`faults = 0`), Pets restored before the first request.

## 5. Disagreements

| Run | Property | What TLC finds |
|---|---|---|
| `dispatch_takeover` | `WaitingIsResumable` | A continuation raises its next review while a refresh reads. The gate opens on the older read, and a dispatch that follows the Pet starts on that session: it is told of the review that is pending, reports that it waits, and its record replaces that of the dispatch that does. The answer then continues the wrong one, and the other is never reported again. |

With `StaleGate` off (`dispatch_lifecycle`) the property holds, so closing the gate's window is enough.

Seen while modelling, and not a run of its own:

- `residentPetCoordinator.ts:119`: an operation that throws skips what follows, so the gate stays `busy` with nothing running until
  something else refreshes it.
- `residentPetCoordinator.ts:164`: the refresh after a conversation joins one that is reading already, and so may open the gate on a session whose review
  that conversation raised (the window of `dispatch_takeover`), or leave it blocked when the conversation answered it. `:153-155` promises that a new submission is not stranded behind an old state; a
  dispatch that follows the Pet may wait for the next submission.
- Line 85 says the gate is held busy by a conversation; a refresh that was reading when it began
  reports its own answer over it (line 168). Dispatches wait all the same, for the counter.
- Lines 78-79 say that "earlier inputs to this same session still come first"; `find` matches session *and
  scope*, so an earlier input of the session in another scope is overtaken. `OvertakingIsExplained`
  allows exactly this.
- `serverHandlers.ts:642-643` says the active session cannot change during a turn; `onNewSession` (line 689)
  changes it. `OnlyNewSessionMovesATurn` shows that nothing else does.
- `serverHandlers.ts:255`: the register is read again after `readCheckpointAtRun` has compared it, one callback later. A turn that ends between the two leaves a
  snapshot of an older checkpoint with no run, which lines 208-211 describe as what no event can repair.
- `activeRunRegister.ts:49-51` calls a second claim a bypassed admission; two messages that wait for the same
  transition reach it on the ordinary path, and the later one fails.
- `studioPets.ts:149`: `create` awaits `restore()` inside the queue of changes. If `restore()` is first called behind a queued `create()`, it is
  queued behind that `create()`, and the queue stands still. `RestoredPetsSettle` has the condition that the restore comes first, as in `buildStudio`.
- `studioPets.ts:157` says a Pet that never ran leaves no history; if `deletePet` fails too, its row stays and the next
  start assembles it. `RecordsMatchRuntimes` holds up to that failure.
- `schedulerService.ts:113`: a Studio that starts fails every row that is `dispatching`, also one that another, living Studio has in hand;
  `triggerService.ts:148-149` likewise, and even this Studio's own, because events are handled from the subscription on
  (`triggerPlugin.ts:467` against line 494).
- When a Studio stops while its poll runs, every due schedule is claimed, refused because Studio is
  stopped, and failed (`schedulerPlugin.ts:300`), which `schedulerPlugin.test.ts:190` accepts for one schedule.
- `fileSaver.ts:486`: two Hosts that recover the lease of a dead one over a recovery guard that is stale too can both go on, once the name the stale guard is moved to is
  free again. `fileSaver.ts:1137`: a crash inside `deleteThread` may leave a manifest without its objects, and the next start refuses the whole store.
- A grant that a person gave for an earlier batch of a task is in that task's recorder only; when a later batch interrupts, the task is run again and the recorder is made
  anew, so the person may be asked again (`capabilityExecution/runner.ts:79`). `GrantsAreRemembered` speaks of grants of tasks that have returned.
- The answers of an interrupt are replayed from the first against the reviews that are left. When the Host's mode changes from `require` to `auto` and back while a batch waits, an
  earlier approval may settle the batch although the person has cancelled since. `RefusalsStand` therefore asks that the mode did not change.
- `replyDeliverables.ts` says it takes "the same latest execution that review_current accepted"; it selects only this run's executions, so an item that
  was accepted on a delivery of an earlier run has none. And a second `submit_plan` in one run leaves the first plan's accepted deliverables out of the reply.

## 6. Proofs

Every theorem is `Spec => []P` or `Spec => [][A]_vars` for arbitrary sets of dispatches, conversations,
Pets, requests, commands, schedules, deliveries, members, runs, messages, Plugins, Studios, plans and batches, under the assumptions the modules name
(`ASSUME ...Assumption`: disjointness of the constants' sets, finiteness where something is counted, bounds that are
naturals). Two theorems of the dispatch lifecycle have `~StaleGate` as a hypothesis, for the reason given there. Each
proof has one lemma per action ("this step keeps the invariant"), lemmas about the
operators those share, and a last step in temporal logic.

**`GateProofs`, the coordinator.** `IInv` is `TypeOK` with six parts. `QueueInv`: the queue has no duplicates and
holds the dispatches whose stage is `queued`. `StageInv`: a dispatch runs only in the slot's running phases, and the slot then knows which one.
`CountInv`: the hold counter is the number of conversations that hold. `SlotInv`: a running conversation
finds the slot free, and a slot that is taken has no refresh beside it. `ScanInv`: the candidates a scan still
has to consider are queued, unless close emptied the queue. `ReadInv`: a read that returned has an answer. `NoOverlap` is not inductive alone: that a conversation finds the slot free when it starts
needs the counter, because `drain` tests the counter and not the conversations. `CandidateStillQueued` needs
that only the scan removes entries while it owns the slot. `Accounting` adds that a sequence without duplicates
has as many entries as elements.

`ScansStartWhatTheyMay` needs two more facts. `ReadyInv`: the answer a scan has read is still true when it decides, because
nothing writes a checkpoint while the scan owns the slot. `OrderInv`: an entry that is queued before a candidate also comes before it in the scan,
unless the candidate is preferred or the entry was passed for its pending review; a read that failed ends that, which is why
`OvertakingIsExplained` names it.

The refinement comes next. Under `IInv` every step of the coordinator is a step of `ExecutionGate` or leaves
its four variables alone: `CheckStarts` and a drain in an open state are `StartDispatch`, `DispatchSettles` and what
follows end in `FinishDispatch`, the hold is `Ask`, the entry is `StartTalking`. `ClaimsGoFirst` follows
from the same case split.

**`GateProofs`, the admission.** The difficulty is that nothing locks: what keeps a turn and a transition apart is where their
callbacks are in the queue. `OneCallEach`: a message or a command has at most one callback, ready or waiting. `MembersInv`: a
chain is settled up to a member whose outcome is known, and only the next one may be at work. `CallsInv` is the heart; it says what
each callback knows when it runs: a `start` or `check` that it is at the front of its chain, a `message` that the commands
before it have ended, a `look` that the tail it compared is settled. It is stated for ready callbacks and for those that
still wait, so that a promise that settles only moves them. `EnterInv`: while an `enter` is ready no transition
works, and no `check` that could start one is in front of it. `RunsInv`: the register is the one turn, the counter is at
least the number of messages that hold the session, what a message saw of the commands has settled. `SnapshotsInv` bounds what a read
under a run can have missed. As a gate, a `CheckRun` that lets its command work is `StartDispatch`, the end of a
transition is `FinishDispatch`, an `Enter` that begins a turn is `StartTalking`, `EndRun` is `StopTalking`;
everything else stutters.

**`StudioPetsProofs`.** The fact that carries it is that only the head of the chain is past its first
step (`OneRuns`), so what a job has read from the rows is still true when it writes. `RestoreInv` says
what a restore still has to assemble, exactly, and which Pet a creation has in hand; `KindInv` which steps a
kind of job takes; `CloseInv` that the chain is empty once the runtimes were taken over; `KeptInv` that the
Pet of an acknowledged creation is in nobody's hands. `RecordsMatchRuntimes` is proved on top, by a second invariant of its
own.

**`SchedulerPluginProofs`.** `ClaimInv`: at most one poll has a schedule in hand, and none has one that can
still be claimed. `SentInv`: what can still be claimed was not sent, what is recorded as dispatched was.
`HandInv`: what a poll holds was not sent before the Pet answered, and was afterwards. The point of the argument is that a recovery turns the row to `failed`, from which no
claim starts, so a crash after the send cannot lead to another.

**`TriggerPluginProofs`.** A failed delivery *can* be claimed again, by a retry, so the bound is
on the number of asks. `AskInv`, `sent[i] + Cardinality(MaySend(i)) <= asked[i]`, counts the handlers that may still send
it: a claim or a retry adds one to both sides, an accepted dispatch moves one from the handlers to
`sent`, a crash drops handlers. `RecordInv` ties Studio's records to the handlers: a pending record has
exactly one admission, a sharer shares a pending record, and in a Studio that is not stopped a
dispatch that was made is recorded as done, which gives `OncePerLife`. After the stop the record may be
released though the Pet accepted; nothing is admitted any more then, so the count stays at one. `KeyInv` and `RowInv`
keep the insert's uniqueness, `AcceptInv` the order of the acceptance and its record, `HeldInv` says of
every row that is dispatching who will go on with it.

**`StudioProofs`, the Channel.** Three arguments that do not need each other. `LockInv`: a transaction that is past the
lock of the Channel's row has it, so a removal that is about to be written still leaves another human; a rollback and a
crash give the lock back with nothing written. `BindingInv`: the session of a binding is set once and never
replaced, it is registered only if the Host's file has it, and a run past its reservation knows the session
the row has. `MentionInv`: a post starts a run only after its insert won, and no two posts with one message can
have won. What makes the second inductive is that a run that asks the Host again, after a failed `confirmSession`, asks for
the same session.

**`CheckpointStoreProofs`.** `LockInv`, with `LifeInv` (one process lives, and a call that is under way is its
call): who is between taking and giving back the lock is named in it and alive, and who is about to remove a dead
process's lock is alone with it, so no two calls are in the middle of their files. `WorkInv` then says what the one relies on: the objects are
there when the manifest is written, the manifest when the ref is, what is to be swept is not reachable, and what `putWrites` has read holds
every write that is there. `OrderInv`, that the graph queues its puts, keeps the ref from going back, and with it `LandedInv`, what was
acknowledged, survives every prune.

**`DispatchLifecycleProofs`.** `AnswerInv` and `PortInv` say that at most one answer of the port is between its claim and the
end of its turn, and whose turn that is; that is `StateIsSound`, with no further hypothesis. `TurnInv` says what a turn may be announcing at each point of
its way, `RecordInv` that a pending-dispatch record and the review it is for agree, `ContinueInv` that the turn which goes on with
a session works for the dispatch its record names. `OwnerInv` then gives each pending review the dispatch whose turn raised it or nobody. From these,
`WaitingIsResumable` and `ReviewsAreOwned` follow **if the read that opened the gate was not stale** (`~StaleGate`). The hypothesis
is the point and not a convenience: with `StaleGate` a dispatch may be started over a review it has not seen, and the run
`dispatch_takeover` shows what that leads to (section 5).

**`StudioProofs`, the core.** Both lists of the activation and both of the shutdown are stretches of one order, so the argument is about
indices. `ListInv` says which stretch each list is: what was activated is a beginning of the order, what
is left to stop is a beginning of what was activated, what was stopped is the rest of it from the end. `PluginInv` ties a Plugin's state to its place, `PhaseInv`
and `CloseInv` say that one of activation and shutdown closes at a time and what the other waits for, `TraceInv` that only a Plugin
between the call of its `start` and the return of its `stop` has hooks, a provider, subscriptions or queued events. `HostInv` counts calls: as many starts were called as there are Plugins started, still
to be stopped, and stopped.

**`AgentRunProofs`.** `IInv` has a part for the task under review, one for the run, and `LinkInv` between them: a task is alive
exactly while the graph is at its Capability. `ReviewInv` follows a batch from its policy to its answers: `GrantInv` says
that the recorder and the thread's grants never know more than what people and the reviewer decided, `InterruptInv` what the
stored decision and the answers given so far imply, `OneMode` that under one mode a review asks for no less when it is asked
again. `RunInv` says of the thread's plan and of the Supervisor's copy alike (`Sound`) that their items are distinct and known and that an
accepted one has a delivery as the last thing that came of it. The calls of a batch and the items of a plan are selected from
sequences of any length. What the proofs need of such a selection is an induction over the sequence; the library's
induction theorems cannot be used, so it is done by well-foundedness: a set of naturals that violate something has a least
member (`NatSetInduction`, `LeastOf`).

A combined property is proved from its parts, which are theorems too (`TypeCorrect`, `ExecutionsExclude`, `CandidateStays`,
`ClaimsGoFirst`, `ScansHeedReviews`, `OvertakingExplained`, `NeverAssembledTwice`, `CreatedPetsAreKept`, `RecordsAreServed`, `KeysHaveOneRow`, `NoUnaskedRun`,
`LifeRunsOnce`, `AcceptedReachedItsPet`).

| Component | Proved for any instance | Only model-checked |
|---|---|---|
| coordinator | `Accounting`, `ScansStartWhatTheyMay`, `ImplementsGate` | |
| Pets | `ServedAsRecorded`, `CloseLeavesNothing` | |
| admission | `StateIsSound`, `QueuesKeepTheirOrder`, `StateUnderARunIsSettled`, `ImplementsSessionGate` | |
| Scheduler | `NeverSentTwice`, `RowsTellTheTruth` | |
| Trigger | `RunsAreAccounted`, `ClaimsAreHeld` | |
| dispatch lifecycle | `StateIsSound`; if no stale read opens the gate (`~StaleGate`) `WaitingIsResumable`, `ReviewsAreOwned` | |
| Checkpoint store | `OneWriter`, `StoreIsWhole`, `AcceptedStays` | |
| Studio core | `NothingOutlivesTheCore`, `HooksAreJoined`, `StoppedPluginsHearNothing` | |
| Channel | `HumanRemains`, `BindingsAreKept`, `MentionsRunOnce` | |
| agent runs and reviews | `StateIsSound`, `AcceptedWasDelivered`, `EvidenceIsKept`, `NothingRunsUnasked`, `RefusalsStand`, `GrantsAreRemembered` | |
| liveness: `TargetedNotStranded`, `ImplementsFairGate`, `RestoredPetsSettle`, `RequestsEnd`, `SchedulesSettle`, `PortReopens`, `LocksAreRecovered`, `ShutdownSettles`, `RunsEnd` | | all: fairness and `ENABLED` are out of the prover's reach |

So every safety property that a run checks is a theorem, and the run's part is to show that its premises are met and that a
wrong variant of the code breaks it. `ImplementsFairGate` adds to `ImplementsGate` that a conversation which asks is let in; only the safety
half is proved.

The Trigger has no liveness property. `ClaimsAreHeld` is its safety counterpart: a delivery that is
dispatching always has somebody who goes on with it, or a Studio that will list it.

## 7. What is not modelled

Section 1 lists every component; the ones without a module are data, rendering and I/O, or
control that this development has not reached. Of the components that have one, the following is left out.

- **Admission.** The generation of an authorization, headless runtimes (nobody answers a review there) and the
  routes of the local server. A command that the protocol refuses to parse never reaches the queue.
- **Dispatches.** The text of goals and briefings, the deliverables of a reply, the handoff when the context window
  is full, `runHostTurn` for other callers than the two that the module has, and a review that another version of the Host wrote.
- **Checkpoint store.** `deleteThread`, the usage ledger, several namespaces of one thread, and the protocol by which the
  writer lease of a dead Host is taken over; the model takes the lease at its word.
- **Studio core.** HTTP routes, event logs and what a Plugin's own stop does.
- **Channel.** Titles, prompts, pages, the working indicator and routing, where a model picks the Pet; what it picks is run by the
  same `dispatchPet`.
- **Agent runs.** The modes `full_access` and custom, calls without an id, the disclosure of capabilities, a plan's run
  stamp, resuming after a crash that lies past the interrupt, and answers that the Host already refuses.

Assumed rather than shown: the
database makes a transaction atomic and keeps what was committed; a file that is renamed into place is there whole; a Pet that
accepts a dispatch queues it (what then becomes of
it is the coordinator's and the dispatch lifecycle's business, and the queue is lost in a crash); clocks are not
compared, a schedule is due or not at any time; JavaScript runs callbacks one at a time in the
order they became ready.

## 8. Running it

Each configuration belongs to the MC module of its component:

| Configuration | Module |
|---|---|
| `CoordinatorSafety`, `CoordinatorLiveness` | `MCResidentPetCoordinator` |
| `StudioPets` | `MCStudioPets` |
| `Admission` | `MCHostAdmission` |
| `Scheduler` | `MCSchedulerPlugin` |
| `Trigger` | `MCTriggerPlugin` |
| `DispatchLifecycle`, `DispatchTakeover` (a counterexample) | `MCDispatchLifecycle` |
| `CheckpointStore` | `MCCheckpointStore` |
| `StudioCore` | `MCStudioCore` |
| `ChannelPlugin` | `MCChannelPlugin` |
| `AgentRun` | `MCAgentRun` |

`tlc -config CoordinatorSafety.cfg MCResidentPetCoordinator` runs one; `tlapm GateProofs.tla` and likewise for
each proof module. The longest run takes about three and a half minutes on two workers. `PROJECT.json` lists
runs, theorems, hazards, the lines each definition models, and for each property a wrong variant of the code that breaks it.
