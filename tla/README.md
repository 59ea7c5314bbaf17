# A TLA+ model of the t3code server

t3code is a server that runs coding agents for a user, and the clients (web,
desktop, mobile, command line) that talk to it. This directory models the part of the server that has
to be right whatever runs at the same time: the command engine with its event log,
the projections that are brought up to date after a commit, the queue of
turns that survives a crash, the life of a turn between user and provider, the
worktrees chats work in and their removal, the keyed worker that keeps the events of a
chat in order, and the list of chats a client keeps in step with the server. TLC checks the models on
small instances, and TLAPS proves the safety properties of every one of them for all instances.

Contents: [components](#components), [modules](#modules), [the engine](#orchestrationengine-and-commandlog),
[the reconciler](#projectionreconcile), [the queue](#queuedturns), [turns](#turnlifecycle),
[worktrees](#worktreecleanup), [the keyed worker](#keyedworker-and-keyedfifo), [the list of chats](#shellstream), [runs](#runs),
[bounds](#bounds), [fairness](#fairness), [proofs](#proofs),
[disagreements found](#disagreements-found), [not modelled](#not-modelled), [plan](#plan).

To run everything, with TLC and tlapm on the path:

    tlc -workers 2 -config Engine.cfg MCOrchestrationEngine
    tlapm OrchestrationEngine_proofs.tla

Paths below are relative to `src/apps/server/src/` unless they start with `src/`.

## Components

State, operations and what makes each part correct. "Hard" is what tests hardly
reach. `PROJECT.json` has the same list with its sources, and the hazards line by line.

| Component | State | Operations | Hard | Correct when |
| --- | --- | --- | --- | --- |
| Orchestration engine (`orchestration/Layers/OrchestrationEngine.ts`) | intake queue, sixteen shard queues and workers, `commitLock`, read model, event hub; durable: events, receipts | dispatch, route, batch, admit, decide, commit, publish, answer, compensate, restart | interleaved shards, batches that fall back, retries, crashes between commit and answer | a command executes once, its verdict is final, the read model and subscribers follow the log |
| Decider and projector (`orchestration/decider.ts`, `projector.ts`) | none: functions of the read model | one case per command, one per event | rules that span threads; decisions with no events | decisions are made on the current model |
| Projections and reconciler (`ProjectionPipeline.ts`, `ProjectionReconciler.ts`) | tables, reconciliation jobs, attachment files, `drainLock` | project in the commit's transaction; drain jobs after it; bootstrap | a drain reads and writes rows outside any transaction while others commit; its errors are ignored | no deferred work is forgotten, and none is done on what has gone |
| Queued turns (`QueuedTurnReactor.ts`) | in memory: barrier, `awaitingHold`, drains; durable: queue, hold, shutdown marker | create, edit, delete, reorder, drain, dispatch, hold, release, start, exit | coalesced drains, a choice made on an old read, holds that fail, exits during the start | survivors of a crash wait for the user; a due turn is started |
| Workspace admission and checkout locks (`workspaceAdmission.ts`, `git/CheckoutCoordinator.ts`) | claims on checkouts, lock per checkout | admit, claim, compensate, reserve for cleanup | nested locks, admission on a stale read model | two unrelated threads never own a checkout; no deadlock |
| Provider commands and ingestion (`ProviderCommandReactor.ts`, `ProviderRuntimeIngestion.ts`) | pending turn starts, the worker's queue, a fiber per turn, buffers | start, interrupt, stop, send, ingest, settle | five writers of one session without a lock; a turn cancelled or lost while it starts | a start is run, failed visibly or cancelled; a cancelled one is never sent |
| Provider sessions (`provider/Layers/ProviderService.ts`, `ProviderSessionReaper.ts`) | adapters, session directory, settled turns | start, resume, stop, list, reap | the reaper races a new turn and ingestion | a chat does not stay busy with a turn nobody runs, and a live turn is not cleared |
| Thread deletion, worktree cleanup (`ThreadDeletionReactor.ts`, `WorktreeCleanupJobs.ts`) | durable cleanup jobs, reservations, the checkout | discover, reserve, tear down, detach, prune, retry, keep | three locks, a claim, a reservation; a crash between any two steps | a checkout in use is not removed, every reservation is given back |
| Checkpoints (`CheckpointReactor.ts`) | git refs | capture, diff, revert | a revert beside a running turn | a checkpoint is the state it names |
| Pull request monitor (`pullRequestMonitor/`) | durable deliveries and batches | poll, batch, deliver, archive | an external service, retries with the same command id | feedback is delivered once |
| Shared workers (`src/packages/shared/src/DrainableWorker.ts`, `KeyedCoalescingWorker.ts`) | tail of every key, counter of fibers | enqueue, process, drain | items with several keys, an item enqueued between the steps of one that ends | order on every key, an exact counter, a drain that is honest and returns |
| Validation (`validation/RepositoryValidationRunner.ts`) | runs and their processes | start, cancel | cancel beside completion | one outcome per run |
| Web socket server (`ws.ts`, `orchestration/shellStream.ts`) | a fiber and a buffer per subscription | subscribe, attach, replay or snapshot, mark, deliver | two sources of one stream, rows read later than their event | what a client is sent, applied in order, is the state |
| Clients (`src/packages/client-runtime/src/state/shell.ts`, user interfaces) | snapshot and cursor, session, status | connect, load, subscribe, apply, wake, retry | a cursor that is valid for an incomplete snapshot; which session it belongs to | a client that says it is live is, and misses nothing for longer than a session |
| Terminals, start-up claim | processes, a file lock | I/O | | |

The parts meet in four ways. Every change is a **command** to the engine. Every
committed **event** is published to the reactors (queued turns, providers, deletion,
checkpoints), which dispatch commands in turn. The **read model** is one immutable
value that everybody reads without a lock. And **durable rows** (events, receipts,
jobs, holds, the shutdown marker) are what is left after a crash.

## Modules

| Module | Models | Theorems in |
| --- | --- | --- |
| `CommandLog` | what the engine promises: an append-only history and final verdicts | |
| `OrchestrationEngine` | the engine, from dispatch to answer, with restarts | `OrchestrationEngine_proofs`, `OrchestrationEngineLog_proofs` |
| `ProjectionReconcile` | commits, reconciliation jobs, drains, attachments, bootstrap | `ProjectionReconcile_proofs` |
| `QueuedTurns` | the queue of turns, its reactor, crash holds, starts and exits | `QueuedTurns_proofs` |
| `TurnLifecycle` | the turns of a chat: start, interrupt, stop, send, ingestion, reaper, crash | `TurnLifecycle_proofs` |
| `WorktreeCleanup` | who may use a worktree, and its removal: admission, locks, jobs, reactor, restarts | `WorktreeCleanup_proofs` |
| `KeyedFIFO` | what the keyed worker promises: a queue for every key | |
| `KeyedWorker` | `makeKeyedDrainableWorker`, step by step | `KeyedWorker_proofs` |
| `ShellStream` | a client's list of chats: subscription of the server, cursor, session and retries of the client | `ShellStream_proofs` |
| `MC...` | the values TLC uses for the constants of each | |

The modules stand on one another by abstraction, not by sharing variables.
`OrchestrationEngine` shows that a command is one atomic step on the current model, or a failure
without effect (`DecidedOnFreshModel`, `AtMostOnce`, `AnswersAreDurable`);
`ProjectionReconcile`, `QueuedTurns` and `TurnLifecycle` then take every command as one action;
`WorktreeCleanup` splits the commands it follows at admission, because the locks and claims
of admission are what it is about. `KeyedWorker` shows that the events of a chat are handled
one at a time and in order, which is how `TurnLifecycle` has one worker with a queue. `ShellStream` takes from the engine
that events are published in order and after the read model has them (`ModelTracksLog`).
Operators whose comment starts with "Fault:" are variants of the operator below
them with a plausible mistake. No specification uses them: each shows that a property
notices the mistake (`PROJECT.json`, "mutants").

### OrchestrationEngine and CommandLog

| Model | Code |
| --- | --- |
| `Dispatch`, `Route` | `dispatch` / `enqueueToolActivityAppend` offer to `commandQueue`; the router moves to the shard of the aggregate's hash |
| `Take`, `CandidateArrives`, `PollBatch` | `shardWorker`: leftovers of an earlier poll first, then the queue; a tool activity opens a batch window that ends with a raced take or a timeout |
| `Admit`, `AdmitBatch` | the receipt check and workspace admission, outside every lock |
| `Decide` (`DecideEvents`, `AcceptNoOp`, `Replay`, `Fail`) | the head of the commit section under `commitLock`: receipt again, decider, accepted no-op |
| `Write`, `WriteFails`, `WriteBatch`, `WriteBatchFails` | the SQL transaction: events, receipt, projections and the purge of `thread.deleted`; or its roll-back |
| `Swap`, `Publish`, `Finish` | the new read model, the hub, the awaited reconcile and the caller's `Deferred` |
| `Compensate`, `Refuse` | the failure path: replay of what the model lacks, rejected receipt, failure |
| `FallBack` | a batch that cannot be used is processed one by one |
| `Crash`, `Boot` | memory is lost, open transactions roll back; the model is built from the log |

The decider and admission are nondeterministic: a command has a set of event
lists it may decide (`Outcomes`), may be refused, or fails. An event is its stream. The read model is
the list of log positions that were applied, so that an event lost or
applied twice shows. Each commit step (write, swap, publish, answer) is an action of its own, so other
shards, and crashes, come in between.

`CommandLog` has no shards, locks, batches or crashes: a set of commands without
a verdict is executed at once, its events appended behind all others and contiguous per command,
with accepted verdicts; or a command is accepted without events, or rejected.
The mapping takes `receipts[c].status` for the verdict and the log without its
internal fields for the history.

### ProjectionReconcile

A commit writes the thread's row and, when its event has an impact, a job in the
same transaction (`CommitSummary`, `CommitTurn`, `CommitRevert`, `CommitDelete`, with `Touch`, `Write` and
`Enqueue`). The worker then awaits a drain. The others have no job (`CommitArchive`, `CommitMessage`, `CommitSend`,
`CommitQueue`, `CommitDispatchQueued`, `CommitUnqueue`), not even a user's message, which is a source of the summary: the commit
itself writes its time into the row (`SendMessage`), and a drain that refreshes the thread writes the time that it has read. A drain (`StartDrain` to `Complete`) holds `drainLock` only: it lists the jobs, and per thread
reads the row (`ReadRow`), reads the sources (`ReadSources`), and upserts the whole row
(`Upsert`); then, per thread, it reads the kept paths, lists the directory and
removes files one at a time; last it deletes the jobs it had listed (`CompleteThrough`). `DrainFails` leaves the
jobs. `Bootstrap` drains before the read model is loaded. A column is the number of the last commit it accounts for: `message`
(`latestUserMessageAt`) and `turn` (`latestTurnId`), which commits write and an upsert writes back; `summary`, which only drains compute, from the
tables and the turn that they write with it; and `meta` for the others. `turned` and `settled` are history variables.

### QueuedTurns

| Model | Code |
| --- | --- |
| `Create` ... `StartTurn` | the commands on a queue, with the decider's refusals and the projector's changes |
| `ProviderStep`, `Ask`, `Respond` | what makes a thread busy, and ready again |
| `wake`, `DrainThread` | events that can change readiness request a drain; `drainThread` refuses a kept thread, or marks a running drain to be repeated |
| `Read`, `DropMonitored`, `Choose`, `Verify`, `Dispatch`, `AfterRefusal`, `FailTurn` | `drainThreadOnce`, cut at every `yield*` that lets others run |
| `EndDrain` | the `ensuring` of `drainThread` |
| `Boot`, `ReadMarker`, `ClearMarker`, `Hold`, `OpenBarrier` | bootstrap, `beginSession` and `start` |
| `RetryHold`, `Sweep` | the loop of twenty seconds |
| `Crash`, `Quit` | an unclean exit; a graceful one, whose finalizer writes the marker |

`survivors` is a history variable: the turns that were queued when the process died
and whose queue the user has not released. `fired` collects those the
reactor has started. `lapsed` becomes true when a graceful exit is recorded while a
queue of survivors is not held, or when the marker could not be cleared; it marks the gap described
under [gaps without a run](#gaps-without-a-run), so that everything else can be stated exactly.

The answers of the network about a monitor's turn are nondeterministic. `Read`
draws those that rule a turn out at once, because the order of the turns is fixed
when the queue is read; what the drain does about them happens in the steps that follow.

### TurnLifecycle

One chat. Five kinds of writers dispatch its session: the worker of `ProviderCommandReactor`, a fiber for each
turn, the loop that reads domain events, ingestion, and the reaper. None holds a lock: each reads the read
model, awaits, and dispatches a whole session, so `write` is what a writer has decided on and `Commit` is the
engine's part. `write` is how a stale decision comes to overwrite a newer one.

| Model | Code |
| --- | --- |
| `Start`, `Request` | `thread.turn.start`, `thread.turn.interrupt`, `thread.session.stop` as committed |
| `Stream`, `StreamInterrupt` | the subscription of the reactor: it enqueues on the worker and, for a turn cancelled before its id was known, calls the provider itself |
| `Take` ... `Register` | `processTurnStartRequested`: ensure a session, stamp it, hold a `PendingTurnStart`, fork |
| `HandleInterrupt`, `List`, `Arm`, `Call` | `processTurnInterruptRequested`, cut where it awaits `hasActiveProviderTurn` |
| `HandleStop`, `Stopped` | `processSessionStopRequested` |
| `Send`, `Resume`, `Accept`, `Answer`, `FiberInterrupt`, `FiberEnd`, `SendFails`, `SendNoted` | the forked fiber: routable session, `sendTurn`, what it does with the flags of its entry, its failure path |
| `End`, `Announce` | the end of a turn: first the adapter's session is idle (`CodexSessionRuntime.ts:947`), then its event fiber reports the end (`CodexAdapter.ts:1458`) |
| `Report`, `Record` | `processRuntimeEvent` puts an event on the queue for ingestion and an end also on that of the ledger, which has a fiber of its own (`ProviderService.ts:389`, `:455`; `ProviderRuntimeLiveness.record`) |
| `Boot`, `BootFails`, `Close`, `Die` | a session is started in place of one that runs (with or without the exit of that one), fails to, is closed, or dies |
| `Ingest` | the lifecycle part of `processRuntimeEvent`, with the guards against stale events (`Applies`) |
| `TimePasses`, `Sweep`, `SweepLists`, `SweepClears`, `SweepStops`, `HoldExpires` | both sweeps of the reaper, and the ten minutes for which a record holds it off, whatever is ingested by then |
| `Crash` | process and provider sessions go; chat, bindings and events stay |

So an ended turn passes five places, each with its own fiber: idle session, report, ledger, ingestion, commit, and the reaper may look between any two.
A record is of interest only for the turn the chat shows, so `Record` and `HoldExpires` are steps for that turn alone. `SweepClears` reads the ledger and the read model
in one step, because both are maps in memory and no await lies between (`Ref.get`, and `getReadModel` of an engine that has started). The assistant messages the reaper completes
before its `thread.session.set` (`ProviderSessionReaper.ts:283`) are part of the time between `write` and `Commit`.

### WorktreeCleanup

One worktree, its branch and directory, and the threads bound to it; others may be forks of `Source`.
A command follows the code from submission to commit: `Submit`, `TakeLock` (the engine's `withWorktreeLock` and
`withCheckout`), `AdmitStart` (withdraw an idle cleanup, refuse a reserved path), `RestoreForStart`, `Claim`, `CheckPending`, and one
`Commit...` for each kind; a claim made for a command that then fails is taken back. The cleanup worker goes through
`Reserve` (or `TryReserve` when the lock is busy), `Teardown` (stop sessions), `Preflight` (look again at who uses the path),
`CheckClean` (ask git), `Detach` (rename and unregister under the project root's lock), `Prune`, `SettleOwner`;
`StepFails` may stop it anywhere. Around them: the discoveries and intents of the sweeps (`DiscoverIdle`,
`FileIdle`, `DiscoverArchived`, `DueSweep`), the user's `Retry` and `Keep`, the handlers of lifecycle events
(`HandleArchived`, `HandleUnarchived` with `RestoreUnarchived` and `Unbind`, `HandleDeleted`), and `Crash`, `Recover`, `BootPrune`.
Durable are the binding, the job, the reservation, the owner and the directory; locks, queues and events are not.
`authors` has the threads whose uncommitted work is in the checkout; git sees whether there is any (`Clean`). `late` is a history
variable: the threads that moved to the path by a commit that came while the path was reserved, until a turn of theirs is accepted
there (see [gaps](#gaps-without-a-run)). No action depends on it.

### KeyedWorker and KeyedFIFO

`Swap` is the synchronous part of `enqueue`, `Fork` the rest of it; `Start` awaits the tails replaced;
`Clear`, `Release` and `CountOff` are the three steps of `ensuring`; `CallDrain` and `ReturnDrain` are `drain`.
A `process` that fails ends its fiber like one that succeeds. `KeyedFIFO` is the promise: an
item begins when all earlier items with a key in common are over, and each does begin. The mapping reads the phase
of an item; tails, counters and Deferreds have no counterpart.

### ShellStream

| Model | Code |
| --- | --- |
| `Commit`, `Advance`, `Publish` | the end of the engine's commit section: transaction, read model, hub |
| `Attach`, `Map`, `MapFails` | the forked fiber of `subscribeShell`: it attaches at its first pull, reads the row of each event, drops the item when the read fails |
| `Choose`, `CanResume` | the gap between the client's cursor and the read model |
| `ReadPage`, `Replay`, `ReplayFails`, `MarkReplayed` | `catchUpStream`, and the marker after it |
| `SendSnapshot`, `MarkSnapshot` | the snapshot of the database, and the marker that goes through the buffer |
| `Deliver`, `AfterCut` | the buffered items behind the cut |
| `Receive`, `ReceiveMarker`, `Taken` | `applyItem` and `applyShellStreamEvent` of the client |
| `Connect`, `SubscribeAgain`, `LoadSnapshot`, `LoadFails` | `makeSubscribeInput`: a session that is known resumes, a new one loads over HTTP, and subscribes without a cursor if this fails |
| `Wake`, `ReadFails`, `Retry`, `Disconnect`, `Restart` | resubscription in the foreground, an error of the stream and its retry, the end of a session or of the server |

A row is the number and the kind of its thread's last event, so what a client shows is compared with the table row by row.
Two history variables say what the code loses: `missed` has the events for which no item came, or came too late
(`Overtakes`: a replay that ran past the cut, over purged numbers, has moved the cursor beyond them), and no
snapshot has been taken since; and `since` the last event published when the session began. Nothing in the actions depends on them.
A deletion purges the whole stream of the thread with its own event, so a replay never finds it: `ReadPage` counts it as missed.
`Disconnect` takes in one step what the code does in several: the stream ends in silence (`rpc/client.ts:384`), the server ends its subscription, the supervisor sets session and state
(`supervisor.ts:677`, `:793`), and another fiber sets the status (`shell.ts:255`). Until then the client says it is live with items that will not come; `LiveShellIsCurrent` speaks of a client whose
status has caught up with its connection.

## Runs

A run marked *violation* checks one statement of the repository's docs, comments or tests, and
TLC finds a behaviour of the code that refutes it.

| Run | What it shows |
| --- | --- |
| `engine` | `ModelTracksLog`: outside the commit section, the model and a subscriber have every event once and in order. `DecidedOnFreshModel`: no decision rests on a model that lacks an earlier event. `PerAggregateFIFO`: batch windows and leftovers never let commands of one aggregate overtake each other. `AnsweredIsVisible`: who was answered reads its own writes. `AtMostOnce`, `ReceiptsTellTheLog`, `VerdictIsFinal`: with a thread that is deleted, its stream and receipts purged, and retries across a restart, a command executes once and its receipt keeps telling what is in the log. |
| `engine_crash` | `AnswersAreDurable`: what a caller was told survives two restarts, and a dispatch that failed left no event. `ImplementsCommandLog`: refinement. `EveryDispatchAnswered`: liveness. |
| `reconcile` | `NothingForgotten`: no summary behind its sources and no trimmed file without a job, through failures, crashes and commits during a drain. `AnsweredIsReconciled`: a successful await covers the caller's commit. `StartReconciles`: a start leaves no summary behind. All three say of what commits write themselves, the time of the last message and the latest turn, that no drain overwrites it, *as long as no drain has failed*; after that one may ([lost columns](#gaps-without-a-run)). |
| `reconcile_delete` | *violation* of `DeletedStaysGone`. |
| `queue` | `NoTwoTurnsTie`: positions stay a total order. `CrashedTurnsWaitUnlessLapsed`: the reactor starts no survivor before its release. `NoWakeUpIsLost`: without failing writes a due turn has a drain under way or about to begin, and need not wait for the sweep. `DueTurnsAreStarted`: even with failing writes a due turn is started, marked as failed, or no longer due. |
| `turns` | `CancelledIsNotSent`: a turn shown as cancelled or failed never reaches the provider afterwards. `ReaperClearsLostTurns`: what the reaper gives up is no live turn, and no turn whose end is on record of late and still to be ingested; where the ledger does not help is [below](#gaps-without-a-run). `StartsAreAnswered`: a start is settled, shown as failed, or cancelled, unless the server crashed. `BusyEnds`: the chat does not stay busy, crash or not. |
| `turn_interrupt` | *violation* of `ArmedInterruptIsMade`. |
| `worktree` | `ReservationsMatchJobs`: a path is reserved only for a job in progress. `LiveTurnKeepsCheckout`: no turn loses the directory it works in. `ReopenedKeepsCheckout`: a chat reopened while its cleanup waits keeps its directory. `LiveWorkIsKept`: uncommitted work of a live chat is not removed. The first and the last except late moves, which take four commands. All with a restart at any step. |
| `worktree_live` | `ReservationsEnd` and `CommandsEnd`, with a cleanup step that fails anywhere: reservations are given back, and nobody waits for the three locks for ever. |
| `worktree_work` | *violation* of `DirtyIsKept`. |
| `keyed_worker` | `DrainedIsIdle`: a drain that returns found nothing unfinished. `DrainReturns`. `ImplementsKeyedFIFO`: refinement with its fairness, so items run in order on every key. |
| `shell` | `LiveShellIsCurrent`: a client that says it is live shows every chat as its last event left it, unless that event is on its way, or no item came for it, or one too late. `LossEndsWithSession`: a client that streams has missed nothing from before its session. `SettlesLive`: once nothing disturbs it, the client says it is live and shows every chat as it is, but for what it missed. |

## Bounds

Every bound is a constant that appears in a guard.

- *Engine.* Two shards are enough for interleaving, since commits exclude each other
  and a third worker adds no new pair. Threads `t1` and `t2` collide on a shard, `t3` has the other. Batches of up
  to three, and four dispatches (a batch, a command that must wait, and a retry or one more). `engine` has one restart and a
  deletion, `engine_crash` two restarts and an append of another thread on the same shard, which must not join a batch. The command `x` writes two streams, as `thread.archive` of a subtree does.
- *Reconciler.* A parent and a child (a delete of the parent purges both), one file, three
  commits (the one being drained, one that comes during the drain, one after), one failing drain, one restart. Three commits and a failing drain are enough for a message
to be overwritten.
- *Queue.* One thread (threads meet only in the start, where `Hold` takes them one by
  one in any order), a turn of the user and one of the monitor, two failing writes (a hold
  and its retry), one crash and one graceful exit, which is the shortest way to the gap below. Actions
  of users and providers are not bounded, but a turn is created once. The theorems cover any number of threads and turns.
- *Turns.* Two turns are the one being handled and the one that follows; an interrupt, a stop, a failing call, half an hour without activity,
  a provider that dies and a crash share one budget, of 1. The liveness part was also explored with one turn and a budget of 2; it holds.
  The theorems cover any number. `turn_interrupt` is short: one interrupt is enough.
- *Worktree.* Two threads, the source and a thread that may become its fork or stay unrelated: every rule is about the
  thread whose cleanup runs and another user of the path. Three commands (start, then archive or delete, then reopen) and one restart;
  `worktree_live` has two commands and a failing step instead of the third command and the restart, as liveness needs
  the graph of all behaviours. The user's "Clean up now" is in `worktree_work` only, where it breaks what it breaks. With a fourth command
  (some ten million states without the restart) late moves appear, which `LiveTurnKeepsCheckout` and `LiveWorkIsKept` except. The theorems cover any number.
- *Keyed worker.* Three items on two keys: one behind two others, or between them. The theorems cover any number.
- *List of chats.* Two chats, because the cursor is shared: an item of one moves it past what is missed of the other. Three
  events and a gap of two (`SHELL_RESUME_MAX_GAP` is 1000), so that a cursor can be too old to resume; two sessions, one wake
  and one failure. It takes a fourth event for an item to be overtaken by a replay (`Overtakes`); that was explored too. The theorems cover any number.

Deadlock checking is off: with the bounds reached, or every turn gone, the system rightly stops.

## Fairness

Only liveness properties use it; all others are checked on every behaviour.

- *Engine.* Weak fairness of the router, the boot and each worker's own steps:
  they are fibers whose SQL statements and subprocesses end. Strong fairness of the steps that need `commitLock`:
  it is an Effect semaphore, which serves its waiters in order, so a worker is not passed over forever although the
  lock is taken and freed in between. Nothing is assumed of callers and crashes. After a crash the process starts again.
- *Queue.* Weak fairness of `DrainThread`, `DrainStep` and `Sweep` per thread: forked fibers run, commands and network
  calls end, and the sweep repeats every twenty seconds (`Effect.forever`). Users, the provider, `RetryHold` and exits owe
  nothing; a due turn is one that needs none of them.
- *Turns.* Weak fairness of the reaper, and of everything else that runs by itself, taken together (`Progress`): the writers' own steps, `Commit` (the engine answers, see
  above), ingestion, the ledger and its ten minutes, a provider that ends a turn it runs and says so. That is less than the code gives, where each of these fibers is scheduled, and it is enough,
  as all of these steps but the reaper's run out. Nothing is assumed of users, of interrupts that arrive at the provider, failures and crashes.
- *Worktree.* Strong fairness of the steps of each command and of the cleanup worker, because they wait for semaphores that serve
  waiters in order. Sweeps, users and failures owe nothing.
- *Keyed worker.* Weak fairness of every fiber (processing ends, as the reactor's steps have timeouts or fail) and of `drain`.
- *List of chats.* Weak fairness of the engine's publication, of the fibers of a subscription, and of the client: the supervisor
  reconnects, a failed stream is retried after 250 ms, and of the requests that may fail one succeeds in the end. Nothing
  is assumed of commits, wakes, failures, disconnections and restarts; the bounds make them finitely many.

## Proofs

All theorems hold for every value of the constants that satisfies the named
assumptions (`EngineConstants`, `ReconcileConstants`, `QueueConstants`, `TurnConstants`, `WorktreeConstants`, `WorkerConstants`,
`ShellConstants` and `MarkerIsNoItem`: functions have their domains, bounds are naturals, a batch holds at least two, the sets of turns,
threads and items are finite, a subtree holds its root, the placeholders and the marker are no members). Four theorems assume more, and say so:
`Refinement` and `AnswersLast` that nothing is deleted (`Deletions = {}`: a deletion purges receipts, and the statements are false with it);
`TurnsKeepTheirCheckout` and `WorkIsKept` that nobody asks for a cleanup by hand (`ManualReclaim = FALSE`: both are false with such a request, for the reason `worktree_work` shows).

Each inductive invariant was first checked by TLC, on the instances of the runs and on somewhat larger ones, with a deletion and restarts in it where the code has them.

*Engine, `OrchestrationEngine_proofs`.* `TypeOK` is not inductive: `Publish` slices a staged list
whose length depends on where the worker is. `IInv` adds

- `WorkersInOrder`: who has an envelope in hand at which step;
- `LockIsHeld`: the lock's holder is the one worker in the commit section;
- `EnvelopesArePlaced`: an envelope is only on the shard of its aggregate, so two workers never handle one command;
- `ModelInStep`: how far the model and the subscribers are, step by step;
- `UndecidedUntilWritten`: what is about to be written or refused has no receipt. The check under the
  lock does not give this for a refusal, because the lock is released in between; that no other worker can handle the command does.

One lemma per action shows that it keeps `IInv`. From it: `TypeCorrect`, `ModelTracks`, and
`VerdictsAreFinal`, an action property.

*Engine, `OrchestrationEngineLog_proofs`.* `LogInv` adds `PlansAreOutcomes`, `BatchesAreDistinct`, `FiledTogether`,
`ReceiptsTellTheLog` and `AtMostOnce`. The last two need each other: a second execution is impossible
because the first left a receipt, and a receipt names the last event because there was one execution. With deletions
they are stated for `Lasting` commands, those that write to their own aggregate only: the receipt of another goes with its
last stream (see [gaps](#gaps-without-a-run)).
`ExactlyOnce` and `ReceiptsAreTrue` follow. `Refinement` shows that, with `Deletions = {}`, every step of the engine is a step of `CommandLog` or a stutter.

The second half follows the tickets, the numbers of the dispatches. `OrderInv` is `IInv` with

- `LineInOrder`: on every shard, the envelopes in hand, what is left of their batch (`todo`), what an earlier poll found (`pending`), the shard's
  queue and the intake are each in the order of dispatch, and each is ahead of the next;
- `WindowsAreClear`: a batch is formed only when nothing is left over. Without it a batch that is put back could be overtaken by its own followers;
- `LogInOrder`: the log of a shard is in the order of dispatch, and ahead of everything in line;
- `AnsweredInOrder`: what is answered is ahead of everything in line;
- `MissingAreInHand`: the events that the model or the subscribers lack belong to the envelopes between write and publication.

`CommitsAreFIFO` needs the first three; `AnswersAreVisible` the last two: an answered ticket is no longer in hand, so none of its events is among those
that are missing. `DecisionsAreFresh` adds `PlansAreFresh`, which rests on the lock being held from decision to write. `AnswersInv` adds that what is committed or
answered has its receipt, and what failed left nothing, through crashes; `FailuresLeaveNothing` and `AnswersLast` follow, the first with deletions too.

*Reconciler, `ProjectionReconcile_proofs`.* `NothingForgotten` alone is not inductive: a drain completes the jobs it had listed, so what they stood for has to
be accounted for before. `ReconcileInv` says where deferred work is. `SummariesInHand` and `FilesInHand`: what is stale, or no longer
referenced, is either in a job that `completeThrough` spares because it is newer than the listed ones, or still in the drain's own work: a summary that it has not read, a file
that it has not passed. `SummariesGrow` makes an upsert move a summary forward, although it writes what was read before other commits. `DrainersAreAwaiting`: the
thread that drains cannot commit until its drain has ended, and the drain lists jobs after the commit it awaits. A second invariant, `RowsKept`, is about the columns that
commits write themselves. As long as no drain has failed, a job names only threads whose workers await their drain and so do not commit
(`FreeIsIdle`): what a drain holds of such a row is still the last that was written. `AnswersAreReconciled` needs both.
Theorems: `RowsAreKept`, `DeferredIsRemembered`, `AnswersAreReconciled`, `StartsReconcile`, `TypeCorrect`.

*Queue, `QueuedTurns_proofs`.* `TypeCorrect` and `QueuesAreOrdered` (`NoTwoTurnsTie`) are inductive with `TypeOK`.
`SurvivorsAreHeld` needs `QueueInv`:

- `DrainsWait`: no thread is drained before the barrier opens, or while it awaits its hold. So a hold is never written while
  a drain is past the check of `queueHeldAt`, which matters because the decider does not check it again;
- `MarkerIsCleared`: while the process serves, no clean exit is on record;
- `SurvivorsWait`: the queue of a survivor is held, or the way there is still open (the marker is unset and the verdict
  not yet read, or the thread is in `awaitingHold`), and its drain has not passed the check of the hold;
- `ChosenOwn`: a drain starts turns of its own thread only.

`WakeUpsAreKept` (`NoWakeUpIsLost`) needs `WakeInv`. A drain that was asked nothing since it began must have read what is there: `ReadingIsCurrent` says, for each of its
steps, that it would choose the same turn again, or none because none is due. Every action that may make a turn due wakes the thread, or
marks its drain as to be repeated. The proof goes over all actions with one lemma about those that concern a thread's queue and one about those that do not.

*Turns, `TurnLifecycle_proofs`.* `TurnInv` has the types, which are delicate (`Decisions`: what a writer has decided, from states read earlier, only names turns that were
sent), and three facts. `StartsOnce`: a start waits in one place, the stream's events, the worker's queue or the worker's hand. `SendsInStep`: what is not with
the provider yet was never there, and no entry outlives its fiber. `ReportedIsOver`: a turn that is shown as cancelled or failed, or about to be, has a fiber
that has ended or that is forked with `cancelled` set; and a fiber that has passed its check has set `dispatched`, which the interrupt looks at before it
cancels. From it `CancelledAreNotSent`, `ReaperClearsLost` and `TypeCorrect`. For the reaper the types carry two more facts: the turn that it takes for lost has ended (`ReaperTyped`), and every end
that is still to be ingested was noticed, that is, waits for the ledger or is recorded (`Reportable`, kept by each step that reports, records or lets a hold run out).

*Worktrees, `WorktreeCleanup_proofs`.* `CleanupInv` is `TypeOK`, `ReservationsMatchJobs` and `WorkerHoldsPath`: from the reservation
to the release the worker's subject holds the path and its job is in progress, which is why no handler of an event or a
withdrawal can take the job away under it, and why a job found in progress at the start is one a crash left. From it
`TypeCorrect` and `ReservationsAreJustified`.

`PathInv` is about who uses the path meanwhile. `Admission`: a turn start that is past its admission holds the checkout's lock, and there is none while the path is
reserved. So when the worker takes its last look (`Preflight`) no start is on the way, and until the rename none can come:
`UsersAreIdle`, `UsersWorkIsKept` and `NotReopened` hold from that look, and from git's answer. `Records` has what the look itself rests on: which threads are not
there yet, that a deletion is final, that without a request by hand an idle job has been withdrawn when a start was admitted. Theorems: `TurnsKeepTheirCheckout`,
`WorkIsKept`, `ReopenedKeep`. The proof of the first failed at `CommitMove`, whose commit no lock keeps from coming after the look; TLC then found the behaviour with four commands
("late moves" [below](#gaps-without-a-run)), and the properties now except exactly these.

*Keyed worker, `KeyedWorker_proofs`.* `WorkerInv` adds to the checked invariants that a tail is the last unfinished item
of its key (`TailsAreLast`), that places differ, and that an item runs only when those it replaced are over. `LaterItemsWait` is what makes
it inductive: an item waits for the tail it replaced only, and that is enough because the tail waited for its own.
From it `CounterIsExact`, `OrderIsKept`, `DrainIsHonest` (an action property) and `WorkerImplementsFIFO`, the safety part of the
refinement; TLC checks the part about fairness.

*List of chats, `ShellStream_proofs`.* `ShellInv` is `TypeOK` and `SessionInv`: what is fed to a subscription or replayed is newer than the session's
begin, a snapshot that is authoritative is not older than it, a subscription with a cursor or with a snapshot sent is authoritative, and
then all that is missed is newer too. `LossEndsWithSession` alone is not inductive, as it says nothing of a
subscription that has only begun. Theorems: `ShellTypes` and `LossesEnd`. The proof needs that items only move the
client forward (`TakenForward`) and that a database snapshot is never older than what is published (`SnapshotTyped`).

`LiveIsCurrent` (`LiveShellIsCurrent`) needs `CurrentInv`, which splits the log at the client's cursor and at the cut of its subscription. `Passed`: what the cursor has passed is shown, or
missed. `Paged`: what lies between cursor and cut comes with the page of the replay. `Coming`: what lies behind the cut comes from the buffer. `Unbroken`: a page that runs beyond the cut
jumps over nothing but deletions, whose own events are purged. With `InOrder` (buffer and feed in the order of the log, the item of a chat's last event shows its row) and `Marks`
(no "live" before the marker), the second and third are empty for a client that says it is live, but for what is on its way. The attempt to prove it without `Overtakes` failed at `Deliver`, and
TLC refuted it with four events: "gap and page" [below](#gaps-without-a-run).

*Only model-checked.* Liveness, which is out of the prover's reach: `EveryDispatchAnswered`, `DueTurnsAreStarted`, `StartsAreAnswered`, `BusyEnds`,
`ReservationsEnd`, `CommandsEnd`, `DrainReturns`, `SettlesLive`, and the fairness part of `ImplementsKeyedFIFO`. All invariants and action properties of the passing runs
are theorems; those that state refinements of `CommandLog` and `KeyedFIFO` are theorems in their safety part, the first without deletions, as its run has none.

## Disagreements found

| Run | What the code does |
| --- | --- |
| `reconcile_delete` | A drain that has read a row writes it back after the thread was purged. |
| `worktree_work` | "Clean up now" files its intent after a turn start looked for one. The turn starts to write between git's answer and the rename, and the directory goes with the work. |
| `turn_interrupt` | An interrupt is armed on a pending start whose fiber has ended while the worker asked for the provider's sessions. Nobody makes it, and the turn runs on. |

Sources and quotations are in `PROJECT.json`, "findings".

### Gaps without a run

Met while modelling, by reading the code or in earlier explorations. The models contain most of them as ordinary
behaviour, and the properties are stated so that they hold beside them.

- *Empty decisions.* A refusal that decides as no events (`decider.ts:1794`) is recorded as a rejected receipt (`OrchestrationEngine.ts:629`). The merge
  archiver retries with an id derived from thread and pull request, and is refused for good.
- *Receipts of several streams.* The receipt of a command that wrote several streams goes with the last of them
  (`OrchestrationEngine.ts:655`, `ProjectionPipeline.ts:866`). The other events stay, and a retry is decided anew.
- *Lost columns.* A drain writes back the whole row that it read (`ProjectionReconciler.ts:88`). The job of a failed drain (its error is ignored) is drained
  later by another thread's worker, while the thread's own worker is free. A message that is sent then, between the drain's reads and its upsert, loses its `latestUserMessageAt` for good:
  the event has no job (`ProjectionImpact.ts:115`, `ProjectionPipeline.ts:2132`). A turn loses its `latestTurnId` the same way, which
  the next refresh takes from the row. TLC finds both when `failures = 0` is left out of the properties. What another thread's worker writes needs no failure: the archive of
  a parent that commits beside a drain of its child's row is undone for the child.
- *Attachments.* A revert's reconcile removes the files of turns that still wait in the queue (`ProjectionReconciler.ts:126`), and
  the file of a message whose upload precedes its commit (`Normalizer.ts:162`).
- *Exit during a start.* After a crash, a graceful exit during the start, or while a hold keeps failing, records a clean shutdown
  (`serverRuntimeStartup.ts:402`), and the next start dispatches what the crash left. `lapsed` in `QueuedTurns` marks it.
- *Dispatch by hand.* The decider does not check the hold (`decider.ts:3798`), although `commandInvariants.ts:274` says that every
  admission path does. It is an act of the user, and `DispatchByHand` is an ordinary action.
- *Reopening.* The handler of an unarchived chat unbinds it when the directory is missing (`ThreadDeletionReactor.ts:1290`), also when a turn start has
  restored the directory in between. A chat archived during the slow removal and reopened before its end may lose the claim of ownership.
- *Two writers.* `threadIsBusy` knows running sessions, not pending or sending turns (`workspaceAdmission.ts:109`), so a fork and its source may
  both start to write in one checkout. With an archived relative as the owner of record, the rest of the family is refused.
- *Leaked claims.* A crash between the completion of a job and the release of its owner leaves the claim, which nothing frees until
  a thread of the family claims it. A crash after detaching leaves a checkout that is renamed but registered; the clean check fails on it until `BootPrune`.
- *Intents.* A delete with the user's consent to discard work is overwritten by a late archived event or idle intent of the same thread.
- *Stale stamps.* The worker stamps the session with the state it read before a network call (`ProviderCommandReactor.ts:1188`). If a turn ended in between, the
  chat is busy again with a turn that is over, until the reaper's hold of ten minutes expires. `BusyEnds` relies on it.
- *Ended turns taken for lost.* The reaper's hold rests on the record of the turn's end, which comes after the adapter's session is idle and after the report (`CodexSessionRuntime.ts:947`,
  `CodexAdapter.ts:1458`, `ProviderService.ts:407`, `:455`). A sweep in between finds no live turn and no record, and shows a turn that completed as interrupted, as it does
  when ingestion is more than ten minutes behind (`ProviderSessionReaper.ts:59`). `ReaperClearsLostTurns` excepts just these two; without either exception TLC finds the behaviour within seconds.
- *Dispatches of the reactor.* In the model a commit that is asked for takes place. If the dispatch of the session before the turn fails (`ProviderCommandReactor.ts:1190`), the handling ends
  with a line in the log (`:1611`) and the start stays pending: `StartsAreAnswered` and `BusyEnds` say nothing of such a failure. The same goes for the dispatches of the reaper.
- *Passing failures.* A dispatch of a queued turn that fails for a passing reason may find the thread ready when it looks again, and the turn is marked as failed for good
  (`QueuedTurnReactor.ts:616`). `DueTurnsAreStarted` counts such a turn as no longer due.
- *Two interrupts.* A late pair of started and completed retires the next pending start; the reaper's `thread.session.set`
  carries no expected turn (`ProviderSessionReaper.ts:298`), so what it read may be old when it is committed.
- *Idle sweep.* `SweepStops` stops a session by what its binding said in the snapshot (`ProviderSessionReaper.ts:354`); a turn that started after it
  goes with the session, and is shown as stopped.
- *Stop after the fork.* A stop right after a turn's fiber was forked does not cancel it: the fiber finds no session and
  starts one again (`resolveRoutableSession`).
- *Pending starts at a crash.* A start that no session had taken is not on disk as such (`ProjectionPipeline.ts:2112`), and is forgotten by a restart;
  hence `StartsAreAnswered` excepts crashes.
- *A subscription's first events.* The comment at `ws.ts:1414` says that live delivery is attached before the snapshot, but the stream it forks
  attaches at its first pull, as `Services/OrchestrationEngine.ts:91` says of `streamDomainEvents`. An event published between the cut and that pull
  is lost to the client until it loads a snapshot again. `AttachMisses` is that window. `acquireDomainEventSubscription` would close it.
- *Summaries in the list.* The reconciler refreshes derived columns after the commit's event was published (`OrchestrationEngine.ts:705`, `:730`) and announces
  nothing. An item whose row is read in between (`shellStream.ts:102`) carries the old summary, until another event of the chat.
- *Deleted chats in the list.* A deletion's own event is purged with the stream, so a client that resumes within a session is not told, and shows the
  chat until its next session.
- *Gap and page.* `Stream.take(replayGap)` counts numbers (`ws.ts:1438`), and a purged stream leaves holes in them. A replay may then read beyond the cut; the
  client drops what comes twice. It also drops what the replay has overtaken: an item of the buffer that is older than the page's last event. If that is the removal of a chat, whose event is
  purged, the client says it is live and keeps showing the chat (changed 1; snapshot; changed 2; it resumes after 1 with cut 2; the first chat is deleted at 3, another changes at 4; the page
  is 4, and item 3 comes after it).
- *Late moves.* `thread.meta.update` takes no lock of the worktree (`OrchestrationEngine.ts:1041`), and whether its path is reserved is checked before the commit (`OrchestrationEngine.ts:479`). A chat that
  was unbound from the path while its turn was pending, and is moved back by a command that was checked before another chat's idle cleanup reserved the path, is committed after the
  cleanup's last look. The directory is renamed under its turn. It takes four commands and a late restore of an unarchived chat that unbinds it.

## Not modelled

- Inside modelled parts: workspace admission in the engine (a nondeterministic step there; `WorktreeCleanup` has the rules for one worktree),
  changes of a session's state that no turn brings about (`session.state.changed`, `ProviderRuntimeIngestion.ts:1954`, which set the status and keep the active turn),
  the allocation of new workspaces and the refusal of the project's own checkout (git probes), the projection tables
  other than the thread row, child nudges, delegations, collaboration waits and their timers (the queue's threads have none),
  the texts of turns and messages, approvals, user input and steering of turns, terminals that keep a checkout open,
  the retention of deleted threads, the plain drainable worker (one queue, one fiber) and the close of a worker's scope,
  SQL errors after a durable commit (a transaction commits and is known to, or rolls back).
- Of the clients' streams: the stream of one thread, projects and workflows (their items are like those of chats), the cached snapshot, the archived list.
- Parts left to later modules: see the plan.
- Parts left out for good: terminals (I/O without protocol state), the provider adapters (wire protocols of external
  programs), the start-up claim (the operating system's file lock is the algorithm), user interfaces, formatting, validation subprocesses.

## Plan

Done: `CommandLog` and `OrchestrationEngine`, `ProjectionReconcile`, `QueuedTurns`, `WorktreeCleanup`, `KeyedFIFO` and `KeyedWorker`, `TurnLifecycle` and
`ShellStream`, with proofs of all safety properties of their passing runs. Next:

1. Proofs: what a single disturbance leaves intact in `TurnLifecycle` beside the two theorems (who may write which session); the engine's refinement with deletions, for an abstract log that purges.
2. `Delegation`: child turns, reports, settlements, waits and nudges; the child part of the queued turns.
3. `KeyedCoalescingWorker`, with an abstract map of latest values that it implements.
4. The stream of one thread, and the outbox of the mobile client.
5. Checkpoints: captures and reverts under the checkout lock, beside running turns.
