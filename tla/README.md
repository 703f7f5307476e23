# Insulator: TLA+ specifications and proofs

Insulator runs coding agents (Claude Code, Codex, OpenCode, ...) for a desktop
application.  The desktop never owns an agent process: a daemon does, and the
desktop, a phone or a browser are clients of that daemon over a WebSocket.  A
task (an *agent session*) outlives connections, clients, and the daemon process.
This directory specifies the machinery that has to make that true.

Paths below are relative to the repository's root.

## 1. Inventory

| Part | Source | State | Operations | What is hard | What makes it correct |
|---|---|---|---|---|---|
| Event hub | `crates/insulator-core/src/server.rs` (`Hub`) | active runtime, next sequence and journal per session and runtime; subscribers with bounded queues; epoch | begin/end runtime, emit, subscribe with replay, broadcast, unsubscribe | live events against a replay, a full queue, late emitters of a replaced runtime, a new process that counts anew | order, no duplicate, no silent gap, no event of an older generation, catching up |
| Request handling | `server.rs` (`RequestDispatcher`, `run_runtime_mailbox`, `handle_request`) | one mailbox and worker per session, response cache | dispatch, retire, replace, retry | a worker that retires while a request is on its way, panics, spawn failures, repeated requests | one worker, dispatch order, nothing stranded, execute once, the running runtime is heard |
| Client connection | `crates/insulator-client/src/client.rs` | cursors, subscriptions, buffered events, pending replies | connect with resume, subscribe, deliver, disconnect | subscribing against the end of the socket thread; cursors ahead of what the application got | nothing a cursor has passed is lost |
| Supervisor | `crates/insulator-client/src/process.rs` | target connection, child process, settings, subscribers | monitor, respawn, reconnect, publish, reconfigure | a replacement that dies at once; refreshing settings after a restart | every adapter gets attached again; the last settings document wins |
| Runtime adapter | `src/driver/mod.rs` (`connect_remote`) | client, subscription, receiver of replacements | forward, hand off, attach, close | telling a lost connection from an exit | events once and in order, no invented exit |
| Task database | `crates/insulator-core/src/persistence.rs` | tasks in memory (some as skeletons), dirty set, SQLite tables, what the connection believes it wrote | load, hydrate, save, trim | incremental writes, rollbacks, skeletons | what is clean is on disk; loading and releasing are invisible |
| Daemon backend | `crates/insulator-core/src/daemon.rs` | task state, tombstones, running drivers, settings | one handler per protocol command | projections of several clients, rewind against saves | no history is lost, a removed task stays removed |
| Client task store | `crates/insulator-client/src/persistence.rs`, `src/app/runtime.rs` | the desktop's copy of the tasks, dirty set | save, hydrate, catalog refresh | notifications that overtake each other, skeletons sent back | a client's copy never goes backward, a save never destroys a transcript |
| Composer drafts | `crates/insulator-core/src/persistence.rs` | draft revisions | read, write | two clients write one draft | the newest revision wins |
| Checkpoints, worktrees | `crates/insulator-core/src/{checkpoint,worktree,workspace}.rs` | Git refs, worktrees | capture, rewind, fork | a Git step that fails half way | a rewind restores what the turn started from |
| Provider drivers | `crates/insulator-core/src/driver/` | a process and its protocol | start, send, interrupt, answer | correlation of requests and answers | every prompt ends in a completion or an exit |
| Provider pools | `opencode_pool.rs`, `deepseek_pool.rs` | one slot per workspace with a weak reference, counted handles, server processes | acquire, search, clone, drop, destructor | the last drop against an acquire, a server that exits under its users, destructors that take the lock of the slot | one server at a time, none stopped under a user, no waiter forgotten, none left without an owner |
| Terminals | `terminal.rs` | a pty | start, write, resize, close | - | through the same mailbox as a runtime |
| Blobs and attachments | `blob_store.rs`, `attachments.rs` | content-addressed files | put, read, sweep | a sweep against a save | no referenced blob is swept |
| Settings store | `settings.rs` | one JSON document | read, replace | a refused write | atomic replacement |
| Scans | `usage.rs`, `skills.rs`, `model_catalog.rs`, ... | none of their own | read | - | - |
| Turns of a task | `src/app/{runtime,streaming,sessions}.rs`, `model.rs` | turns, queue, steers, preparation, captures | send, steer, queue, stop, settle | events carry no turn, a provider that wakes itself, Stop at any moment | no message lost or sent twice, turns settled by their own answers, the queue moves |
| Desktop UI, mobile, web | `src/app`, `mobile` | views of the above | input, rendering | - | - |

The parts meet in three places.  *Requests*: a client sends a command over its
connection, `dispatch` puts it in the session's mailbox or on a thread of its
own, the backend handles it, the reply goes back on the same connection.
*Events*: a provider driver emits into the hub, the hub journals and broadcasts,
the connection's thread writes, the client's socket thread filters and hands to
the subscription, the adapter forwards to the desktop.  *Task state*: a command
edits the backend's tasks under one lock and saves them in the same critical
section; other clients learn of it through the catalog.

## 2. Plan

1. *Event path* - `EventStream` (what it promises), `EventHub` (hub, connection,
   client cursors).  Done.
2. *Command path* - `RuntimeMailbox`, with proofs in `RuntimeMailboxProofs`.  Done.
3. *Attachment across replacements* - `SessionHandoff`: composes the client's
   socket thread, the supervisor and the adapter, and takes from `EventHub` that
   the hub delivers everything above a cursor in order.  Done.
4. *Settings* - `SettingsWriter`.  Done.
5. *Task database* - `TaskStore` (what it promises), `StateStore`, with proofs,
   together with those of `TaskSync`, in `TaskStateProofs`.  Done.
6. *Task synchronisation* - `TaskSync` (copies of one task, and the merge of a
   client's whole copy), `TaskCatalog` (the lists, their announcements and
   tombstones).  Both take from `StateStore` that a save reaches the disk, and
   `TaskSync` from `EventHub` that a client gets the events above its cursor.
   Done.
7. *Turns* - `Turns` composes the composer and queue of the desktop, the
   preparation of a submission, the Claude Code driver and its process.  Done.
8. *Rewind and checkpoints* - `Rewind` composes the desktop's and the daemon's
   rewind with captures and saves.  Done.
9. *Provider pools* - `SharedServer` (what a pool promises), `ServerPool`.  Done.
10. Left: the table of pending requests and its timeout, composer drafts, the
    blob sweep, fork.
11. Proofs: type correctness and the safety invariants of each module, and the
    refinements of `EventStream`, `SharedServer` and `TaskStore`; section 5 says
    which are done, which is every safety property the runs check but one.
    `RewindRestores` selects the turns a provider was told of, which needs the
    induction over data the prover cannot do.

## 3. The modules

### EventStream, EventHub, MCEventHub

`EventStream` says what a client may rely on: an event is published once, and
each client sees a selection of what was published, in order within a session,
never twice and never of a generation older than one it has seen.  `EventHub`
implements it (`ImplementsStream`).

| Model | Code |
|---|---|
| `active`, `nextSeq`, `journal` | `HubState.active_runtimes`, `.next_sequences`, `.journal` |
| `phase`, `queue` | a connection thread: its `Subscriber` and its bounded channel |
| `lock` | the hub's mutex while `subscribe` replays: one step per journal |
| `cursor` | `ClientInner.last_sequences` |
| `BeginRuntime`, `EndRuntime`, `Emit`, `Subscribe`/`ReplayJournal`/`SubscribeDone` | the methods of `Hub` |
| `Deliver`, `CloseKicked`, `Disconnect` | the loop of `handle_connection` together with the filter in `run_client` |
| `RestartDaemon` | a new process: empty maps, another epoch |

The payload of an event is left out; a TCP connection is a lossless FIFO that
may break at any moment; a kicked connection drains its queue until the thread
notices the kick, or not at all.

Run `hub_stream`: one client, two sessions, journals and a queue of two events,
two runtimes per process, two processes, three events, one broken connection.
Three events overflow a journal, kick the client, let a second runtime speak
after the first was cut off, and fill two journals that together exceed the
queue, as nine full journals (2048 events each) exceed the code's queue (16384),
so that a replay is cut short.  It checks

- `DeliveredInOrder`, `ImplementsStream` - order, no duplicate, and no return to
  an earlier generation;
- `NoSilentGap` - a cursor never passes an event that the journal still holds and
  the client was not given, unless a replay of that journal was cut short (`cut`);
- `JournalOfActive` - only the runtime a session runs is journaled, in order;
- `EventuallyCaughtUp` - what is journaled reaches the client or leaves the
  journal, however often the client is kicked, unless a replay of that journal
  was `cut`.

Without the exception `cut` the last one is false, and so is what the comment on
`broadcast` says of a client that is kicked (section 6).

### RuntimeMailbox, RuntimeMailboxProofs

| Model | Code |
|---|---|
| `registry` | `runtime_mailboxes` |
| `pc`, `channel`, `current`, `executed`, `outcome`, `supervised` | a worker thread of `run_runtime_mailbox`; its channel, the `HandledRequest`, `active_runtime_id` |
| `cache` | `HubState.responses`: of each outcome, how many and how many bytes were cached from it on (`place`), which is what eviction goes by (`Fits`) |
| `speaking`, `running` | `HubState.active_runtimes`, and the driver the backend holds |
| `Dispatch` (`Submit`, `Notify`, `Retry`) | `dispatch_runtime`; `SpawnFails` its error path |
| `Receive` ... `Settle`, `TakeQueued`, `Retire` | the worker's loop and `handle_request`, step by step |
| `Panic`, `RemoveProject` | a handler that panics; a removal that runs beside the mailbox |
| `OtherConcludes` | an independent request that caches its outcome |

`Backend.handle` is one step that may fail.  What it does to the running driver
is modelled per kind of command (`Handle`).

Run `mailbox_dispatch` has one session (sessions share only the cache), two
requests with an id, three dispatches (each new, a retry, a notification, or an
independent request), one panic and one removal: a worker can retire between two
dispatches, be replaced after a panic and lose a race for the registry.  The
cache holds two outcomes and three bytes, an outcome has one byte or three: two
outcomes fit, or the younger one evicts the older by its bytes, and its request,
when it is retried, is executed again.  (By number an outcome is evicted only
with a fourth dispatch, which the proof covers and the run does not.)  The run
checks `OneWorkerPerSession`, `NotStranded`, `SessionOrder`, `RunningIsHeard`,
`ExecutedOnce` and `EveryRequestAnswered`; the last one is model-checked only, the
others are also proved without the bounds (section 5).

`ExecutedOnce` allows a second execution only once the last outcome of the
request and those cached since (`latest`) exceed a budget (`Overdue`).  File bytes (`BlobData`) are never cached by `cache_response`;
only independent requests are answered with them, so no request of a mailbox is
exempt.

### SessionHandoff

One runtime, one adapter, and a sequence of connections.  `life`, `owner`,
`cursor`, `buffer`, `sender`, `inbox` are one `ClientInner` and its socket
thread; `target`, `monitor`, `updates` the supervisor and the adapter's receiver
of replacements; `pc`, `client`, `candidate` the thread of `connect_remote`.
`local` tells whether the supervisor manages the daemon (a child process that it
respawns) or is connected to a remote one (that it reconnects to with cursors).

Run `handoff` takes both kinds of daemon, two processes, two broken connections,
one `AttachSession` that times out, four events of which the desktop has the
first and a buffer of two: the adapter can be cut off while it subscribes,
forwards, waits or attaches, and a buffer can overflow.  It checks

- `ForwardedInOrder` - the desktop gets an event at most once, in order;
- `Accounted` - what a cursor has passed, which no later connection asks for
  again, the desktop has or gets: the adapter's receiver holds it, or the buffer
  of a connection that the adapter has yet to subscribe to (`Awaited`), unless
  the adapter has ended.  Two exceptions: a full buffer dropped it (`overrun`), or
  the connection that buffered it is `missed`: the adapter gave it up, since it
  was lost, replaced or slow to answer `AttachSession`, before it subscribed to
  it.  A `ClientInner` that is `missed` is freed with its buffer; the model keeps
  the buffer to say what was in it, and counts it for nothing;
- `ExitIsReal` - a lost connection is not reported as an exit;
- `HandoffCompletes` - while there is a daemon the adapter always ends up
  attached or ended, except in three states the code does get stuck in:
  `Stranded` (it subscribed after the socket thread had ended), `Unanswered` (an attach that timed out on a connection
  that lives: no further replacement is published), `Unwatched` (a managed
  daemon that closes the connection: `monitor_daemon` watches only its process).

Without the exception `missed`, `Accounted` is what the comment on `broadcast`
says of a client that reconnects with its cursors, and false (section 6).

### SettingsWriter

`settings`, `persisted`, `settingsUpdates` are the fields of `SupervisorInner`; `ui` is
the UI thread inside `update_settings`, `refresh` the monitor inside
`queue_settings_refresh`, `writerPc` and `writing` the thread of
`persist_settings`, `managed` the kind of its `target`, `connected` the opposite of
its client's `disconnected`.  A connection may break while the daemon lives
(`Disconnect`), managed or not; the daemon keeps running the request it had
(`orphans`).  Of a remote daemon `monitor_daemon` opens the connection again; of a
managed one it watches the process only, and the writer retries on a dead client
until the process is replaced.  A request fails with its connection unless its
acknowledgement was received before: then the writer may act on it at any later
time, after `queue_settings_refresh` too (`Fail`).

Run `settings_writer`: both kinds of daemon, three documents in any order, two
losses (a restart, a broken connection or a refused write).  It checks
`PersistedIsStored`, `SettingsSettled` and `EventuallyStored`.  The last two have one
exception, `overlooked`: a user who goes back to the persisted document while
another one is being sent.  `update_settings` compares with the persisted
document only, queues nothing, and the other document wins.  `EventuallyStored` has
a second one: a managed daemon that lives on behind a closed connection, which is
`Unwatched` of `SessionHandoff`; without it TLC finds the property violated.  For a
remote daemon `PersistedIsStored` is not stated: an orphan may run after its retry.

### TaskStore, StateStore

`TaskStore` says what a client may rely on: a command's effect on the tasks is
on disk when it is answered, a restart shows what is on disk, and nothing else -
loading a transcript, releasing one - changes what is seen.  `StateStore` has
the in-memory tasks (`sessions`, `dirty`, `projects`), what the connection
believes of its tables (`persisted`, `written`, `savedProjects`), and the tables.
Every action is one critical section of the backend's lock: an edit and the save
that follows it.  `WriteTables` is the body of `StateStore::save`, `Remember` and
`Written` its bookkeeping before and after the commit, `Hydrated` and `Trimmed`
the two directions of the transcript cache.

Run `store_saves`: two tasks, one of them (`Long`) with up to two messages of two
ids, all four ways in which a transcript changes, two project lists, a cache
that keeps one transcript, and one transaction per process that rolls back.

- `ImplementsTaskStore` - a command's effect is on disk; excused are a task that
  waits for a save after one was rolled back, and two cases in which the tables
  keep what they should not: `Displaced`, the row of a message that was replaced
  at its position, and `Undeleted`, the rows of a task whose removal was rolled
  back.
- `CleanIsDurable` - what is not dirty is on disk exactly as it is in memory.
- `HydrationIsACache` - loading and releasing transcripts changes nothing.

Two messages show each kind of row (rewritten, skipped, deleted) and each
position error; the loop of `write_messages` treats rows independently, and
tasks share only the transaction.

### TaskSync

A client keeps whole copies of tasks, edits them, and sends every dirty one to
the daemon (`SaveTaskState`); each such notification is handled on a thread of
its own, so saves overtake each other.  A copy is its time, status, cursor
(`cur`), and for each runtime how many of its events the transcript holds
(`text`); `whole` is `detail_loaded`, which is not on the wire.

| Model | Code |
|---|---|
| `task`, `listed` | the task in `InsulatorBackend.task_state`, and whether only its list columns are in memory |
| `running`, `attached` | `InsulatorBackend.sessions`, and the runtime a client follows |
| `saves` with `seen` | `SaveTaskState` threads, and the active runtime each has read (`daemon.rs:413`) before it takes the lock |
| `Precedes`, `MergedMetadata`, `Received` | `session_projection_precedes`, `merge_stale_session_metadata`, the replacement of the whole task |
| `Rename`, `Submit`, `Receive`, `Detach`, `Hydrate`, `Refresh`, `Attach` | what a client does to its copy, see the map |

Run `task_sync`: two clients that prompt, one of which renames, two runtimes of
two events, three saves, two instants of the clock, one restart - enough for a
save of the first runtime to arrive under the second, and for two clients to
have seen different parts of one.

- `LiveTranscriptKept` - while a runtime is active, what is stored of it only
  grows, and is never behind a save that was merged.
- `HistoryKept` - a save takes something from the stored transcript only in four
  cases the code does not exclude: it is a skeleton, it read the active runtime
  before a start, the daemon restarted and knows no cursor, or its client never
  loaded what another runtime has said.

`sync_skeleton` is finding 1.

### TaskCatalog

The same daemon seen from the lists of tasks: one task without a runtime, whose
`title` is what the list shows.  `entry` is the hub's copy of the list
(`catalog_sessions`), with which an announcement is compared; `woken` a client's
channel of revisions; `loading`, `result` the worker of
`restart_task_state_sync` and what it hands to the UI thread.  A request is a
record in `handling` whose `step` says how far its thread has come: merge and
announcement of a save are two steps, as are the removal and the tombstones of
`RemoveProject`.

Run `task_catalog`: one editor, two watchers, two saves, two titles, one removal.

- `WatchersAgree`, `WatchersFollow` - a watcher to whom nothing is under way
  lists what is stored, and every watcher gets there; but for `rewritten`, a
  load that changed what the entry says of the task, to another row of it.  An
  announcement that was overtaken by another needs no exception.
- `RemovedStaysRemoved` - no late save brings a removed task back; but for
  `slipped`, one merged in the window of `RemoveProject`.

### Turns

| Model | Code |
|---|---|
| `desk` | the desktop's `AgentSession` (status, turns, queue), and `Insulator`'s maps for it: runtime, pending steers, preparations, pending queue drains, captures |
| `composer`, `mislaid` | unsent messages; those that the composer lost or did not get back |
| `preparations` | `prepare_submission` calls on the background executor |
| `inbox`, `driver` | the Claude driver's command channel, its `turn_active` and parked flags, its writer thread |
| `events` | driver events on their way through the hub to `drain_driver_events` |
| `stdin`, `cli` | the Claude process (external) |
| `Send`, `Steer`, `SteerQueued`, `EditQueued`, `RemoveQueued`, `Stop` | what the user does |
| `Pump`, `EndCapture` | `drain_driver_events` with `handle_driver_event` (`Handled`); the end of a checkpoint capture |
| `FailPreparation`, `DropPreparation`, `FailStart`, `SendPrompt` | the outcomes of `finish_submission_preparation` |
| `Write`, `Speak`, `Reply`, `ReportExit` | the driver's writer, `begin_unprompted_turn`, the `result` message, the process thread |

`Pump` handles any number of the events that have come and only then resumes the
queue, as the code does; a Stop handles what has come without resuming it.  The
history field `desk.misread` names the steers that were settled by the answer to
another one: an answer whose steer is pending no more (it went with a Stop or a
runtime) is taken for the oldest pending one.

`Restored` is `restore_composer_submission`: a message that comes back to the
composer takes the place of a draft.  `FailPreparation` unwinds the turn
whichever task is selected, but restores the message only if its own is; which
task is selected is a choice of that step.  What is lost either way is
`mislaid`.

Run `turns`: two messages, so that one can be queued or steered behind the
other, and two incidents out of: a Stop, a detached command, a crash, and a
failure (of a preparation, a start or a reply).

- `NothingLost` - a message is in the composer, the queue, a pending steer or
  the transcript, or the user removed it or gave its runtime up, or it was
  misread, or it is `mislaid`, in one of the two ways above.
- `SentOnce` - the provider never reads a message twice, unless it was misread: it
  is queued then while it is still on its way.
- `CompletedIsAnswered`, `ShownOnce`, `EarlierSettled` - turns are opened and
  settled by their own prompt and answer.  `ShownOnce` excepts misread messages.
  All three have the proviso `mixed`: every turn began with the provider done with
  the one before, nothing it had said of that one still unhandled.  That is so of
  the turn the event pump starts from the queue, unless more is already waiting.
  A stop that leaves events unhandled, and a process that dies while a prompt is
  being prepared, end the proviso too.
- `BusyEnds`, `QueueMoves` - no task stays busy, and a queue that may move does;
  but for `swallowed`, a resume used up by the capture of an earlier turn.

### Rewind

`starts` and `ends` are the Git refs of a task by turn count (the state before a
turn, and its ending checkpoint), `backups` safety refs that stay, `work` the
content of the worktree, a number; `natives` what each native session of the
provider was told; `desk` and `stored` the two copies of the task; `captures`
the `CaptureTurn` requests; `rewinds` the desktop's and the daemon's rewind with
their clone of the task.  A rewind is a sequence of steps - safety snapshot,
restore, provider, refs, transcript - any of which may fail, and between which
captures, saves, edits of the worktree, the other actor's rewind, a quit of the
desktop and a death of the daemon may come.  Providers either roll a session
back in place or branch it (`inPlace`).

Run `rewind`: three turns begun, two at a time, one edit, and two incidents
(a rewind is one of them, so one rewind with one failure, or two rewinds).

- `RewindRestores` - a rewind that finishes has restored what the turn started
  from, in the worktree and in the provider's conversation.
- `NothingDestroyed` - what the user had in the worktree when no rewind ran is
  in the worktree, in the snapshot of a rewind that runs, or in one that stays.
  The history variable `owed` is this content: an edit sets it unless a rewind
  has taken its snapshot, the end of a rewind sets it to what that one
  restored, and a failed or interrupted rewind leaves it, so that the property
  is about chains of rewinds that fail, with edits, captures and saves between
  their steps.  `owed` is `Unknown` where the code promises nothing: while two
  rewinds overlap (the second takes its snapshot of what the first has made of
  the worktree), and from the deletion of a snapshot to the end of that rewind -
  up to the next edit, if it is cut short there.
- `CheckpointsKept` - a stale save never erases a checkpoint.

`RewindRestores` and `CheckpointsKept` state their provisos: nobody else changed
the worktree meanwhile, no second rewind ran, the rewound copy was up to date.
`rewind_checkpoint` is finding 2.

A capture may fail at any step, also when its ref is there already
(`FailCapture`).  `Prompt` marks a turn as told to the provider when the prompt
goes out; the code does so when the provider's `TurnStarted` arrives
(`model.rs:1651`), so that a turn that ended without one is told here and not
there.

### SharedServer, ServerPool

OpenCode sessions of one workspace share one `opencode serve` process, and
DeepSeek sessions one `dsh web`.  `SharedServer` is what they may rely on: no
second server beside a live one, none stopped while it is leased, none leased
again after it was stopped.  `ServerPool` is one slot and the threads that use
it; slots share nothing.

| Model | Code |
|---|---|
| `state`, `current`, `lock` | `PoolSlot`: `PoolState`, the weak reference in `Running`, who keeps the mutex while a server shuts down |
| `pc`, `ref`, `Owners` | a thread in `acquire_with_start`, `any_live` or a destructor; the threads that own a strong reference to a server |
| `process` | the child of `OpenCodeServer` |
| `Join`, `Supersede`, `Wait`, `Claim` | the loop of `acquire_with_start`; `Launch` to `GiveUp` what follows it |
| `Search`, `Found` | `any_live`, which upgrades under the lock and looks at the process outside it |
| `Drop`, `Reap`, `StopCurrent`, `KillOther` | the end of a handle, and `PoolInner::drop` for the last one |

An upgrade fails from the moment the last handle is gone (`Owners` is empty)
although the slot still says `Running`: the window between `Drop` and `Reap` is
what `acquire` must survive.

Run `server_pool`: three threads, four calls - one thread that destroys a
server, one that waits for it, one that searches, and a generation after.

- `ImplementsSharedServer` - the refinement, with the handles of the threads
  that got one as leases.
- `UsedIsCurrent` - a live server somebody owns is the one in the slot.
- `EveryCallReturns`, `UnusedIsStopped` - no lost wake-up and no destructor that
  waits for a lock its own thread holds; a server without an owner is stopped.

## 4. Fairness

Each thread of the program takes its next step when it can: weak fairness of the
connection threads and of reconnecting clients (`EventHub`), of every worker
(`RuntimeMailbox`), of socket threads, monitor and adapter (`SessionHandoff`),
of UI thread, writer, monitor and daemon (`SettingsWriter`), of request threads
and of each client's catalog worker and UI thread (`TaskCatalog`), and of the
event pump, captures, preparations and the driver's threads (`Turns`), and of
every thread inside a call or a destructor (`ServerPool`; a session may keep its
handle for ever, and who holds the slot's lock for longer than a step shuts a
server down, which a timeout and a kill bound).  `Turns`
also needs a Claude process that reads what it is sent, ends its replies and its
detached work; the code has no timeout for one that does not.  All of them
loop over channels or sockets with a timeout and never wait for each other's
locks for longer than one step of the model.  Nothing forces a provider to
speak, a user to act, a process or a connection to break, or a panic.

`CHECK_DEADLOCK FALSE` is set where the bounds let the system stop: every
request dispatched, every connection used up.

## 5. Proofs

Each proof module proves, for every value of the constants that the assumption
of the module they are declared in allows, the type invariant (`RewindProofs`: as much of it
as its properties need) and the properties below.  The type invariants of proved
modules are not run again by TLC, but were before they were proved.

| Module | Theorem | Property |
|---|---|---|
| `RuntimeMailboxProofs` | `TypeCorrect` | `TypeOK` |
| | `OneWorker` | `OneWorkerPerSession` |
| | `NothingStranded` | `NotStranded` |
| | `DispatchOrder` | `SessionOrder` |
| | `LiveRuntimeHeard` | `RunningIsHeard` |
| | `NotExecutedAgain` | `ExecutedOnce` |
| `EventHubProofs` | `TypeCorrect` | `TypeOK` |
| | `JournalOfTheActive` | `JournalOfActive` |
| | `OrderKept` | `DeliveredInOrder` |
| | `StreamImplemented` | `ImplementsStream` |
| | `NoGap` | `NoSilentGap` |
| `SupervisorProofs` | `TypeCorrect` | `TypeOK` of `SessionHandoff` |
| | `OrderForwarded` | `ForwardedInOrder` |
| | `ExitReported` | `ExitIsReal` |
| | `PassedIsKept` | `Accounted` |
| | `WriterTypeCorrect` | `SettingsTypeOK` of `SettingsWriter` |
| | `MemoryIsTrue` | `PersistedIsStored` |
| | `NothingForgotten` | `SettingsSettled` |
| `TaskStateProofs` | `TypeCorrect` | `TypeOK` of `StateStore` |
| | `CleanMeansDurable` | `CleanIsDurable` |
| | `ImplementsShelf` | `ImplementsTaskStore` |
| | `HydrationKeepsTranscripts` | `HydrationIsACache` |
| | `SyncTypeCorrect` | `SyncTypeOK` of `TaskSync` |
| | `LiveKept` | `LiveTranscriptKept` |
| | `HistoryTaken` | `HistoryKept` |
| `TaskCatalogProofs` | `TypeCorrect` | `TypeOK` |
| | `StaysRemoved` | `RemovedStaysRemoved` |
| | `WatchersAgreeAtRest` | `WatchersAgree` |
| `ServerPoolProofs` | `TypeCorrect` | `TypeOK` |
| | `UsedStaysCurrent` | `UsedIsCurrent` |
| | `PoolImplemented` | `ImplementsSharedServer` |
| `RewindProofs` | `RewindInvariant` | `RewindInv` |
| | `NothingIsDestroyed` | `NothingDestroyed` |
| | `CheckpointsAreKept` | `CheckpointsKept` |
| `TurnsProofs` | `TypeCorrect` | `TypeOK` |
| | `NoneLost` | `NothingLost` |
| | `NoneSentTwice` | `SentOnce` |
| | `AnsweredIfCompleted` | `CompletedIsAnswered` |
| | `NoneLeftRunning` | `EarlierSettled` |
| | `NoneShownTwice` | `ShownOnce` |

None of these is inductive alone (but for the type invariants, and not all of
them).  What strengthens them:

- *Mailboxes.*  `MailboxInv`: mailboxes are numbered in order of birth and no
  more were born than requests dispatched (`Counted`), an unborn mailbox is
  untouched (`Untouched`), whoever is alive is the one in the registry
  (`Registered`), the tickets in a channel grow and are younger than the last one
  taken (`Ordered`, `TakenBounded`).  The heart is `Registered`: a worker removes
  its registry entry and gives up its channel in one critical section, the one
  dispatchers append in.  `HeardInv` adds to `RunningIsHeard` what is known
  between a handler's effect on the driver and its effect on the hub
  (`Pending`): a start has let its runtime speak before the driver exists, a
  failed one has dropped the driver before it is silenced, and a runtime id
  names one start only (`Starts`).  `OnceInv` is about the cache: an id names one
  request, which only its session's mailboxes hold (`Requested`); an outcome
  that was reached is found, or pushed over a budget (`Overdue`), or still
  to be cached by the worker that has it (`Recalled`); so whoever executes an id
  again found nothing because it was pushed out (`Overtaken`), and that stays
  true while it executes, as nobody else can cache an outcome of that id: one
  worker serves a session, and a thread that cannot be spawned answers only if
  the session has none.
- *Hub.*  `HubInv`: what was published is not newer than the runtime its session
  runs or than its counter (`Published`), a journal holds published events of the
  running runtime (`Journals`), a queue holds published events of this process,
  runtimes in the order of their starts (`Queues`), and what a client has seen is
  covered by its cursor and not newer than what is queued for it (`Cursors`,
  `Logs`).  Replay keeps it because the events a subscriber is sent are above its
  cursor and nothing has been queued for it before.  `GapInv` says where each
  journaled event is for each client: not below the cursor unless it was given,
  not below anything queued unless it is queued before, and given or queued once
  the client attends to the journal (`Skipless`); while a subscription is
  replayed nothing of the journals left is queued (`Replaying`), and a cursor
  stands at an event that was published (`Reached`), hence below the next one.
  The lemma under it is that in an ascending journal what is above a cursor is
  one suffix (`UnseenIsSuffix`, by a least counterexample).
- *Handoff.*  `HandoffInv`: only the last connection talks to the present daemon
  (`Born`), the adapter takes connections in the order they were opened
  (`Succession`), a reconnection starts where the one before it stopped
  (`Resumed`), so what a connection holds lies between the cursors of those
  before it and its own (`Contents`), and what the desktop got lies below what
  its subscription still holds (`Given`).  `Attached` adds where the adapter
  stands: it holds a subscription exactly while it forwards, what it waits at is
  dead or `missed`, and the supervisor's connection is its own or will come to
  it; so the next event of a connection lands where the adapter will find it.
- *Settings.*  `SettingsWriter` shares no name with `SessionHandoff`, so that
  `SupervisorProofs` extends both.  `Acked`: an acknowledgement that has not been
  read yet is true, and a managed daemon runs a request of a dead connection only
  while the writer retries on that connection.
  `LastIsSent`: with nothing queued, what is persisted or being sent is the last
  document.
- *Task database.*  `StoreInv`: what the connection believes to have written of a
  task is in its table, a task has both of its rows or none, and its message rows
  are those of a transcript unless some are displaced (`Rows`); what is not dirty
  is on disk, and a skeleton stands for rows (`Safe`); only a rolled back
  transaction leaves unsaved work or rows nobody remembers (`Failures`).  `Safe`
  is stated for any tasks and any dirty set, since a critical section first edits
  both and then saves them; that a save keeps the rest is one lemma (`CommitOne`)
  for every command.  Under it is a small theory of rows in the order of their
  positions: their ranks differ (`RanksDiffer`), each rank is that of a row
  (`NthRow`, by counting), and the rows of a transcript are read back as the
  transcript (`RowsOfTranscript`).  The rows that `write_messages` leaves are
  those of the transcript and perhaps displaced ones (`MessagesWritten`): it
  skips what the connection has written, which is why `Rows` must say that this
  is still there.
- *Task synchronisation.*  `SyncInv`: a transcript holds something of its
  cursor's runtime and nothing of later ones (`Sound`), nobody is ahead of the
  runtimes started (`Behind`) or of the one it follows (`Follows`), and a daemon
  that does not know its task's cursor has merged nothing of the active runtime
  (`Unheard`).
- *Catalog.*  `InForce`: a removal that is stored is in force before its
  tombstone is recorded, until a save slips in.  `WatchInv`: the newest row a
  watcher has, shown or on its way to it, is the stored one unless a save of the
  stored row is still to be announced, a removal is, or the answer to the
  watcher's own load will rewrite the entry (`Seen`); and a watcher nobody has
  told anything goes by what the entry says (`Watches`), so that an announcement
  that wakes nobody has nobody to wake.
- *Pool.*  `PoolInv`: who starts a server and who shuts one down is unique and
  the slot's state tells which (`Roles`), a server being started or destroyed is
  one thread's own (`References`), and a live process is in the slot or still
  being started (`Processes`), so that at most one lives.
- *Rewind.*  `RewindInv`: turns, copies, snapshots, requests and rewinds keep
  their shape (`Refs`, `Copies`, `Captures`, `Rewinds`), a rewind has no safety
  snapshot before it took one (`IsRewind`), and only the last turn runs, none
  beside a rewind of the desktop, so that what it rewinds is still there when it
  ends (`Quiet`).  `Owed` says where the user's content is: in a snapshot that
  stays; or in the one snapshot that is held, if one is; or, if none is, in the
  worktree, which nobody but an edit changes then.  With two snapshots held
  nothing is owed.  So taking the first snapshot moves the content into it, the
  restore and its failure may change the worktree, the undo puts it back or
  leaves the snapshot, and a quit and a death leave it (`IsSecured`).
- *Turns.*  `TurnsInv`: of every message that was not misread there is one copy
  that may yet be sent or was read: in the composer, the queue, a preparation,
  the driver's channel, the process's input, or a refusal on its way back
  (`OneCopy`); the desk has every message (`HasAll`); and before the workspace
  exists a preparation is the one of the last turn, untouched (`Fresh`), so that
  taking this turn back when the worktree cannot be made takes back nothing but
  the message that returns to the composer or is mislaid (`ComesBack`).  `HandledAll` folds the client's
  handler over the events that have come; that the function it is made with
  exists, and that the invariant survives each of its steps, is shown by a least
  counterexample.
- *Order of the turns.*  No event names its turn, so what is shown of a turn is
  decided by what is still on its way.  The three properties about it are
  therefore proved of the desk to come: `Coming` is the desk once it has handled
  all its events, and has every turn of the desk, with its opener and its end
  (`Grew`).  When the client handles some of them `Coming` stays what it was
  (`SplitAlike`, again by a least counterexample; only the turns, the status
  and the runtime matter, `Alike`), and when the driver says something `Coming`
  makes one step (`OneMoreComes`).  `Ground` is what holds of driver and process
  whatever the user does: a lost runtime has left nothing behind, only a process
  that has ended reports it.  `Order`, as long as nothing is `mixed`: a
  preparation is for the last turn, with a quiet provider (`PreparesLast`), and a
  turn opens, for the user or out of the event pump, on the desk to come
  (`PumpStarts`); a
  prompt is ahead of all else in both channels, its turn the one that runs and
  the process at rest (`PromptsAhead`); a turn that runs in `Coming` is being
  prepared, about to be written or the driver's (`Underway`), and its message is
  what the process serves or will read next (`Served`); so the reply that ends
  it is its own, and completed turns are answered, earlier ones settled
  (`Settled`).  `Spent`: a message has one turn in `Coming` at most, and once it
  has one it is nowhere from where it could open another (`MayOpen`): not in the
  composer or the queue, not a steer that may yet be refused, not a refusal.
  That its opening uses it up is `OneCopy` of `TurnsInv`.

Model-checked only: liveness under fairness and `ENABLED`, which the prover
cannot state; and `RewindRestores`, for the reason in section 2.  The `TypeOK` of `Rewind`, of
which `RewindInv` has what its properties need, holds on the instance of its run.

## 6. Findings and known deviations

Two runs show the code contradict what it says of itself; `PROJECT.json` quotes
the lines.

1. `sync_skeleton`: a client's save sends a task of which it has only the list
   columns, and the daemon stores it in place of the transcript.
2. `rewind_checkpoint`: the turn that replaces an edited message is answered
   with the checkpoint of the turn it replaced.

The other properties hold but for exceptions that are named in them.  Each is a
behaviour of the code that a change could remove:

- Hub: a replay larger than a subscriber's queue (nine full journals) ends
  silently and leaves the subscriber registered (`server.rs:298`), where
  `server.rs:39` says that it "closes the connection"; what is left out are the
  newest events, where `server.rs:282` speaks of the oldest.  `NoSilentGap` names
  this with the history variable `cut`, which marks the journals that were left,
  and so does `EventuallyCaughtUp`.  `server.rs:316` says of a kicked client that
  it reconnects with its cursors, "so no event stream is lost permanently": here
  the rest of the journal never reaches it.
- Client: an adapter that subscribes after the socket thread ended waits forever
  (`client.rs:360`); events buffered without a subscription die with their
  connection although the cursor has passed them (`client.rs:307`), which
  `Accounted` names as `missed`: the same comment holds for these neither, since
  nobody asks for them again.
- Supervisor: `Unanswered`, `Unwatched` (which stops the settings writer too),
  `overlooked`, section 3.
- Task database: `write_messages` keeps the row of a message that was replaced at
  the same position (`persistence.rs:1733`); a rolled back save marks the project
  list and removed tasks as saved (`persistence.rs:1403`).
- Merge: a save that read the active runtimes before one started
  (`daemon.rs:413`); a daemon that restarted knows no cursor until it reads the
  transcript; a copy that is behind another runtime replaces it when its time is
  not older.
- Catalog: a load between a merge and its announcement swallows the announcement
  (`server.rs:342`), and so does a load that was overtaken; the window of
  `RemoveProject` (`daemon.rs:399`); a removed project has no tombstone, and a
  stale list of projects brings it back (`daemon.rs:421`).
- Turns: the message of a failed preparation is gone if another task is selected
  (`runtime.rs:3612`, where `:3604` says that "its prompt returns to the
  composer"), and so is a queued one whose project is not found
  (`runtime.rs:3474`, not modelled); a message that returns to the composer
  replaces the draft there (`composer.rs:3519`); `NothingLost` names the
  first and the last as `mislaid`; after Stop and a new message, late events of the stopped turn
  settle the new one (`TurnFinished` names no turn, `streaming.rs:658`) or mark
  it started, so that its preparation is dropped and it is never sent
  (`runtime.rs:3634`); the echo of a stopped prompt opens a second turn for it
  (`model.rs:1540`); an error while Connecting makes a task Failed, and the exit
  that follows leaves its turn running (`streaming.rs:785`); the capture of an
  earlier turn uses up the resume of a queue (`runtime.rs:1990`); pending steers
  go with their runtime; an answer that comes after its steer was dropped
  settles the oldest pending one (`streaming.rs:541`, `:563`), which is then
  queued while it is on its way, or shown in the wrong turn.
- Rewind: a quit between the deletion of the safety ref and the truncation of the
  transcript; the daemon writes its clone back and undoes saves made in between
  (`daemon.rs:1119`); a later save of the desktop brings rewound turns back; a
  skeleton in memory lets a stale save erase a checkpoint (`daemon.rs:1004`); a
  capture in flight attaches to the replacement turn (`runtime.rs:1906`).

## 7. Not modelled

- Composer drafts, the table of pending requests, the blob sweep, fork: section
  2, 10.  The supervisor's `reconfigure` stops the daemon and starts another,
  which `SessionHandoff` covers as `StopDaemon` and `Respawn`; its own locking is
  not modelled.  A request that is inserted into the table after the socket
  thread failed all pending ones waits out its 120 s timeout
  (`client.rs:163`).
- Pools: a panic while a server starts leaves its slot in `Starting`; dedicated
  servers have one owner and no slot.
- The drivers other than Claude's, and what a driver translates within a turn:
  hundreds of message formats; what they do to the rest (emit, exit, fail to
  start) is in the models.
- The UI's views (panels, settings, pull requests, rendering, input), mobile and
  web clients, terminals, scans, updater, localisation: no
  shared state of their own, or other clients of the modelled protocol.
- Byte budgets of messages, authentication, encodings.
