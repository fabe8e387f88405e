# Specifications of sessionmux

TLA+ models of the parts of this program where several processes, callbacks and
clients act on shared state, the TLC runs that check them on small instances,
and theorems about them that TLAPS has checked for all instances. Paths below
are relative to `src/`; `rust/` stands for `src-tauri/src/`, `ts/` for the front
end in `src/`.

Everything is run from this directory:

    tlc -config MCPromptQueue_race.cfg MCPromptQueue      # a run
    tlapm PromptQueueProofs.tla                           # proofs; so every
                                                          # module of section 5

Contents: 1 the system, 2 the modules, 3 the runs, 4 what the properties mean,
5 what is proved, 6 where code and comments disagree, 7 what is left out, 8 plan.

## 1. The system

The program is a desktop and server host for coding agents ("Harnesses"). A
*Session* is a conversation with one Harness. A backend process keeps one
*connection* per running Session; several processes (the desktop application, a
server) can share one SQLite database and so the Sessions in it.

| component | state | operations | interacts with |
|---|---|---|---|
| **prompt queue store** `rust/db/service/prompt_queue_service.rs` | rows of follow-ups (state, position, owner, lease, dispatch mark, pause reason), queue pause and revision | transactions: enqueue, edit, delete, reorder, pause, resume, retry; claim, mark, accept, release, fail, pause-unknown, recover; policy freeze/thaw | updates delivery and interrupt tables in the same transactions |
| **prompt queue worker** `rust/prompt_queue.rs` | the item it carries, its position in `process` | scans, claims, checks, marks, sends, settles; sweeps leases and interrupts every 15 s | store; connection runtime; event bus |
| **prompt queue commands** `rust/commands/prompt_queue.rs` | none | the clients' requests | store, wakes the worker |
| **collaboration interrupt** `rust/db/service/collaboration_interrupt_service.rs`, `rust/commands/collaboration.rs` | one operation per message, a pause it owns | prepare, cancel acknowledged or failed, terminal observed, recovered; follows its message to completion | queue store, connection cancel, worker's sweeps, TurnComplete |
| **mail** `rust/db/service/collaboration_service.rs`, `rust/prompt_queue.rs` | messages, deliveries, obligations to reply | send, attach waiting messages to a turn, dispatch invoking ones, reply, dismiss, retry, fallback reply | queue, connection sends, end of a turn |
| **connection runtime** `rust/acp/{manager,connection,session_state}.rs` | status, turn, prompt lock, command channel, permission queue | prompt, cancel, answer, fork, disconnect | all components that prompt |
| **pending requests** `rust/acp/{question,plan_approval}.rs` and registries of the manager | waiters by id, the card shown | register, announce, answer, withdraw, reap | Harness tool calls, event stream |
| **conversation status** `rust/acp/{lifecycle,manager}.rs` | status of a row, cached link of a connection | written by prompts, by the end of turns and of connections | database, events |
| **session identity** `rust/acp/{manager,connection,lifecycle}.rs` | which native Session a row names, which connections run it | connect with reuse, resume or fallback, link, fork | database, events |
| **event stream** `rust/acp/event_stream.rs`, `rust/web/{event_bridge,ws,ws_attach}.rs`, `ts/lib/transport/` | sequence number, replay ring, subscriptions, client cursors | emit, attach with snapshot or replay, forward, detach on lag, re-attach | every emitter and client |
| **work-task engine** `rust/work_task/engine.rs`, `rust/db/service/work_task_service.rs` | task rows with status and `run_seq`, launch slots, awaiting sets, merges | pump, launch, settle, cancel, requeue, return, delete, merge, recover, reconcile | connections, git |
| **automation engine** `rust/automation/engine.rs`, `rust/db/service/automation_service.rs` | schedules, runs, index, fire locks | claim a slot, fire, settle, cancel, reconcile | connections, conversation rows |
| **update** `rust/update/{state,install}.rs`, `rust/supervise.rs`, `rust/web/handlers/app_update.rs` | one snapshot with epoch and number, op-lock; bundle, backups, trial marker | begin, abort, restart, rollback; swap, undo, trial, relaunch | clients, supervisor |
| **workspace state** `rust/workspace_state/mod.rs`, `ts/hooks/use-workspace-state-store.ts` | numbered snapshot of tree and git, history, reference counts; a store per view | watch, flush, resync; start, stop, change of scan mode | file system, clients |
| others | conversation records, delegation, parsers, terminals, chat channels, transfer, front end | | |

What is hard in it: processes that share tables and can die between any two
transactions; leases that run out under a worker that is merely slow; a Harness
that may or may not have taken a prompt when a connection ends; rows and runtime
flags that are read, then used after an await; generations (`run_seq`) that move
on under a caller; events that are lost by a lagging receiver or handled after
the state they speak of has changed; numbers that start again after a restart.
`PROJECT.json` lists the places, each with its line and its properties.

Correctness, by component:

* queue: a prompt is dispatched at most once and never lost; FIFO and pauses are
  respected; what clients see is what they act on; nothing stays claimed;
* interrupt: the pause it owns is lifted exactly when the old turn has ended, or
  turned into a visible failure; its message runs next; no other turn is hurt;
* mail: a waiting message is put before its agent once, an obligation stands
  until it is answered, a fallback reply is the answer of its own turn;
* requests: a card belongs to a blocked request and each blocked request is
  answered, cancelled or withdrawn;
* conversations: a row is in progress just while a turn is; one process and one
  runtime for a Session; a fork leaves the original alone;
* event stream: no duplicate, no reordering, an attached client catches up, and
  what it skipped are events whose broadcast a later one overtook (section 6);
* tasks and automations: limits hold, one agent in a worktree, nothing of an old
  generation touches a new one, one landing at a time, done means landed, and
  every run and merge comes to an end;
* update: one operation at a time, a bundle that is never mixed, a bad version
  is rolled back; workspace: one number, one state; counts are balanced.

## 2. Modules

    QueueStore <- PromptQueue <- Interrupt <- MCInterrupt
                     |-- MCPromptQueue
                     \-- refines DispatchLedger
    TaskRow <- TaskStore, TaskRun, TaskMerge
    TaskRun, TaskMerge, Automation                                 <- MCTasks
    PermissionQueue, PendingRequest, ConversationStatus,
    SessionIdentity, Mail, TaskStore                               <- MCSessions
    EventStream (refines StreamView), UpdateState, UpdateInstall,
    WorkspaceFeed, WorkspaceRefs                                   <- MCClients
    PromptQueueProofs, TaskStoreProofs, WorkspaceRefsProofs,
    PermissionQueueProofs, PendingRequestProofs, SessionIdentityProofs,
    ConversationStatusProofs, MCSessionsProofs

The modules of theorems extend the module they are about (section 5);
`PromptQueueProofs` extends `Interrupt`, and so holds everything about the queue. An
instance of a sum that a theorem is about instantiates the proof module in its
place: it is the same specification, and `MCSessionsProofs` can cite its lemmas.

Operators marked "Faulty variant" belong to no specification: each is a
plausible mistake in the definition that follows it. `PROJECT.json` names, for
every property, one of them that the property's run refutes.

**`QueueStore`**: the tables of one Session, one action per transaction of the
service (SQLite has one writer, and every transaction of this service writes
before or as it reads what it depends on). `item` is
`conversation_prompt_queue_item`. A row is addressed by its id `<<s, n>>`: `s` is a
typed message or a collaboration event, `n` counts the identities a retry gives
it (a new uuid, or `delivery#attempt`). `started` is `dispatch_started_at IS NOT
NULL`. A lease is a flag, `expired`. Pause reasons are the five kinds the code
tells apart. `pause` is the queue's `paused_reason`, with the operation that owns
it. `fresh` stands for the revision: some client's last read is still current
(each command checks the revision, so one flag is enough: a stale command is
refused and changes nothing). `draft` holds versions of texts, `gen` the identity
counters (for an event `collaboration_delivery.attempts`), `dlv` and `op` the state
columns of delivery and interrupt operation, `policy` the collaboration switch.
`fate` is a history variable: what the user did with a message. An event is sent
once, a text is enqueued once unless `LateResends` is set.

**`PromptQueue`**: workers, runtimes, clients. `pc[w]` walks through `process` and
`process_native_steer`; one step lies between two awaits, and everything read
before an await is kept in a variable (`held`, `text`, `steer`, `bound`) and may be
stale later. The sweep is the same loop: `ReadPolicy`, `ReconcilePolicy`,
`SweepInterrupts`, `SweepClaims`; its scan of pending Sessions is `Observe` again.
`conn[w]` abstracts the connection of process `w`: `none`, `idle`, `admitting` (an
outside send holds `prompt_lock`), `accepted` (flag `turn_in_flight` set, status
still Connected), `prompting`. A worker holds `prompt_lock` from admission to the
end of the send. `Faults` lets any database call of a worker fail, before or after
its commit. `Crash` ends a process: its connections, its worker's state and its
commands are gone; its claims stay in the tables, owned by nobody alive (`Gone`).
`handed` and `onWire` are history: how often an id was put on a Harness channel,
and which ids are known to have reached the transport. Runtime checks of
directory, mode and prompt hydration are a free choice: each can refuse.

**`DispatchLedger`**: what the queue promises about each message id, without
workers, leases or positions: an id enters once, is offered to a Harness through
the dispatch boundary only, returns to the FIFO only while no offer is open or
used, and never comes back after it is gone. `PromptQueue` gives the mapping
(`PlaceOf`, `OfferOf`).

**`Interrupt`**: extends `PromptQueue` with stop-and-send. `cmd[e]` is the
continuation of `collaboration_interrupt_core` for message `e`; it may be dropped
at any await (`Abandon`) or with its process. `ended` is a TurnComplete on the event
bus, handled later (`OnTurnComplete`) or lost to lag (`BusLags`, which sweeps
instead). `Follow` says what a step of the rest of the system means for these
variables. `turnOf` is history.

**`Mail`**: messages between Sessions with the three policies of delivery,
obligations, batches attached to a turn (`Attach`, `Finish`), the loop that dispatches
invoking messages and writes fallback replies. The log's positions are ids; a key
stands for the dedupe of a sender; the queue's rows, leases and pauses are left
to `PromptQueue`. One process; `MaxBatch` is scaled down from 16; `Overtaking` says
whether the next prompt may start before the end of a turn is handled.

**`PermissionQueue`**: requests an agent is blocked on, the one card shown, the
command loop. The lock of the shared state is kept while a card event is owed
(`todo`), as the code emits under it. A prompt, a cancel, a disconnect wait in the
command channel. Each client clicks a card once. **`PendingRequest`**: questions and
plan approvals of one connection: register, announce, confirm, answer, cancel by
parent, the peer's close, a time limit, the reaper, sweeps at the end of a turn and
of a connection. The handler of an answering client that disconnects may be dropped
before it emits the resolved event (`left`). Ids are uuids, so an ask is its id; the
parsing of the forms is left out.

**`ConversationStatus`**: one row, its connections, and the lifecycle worker with
its cached link, its retries and its events; `Early`, `Overtaking`, `Bound`,
`MaxDrops` say which events may overtake which. Each write that settles the row can
fail (`RollbackFails`, `CancelRowFails`, `WorkerFails`, `TerminalFails`, bounded by
`MaxFails`) and the bus can drop each event (`EventLost`, `MaxLost`). `missing`
records what nobody makes up for: the code only logs the first two and the terminal
write, and gives the worker's write up after its third attempt. The next prompt
writes the row and so ends it. **`SessionIdentity`**: connects with their lock and
handshake, fallback to a new Session, links, forks and the worker that persists ids.
Sessions are named by the connection that made them; one conversation and one row
for a fork. `unsaved` names the connections of which a session id was lost for good:
the write at the link, the worker's last attempt, or the event (`Faults`, bounded by
`MaxFaults`).

**`EventStream`**: one connection's events: the number given under the state lock,
the broadcast after it, the ring with eviction, the WebSocket task with attach,
snapshot or replay, forwarders with lag, and the cursors of a client. An event is
its number, a snapshot the sequence of events it contains. **`StreamView`** is what a
client is promised: what it shows is a prefix of what happened and only grows.

**`TaskRow`**: the row of a task and each conditional update of
`work_task_service.rs`, as operators on one record; **`TaskStore`** runs them in any
order on a table, with any generation a caller can have read. **`TaskRun`**: pump,
launches, cancels, the event loop, the reconcile sweep, delete, restart and boot. A
step is what the code does between two awaits on state that others write; callers
come from pools (`Launches`, `Cancels`). Left open there: the end of a turn, what a
send returns, whether a lifecycle write happens at once or never. `ScanLimit` is
scaled down from 200; git never refuses to remove a worktree; chat of a user in the
session of a task is one event at a time. An end of turn is `"end"`, `"blocked"` (an
end_turn before which the agent reported that verdict, which fails the run),
`"error"` or `"cancelled"`. **`TaskMerge`**: clicks, the queue of parked merges, the
train, the agent that lands the work, settle and recovery, and git as far as they
read it (`base`, `committed`, `staged`). An agent brings its branch in step with the
base just before it lands; `Rework` is a whole run in one step. Pumps take no lock
of their own: as many run at once as there are idle `Jobs`, and they meet clicks and
each other at the slot. **`Automation`**: schedule slots, fires with every step of a
launch, cancels, the event loop, reconcile, boot, and the lifecycle writer. `Init`
is a process whose boot is over; one process (the engine lock); every tick has a
slot.

**`UpdateState`**: claims of the one operation, op-lock, relaunch, the emission of
snapshots after the lock is released, a client with sockets, fetches and epochs.
**`UpdateInstall`**: the three artifacts, their backups, the marker, the swap order
and its undo, the supervisor and the trial window, stops between any two steps.
A bad version starts and exits within its trial, or cannot be spawned when a
running supervisor relaunches it (`SpawnFails`); releases only increase.

**`WorkspaceFeed`**: numbered state of a folder whose tree and git status are bits,
history, the watch loop, the resync endpoint and the stores. `Capacity` is scaled
down from 24; scans do not fail; `Racing`, `Ordered`, `Flips` choose an environment.
**`WorkspaceRefs`**: reference counts, tokens, grace times, starts that are overtaken
by stops, changes of scan mode; a stop is answered before the next grace time
ends.

**`MC*`**: model values, instances and symmetry. `MCTasks`, `MCSessions` and `MCClients`
are *sums*: `part` names one of several small instances, is chosen by `Init` and
never changes; a step is a step of that instance, and the variables of the other
components are `None`. A property of a sum is a conjunction `part = "x" => X!P`, so it
says of each instance just what a run of that instance alone would. Fairness is
stated once for the sum: one conjunct holds one action of each instance, and
since `part` is constant it is fairness of that action.

## 3. Runs

| run | instance | checks |
|---|---|---|
| race | 1 event, 2 workers, faults, 1 retry, policy changes | `TypeOK` `HandedIsMarked` `SingleRow` `DeliveryInStep` `EmbeddedWasOnWire` `ImplementsLedger` |
| message | 1 text, 2 workers, 1 edit, 1 retry, 1 crash | `AtMostOnce` `NoSilentLoss` `DispatchesSavedText` |
| fifo | 2 texts, 1 steering event, user cancels, policy, outside sends | `RevisionHonest` `AdmittedIsHead` `CancelIsFinal` |
| progress | 1 text, 1 event, 1 crash, policy; fair | `ClaimsResolve` `FrozenThaws` `HeadIsServed` |
| interrupt | 1 text, 1 event, 1 crash, outside sends | `PauseOwned` `SavedMessageIsNext` |
| unpause | 1 event, 1 crash, outside sends; fair | `InterruptSettles` |
| tasks | 15 instances of `TaskRun`, `TaskMerge`, `Automation` | `RunsSound` `MergesSound` `FiresSound` `RunsStep` `MergesStep` |
| settle | 5 fair instances of the same | `RunsProgress` `MergesProgress` |
| sessions | 13 instances of `PermissionQueue`, `PendingRequest`, `ConversationStatus`, `SessionIdentity`, `Mail`, `TaskStore` | `CardsSound` `AsksSound` `StatusSound` `IdentitySound` `MailSound` `RowsHonest` `SessionsStep` |
| answers | 6 fair instances of the first five | `RequestsEnd` `ConversationsSettle` |
| clients | 9 instances of `EventStream`, `UpdateState`, `UpdateInstall`, `WorkspaceFeed`, `WorkspaceRefs` | `StreamSound` `UpdatesSound` `FoldersSound` `ClientsStep` |
| converge | 7 fair instances of the same | `ClientsConverge` |

What the three sums check, instance by instance:

| instance | of | what happens in it | properties |
|---|---|---|---|
| limit | TaskRun | 2 tasks, limit 1, automatic pump | `WithinLimit` |
| requeues, deletes, returns | TaskRun | requeue, delete, send back, each against launch and cancel | `NoStray` `OneAgent` |
| answers | TaskRun | retries, cancels, blocked verdicts, a lost event | `OneAgent` `ReviewAnswers` |
| waits | TaskRun | two requests of an agent | `AwaitingTruth` |
| boots | TaskRun | restart and chat | `NoStolenSetup` |
| slot, queue | TaskMerge | 2 and 3 tasks want the folder; 2 jobs with unqueue, 1 job | `OneMergePerFolder`, `OldestFirst` |
| landing, reworks | TaskMerge | commits of the user, a cancel, a lost event, a restart; rework | `LiveMergeKept` `LandedIsSeen` `DoneMeansLanded` |
| train, resumed | TaskMerge | unattended merges: refusals and bounces with two pumps at once; one, with a lost event and a restart | `TrainTriesOnce` |
| fired, closes | Automation | two fires of a slot, a cancel; all ends and a lost event | `OneRunning` `NoStray` `SlotOnce` `SlotRecorded`, `ConvSettled` |
| settles, drains | TaskRun | lost events and a restart; two tasks for one slot | `NoneOrphaned` `CancelsReturned`, `Drained` |
| served | TaskMerge | clicks, staging, a lost event | `NoneMerging` |
| halts, runs | Automation | an agent that never stops; restart and lost event | `CancelsStopped`, `RunsSettled` |
| cards | PermissionQueue | 3 requests, 2 clients, 2 prompts, a cancel, a death | `QueueSound` `CardIsShowing` `DepthIsTrue` `OldestFirst` `NoFlap` `NoPromptDropped` |
| answered | PermissionQueue | 2 requests, cancel, control message, sweep, death; also fair | `QueueSound` `CardIsShowing`, `AllAnswered` |
| returned, asksEnd | PendingRequest | companion ask and timed ask; ask and plan; clients that go away; also fair | `NoDeadCard` `CardKept`, `AllReturned` `ZombiesReaped` `AsksEnded` |
| shown, rowKept, dropped, settles | ConversationStatus | 2 connections, cancel, close; early end; a dropped caller; fair; each with failed writes and a lost event | `TurnShown` `OutcomeShown`, `NeverStranded`, `Settled` |
| identity, saved, connects | SessionIdentity | 3 connects and a fork; one fork; fair with time-outs; a failed write or lost event in the first two | `OneProcess` `OneRuntime` `ForkKeepsOriginal` `ForkKeepsSession`, `Persisted`, `Connected` |
| notes, attached | Mail | two waiting notes, two turns, crash and faults | `ContextOnce` `EmbeddedInItsTurn`, `NoneLeftBehind` |
| owed, asked, oneReply | Mail | a question to two; two questions; fair | `OwedUntilAnswered` `FallbackOnly`, `AnswerOfItsTurn`, `AnswersReturned` |
| board | TaskStore | 1 task, two intents, four generations, every call in any order | `PlanOnlyInTodo` `ParkedOnlyInReview` `VerdictIsOwn` `NoUnattendedRetry` |
| stream, race | EventStream | loss and lag with one emitter; two emitters | `NeverTwice` `CursorHonest` `ShowsPrefix` |
| catchup | EventStream | fair, two emitters | `CaughtUp` |
| claims, follows | UpdateState | requests of two kinds, restarts; fair client | `LockFollowsClaim` `StagedIsReported` `ClaimHasOwner`, `ShowsServer` |
| swap, rollbacks, adverse, heals | UpdateInstall | stops at each step; rollback; failing restore; fair | `BundleWhole` `LastGoodKept` `ServerNeverAhead` `UnprovenOnTrial`, `Healthy` |
| numbered, ahead, feeds, repo | WorkspaceFeed | racing resync; order of answers; fair | `SameSeqSameView`, `NeverBack`, `FilesShown`, `RepoKnown` |
| counts, modes, ends | WorkspaceRefs | starts against stops; fair | `Served` `Balanced`, `ModeFollows`, `StreamEnded` |

**Bounds.** Every bound is a constant and its guard is in the module. For the queue:
`MaxGen` limits identities (one retry gives two ids of one message; a second meets
the same situations), `MaxPos` positions (not reached), `MaxEdits` edits,
`MaxCrashes` process losses, `MaxQueue` stands for `MAX_QUEUE_ITEMS` (1_000). Two
workers are a stale one and a current one. `handed` saturates at 2. Elsewhere
`MaxSeq` bounds generations or numbers, `MaxLost` dropped events, `MaxRestarts`
restarts, `MaxPrompts`, `MaxCancels`, `MaxCloses`, `MaxForks` what users do,
`MaxMoves` disturbances of a connection; `MaxFails` and `MaxLost` of
`ConversationStatus` its failed writes and dropped events, `MaxFaults` of
`SessionIdentity` both. In `queue`, `resumed` and `served` one job of `TaskMerge` runs at a
time (a second makes the instance too large); pumps, clicks and recoveries that race
each other are in `slot`, `landing`, `reworks` and `train`, with two. In `train` no merge
lands (`MaxCommits` is 0), for it is about those that fail. Each hazard
needs one repetition, and each instance has the one or two it is about: a generation
that is overtaken needs two, a lost event needs one, a race for a slot two
processes. The faulty variants show that the bounds let the case happen: every
property of every instance is refuted by at least one of them.

The runs of the queue check for deadlock: its environment can always start a
connection. The others end legitimately when bounds are used up.

**Switches.** `Faults`, `UserCancels`, `PolicyChanges`, `OutsideSends`, `LateResends`,
`SteerEvents` turn parts of the environment of the queue on, since all of it at once
is beyond TLC; each is on in a run whose properties depend on it. In `interrupt`
and `unpause` the user does not cancel or change the policy: with user cancels
an operation loses its pause (section 6, `AcceptanceCompletes`).

**Fairness**, with what justifies it:

* queue workers: `WF(WorkerStep)`, the loop never stops (`run`,
  prompt_queue.rs:255-278); `SF(Observe)` and `SF(ReadPolicy)` when idle, `select!`
  serves a tick every 15 s and a queued wake-up whatever else it does; `SF(Recheck`
  passing`)`, directory and mode fail for ever only if the Session is misconfigured,
  which parks the row; `WF` of dequeue, end of turn, an outside send; `WF(Expire)`,
  time passes; `WF(ApplyPolicy)`, a settings command runs to its end;
  `SF(StaleSweep)`, a `cancelling` operation eventually is older than the 60 s of
  the sweep. `LeasesSuffice`: from some time on no lease (30 s) runs out between a
  claim and its mark (a few database calls). Without it a slow worker starves its
  queue;
* engines: weak fairness of every step of a launch, cancel, delete, boot, pump and
  of the event loop, which are code that runs when it can; strong fairness of the
  sweep, of recovery and of the pump's start (`reconcile_once` is called by a
  timer and their guards may be off when it looks) and of taking an event when a
  `select!` has several branches. Init commands have no fairness unless they are
  killed; agents end their turns only in instances that say so (`settles`,
  `drains`, `served`, `runs`), idle sweeps hang up what is left;
* connections: loops, emissions and replies of an agent that got its answer;
  clients answer cards that are shown (`answered`, `returned`, `asksEnd`); the time
  limit of a handshake and the queue at a lock (`connects`);
* clients: broadcasts, forwarders, sockets, watch loop, answers to requests that
  were sent, reconnects; a supervisor that goes on; containers that start again.

No fairness is assumed of users, of faults, of crashes, of lost events or of
connections starting. `Healthy` is `[]<>` and not `<>[]`: a user may try a bad version
again and again.

## 4. What the properties mean

*At most once.* A coding prompt changes files, so a replay does harm. The code's
answer is the dispatch mark: it is written, in one compare-and-set with lease,
owner, pause and policy, before the prompt is sent; a marked row is never
requeued by recovery, only parked for a human. `AtMostOnce` counts hand-overs;
`HandedIsMarked` says the mark covers them; `ImplementsLedger` says that no
transaction takes an id back over the boundary.

*Two tables in step.* `DeliveryInStep` determines the delivery state from the row,
although seven transactions update the two in separate statements;
`EmbeddedWasOnWire` relates what the sender is told to what the transport took.

*Clients of the queue.* `RevisionHonest`: no visible change without a new revision,
so a command based on an older queue is refused. `CancelIsFinal`: once a user's
cancel has paused the queue and stopped the turn, no worker that was already past
its claim or its mark hands over what is left in the queue, until the user resumes
it or retries a row. `AdmittedIsHead`: while the queue has rows, the prompt
lock is passed only with the row one owns, at the head.

*Interrupts.* `PauseOwned`: in whatever order the cancel is acknowledged, the turn
ends, the sweep recovers and the command is lost, a pause that only the operation
can lift has an operation that still can. `SavedMessageIsNext`: nothing overtakes
the message the user stopped the turn for.

*Runs.* `NoStray`: when nothing is under way for a task, no agent works for it unless
it is running. `OneAgent`: never two agents in a worktree. `ReviewAnswers`: a run that
comes into review was sent the user's last instruction. `NoStolenSetup`: the sweep
takes no row from a launch that works on it. `RowsHonest` (`VerdictIsOwn`,
`PlanOnlyInTodo`, `ParkedOnlyInReview`) and `NoUnattendedRetry` say what the columns of
a row may say together after any sequence of calls.

*Merges.* `OneMergePerFolder`, `OldestFirst` and `TrainTriesOnce` are about the slot,
its queue and the unattended train; `DoneMeansLanded`, `LiveMergeKept` and
`LandedIsSeen` relate the verdict of a settle or a recovery to git.

*Automations.* `SlotOnce` and `SlotRecorded`: a slot gives one run, and gives it.
`ConvSettled`: no conversation stays in progress behind a run that has ended.

*Cards.* `CardIsShowing`: the card is that of the request which is next, or an event
is owed. `NoFlap`: between one card and the next a task does not leave
`awaiting_input`. `NoPromptDropped`: a loop in a turn drops prompts, so none is sent.
`NoDeadCard`, `CardKept`: the card of a question nobody waits behind is about to go,
but for that of an answer whose client went away, which stays until the turn
clears it; and the withdrawal of one ask leaves the card of another.

*Conversations.* `NeverStranded`: a row in progress has a turn, or a writer that will
change it, unless a fault took the last write there was (`missing`). `TurnShown`,
`OutcomeShown`: and the other way round, the second with the same exception. So a
row is stranded by these faults only, and by no order of prompts, cancels, ends,
closes and retries. `OneProcess`,
`OneRuntime`, `ForkKeepsOriginal`, `ForkKeepsSession`, `Persisted`: which native Session
a row names, under racing opens, late events and failed writes; `Persisted` but for
connections in `unsaved`.

*Mail.* `ContextOnce`, `EmbeddedInItsTurn`, `NoneLeftBehind` are about messages that
wait for a turn; `OwedUntilAnswered`, `FallbackOnly`, `AnswerOfItsTurn` about
obligations.

*Clients.* `ShowsPrefix` is the refinement of `StreamView`; `NeverTwice` and
`CursorHonest` hold with several emitters too. `CaughtUp` compares what is shown, not
the cursor alone: every number that was emitted, except those of which the
broadcast came after that of a later one. `BundleWhole`, `LastGoodKept`,
`ServerNeverAhead`, `UnprovenOnTrial` say what is on disk at any stop. `SameSeqSameView`
and `NeverBack` say what a number means to a store, `Served` and `Balanced` what a
count means to the watcher.

## 5. What is proved

For every value of the constants: any number of messages, workers, requests, stores,
crashes and faults, every switch. Assumptions are the named `ASSUME`s on constants,
which TLC evaluates in the runs, and the hypotheses named below.

| module | theorems | hypotheses |
|---|---|---|
| `PromptQueueProofs` | `TypeCorrect`, `RevisionNeverStale` (`RevisionHonest`), `EmbeddedIsHonest` (`EmbeddedWasOnWire`), `NothingIsLost` (`NoSilentLoss`), `InterruptTypeCorrect`, `PauseIsOwned` (`PauseOwned`) | none |
| | `PromptAtMostOnce` (`AtMostOnce`), `MarkCoversHandOver` (`HandedIsMarked`), `HeadIsAdmitted` (`AdmittedIsHead`), `CancelHolds` (`CancelIsFinal`), `OneRowPerMessage` (`SingleRow`), `DeliveryFollowsRow` (`DeliveryInStep`), `SavedTextIsDispatched` (`DispatchesSavedText`), `QueueKeepsLedger` (`ImplementsLedger`), `SavedMessageStaysNext` (`SavedMessageIsNext`), `InterruptSparesQueue`, `InterruptKeepsLedger` | `~LateResends` |
| `TaskStoreProofs` | `RowsTypeCorrect`, `PlansBelongToTodo` (`PlanOnlyInTodo`), `ParkedMergesBelongToReview` (`ParkedOnlyInReview`), `VerdictsAreCurrent` (`VerdictIsOwn`), `RowsAreSound`, `NothingRetriesUnattended` (`[][NoUnattendedRetry]_vars`) | none |
| `PermissionQueueProofs` | `CardsTypeCorrect`, `QueueIsSound`, `CardFollowsQueue`, `DepthFollowsQueue`, `ShownInOrder`, `TaskNeverFlaps`, `PromptsAreTaken` | none |
| `PendingRequestProofs` | `AsksTypeCorrect`, `NoCardIsDead` (`NoDeadCard`), `PendingCardKept` (`[][CardKept]_vars`) | none |
| `SessionIdentityProofs` | `IdentityTypeCorrect`, `OriginalKeepsSession` (`ForkKeepsOriginal`) | none |
| | `OneProcessHolds` (`OneProcess`) | `~Timeouts` |
| | `OneRuntimeHolds` (`OneRuntime`) | `History`, `~Forgetful`, `~Timeouts` |
| | `ForkKeepsItsSession` (`ForkKeepsSession`) | `History`, `~Timeouts`, `~Overtaking` |
| | `PersistedFromHistory` (`Persisted`) | `History`, `~Forgetful`, `~Timeouts`, `~Overtaking` |
| | `PersistedFromDraft` (`Persisted`) | `~History`, one connection |
| `ConversationStatusProofs` | `StatusTypeCorrect` | none |
| | `NoRowIsStranded` (`NeverStranded`) | `Bound = {}`, `"link" \notin Early` |
| | `RunningTurnIsShown` (`TurnShown`) | `Bound = {}`, `~Overtaking` |
| | `RowTellsTheOutcome` (`OutcomeShown`) | `Bound = {}`, `Early = {}`, `~Overtaking` |
| `WorkspaceRefsProofs` | `RefsTypeCorrect`, `StreamIsServed` (`Served`), `CountsAreBalanced` (`Balanced`) | `Faultless`: `Patient`, no failing start, finitely many stores |
| `MCSessionsProofs` | `CardsAreSound`, `AsksAreSound`, `StatusIsSound`, `RowsNameTheirSessions`, `RowsAreHonest`, `StepsAreSound`: the properties of the sum `MCSessions` | none |

So each safety and action property of the runs `race`, `message`, `fifo` and
`interrupt` has a theorem, and each of the run `sessions` but `MailSound`. The
hypotheses exclude the cases of section 6, where the code does not keep what it says
and TLC shows how; `History` and the one connection of a draft are the conversations
of the run. `~LateResends`: no client repeats a send under the same id after the
message has left the queue. `~Timeouts`: no open gives up its wait for the Agent.
`~Forgetful`: no Agent has forgotten the Session of the row. `~Overtaking`: a
prompt, or a fork, waits for the events before it. `Early`: what may be waiting for
the worker when a connection is closed. `Bound`: connections linked before they are
known. Dropped callers, failed writes and lost events are hypotheses of no theorem:
the properties except, in `missing`, `unsaved` and `left`, what they take for good.
`Faultless` is the environment of the run of `WorkspaceRefs`.

**At most once.** Neither property is inductive: `handed[i] <= 1` says nothing of a
second worker that is about to send `i`. `IInv` adds `TypeInv` (types, and that a
worker with an item in hand names an id); `RowsHonest` (queued rows are unmarked,
absent rows have no owner); `HandedOnce` (an id that was handed over is *spent*:
absent or marked, and below the counters that give out ids, so it is not issued
again); `NotYetMarked` (a worker that has not marked yet owns an unmarked row, or
does not own it); `HoldsOffer` and `OneOffer` (a worker beyond its mark carries an id
that was not handed over, and no other worker beyond its mark carries it). Almost
all transactions are *quiet*: they do not mark, requeue a marked row or reissue an
id. `QuietStep` shows once that quiet steps keep `IInv`; the claim, the mark, the
hand-over and the busy release are proved one by one. The first
section of the module has the lemmas on single transactions.

**Steps.** `StepIsTransaction` says that every step of the system that writes tables is
one of the transactions, with its lapse of leases. `RevisionHonest`
follows transaction by transaction. `AdmissionInv` adds to `IInv` what a worker beyond
its admission owns.

**Rows and history.** `CancelInv`: while a cancel stands, the queue is paused and
whoever is beyond the mark carries a row that is no longer waiting. `RowInv`: `IInv`,
one row per message, delivery determined by row. `TraceInv` relates history to
tables: what was handed over was submitted, what is embedded was on the wire.
`CarriesSaved`: a worker that still owns its row after it read the text holds the
text saved last, since an edit takes rows from their owners.

**Refinement.** `LedgerInv` (`RowInv` and `TraceInv`) gives the mapping its meaning;
`MoveStep` shows that each step moves each id along the ledger or leaves it.

**Interrupts.** `Follow` makes each step of the queue a step of `Interrupt`, and
each step of `Interrupt` of its own is one transaction, so `LedgerInv` carries over.
`PauseInv` is inductive with types alone. `WaitInv`: an operation that waits has a
message that was prepared, sent once, and whose row is first; `NoNewWait`,
`AppendJoins` and `RowStands` say why nothing passes it.

**Permission cards.** `ConnInv`: `QueueInv` (responders are what is shown or waits),
`ShownInv` (what waits was not shown to anybody, so no answer to it is on its way:
the branch of `resolve` that filters waiting cards is never taken), `InOrder`
(positions follow arrivals), `Owed` (which events the holder of the lock has still to
emit, and what the card, its depth and a task's count are meanwhile), `PromptInv` (a
prompt holds the turn from the gate to its last event, and is alone).

**Asks.** `AsksInv`: `TypeOK`, the property `NoDeadCard` itself, `TakenOnce`
(whoever takes an ask out of its registry takes on its resolved event, or has left,
so none is due for an ask still in there) and `CardsOfKind`. `CardKept` rests on the
first: a resolved event is never about a pending ask. `NoDeadCard` rests on the
second: a resolved event looks only at the slot of its kind.

**Work tasks.** `RowHonest(row, failed)` is an invariant of one row: it ties a plan, a
parked merge, a verdict and the latch of a failed merge to the status and the
generation. Each update of `TaskRow` is shown to keep it (`ClaimsHonest` and its
siblings); the table follows, since an update writes one row.

**Identity.** `IdentityInv`: `Shape` (what each stage of an open and of a connection
has), `Origin` (the forked Session is known only to the connection that made it,
which has moved to the new row), `OneForker`, `Fresh` (nobody names a Session before
its connection has started it), and `Guarded` when no wait times out: an open that
is between its check and the end of the handshake holds the lock of its Session, so
nobody else can start it. `Loyal`: with history and memory every open asks for the
same Session. `Clean`: what is on its way to the row of a fork names the fork.
`Told`: the latest id on the way to a row (event, write, or the row itself) is the
Session of its connection, unless it was lost (`unsaved`). `FaultWrites` says once
that a fault writes nothing, brings no new id on its way, and leaves other
connections alone.

**Status.** `TypeInv` has the types, and `Prompt`: one prompt at a time, covered by
`turn_in_flight`. `LinkInv` says in which order things happen to a connection:
unused before it is known (`Young`), linked before it is used (`Bonded`), told to
close when it leaves the map (`Closing`), nothing but links after the terminal event
(`Order`). `WireInv` adds that the worker knows the link whenever it will need it,
unless the bus dropped it (`Cached`), and that it never writes "in_progress"
(`Ending`). For `NeverStranded` the invariant is `Owed`: a row in progress has
somebody who owes it a write (`Owes`), or `missing` says that a fault took it, and
each step of that somebody passes the debt on. `MissingMoves`: only an admitted
prompt takes from `missing`; `NoneMissed`: which faults take nothing. For
`TurnShown` it is `ShowInv`: who sends or runs a turn is alone (`Sole`), all others
are done (`Quiet`). For `OutcomeShown` it is `OutcomeInv`: when no prompt is on its
way, what is still to be written agrees with how the last one ended (`Due`). Orders
within a channel are first-order facts of sequences (`Ordered`: what `Append` and
`Tail` do to `Behind`), so that no induction is needed.

**Sums.** An instance of a sum inherits the invariant of its module: `part` never
changes (`PartStays`), so a step of the sum is a step or a stutter of the instance.

**References.** `Inv`: per store one phase at a time (a start, running, a stop by its
timer or by hand), from which the subscriptions it holds can be read (`Mains`,
`Extras`, and of what mode); the two counts of the server are their cardinalities.
`StoreStep` covers every step that leaves the subscriptions alone; the answers of the
server (`ServeStep`) and the exchange of the two modes (`SyncAnswerStep`) move stores
between the four sets. `Wanted` (a store with tokens is started or about to be) is
why a restart gives back something its store holds.

Checked by TLC only. Liveness (`ClaimsResolve`, `FrozenThaws`, `HeadIsServed`,
`InterruptSettles` and the progress of the sums): the prover has neither ENABLED nor
fairness. The safety of runs of tasks, merges, automations, mail, event stream,
updates and the feed (`RunsSound`, `MergesSound`, `FiresSound`, `MailSound`,
`StreamSound`, `UpdatesSound`, `FoldersSound` but for `Served` and `Balanced`):
these have no proof module. Git, logs of events and batches are sequences there
whose contents the properties compare, which asks for inductions over data.

## 6. Disagreements between the code and what it says of itself

Met while modelling. Each names a definition of the modules that states the
comment, and that TLC refutes when the environment is allowed the case; the runs
above exclude the case by the switch or the bound in brackets. They are not run
with the others: a property in a run is one that holds.

Prompt queue and interrupts
* `FollowUpsRun` (prompt_queue_service.rs:344): `send_is_admitted` looks at the first
  row of any state, so a follow-up behind a frozen message is claimed, refused and
  released for as long as collaboration is off ("ordinary user follow-ups remain
  runnable"). [fair, `PolicyChanges`]
* `AtMostOnce` (:363): the dedupe key lives in the row, which acceptance deletes; an
  enqueue repeated later is a second prompt ("makes that retry a read").
  [`LateResends`]
* `BusyIsActive` (prompt_queue.rs:77): `is_session_runtime_active` wants status
  Connected, which a running turn does not have ("Busy is still active").
* `AdmittedByClaim` (acp/manager.rs:1330): an empty queue admits every send; a worker
  whose marked row was swept by another process and deleted by the user is
  admitted too, and sends it ("admitted by its exact claimed id"). [2 workers, marked
  row expires] `AdmittedIsHead` and `CancelIsFinal` are stated for what is left in the
  queue.
* `CancelSparesOwnTurn` (commands/collaboration.rs:306): a sweep recovers an operation
  whose command is alive; the command then cancels the turn of its own message.
* `AcceptanceCompletes` (collaboration_interrupt_service.rs:585): a message accepted
  while its operation still waits for a turn leaves the operation active, and
  every later interrupt of the Session is refused. [`UserCancels`]

Work tasks (engine.rs unless named otherwise)
* `LightIsOwn` (work_task_service.rs:1749): a failed merge opens a review with the
  preflight light of the run before.
* `SettlesOwn` (:1640): a turn that reports "cancelled" cancels the task of any
  generation. [`Stops`]
* `CancelHitsOwn` (:599): `cancel` reads `run_seq` again after its update and finds the
  connection by task alone: it hits the generation started meanwhile.
* `ReviewAnswers`: (:2905) the sweep takes the old status of a conversation for the
  outcome of a run whose prompt was refused [`Sends`]; (:1559) a launch indexes a
  connection the user is prompting [`UserCalls`]; (:3722) the scan for the
  outstanding instruction reads 200 entries [`ScanLimit`]; (:559) a delayed launch
  carries an old text into a new generation.
* `AwaitingTruth`: (:1549) requests of a delegation child are dropped [`ChildReqs`];
  (:1677) a request tracked after a cancel stays for the next generation.
* `NoOrphanTree` (commands/work_task.rs:308), `TreeUnderAgent` (:2814): a delete and a
  launch, a removal and a launch, are not ordered. [`UserCalls`]
* `BootFailsOld` (work_task_service.rs:2054; automation/engine.rs:225): calls are served
  before the boot recovery, which then fails the run just started.
* `NoStolenSetup` (:753): the pump overwrites the token of a launch in flight, and the
  loser removes it. [retries while queued]
* `DoneMeansLanded` (:2363): the branch of an agent that committed nothing is an
  ancestor of the base; a user's commit makes that a landing. [`Uncommitted`]
* `LandedIsSeen` (:2366): a landed squash is recognised by the tree of HEAD alone.
  [`Squash` with `commit`]
* `UserStagedKept` (:2378): what the user stages during a merge is reset with it.
* `LiveMergeKept` (:2328): a late settle sends the next generation back to review.

Automations (automation/engine.rs, automation_service.rs)
* `ParentTruth` (service:436): `last_run_status = running` is written over a run
  that was canceled meanwhile. `OutcomeAgrees` (:747): a disconnect on TurnComplete
  races the lifecycle worker. `TreeLinked` (:448): a worktree no row knows.
  `SlotOnce` (service:333): an edit undoes a claim [`MaxEdits`]. `SlotRecorded`
  (service:654): a claim without a run when the process stops in between.
  [`MaxRestarts`]

Connections
* `SweepSparesTurns` (manager.rs:734): victims of the idle sweep are picked under the
  lock and disconnected later, turn or not.
* `RefusedBehindShown` (connection.rs:7829), `CardStays` (manager.rs:2862): an ask
  announced after the sweep of its turn keeps its entry without a card, or covers a
  card.
* `NeverStranded`: (connection.rs:1277) a link emitted before the connection is in the
  map is not cached [`Bound`]; (lifecycle.rs:152) nor one handled after a quick
  disconnect [`Early`]. One fault strands the row, too, and nothing repairs it before
  the next prompt: a request dropped after its row was written (manager.rs:1346); a
  rollback that fails (manager.rs:1515; "so the UI doesn't strand on `in_progress`",
  :1435); a cancel's write that fails (manager.rs:1638; "without this write the row
  would strand on `InProgress`", :1613); a terminal write that fails, after its cached
  link is gone and `terminal_dispatched` set (lifecycle.rs:233); the end of a turn after
  its third failure (:57), or dropped by the bus (:292). The properties except these
  in `missing`.
* `TurnShown`: (lifecycle.rs:126) a late PendingReview hides the next turn
  [`Overtaking`]; (manager.rs:1497) the rollback of a prompt writes over the turn of
  another connection. `OutcomeShown` (lifecycle.rs:120): an end that comes after the
  disconnect.
* `OneProcess` (manager.rs:513): after a time-out of the handshake a second process
  starts [`Timeouts`]. `OneRuntime` (:829): after the fallback to a new session two
  connections are linked to one row [`Forgetful`]. `ForkKeepsSession`
  (lifecycle.rs:97): a late SessionStarted is written to the fork [`Overtaking`].
  `Persisted` (manager.rs:1730): a fork adopts a row without persisting its id
  [`Forgetful`]; a session id whose write failed (manager.rs:1287; lifecycle.rs:57)
  or whose event the bus dropped (:292) is not written later, except in `unsaved`.
* `NoDeadCard` (manager.rs:2947): the handler of an answer may be dropped with its
  client after the entry is taken: "the resolved-event below still clears the card"
  then does not, and the card stays until the turn clears it. Excepted in `left`.
* Fallback replies (collaboration_service.rs:874): the id of the turn's message is read
  when its end is handled, and the next prompt has cleared it. [`Overtaking`]

Clients
* Attach (ws.rs:289): a handler awaits room in the channel that only its own loop
  drains [`OutCap`]. `FollowsSnapshot`, `RejectsDuplicatesOnly` (event_bridge.rs:472):
  numbers are given under the lock, broadcasts made after it, so an event can be
  overtaken and is then never shown: `CaughtUp` excepts it (`Overtaken`). [two `Emitters`]
* `UnprovenOnTrial` (supervise.rs:152), `RollbackWhole` (install.rs:371),
  `ServerPresent` (install.rs:888): stops and failures between the renames.
  [`MidCrash`, `Faults`]
* Workspace: an older scan replaces a newer state (mod.rs:1612) [`Racing`]; an event
  swallowed by the resync in flight (use-workspace-state-store.ts:338) [`Ordered`];
  `SameSeqSameView` (mod.rs:118) an event that is replayed but not applied [`Flips`];
  events missed while the socket is down (:460) [`MaxDrops`]; a smaller number
  ignored after a restart (:123) [`MaxRestarts`].
* `Served`: (:529) a stop from a store without a subscription takes another window's
  [`Patient`]; (:392) a restart after a failed start does. [`MaxFails`]

No property of a run fails through two more: a busy release of an unmarked
collaboration row always rolls back, and the row waits for its lease (`ClaimsResolve`
holds thanks to the lease; listed as a hazard); and a TurnComplete of an earlier turn
is taken for the one an operation waits for. A comment on `pause_queue_if_pending`
(prompt_queue_service.rs:647) says that a cancel calls it "after sending the Harness
cancel command"; the caller pauses first (commands/acp.rs:9386), as its own comment
and the model say.

## 7. What is left out

* Of the modelled components: wording, logging, the content of prompts, validation
  of inputs (an invalid command changes nothing), several targets of one message
  (each is a queue of its own), clocks (a lease is a flag that may rise at any time
  while a row is claimed; a timer is a step that may be taken).
* Read-only repetitions: the dedupe of an interrupt command and of a collaboration
  send is the existing record.
* Connections: building and installing Harnesses, streaming of content, modes and
  options, steering outside the queue, background turns, tombstones. An outside send
  is that of any client that takes `prompt_lock` and asks `send_is_admitted` without an
  item: the user's own, and a chat channel's (`send_prompt_queue_aware`).
* Mail: `mark_seen` and counters, feed and timeline, reply budget, settings.
* Tasks: prompt texts, names of branches and worktrees, preflight commands, settings,
  clean-up retries, the calendar of plans, failing git removals. Automations: the
  enqueue-task action, checkout of a branch, pruning, deletion, the badge, the 180
  minute limit, failing database calls.
* Update: the desktop updater (same claims, no op-lock), standalone re-exec, download,
  signature, extraction. Workspace: ignored paths, failing scans, overflow of the
  batch, streams without full subscribers.
* Event stream: the desktop listener, server shutdown, metrics; ids of subscriptions
  are used again only when unused.
* Components listed as `not_modelled` in `PROJECT.json` are I/O, parsing and
  presentation without a protocol of their own, or planned below.

## 8. Plan

1. done: the modules of section 2, the runs of section 3, the theorems of section 5.
2. next proofs: `Automation` (its runs and slots are records of one parent, as
   `TaskStore`'s rows are), `TaskMerge` without its git, then `Mail`'s obligations.
3. next models: delegation (sub-agents brokered between connections with their own
   cancellation), background turns, local Session sync.
