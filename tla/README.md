# Super Agents: a TLA+ verification project

Super Agents is an MCP server that lets one coding agent start, steer and watch
others. Two kinds of backend do the work: Claude sessions, driven through the
Claude Agent SDK (one CLI subprocess per session), and Codex threads, driven
through a Codex app-server over JSON-RPC. Several server processes may run at
the same time over the same files in `~/.super-agents`, so almost every
operation is a race between event loops, worker threads, processes and CLIs.

The modules here are translated from the code under `src/super_agents`.
`PROJECT.json` maps every definition to its lines.

## Inventory

**Session store** (`agent_store.py`). An sqlite database: a row per session
(name, status, active turn, CLI session) and per turn (status, prompt,
response, `response_finished_at`, `updated_at`). Each method is one
transaction; callers compose several. Correct if the compositions are: the
predicates some statements carry (`only_if_active`, `begin immediate` in
`claim_queued_turn`) are exactly what keeps rows consistent.

**Claude turn lifecycle** (`claude_sdk.py`, `claude_cancellation.py`). A client
keeps, per session, an asyncio lock, a cached SDK client, a queue drain task
and the tasks of running turns. A turn is launched, or queued and claimed
later by the drain of any process; its task takes the asyncio lock and then an
flock shared by all processes, reads the CLI, and ends completed, failed or
cancelled. Correct if turns exclude each other, every row gets a terminal status
nobody overwrites by mistake, queued turns are not stranded, and the session
row says which turn runs. Hard: two processes between two transactions; a death
at any point.

**Orphan reconciliation** (`claude_orphans.py`). A sweep at start-up and on
status calls finds sessions whose active turn was not written for 20 s, probes
the flock and, if it is free, fails the turn, or completes it when its response
had finished. A steer reclaims after 5 s in the same way. Correct if it ends all
dead turns, with an honest outcome, and no live one.

**Response accounting** (`claude_sdk.py` `_run_turn`, `claude_responses.py`,
`claude_completion.py`). Every query to the CLI holds a ticket until a result
debits it. The CLI may merge queries into one response, run background tasks
that start a response of their own when they end, and schedule wakeups. Correct
if a turn reads all responses to its own queries and no other, leaves nothing
to the next turn on the stream, and ends.

**Steering** (`claude_steering.py`) and **inbox delivery** (`claude_inbox.py`).
A steer joins the running turn: buffered before the turn is ready, sent after,
handed to another process's session through its inbox, or queued as a turn.
Correct if it is delivered once, in order, to the conversation of the turn it
was meant for.

**Session transport** (`claude_sdk.py`, `claude_compaction.py`). The cached CLI
client, its reuse for the next turn, warm-up, compaction and close. Correct if a
CLI whose conversation is behind the transcript is never reused.

**Tool approval gate** (`approval_gate.py`, `app_permissions.py`,
`claude_permissions.py`). A tool call that needs approval writes a request to a
shared JSON file and polls it, bounded by a deadline, while an in-process future
can be resolved directly. Correct if each call gets its own answer, no update of
the file is lost, a cancelled turn's calls are denied, and every wait ends.

**Codex turns** (`app_client_*.py`, `app_server_client.py`). A JSON-RPC
connection with pending requests, notifications that update turn records, and
server requests for permission. A client learns of a turn from answers,
notifications, reads and the stored record, which cross. Correct if a late
answer or notification never resurrects a finished turn, the gate that decides
between starting and queueing tells the truth once nothing is under way, and no
prompt is applied twice.

**Codex durable queue** (`app_queue.py`, `app_client_sessions.py`). Prompts that
wait for their thread, in a locked file, reserved, started, released and
declared stale by the drains of several processes. Correct if an item is started
once, in order, unless its start had an unknown outcome; none is lost; the queue
drains.

**Routines, events, state file** (`app_routines.py`, `app_client_routines.py`,
`app_events.py`, `app_client_events.py`, `state.py`). Scheduled runs and
runs started by file changes and webhooks, in one JSON file, reserved under a
lock, launched, recorded and reconciled later. Correct if a routine runs once a
day and once per event however many processes sweep, and a lost run does not
block its routine.

**Routing and provenance** (`multi_backend.py`, `backend_provenance.py`,
`backend_routing.py`). Which backend owns an identifier.

Without protocol state, and not modelled: the MCP server, tool inputs,
defaults and configuration; options, prompts, transcripts, views, logs, history
and formatting; the index of Claude homes; the probe of working directories.

`PROJECT.json` lists the components with their status and the hazards at their
lines.

## Plan

| # | module | contents | state |
|---|--------|----------|-------|
| 1 | SessionLock, TurnLifecycle, TurnContract, TurnLifecycle_proofs | turns of one session across processes | done |
| 2 | ResponseDrain, ResponseDrain_proofs | what a turn reads from its CLI | done |
| 3 | ApprovalGate, ApprovalGate_proofs | approval of tool calls over the shared file | done |
| 4 | SessionTransport, SessionTransport_proofs | cached CLIs, who owns the leaf, warm-up, compaction, steers and their ways, close | done |
| 5 | CodexQueue, CodexQueue_proofs | reservation, release, stale starts, the start that timed out | done |
| 6 | CodexTurns, CodexTurns_proofs, CodexGate_proofs | requests, late answers, notifications, turn records, permissions | done |
| 7 | Routines, Routines_proofs | reservation of due runs, events, reconciliation, the state file and its lock | done |
| 8 | theorems | every safety property of the runs | done |

SessionTransport does not use SessionLock: a launch is one step in it, and its
locks are taken by operations of three kinds in any of three layouts of
processes and loops. Inbox delivery is part of SessionTransport, where its
outcomes meet the other ways of a steer. No module to prove about declares a
RECURSIVE operator.

## Modules

### SessionLock

The lock pair: `loopLock[c]` is the holder of client `c`'s asyncio lock, `flock`
the client whose descriptor holds the file lock. Taking the flock needs the
asyncio lock; `ReleaseLocks` is the exit of both contexts, which no await
separates.

### TurnLifecycle

One session, any number of clients (one per process), turns `1..MaxTurns` in the
order their rows are inserted.

- `status`, `finished`, `age`, `sessionStatus`, `activeTurn` are the columns of
  the rows. `age` counts only the two thresholds the code compares with: over
  5 s (reclaim) and over 20 s (sweep).
- `task[t]` is where the coroutine of turn `t` is: `waiting` for the locks,
  `running` a response, `answered` after a result, `ending` in
  `_finish_session_turn`, `done`; `lostMid` and `lostAfter` when its process
  died during a response or after a result.
- `call[c]` is the synchronous stretch of code client `c` is in. One transaction
  is one step. While `call[c]` is not idle no other coroutine of `c` runs, since
  that code does not await; other clients do.
- `steerNote[c]` is the bookkeeping of a steer that runs in a worker thread and
  may arrive after the turn ended.

| code | actions |
|------|---------|
| `start_turn_by_label`, `_launch_turn` | StartTurn, CreateTurn, MarkRunning |
| `queue_turn_by_label`, `_queue_drain_loop`, `claim_queued_turn` | QueueTurn, Enqueue, DrainPoll, DrainEmpty, DrainClaim, DrainRefused |
| `cancel_queued_turn` | CancelQueued, Dequeue |
| `cancel_by_label`, `_finish_session_turn` | CancelTurn, CancelRow, FinishRead, FinishWrite |
| `_run_turn` | TaskLoopLock, TaskFlock, TaskBegin, TaskResult, TaskFollowUp, TaskComplete, TaskFail, TaskCancelled, TaskRelease |
| `_steer_active_turn`, `append_turn_steer`, `mark_session_steering` | SteerTurn, RecordSteer |
| `warm_session_by_label`, `compact_session_by_label` | UpkeepStart ... UpkeepEnd |
| `reconcile_orphaned_turns`, `_reclaim_orphaned_turn`, `_fail_orphaned_turn` | Sweep, Reclaim, Probe, OrphanRow, OrphanWrite, OrphanSession |
| `start_thread` on a known name, `close`, time, process death | RefreshSession, CloseClient, Ages, Crash |

The prompt, the response text and the CLI are abstract: `TaskResult` and
`TaskFollowUp` are what ResponseDrain describes in full.

`Requests` selects the kinds of request a run exercises. It bounds the
environment, not the code: an instance in which nobody cancels is one in which
nobody happens to.

Time: a waiting turn ages only while another job is inside the locked region,
and a turn whose task is not yet spawned does not age. The hand-over of a free
lock and the launch take far less than 5 s.

### TurnContract

What the session promises: a turn is accepted, started and settled; one turn at
a time drives the CLI, none twice, and a driver gives way only when settled, or
when its process dies. TurnLifecycle implements it (`KeepsContract`), with a
turn's phase computed from its row and its task, and the driver from the tasks
inside the region; turns_crash checks it and TurnLifecycle_proofs proves it.

### ResponseDrain

One session's turns, one after another on one CLI stream.

- `phase` is where `_run_turn` is between two awaits; `cycle` how the current read
  waits: without a bound, timed (5 s; 90 s after an interrupt), or polling for
  background work (15 s).
- `tickets` and `covered` are `PendingResults`: a result debits the oldest ticket
  and covers those open at that time, which may have been merged into it.
- `tracked`, `wakeTracked` are `_BackgroundTasks`; `stamp` is
  `response_finished_at`, written in a worker thread (StampWrite, StampCheck,
  StampClear), so a steer can fall in between.
- `inbox`, `busy`, `answering`, `cliTasks`, `cliWake`, `stream` are the CLI, as the
  code uses it: it answers queries in order, may let a query join the response
  under way, ends a task silently, or with a follow-up.

Steers are coroutines of the same loop: registered (SteerBegin), perhaps after an
interrupt (SteerInterrupt), sent (SteerSend) or failing (SteerFails).

The bounds of a timed read are longer than a send and the start of a response
take (`Quiet`): a timeout with no query owed means that no response is coming,
which is what the code takes it to mean. A query that joins the read just before
its bound is up may be on its way when it expires (TimedOutOwed).

`setting` selects, at the start of a behaviour, what may happen in it (turns,
queries, tasks, wakeups, a validator, interrupts, failing sends, a CLI that
exits, cancellations): one run covers several settings, each of which bounds the
environment and not the code.

### ApprovalGate

Several processes with a gate each, approvers, and tool calls `1..MaxCalls`.

- `call[r]` is where `request_permission` is: recording, checking the file,
  waiting on the future, clearing, done. `age[r]` compares time with
  `approvalExpiresAt` and with the waiter's deadline, which is set later.
- `file` is the shared store, `held[a]` the snapshot an actor has read under the
  file lock; a write replaces the file by what was computed from the snapshot.
- `given` and `scoped` are history: what approvers decided for a call, which calls
  a cancellation reached.

`dropped` is history too: calls whose answer was there when the timer of the poll
won. Up to Python 3.11 `asyncio.wait_for` returns the result that arrives on the
tick of its timeout, from 3.12 on it raises `TimeoutError`; the project supports
both, so `Wake` may happen with an answer in the future.

### SessionTransport

Clients on one store, which may run in two processes, in two event loops of one
process, or in one loop (`place`). Each caches a CLI for the session, which has the
conversation in memory as of the time it was connected.

- `cli`, `registered`, `leaf` are `_sdk_clients`, the registry of transports of the
  process, and `last_client_instance` of the session row; `active`, `cancelled`
  the rows of turns.
- `kind`, `runner`, `step` are the operations that take the locks: turns, named by the
  prompt that launched them, and at most one warm-up or compaction per client.
  `loopLock`, `flock` are the locks.
- `sent`, `buffered` are `_initial_query_sent` and `_buffered_steers`; `call` the
  steer and start calls; `inbox` the recorded inbox of another program.
- `current`, `landed`, `forked`, `crossed` are history: which CLIs have the tip of
  the transcript, how many places a prompt went to, whether a prompt went to a CLI
  that is behind, whether a steer went to a CLI no turn was reading.

| code | actions |
|------|---------|
| `warm_session_by_label` | UpkeepStart, BeginWarmUp, WarmUpEnds |
| `compact_session_by_label` | UpkeepStart, BeginCompaction, CompactionConnects, CompactionEnds |
| `_sdk_client_for`, `_disconnect_sdk_client` | ClientFor, ClientReady, ClientFails, Connects, Disconnect |
| `_launch_turn`, `_run_turn` | Launch, BeginTurn, SendPrompt, TurnCompletes, TurnFails |
| `steer_by_label`, `_try_inbox_steer`, `deliver_steer` | SteerCall, StaleDropped, InboxAnswers, Delivered |
| `_steer_active_turn` | SteerActive, SteerPolls, SteerGivesUp, SteerInterrupted, Query, SteerSent |
| `start_turn_by_label` | StartCall, StartTurn |
| `close`, `cancel_by_label` | CloseBegin, CloseEnds, CancelTurn |
| another program | ProgramExits |

A turn's prompt and the corrections buffered for it are sent in one step
(ResponseDrain has their order). A send fails with the CLI it was written to: when a
steer's send returns (`SteerSent`), its client has not connected another CLI since, which
takes the start of a process where the send takes a write to a pipe. Whether the options
of a cached CLI still fit is a free choice; what the other program's user types is not modelled.

### CodexQueue

The queue file of one thread, the processes that drain it, and the app server.

- `file` is the sequence of items, with `stale` for a start of more than ten
  minutes; `active`, `old` the session record. One operation on a file is one step.
- `job[p]` holds the two coroutines of a process that start turns, the drain task
  and a direct caller; between awaits only one of them runs (`LoopFree`).
- `tracked`, `current` are what the process believes; `running`, `subscribed`,
  `notes` the server and its notifications.
- `starts`, `cancelled`, `excused` are history; a start is excused when it timed out
  or its process died in it.

| code | actions |
|------|---------|
| `start_or_queue_turn`, `cancel_queued_turn` | Submit, CancelQueuedTurn |
| `_drain_queue` | DrainCheck, Reserve, Release, After |
| `start_turn`, `_persist_turn_start`, `complete_queued_turn` | StartRequest, StartFails, StartTimesOut, PersistTurnStart, Complete |
| notifications, time, processes | TurnEnds, Ended, StartAges, RecordAges, Crash, Restart |

### CodexTurns

One client process and its app server, over a connection with answers and
notifications in order on one `wire`.

- `call` are three coroutines of the client (a submission, a progress read, a
  cancellation), each waiting for an answer or about to go on; `epoch` and `ahead`
  tell what they read before the await.
- `tracked`, `current`, `pendingAsks` are the memory; `session` the record, which
  scheduled `merges` change later, in order; `answering` the two answerers of an
  approval in their send.
- `srv`, `requests` are the server; `delivered`, `missed`, `overtaken` history.

| code | actions |
|------|---------|
| `start_turn_by_label`, `steer_by_label`, `start_or_queue_turn` | Submit, SteerAnswered, RefreshAnswered, PersistTurnStart |
| `turn_progress`, `cancel_turn` | AskProgress, ProgressAnswered, AskCancel, CancelAnswered |
| `request`, `handle_rpc_response` | RequestTimesOut, ReceiveReply |
| `handle_notification`, `merge_session` | ReceiveStarted, ReceiveItem, ReceiveEnded, MergeSession |
| `handle_server_request`, `answer_request` | ReceiveAsk, AnswerSend, AnswerSent |
| `reject_pending` | ConnectionLost |
| the app server | ServerStarts, ServerSteers, ServerInterrupts, ServerWorks, ServerAsks, ServerEnds, ServerReads |

### Routines

One routine, the coroutines that act on it, the watched file and a clock.

- `rec` is its record in the state file: kind, status, run, marks of the last
  scheduled run, triggers with what they have seen. `schedule` is daily or interval.
- `co[t]` is a coroutine of a scheduler sweep, a tool call or a webhook
  delivery, with what it read before its last await. `turn` is the server.
- `runs`, `excused`, `undone`, `forgotten` are history: the runs with their origin, days
  whose mark was voided, that a reconciliation overwrote another caller's write, and the
  events whose ids fell off the list a trigger keeps of the last ones.

Every operation on the state file is one locked step, but for the
reconciliation: `reconcile_routine_terminal_statuses` reads (ReconcileRead),
awaits the server, reads again (ReconcileApply) and writes without the file's lock
(ReconcileWrite), so what another process wrote between the last two is lost.

| code | actions |
|------|---------|
| `run_due_routines`, `reserve_due_routines`, `run_routine`, `record_routine_run` | ReconcileRead, ReconcileApply, ReconcileWrite, ReserveDue, Launch, RecordRun |
| `sweep_file_triggers`, `_record_seen_files` | Scan, RecordSeen |
| `deliver_webhook_event`, `_reserve_event_run`, `emit_routine_event` | Deliver, ReserveEvent, Emit |
| `list_routines`, `save_routine`, `delete_routine`, triggers | Listed, SaveRoutine, DeleteRoutine, AddTrigger, RemoveTrigger |
| files, server, clock, process death | FileChanges, TurnEnds, Tick, Crash |

## Runs

| run | instance | shows |
|-----|----------|-------|
| turns_crash | 2 clients, 2 turns, 1 death, symmetric | type, mutual exclusion, `IInv`, terminal rows, honest orphan outcomes, served running rows, TurnContract |
| turns_single | 1 client, 2 turns, all requests but a refresh, validator, 1 death, fair | the session row names the running turn; no ghost session; with a validator the sweep completes nothing; a session of a dead turn is freed |
| turns_live | 2 clients, 2 turns, one refresh, no death, fair | queued turns keep a drainer and drain; launched turns end |
| sweep_live | 2 clients, violated | the sweep fails a live turn |
| drain | 3 settings: 2 turns and 5 queries with steers, interrupts, failing sends; 2 turns, 2 queries, 2 tasks, 1 wakeup, CLI exits; 1 turn, 4 queries, validator, CLI exits; fair | queries answered, clean hand-over, honest stamp, order of early steers, termination |
| approvals | 2 processes, 2 calls, 2 turns, deaths, symmetric | no lost update, clean store, explained outcomes, cancelled calls denied |
| approvals_live | 2 processes, 1 call, deaths, fair | every call ends |
| codex_queue | 2 processes, 3 prompts, 1 trouble, fair | repeated starts are explained, one start at a time, order, nothing lost, the queue drains |
| codex_turns | 2 turns, 2 submissions, 1 twist | the gate is honest once nothing is under way, a prompt arrives once, who waits has an open request |
| routines | 2 callers, 2 events (1 of a stranger), 2 runs, 1 tick, 2 file versions, 1 twist, fair | second runs and replays are explained, strangers start no agent, lost runs are given up |
| transport | 2 clients in 3 layouts, 2 prompts, 1 close, symmetric | forks are explained, prompts land once, nothing connected after a close stays |
| steer_crossing | the same, violated | a steer goes to an idle CLI |

`TypeOK` of each module is checked in one run: by itself in turns_crash, and
elsewhere as the first conjunct of one invariant, which says so.

Why the bounds suffice: the races are between two clients, two turns of a session
(one inside the region, one outside or queued), or two calls over one file; a
third adds waiting, not a new kind of overlap. One death leaves one process that
sweeps. In ResponseDrain two queries can be merged, a third comes during the
timed read, and a second turn shows what the first left. In CodexQueue three
prompts give one being started, one that was, and one behind them, whose order
matters. In CodexTurns the second turn is the one that supersedes, and every
coroutine has at most one request in flight. In Routines two callers are the
reconciler and the one it overwrites, and one tick, with two to a day and one to
staleness, makes a run stale on the day it was made; no run of this instance
passes midnight. In SessionTransport two prompts are a turn and a steer, or two turns,
and the clients' warm-ups and compactions come on top; that more prompts and clients add
nothing to its three properties is proved. `CHECK_DEADLOCK FALSE` everywhere: a system
whose requests are used up has finished.

Fairness. An event loop serves every ready coroutine, and a coroutine that
becomes ready again and again is served (strong fairness for locks, drain polls
and sweeps, which other steps disable temporarily); worker threads return; the CLI
answers what it was sent and ends what it began; time passes. asyncio locks are
FIFO and the blocking `flock` is granted in the end. The sweep is repeated by
status calls. Requests, failures, deaths, steers and the start of background
tasks are not fair. ResponseDrain puts weak fairness on the reader as a whole, on
steers in flight as a whole and on the CLI as a whole. In ApprovalGate the
waiter's poll is a timer, and the file lock is a blocking `flock`.

In CodexQueue the event loop of each live process runs its coroutines and the server
ends its turns; prompts, failures, time-outs and deaths are not fair. In Routines
each caller goes on with what it does, and the clock ticks. The scheduler is a loop of its
own that webhook deliveries cannot keep from sweeping, however many come: hence strong
fairness of the sweep (a sender's retries of an event that came before are not bounded). CodexTurns and SessionTransport are checked for safety only: what they would
promise to end depends on time-outs, and TurnLifecycle and ResponseDrain have the
end of turns.

Every property has a mutant of the code in `PROJECT.json` that violates it; the
mutated operators stand before the originals and begin with "Mutant:".

## Findings

1. **The sweep can fail a live turn** (sweep_live). A free flock does not prove
   that the owner is gone: between two lock holders it is free, and the next
   turn's row may be old because it waited behind a compaction or another turn.
2. **A steer can go to an idle CLI** (steer_crossing). A process whose CLI still owns
   the leaf takes it for the CLI of the turn another process has just launched; the
   steer is sent into a conversation no turn reads, and forks it.

The properties of passing runs hold in the instances above and not beyond them.
Some state what they except, and with other constants TLC refutes others; these
limits belong to the results. To see one, add the property to the configuration
named.

- `RunningTurnIsActive` fails for two clients: the busy check and the insertion of
  a row are separate transactions, so two processes launch at once; the turn the
  session does not point at runs, but no sweep ends it if its process dies. It
  fails too when `start_thread` refreshes the row of a session that runs a turn.
  For one client without a refresh it is proved.
- `StartedTurnsAreNotDequeued` (TurnLifecycle, `TurnsLive.cfg`): `cancel_queued_turn`
  checks the status and then writes unconditionally (claude_sdk.py:697); another
  process's drain claims in between. For one client without a refresh it is proved.
- `QueriesAreAnswered` excepts background work: a steer that meets a task can be lost,
  as the poll that finds the last task ended drops the client with a steer just sent;
  one that meets a wakeup can have its ticket debited by the wakeup's result. It excepts
  a CLI that exits, too: during the timed read an open query counts as merged.
- `AnswersStayHome` (ResponseDrain, `Settings <- SteeredTasks`, MaxTurns 2,
  MaxQueries 3) and `CleanHandOver` without its exception: `receive()` debits the oldest
  ticket for any result, also for a task's follow-up, so a steer's answer can be left to
  the next turn. `CleanHandOver` is about turns without background work or without
  steers. Before it was proved it had no exception and passed, because no setting of the
  run has both.
- `TurnsEnd` of ResponseDrain fails when a steer meets background tasks (the first
  message of a timed read ends its bound, and may be a task event with nothing
  behind it), and when a steer's send fails with the CLI alive (the reader already
  waits without a bound for the ticket the steer takes back).
- `CancelledCallsAreDenied` excepts `dropped`: on Python 3.12 and later the timer of
  the poll can discard a cancellation, and an acceptance stored in the file is
  taken instead.
- `ForksAreExplained` excepts what follows a crossed steer (finding 2).
- `ClosedClientsDisconnect` (`Transport.cfg`): close() leaves a CLI to the holder of
  the lock; a warm-up that then returns "closed" or "busy" (claude_sdk.py:366), or
  fails to set the model, leaves it connected. Hence `NoCliOutlivesClose` is about
  the CLIs connected after the close.
- `GateIsHonest` excepts notifications lost with the connection (`missed`) and reads and
  cancellations that were under way when a newer turn started, or were asked about an older
  one (`overtaken`). The proof attempt showed that the read of a submission is one of them:
  a start that timed out can take effect while the client, which takes the thread to be
  idle, asks the server again (`_refresh_unknown_target`); the answer, from before the
  start, then overwrites the record of the turn (app_client_labels.py:350-383) and
  the gate says idle while it runs. This takes more twists and submissions than the run
  has, so the run alone had not shown it.
  `NewestTurnStaysVisible` (`CodexTurns.cfg` with MaxTwists 0) fails for the same
  reason: `cancel_turn` (app_client_turns.py:427) and `record_turn_progress` write their
  own turn into the session record.
- `QueueDrains` is claimed up to the first failed or timed-out start or death: after it
  nothing looks at the queue again until the next call on the thread.
- `EventsFireOnce` (`Routines.cfg` with Events {e2}, MaxRuns 3, MaxTicks 0): the
  unlocked write of the reconciliation restores the files seen and the event ids of
  before, and the same event fires again. `ReplaysAreExplained` excepts exactly this
  (`undone`), and both except an id that fell off its trigger's list before the retry
  (`forgotten`). `SecondRunIsExcused` excepts days whose mark was given up as stale, was
  overwritten by an older run that was recorded late, or was deleted with the routine: a
  routine that is deleted and saved again under its name runs a second time that day.
  The last two of these exceptions need more edits and retries than the run allows. They
  came out of the proof, which is for any number of them.

## Proofs

TurnLifecycle_proofs proves, for any set of clients, any number of turns and
deaths, either value of `Validates` and any `Requests`:

| theorem | states |
|---------|--------|
| Invariance | `Spec => []IInv` |
| TypeCorrectness | `Spec => []TypeOK` |
| MutualExclusion | `Spec => []OneTurnDrives` |
| EndedTurnsStayTerminal | `Spec => []EndedTurnsAreTerminal` |
| ServedInvariance | `Spec => []LInv` |
| RunningRowsAreServed | `Spec => []RunningRowsHaveATask` |
| QueuedWorkIsServed | `Spec => []QueueHasADrainer`, if no client is closed |
| OrphansAreJudgedByTheirWork | `Spec => OrphanOutcomeHonest` |
| GhostsAreExplained | `Spec => []NoGhostSession` |
| OneClientKnowsItsTurn | `Spec => []RunningTurnIsActive`, for one client and no refresh |
| OneClientDequeuesQueued | `Spec => StartedTurnsAreNotDequeued`, for one client and no refresh |
| Refinement | `Spec => KeepsContract`, that is `Spec => Contract!Spec` |

Assumptions: `LifecycleAssumption` and `NullsAreOutside` (the null values are not
turns, clients or jobs). TLC evaluates both in every run of TurnLifecycle.

Neither mutual exclusion nor terminal rows is inductive. `IInv` adds: a live turn has
a client; who is inside the region holds its client's asyncio lock and the flock
(`LocksAreHeld`); rows beyond `created` do not exist; a turn with a task has been
started, so no write gives it back to the queue; the active turn exists; and
the code a client is in carries a turn that exists and a terminal outcome to write
(`CallsAreSound`). Mutual exclusion then follows because the flock has one value and
each client's asyncio lock has one. That ended turns are terminal needs
`TasksAreStarted` and `CallsAreSound`: every writer that could overwrite a terminal row
either tests for `running` in its statement or writes a terminal outcome.

The proof has one lemma per part of `IInv` (types, locks, rows, calls), each with a
step per action; turns_crash checks `IInv` itself.

`LInv` adds to `IInv` that a turn whose launch is under way has no task yet and is launched
by one client (`MarksAreFresh`), and the served rows themselves. Without
`MarksAreFresh` a launch could restart a turn that is done, which the contract
forbids. Most actions touch no row, no task and no launch (`QuietOrLoud`); the other
sixteen are taken one by one.

Three more invariants stand on `LInv`. `StampInv` ties the stamp of a running row to its
task: it is set exactly while the task has its answer, or died with it, and nobody
validates. A sweep that read the stamp of a dead turn therefore judges it by its work,
and no steer can falsify it in between: one of a live turn moves the task and takes the
stamp back at once, and what a steer writes late does not touch the stamp. `ActiveInv` says of the turn the session names that somebody will clear
it: its task, its end, the launch that is about to spawn its task, or, after a death, the
sweep; `NoGhostSession` follows for any number of clients. `SingleInv` is exact only for one
client: what the code between two transactions read of the session is still so. With
two clients that is false, and so are the two properties that rest on it.

For the refinement each of the sixteen actions is a step of the contract or invisible to
it: `RowWrite` and `EndStep` (Settle), `LaunchStep` (Accept, Start), `RegionStep` (Drive,
GiveWay: the driver the mapping chooses is unique because the locks are held), `CrashStep`
(Die), `StreamStep` (invisible).

ResponseDrain_proofs proves, for any settings and any number of turns, queries, tasks
and wakeups:

| theorem | states |
|---------|--------|
| Invariance | `Spec => []IInv` |
| StampTellsTheTruth | `Spec => []StampIsHonest` (with the types) |
| EarlyOnesGoFirst | `Spec => []EarlySteersKeepOrder` |
| BooksBalance | `Spec => [](NoBackground => Books)` |
| QueriesGetAnswers | `Spec => []QueriesAreAnswered` |
| WorkIsExplained | `Spec => [](NoSteers => Work)` |
| HandOverIsClean | `Spec => []CleanHandOver` |
| AnswersComeHome | `Spec /\ NoBackground => AnswersStayHome` |

Assumption: `DrainAssumption`, evaluated by TLC in the run drain.

`IInv` ties the tickets to the phase (`TicketInv`: none is open between turns, nor when a
turn leaves the loop with nothing owed) and says of a turn that is not ready yet which of
its queries were sent and which wait in the buffer, in order (`OrderInv`, `Sent`). The
other theorems rest on `Books`, the accounts of a CLI without background work: what can
still end in a result (a response under way, the query being sent, the inbox, steers in
flight, results unread: `Owing`) is never more than the open tickets (`DebtInv`), and a
query that reached the CLI is answered, being answered, waiting, or in an unread result
(`AnswerInv`). Merged queries make the debt smaller, never larger, and so does a steer
that fails. An empty result of a resumed CLI takes no ticket, so it must come first and
with a ticket behind it that no failing steer can take away; hence the last conjunct of
`DebtInv`. `HomeInv` adds whose the queries under way are: only a completed turn leaves a
client behind, and then nothing is owed (`NothingOwed`). Background work breaks the
accounts, since its results have no tickets: with steers the properties fail then, as said
above.

Without steers there are other accounts, `Work`: every message of the stream is explained
by what the reader will know when it gets there. A task that runs at the CLI, or whose end
is unread, is tracked already or was announced by a start event before it (`TaskInv`,
`TaskKnown`); a response that begins where no task or wakeup event of its cycle would
explain its result is the wakeup's, and the reader still tracks a wakeup there, because
no result since then was of that kind (`WakeInv`, `Marked`, `WakeKnown`); and behind a result
nothing but the start of a response, or a task's end, comes first (`BegunInv`). A prompt waits
alone, for a CLI that has nothing else to do (`InboxInv`). So a reader that has no ticket
open and no background work to wait for has read everything (`ReadyIsIdle`), and
`CleanHandOver` follows from `Books` in turns without background work and from `Work` in
turns without steers. TLC checked `Work`, with up to three turns, three tasks and two wakeups,
before it was proved.

SessionTransport_proofs proves, for any clients and prompts, any set of layouts and any
number of closed clients:

| theorem | states |
|---------|--------|
| Invariance | `Spec => []IInv` |
| NoUnexplainedFork | `Spec => []ForksAreExplained` |
| LateClisGo | `Spec => []NoCliOutlivesClose` |
| PromptsLand | `Spec => []PromptsLandOnce` |

Assumption: `TransportAssumption`, evaluated by TLC in the run transport.

That no prompt reaches a CLI that is behind needs four facts that support each other
(`LeafInv`), all of them until a steer crosses: the connected CLI the row names has the
tip; so has the CLI an operation inside the region is about to use, and the row names no
other connected CLI meanwhile; the row a compaction read still tells whose CLI has the
tip; and a steer on its way to a CLI that is still there keeps the turn it joins open, so
that its late write of the row names the CLI of the turn. They rest on the locks
(`LockInv`: one operation in the region) and on `CallInv`: a CLI was connected by an
operation that connects no other, so a steer recognises its CLI by who connected it.
`LateInv` is the invariant for closed clients. The actions are first summed up in
classes (`Deciding`, `Querying`, `Uses`, `Ends` and so on), and each part of the invariant
has a step per class.

ApprovalGate_proofs proves, for any processes, approvers and turns, any number of
calls and any set of answers:

| theorem | states |
|---------|--------|
| GateInvariance | `Spec => []IInv` |
| StoreStaysClean | `Spec => []StoreIsClean` (with the types) |
| AnswersReachTheirCalls | `Spec => []OutcomesAreExplained` |
| CancellationIsFinal | `Spec => []CancelledCallsAreDenied` |
| NoUpdateIsLost | `Spec => EntriesAreNotLost` |

Assumption: `GateAssumption`, evaluated by TLC in both runs of ApprovalGate.

None of the four is inductive. The invariant adds what the file lock is for: one actor
holds a snapshot at a time and the file is still what it read (`LockInv`), so that each
write can be read as an edit of the file. A call under way belongs to a living process
and has no outcome (`CallsAreInOrder`); decisions in the file and in futures were given
to this call, or are its cancellation (`AnswerInv`); a cancelled call waits with the
cancellation in its future, and does not look at the file again unless its answer was
dropped (`CancellationsHold`). The step lemmas rest on three lemmas about what a step may
do to one call: nothing that was given is taken back (`NothingIsTakenBack`), what a
future (`NewFutures`) and an outcome (`NewOutcomes`) may become.

CodexQueue_proofs proves, for any processes and any number of prompts and failures:

| theorem | states |
|---------|--------|
| Invariance | `Spec => []IInv` |
| OrderIsKept | `Spec => []QueueKeepsOrder` (with the types) |
| MarkIsExclusive | `Spec => []OneStartAtATime` |
| SecondStartsAreExcused | `Spec => []StartsAreExplained` |
| CancelledStayOut | `Spec => []CancelledTurnsNeverStart` |
| NothingIsLost | `Spec => QueueLosesNothing` |

Assumption: `QueueAssumption`, evaluated by TLC in the run codex_queue.

The marks in the file are the lock of the drains, so `IInv` ties them together: a drain
that works on a prompt has its unexpired mark in the file, and no two marks, nor two
such drains, exist at once (`DrainInv`); a direct start has a prompt that is neither in the
file nor cancelled nor another's (`DirectInv`). With that `StartsInv` says who may have
started a prompt from who holds it: a prompt with a task before its start, cancelled, or
in the file has not started as far as anybody knows, unless, in the last case, the drain
that started it has yet to take it out of the file. Expiry takes the mark away only once
its drain is gone. A start whose outcome is unknown makes its prompt `excused`.
`Remaining` removes the one entry of a prompt by its position, without recursion, and the
lemmas about the file (`Least`, `RemainingFile`, `ReplacedFile`) go by the positions.

CodexTurns_proofs proves, for any number of turns, prompts, lost connections and late
answers:

| theorem | states |
|---------|--------|
| Invariance | `Spec => []IInv` |
| NoPromptTwice | `Spec => []PromptsArriveOnce` (with the types) |
| WaitsEnd | `Spec => []WaitingIsExplained` |

Assumption: `TurnsAssumption`, evaluated by TLC in the run codex_turns.

A request is sent again only after an answer that says it was not taken, and an answer
counts only if its request is the one its caller waits for. `IInv` therefore says of every
caller that it waits for at most one thing, a request at the server or an answer on the
wire, of its current epoch (`RequestInv`, `CallInv`, `ReplyInv`), and of every prompt that
it is at one place: delivered, in one request, or with its submission (`PromptInv`).
Requests and answers of calls that timed out stay on their way with an old epoch, and may
still deliver the prompt, which its submission then does not send again.

CodexGate_proofs extends these proofs, under the same assumption:

| theorem | states |
|---------|--------|
| GateTellsTheTruth | `Spec => []GateIsHonest` |

Its invariant is `overtaken \/ Honest`. The gate reads what the client believes, and what
it believes is right only together with what is on its way, so `Honest` is about
messages, answers and scheduled merges in their order on one wire. Its fifteen parts:

- turns start in order and only the newest runs (`OrderInv`); the record names one turn,
  and only turns the client heard of are merged (`RecordInv`); a lost connection leaves no
  notifications (`LossInv`);
- what answers say is still so when they are read: of progress and cancellation
  (`AnswerInv`), of the read of a submission (`ReadInv`), of a start (`StartInv`);
- a turn's start is announced before anything else of it (`FirstInv`, `OldNotesInv`), so
  a client that has not heard of the newest turn has its start ahead of it on the wire, or
  in its record (`UnseenInv`, `NamedInv`);
- an answer that overtakes the announcement finds no merge that would undo what it writes
  (`LateReadInv`, `LateAnswerInv`), which is what `ahead` is for;
- a running turn is not taken for one that is over (`RunningInv`), and the record names it,
  or will when the scheduled merges have run: the last one that matters does (`SeenInv`);
- a turn that is over was reported, will be, or its end came from a read and nothing under
  way contradicts it (`OverInv`, `Settled`).

With an empty wire, no merges and no calls `SeenInv` and `UnseenInv` give the first half of
the gate's promise, `OverInv` the second. There is one lemma per action; actions of one
kind share the work (`QuietMove`, `RecordMove`, `HonestNotified`, `HonestFrame` for the
client; `HonestReply`, `HonestTells` for the server). TLC checked the invariant on small
instances before it was proved.

Routines_proofs proves, for any callers, events, edits, crashes and ticks:

| theorem | states |
|---------|--------|
| Invariance | `Spec => []IInv` |
| OneRunPerDay | `Spec => []SecondRunIsExcused` (with the types) |
| NoReplay | `Spec => []ReplaysAreExplained` |
| StrangersStartNoAgent | `Spec => []AgentRunsAreAuthorized` |

Assumptions: `RoutinesAssumption`, and `EventsAssumption` (a webhook's ids are not
those of file changes: each trigger keeps its own list), evaluated by TLC in the run
routines.

None of the three is inductive. That a slot holds one scheduled run rests on the record's
mark: if the slot of the clock has a scheduled run and is not excused, the mark holds it
(`SlotInv`), and no mark, snapshot or run is of a time to come (`PastInv`), so that
whatever overwrites the mark with an older one excuses the slot (`MarkOrExcuse`) and a new
slot starts empty (`TickStep`, with `Days`: the days of the clock never run backwards).
For the events, what started a run is spent: its trigger was replaced or removed, still
lists the id, or forgot it (`EventInv`); ids of triggers only grow. A snapshot of the
reconciliation differs from what it read in the status alone, so its write is harmless
unless another caller wrote in between (`undone`). `KeptStep` and `BeginStep` say what a
step owes the invariant if it starts no run, or one; the actions are instances of them.

Only model-checked: liveness (`GhostsAreSwept`, `TurnsEnd`, `QueueDrains`, `CallsEnd`,
`RunsAreGivenUp`), which TLAPS does not prove.
Every invariant and action property of a passing run is stated by a theorem, under the
hypotheses the tables name.

## Not modelled

In components that have a module: schema set-up and migrations of the store, lookup
and rename of sessions; the redaction and the shape of approval payloads; decisions
under another spelling (`decision_from_answer`), which are taken as normalised; the
frames of the inbox, their authentication and the age of its record; the hand-shake
and the spawning of the app server; creation, listing and naming of Codex threads;
the parsing of the state file and its other sections. An approval file that was damaged by
hand reads as empty; the model starts from an empty one.

Components without a module:

- Backend routing and provenance chooses a backend from the arguments of a call and
  from files that are written once; there is no protocol between its steps.
- The Claude home index is a cache over transcript files; scanning them is what it does.
- Views, history and logs read and format stored data.
- The MCP server dispatches tool calls to the clients above, one by one, and keeps no
  state; configuration and defaults are read-only.
- Prompts and options compose text; the probe of working directories touches the file
  system only.
