# Nidex: a TLA+ development of the session core

Nidex is a fork of the OpenAI Codex CLI: an agent that takes user turns, calls
a model, runs tools for it and reports events to a client.  The program is the
Rust workspace `src/codex-rs`.  This directory models the parts of it where
several asynchronous activities share state, checks the models with TLC and
proves the main results with TLAPS.

Paths below are relative to `src/codex-rs` unless they start with `src/`.

## 1. The system

A *thread* (conversation) is one `Session` (`core/src/codex.rs`).  A client
submits `Op`s into a queue and reads `Event`s from another.  One *submission
loop* per session takes the Ops in order; every turn it starts runs in a tokio
task of its own, so the loop and the tasks interleave at their `.await`
points.  A turn streams a response from the model, executes the tools the model
calls (some wait for the client's approval, some spawn further threads), and
records everything in the history and in a rollout file.

### 1.1 Inventory

| component (source) | state | operations | talks to | what is hard | what makes it correct |
|---|---|---|---|---|---|
| **Session and turns** (`core/src/codex.rs`, `core/src/tasks/`, `core/src/state/turn.rs`) | `active_turn: Mutex<Option<ActiveTurn>>`; per task a cancellation token, an abort-on-drop handle, `done`; per turn pending input and pending approvals | user input, other turns, interrupt, approvals, rollback, shutdown; start, sample, ask, finish | the client by Ops and events, tasks by the mutex, tokens and one-shot channels | a task may be replaced, aborted, answered or completed between any two of its awaits | one live task; idle means quiet; approvals used once; input recorded once; nothing runs after an abort is reported; each task ends |
| **Agent control** (`core/src/agent/`, `core/src/tools/handlers/collab.rs`) | atomic `total_count`, `threads_set` under a lock, the manager's registry | reserve, spawn, commit, prompt, close, release | the thread manager; sub-agent sessions | concurrent tool calls that spawn and close, each cancellable at an await; agents that die | exact counter, limit on open agents, no leaked slot |
| **Readiness flag** (`utils/readiness/src/lib.rs`) | atomic `ready`, token set, watch channel | subscribe, mark_ready, is_ready, wait_ready | ghost snapshot task (marks), mutating tools (wait) | lock-free fast paths race with the lock and with the broadcast | marked once; a token holds the flag; waiters wake up |
| **Tool calls** (`core/src/tools/parallel.rs`, `orchestrator.rs`, `sandboxing.rs`) | parallel/exclusive lock per sampling request, gate, approval cache, exec policy | dispatch, ask, run, retry without sandbox, drain | session approvals, readiness | cancellation while waiting; parallel calls with one key; broken streams | exclusive calls run alone; nothing runs without consent; answers in order |
| **Unified exec** (`core/src/unified_exec/`) | store of processes, reserved ids, head/tail buffer; per process a token, a streaming task, a watcher | exec, write, prune, terminate | session turn end, PTYs | commands between reservation and store; end events | each process ends once and is reported once; the store is bounded |
| **Rollout recorder** (`core/src/rollout/`) | channel to a writer task, the file | record, flush, shutdown, resume | session, thread manager | write errors; crash in the middle of a line | acknowledged means written, in order and once; a restart loses one line at most |
| **Conversation history** (`core/src/context_manager/`) | list of items, token use | record, normalise, rollback, truncate | session, rollout | memory and file change at different moments; calls and outputs must stay paired | resuming rebuilds what was in memory; a turn rolled back stays gone; each call has one output in a prompt |
| Delegated sub-sessions (`core/src/codex_delegate.rs`) | channels between a parent and a child session | forward events, approvals, shutdown | two sessions | a parent cancelled with approvals in flight | every approval is answered; the child is shut down |
| **Undo and ghost snapshots** (`core/src/tasks/`) | git commits | snapshot, restore | readiness, history | restore works on a copy of the history | history not lost |
| Thread manager (`core/src/thread_manager.rs`) | map of threads | start, resume, fork, remove | agents, app server | removal behind the limiter's back | registry agrees with live sessions |
| **App server** (`app-server/`) | callbacks of requests, per-thread turn summaries, pending interrupts | JSON-RPC requests | any number of threads | answers out of order, cancelled requests | every request is answered once |
| Authentication, model catalogue, MCP, model client, exec policy and sandboxes, patches, message history and state database, TUI and CLI, skills and configuration, code navigation, utilities | caches, files, connections | I/O | the session | external processes and formats | see section 7 |

The components in bold are modelled.  `PROJECT.json` lists all components
with the reason for each that is left out, and the hazards, each at its line.

## 2. The modules

| module | models | with |
|---|---|---|
| `SessionTurn` | one session: submission loop, tasks, approvals, input | `MCSessionTurn`, proofs in `SessionTurn_proofs` |
| `TaskSlot` | the abstract promise of `src/codex-rs/docs/protocol_v1.md`: a slot with at most one task, and a task that left it never returns | implemented by `SessionTurn` (`Slot`, `ImplementsTaskSlot`) |
| `AgentControl` | the spawn limiter, its callers and the threads | `MCAgentControl`, `AgentControl_proofs` |
| `UnifiedExec` | the store of interactive processes, the tool calls, the background tasks of a process, the turn's end | `MCUnifiedExec`, `UnifiedExec_proofs` |
| `Readiness` | the flag, owners and waiters | `MCReadiness`, `Readiness_proofs` |
| `Rollout` | the writer task of the rollout file, its channel, its callers, crashes and later runs | `MCRollout`, `Rollout_proofs` |
| `DurableLog` | the abstract promise of a rollout: a log that only grows, whose acknowledged records stay in it, in order and once | implemented by `Rollout` (`Log`, `AckedIsStored`) |
| `HistoryItems` | pure operators on items and lines: normalising, trimming, rebuilding, truncating | used by `ThreadHistory` |
| `ThreadHistory` | the conversation in memory and in the rollout: turns, compactions, undo, snapshots, aborts, rollback, restart, fork | `MCThreadHistory`, `ThreadHistory_proofs` |
| `ToolCalls` | the tool calls of a session: lock, gate, verdicts, approvals, attempts, cancellation, drain | `MCToolCalls`, `ToolCalls_proofs` |
| `AppServer` | one thread behind the app server: processor, listeners, requests in both directions | `MCAppServer`, `AppServer_proofs` |

The modules meet at named points.  `ToolCalls` refines what `SessionTurn` calls a
tool that asks, with one waiting request at a time there and many calls here; its
`gate` is the flag of `Readiness`.  `ThreadHistory` takes the rollout for the log
that `Rollout` is shown to implement: a restart keeps the flushed lines and any
prefix of the others.  `AppServer` reduces the session to what `SessionTurn`
promises: Ops are taken in order, one turn runs at a time, and its end is reported
after it ended, possibly late.  `AgentControl` has its own view of sessions as
threads that live, stop and are removed.

Some modules hold, next to an action, a variant headed *Mutant*: the action
with a plausible bug.  No specification uses it; it shows that a property
notices the bug (`mutants` in `PROJECT.json`).

### 2.1 SessionTurn

A *step* is what runs between two awaits that can suspend, or one critical
section.  Correspondence:

| variable | code |
|---|---|
| `active` | `Session::active_turn`; `owner` is the one task in `ActiveTurn::tasks`, `pending` is `TurnState::pending_input`, `asks` the keys of `pending_approvals` |
| `lpc`, `goal`, `next`, `victim`, `reason` | where `submission_loop` is inside the Op: aborting (`take`, `cancel`, `grace`, `report`), then spawning (`spawn`, `register`) |
| `pc` | where the task is: `start` (spawned, prompt not recorded), `collect`, `record` (pending input taken, not recorded), `stream`, `ask`, `show` (sender registered, request not shown), `wait`, `check` for `run_turn`; `work` for the others; `flush`, `finish`, `complete` for the closure in `spawn_task` |
| `cancelled`, `aborted` | `CancellationToken`; `JoinHandle::abort` was called, also through the drop of `AbortOnDropHandle` |
| `taken` | the input a task took with `get_pending_input` and has still to record |
| `reply` | content of the approval's one-shot channel as its receiver sees it: a dropped sender reads as `Denied`.  The request the decision was made for is kept as a ghost |
| `history`, `fate`, `unanswered`, `credit`, `events` | what an observer sees: inputs recorded, what became of each submission, requests shown to the client, approvals given less commands run, events |

The loop's actions are `RecvInputInject`/`RecvInputSpawn`
(`user_input_or_turn` with `inject_input`), `RecvOther` (shell command, undo,
compact, review), `RecvInterrupt`, `RecvDecision`/`RecvDecisionAbort`,
`RecvRollback`, `RecvShutdown`; `LoopTake`, `LoopCancel`, `LoopGraceOver`,
`LoopReport` are `abort_all_tasks` and `handle_task_abort`; `LoopSpawn` and
`LoopRegister` are the two halves of `spawn_task`.  The tasks' actions follow
`run_turn`, `run_sampling_request`, `request_command_approval`,
`request_patch_approval`, and the closure of `spawn_task` with
`on_task_finished`.

Decisions worth knowing:

- *The submission queue is not a variable.*  The loop may receive any Op that a
  client could have sent: the order of unrelated Ops is nondeterministic anyway,
  and what can be stale in an Op is only the request it answers, so requests
  stay in `unanswered` for as long as nobody answered.
- *Abort.*  A step guarded by `~aborted[t]` resumes from an await that always
  suspends (network, approval, disk): tokio drops an aborted task there.  At
  other awaits (an uncontended mutex) the task may run on or be dropped
  (`TaskKilled`); both outcomes are in the model.
- *The grace period.*  `LoopGraceOver` may happen at any time: `done` is a
  `Notify` whose `notify_waiters` stores no permit, so the notification can be
  missed, and 100 ms is the other way out.
- *Approvals.*  `request_command_approval` awaits its receiver itself.  When it
  finds no active turn the sender stays a live local, so the task waits for
  ever (`Orphan`); `request_patch_approval` returns the receiver and the sender
  is dropped (denied).  `TaskAsk` has one disjunct for each, and one for the event
  that shows the request, which is an await after the registration: an abort in between
  leaves a sender for a request the client never saw, and takes it away with the turn.
- *Pending input.*  `TaskCollect` takes it, `TaskRecord` records it an await later; a
  task that dies in between loses it, like the task that dies before its prompt is
  recorded.
- *One request per turn at a time.*  A tool that may ask holds the exclusive
  side of the tool lock, so a turn has at most one request pending.
- The branch of `LoopTake` for a task that is cancelled already is dead code:
  `Fresh` in the proofs shows that the active turn's task is never cancelled.

### 2.2 AgentControl

Callers are tool calls in tasks of their own.  `ReserveLoad`, `ReserveCas`,
`ReserveRetry`, `ReserveRefused` are the loop of `try_increment_spawned` at the
grain of single atomic accesses (a weak exchange may fail spuriously);
`SpawnSession`, `SpawnInsert`, `SpawnCommit`, `SpawnAnnounce` are
`spawn_agent`, where the thread manager puts the thread into its registry and
the reservation is committed without an await in between; `SpawnAbandoned` is
the drop of an active `SpawnReservation`; `PromptSent`, `PromptDied`,
`CloseSend`, `RemoveThread` are `send_prompt` and `shutdown_agent`;
`ReleaseRemove` and `ReleaseDecrement` are the two halves of
`release_spawned_thread`.  `CancelCall` drops a call at an await.
`ClientShutdown`, `LoopStops` and `ManagerRemove` are what the rest of the
program does to an agent meanwhile.  `max_threads` is chosen at `Init` from the
constant `Limits` and never changes, so one run covers a limit and no limit.

### 2.3 Readiness

One step is one atomic access, lock operation or call on the channel; what is
done under the token lock is one step with the release, since nothing of it but
`ready` (written once) shows outside.  `is_ready` is inlined in `wait_ready`.
`Send` models `tokio::sync::watch::Sender::send` (external): without a receiver
it fails and stores nothing.  A waiter that subscribes after that send waits for ever
although the flag is ready (section 6); `ReceiverIsWoken` is about those that subscribed
before the flag became ready, and says nothing of such a waiter.  `LockTimesOut` is `LOCK_TIMEOUT`.  `next_id`
would wrap after 2^32 subscriptions; a flag lives for one turn, so the wrap and
the reserved token 0 are left out.

### 2.4 UnifiedExec

A tool call that starts a process gives it its name, so that `proc[c]`, `token[c]`
(`UnifiedExecProcess::cancellation_token`), `stream[c]` (the task of
`start_streaming_output`), `permit[c]` (what `output_drained.notify_one` leaves) and
`watcher[c]` (the task of `spawn_exit_watcher`) belong to the process of call `c`.
`reserved` and `store` are the two fields of `ProcessStore`; every operation on
them is one critical section of its mutex, hence one step.

| action | code |
|---|---|
| `Allocate`, `PatchFails`, `Refuse`, `Spawn` | `allocate_process_id`; the handler's and `exec_command`'s ways out before a process exists (a failing intercepted patch does not give the id back); the process is started, `ExecCommandBegin` sent, `start_streaming_output` |
| `ReportShort`, `KeepLong` | after `collect_output_until_deadline`: the process has exited, or not |
| `StoreProcess`, `Warned` | `store_process` with `prune_processes_if_needed`; the await of the warning separates the store from the start of the watcher |
| `Release` | `release_process_id`, and the drop of the call's process |
| `Poll`, `Polled` | `write_stdin`: `prepare_process_handles`; `refresh_process_state` after the wait |
| `Tell`, `Dropped`, `Close` | the turn is aborted; a call that was told to stop is dropped at an await (`tools/parallel.rs`); `terminate_all_processes` |
| `Exit`, `StreamOver`, `WatchExit`, `WatchReport` | the process exits; the two background tasks |

Decisions worth knowing:

- These calls take the exclusive side of the tool lock, so a turn waits for one
  of them at a time (`current`).  Calls overlap because an abort does not wait for
  the call it cancels, and because a task that finishes leaves its turn before it
  closes the processes: `Close` may meet the next turn at work.
- `newer[c]` is the set of processes used since `c` was, so that it is the order of
  `last_used` without a clock.  A process has its place from when it is started on,
  since `store_process` takes `started_at` for it.  That nothing was used after itself
  is part of the type invariant and proved, not checked in a run.
- Dropping the last `Arc` of a process terminates it (`Drop`).  `OnlyStored` says
  when the store's is the last one; a watcher holds another.
- Contents of the output, exit codes and input are left out; so are the pty
  crates' own tasks, of which `Exit` shows the effect.

### 2.5 Rollout and DurableLog

Records are numbered in the order in which the channel takes them; 0 is the session
meta.  `file` is the sequence of records that reached the disk, each with two flags:
`cut` (the write ended inside the record) and `joined` (it stands on the line of the
record before it, whose newline is missing); `newline` says whether the file ends in
one.  A reader gets the records that are neither cut, nor joined, nor followed by a
joined one: `resume` and the listing skip lines they cannot parse.

| action | code |
|---|---|
| `BeginLine`, `EndJson`, `EndLine`, `WriteFails` | `JsonlWriter::write_line`: the bytes of the record, then the newline and a flush; an error ends the writer task, and the commands left in its channel with it (`WriterGoes`) |
| `ReceiveItems`, `Acknowledge`, `FlushFails`, `WriterReturns` | `rollout_writer`: `AddItems`, `Flush` and `Shutdown`, a flush that fails, and the last sender that goes |
| `RecordItems`, `SendItems`, `RecordEvent`, `SendEvent`, `FlushRollout`, `TakeRecorder`, `SendAsk`, `NotAsked`, `Deliver` | `persist_rollout_items`, `send_event_raw_flushed`, `flush_rollout` and the shutdown of the session; a recorder that was taken or whose writer has gone |
| `Exit`, `Resume` | the process ends at any point; `RolloutRecorder::new` with `Resume` opens the file for appending and writes no second meta |

Decisions worth knowing:

- A flush whose `file.flush()` fails is acknowledged all the same, and it is so in the
  model (`FlushFails`); tokio's file buffer is what `write_line` has flushed already.
- An event is delivered to the client although its record failed (`send_event_raw`
  logs the error).  `marker` keeps the record that the flush before the delivery
  should cover.
- A later run starts only from a file whose meta can be read, as resumption does.

### 2.6 HistoryItems and ThreadHistory

`HistoryItems` has items as records of a kind and a number, and the functions of
`context_manager/history.rs`, `context_manager/normalize.rs`, `rollout/truncation.rs`
and of `reconstruct_history_from_rollout` as operators.  Loops of the code are recursive
functions over the positions of a sequence, so that the proofs can reason about them;
`Only` is what `retain` and `filter` do.  The release build is modelled: where
`error_or_panic` (`core/src/util.rs:46`) logs an output that is missing or orphaned, a
debug build panics, for custom and local shell calls already when the output is missing
(`normalize.rs:49`, `normalize.rs:72`).  The run has function calls, for which a missing
output is expected; that no orphan reaches normalisation is part of `PromptPaired`, and
the proofs cover both kinds of calls.
`ThreadHistory` has the session's `history`, the rollout's `log` with the `flushed`
part of it, and the detours that touch both:

- Items reach the memory first and the rollout in a later step (`Persist`); a task
  that is aborted in between is dropped there, which `torn` notes.
- The submission loop and its one task share `pc`: by `OneLiveTask` of `SessionTurn`
  they never work at once, but for the loop that waits for an aborted task.  A ghost
  snapshot is a task of its own and may be recorded after its turn.
- Settings that changed since the last turn are told to the model by a developer message
  (`RecordSettingsUpdate`), which a remote compaction may trim like an output
  (`is_codex_generated_item`).  The other source of developer messages, the note on an
  approved command prefix (`record_execpolicy_amendment_message`), is left out, and so is
  the environment update, a message of the user's role that nothing counts as a turn.
- The local compaction (`BeginLocal` to `ReplaceLocal`) and the remote one (`BeginRemote`,
  `ReplaceRemote`) work on a clone across the await of the model,
  as undo does across its restore.  `RemoteAnswer`, what the remote endpoint
  returns, is external.
- A restart keeps what was flushed and any prefix of the rest.
- `gone` has the turns of the rollbacks that were announced while memory and rollout
  were not torn; section 6 says what a rollback does otherwise.
- `ResumeAgrees` is asked at rest (`AtRest`), where nothing is being persisted and
  nothing was torn; section 6 lists what the code loses otherwise.

### 2.7 ToolCalls

Each call the model makes is a task.  It passes the exclusive or shared side of its
sampling request's lock, the gate if it mutates, the verdict (`Requirement`: the exec
policy for commands, `assess_patch_safety` for patches), the approval with its cache
(`with_cached_approval`), the attempt in the sandbox and, if the sandbox denied it and
the policy allows, the question about and the attempt without one.  The turn takes the
answers in the order of the calls (`drain_in_flight`).

Decisions worth knowing:

- The lock belongs to the `ToolCallRuntime` of one sampling request.  A stream error
  drops the handles of its calls and the next request has a new lock, so calls exclude
  each other only within one request, which is what `ExclusiveAlone` says.
- The `select!` between the token and the call is not biased: a call may still start
  after the cancellation.
- The approval given for the sandboxed attempt covers the unsandboxed one; a command
  known to be safe runs unasked even when the model wants it escalated; the
  `ApprovedForSession` of a retried patch is not cached.  The model does what the code
  does, and `Consent` is written from it.
- The order in which tokio's `RwLock` grants access is left open.

### 2.8 AppServer

| variable | code |
|---|---|
| `kind`, `doing`, `step`, `taken` | the client's requests in the order received, and where the one message processor is with the current one |
| `prompt`, `interrupts`, `rollback` | `pending_acp_prompts`, `pending_interrupts`, `pending_rollbacks` |
| `stage`, `hand`, `stopping` | each listener task: where it is with the event it has received (`look`: about to see whether a prompt is pending), and whether its `cancel_tx` fired |
| `asked`, `callbacks`, `shown`, `passed` | the server's own requests (approvals): `OutgoingMessageSender::request_id_to_callback`, what the client sees, and the tasks that turn its answer into an Op |
| `alive`, `ops`, `turn`, `turns`, `ending`, `asking`, `asks`, `events` | the session, reduced to its promises |
| `answers`, `outcome`, `owed`, `replied` | what an observer sees |

Several listeners share one event queue, so an event reaches one of them.  Removing an
entry of a map and answering it is one step: whoever removed it owns it.  The versions
of a listener differ only in that the V1 command approval answered with an error
submits nothing.

## 3. The runs

Deadlock checking is off in all of them because each of these systems may
legitimately stop: a session after `Op::Shutdown`, a limiter whose finite
supply of thread ids is used up, a finite number of tool calls, a flag that was used,
a program that exited, a client that sends nothing more.

| run | instance | question |
|---|---|---|
| `session_overlap` | 3 submissions, no approvals, symmetric | do turns that replace, interrupt and overlap each other keep `OneLiveTask`, `QuietWhenIdle`, `RecordedOnce`, `TurnLeavesByItsOwner`? |
| `session_fair` | 2 submissions, 1 request per turn, fair; 574,176 states | can an approval be used twice, by another turn, or after the abort was reported; can a task wait on a sender whose answer already came (`WaitersCanBeAnswered`); does the session implement `TaskSlot`; is every abort seen through (`AbortsAreSeenThrough`), does every task end? |
| `agents` | 2 callers, 3 threads, limit 2 or none, symmetric | is the counter exact, the limit kept, every slot given back? |
| `unified_exec` | 3 calls, 3 ids, a store of 2 of which 1 is spared, symmetric; 903,792 states | is the store bounded, is a process reported once, is its watcher always served, when is a process lost? |
| `readiness` | 2 owners, 2 waiters, fair | one success, tokens hold the flag, waiters that registered before the flag became ready wake |
| `rollout` | 2 callers, a channel of 1, batches of 2, 3 runs of the program, fair | is what was acknowledged stored in order and once, also after write errors and crashes; how much does a restart lose; has who waits one command in line (`WaitersAreInLine`); is every caller answered? |
| `thread_history` | 3 items, 3 detours; 2,221,421 states | does a restart rebuild what was in memory; does a turn rolled back return; do forks cut where the history says; does every prompt pair calls and outputs? |
| `tool_calls` | 2 calls, 2 sampling requests, 2 policies, fair; 1,650,037 states | do exclusive tools run alone; does anything run without consent; are answers in order; does a cancelled turn end? |
| `app_server` | 2 requests, 2 listeners of different versions, 1 approval, fair; 290,317 states | is a request answered twice or with another's outcome; is the client's decision heard; is an answer on its way for what is pending (`AnswersAreComing`); are rollbacks, interrupts and approvals answered? |
| `session_completion`, `session_lost_input`, `thread_history_fork` | as above, `thread_history_fork` with 2 detours | statements of the repository which the code does not keep (section 6) |

*Why the bounds are enough.*  An overlap involves a turn, its successor and, to
confuse them, one more: three submissions give every pair an outsider (a task
two generations old, an injected input while a third turn is queued).  Two turns are
the least in which an answer can meet the wrong turn.  A limiter with two slots and
two callers has every race for the last slot, and three ids allow an agent to be
closed, leaked or died and replaced.  Three process calls are the least in which one
prunes between two stored processes of which one is spared, and in which a poll (whose
name is free again afterwards) changes the order of use first; three ids let them all
be stored, and a clash needs only one.  Two owners and two waiters contain every pair
of racing calls of the flag, including two markers and a waiter that loses `try_lock`
to another.  A channel of one command makes callers wait for room, a batch of two can
be torn in its middle, and a third run appends to what a second left torn.  Three items
and three detours hold a call with its output next to a user message, and a compaction,
a rollback and a restart in any order.  Two tool calls in two sampling requests meet
each other with the same lock and with different ones, and one key can be approved by
the first and cached for the second; the two policies are those that retry without the
sandbox and those that ask first, the other combinations only refuse or allow more.  Two
client requests contain every pair (a rollback and an interrupt, a prompt and its
cancellation, a start and a close) and two listeners every race for an event.

*Named bounds on behaviour:* `MaxAsks` (approvals), `MaxBatch`, `MaxSent`, `MaxRuns`,
`MaxItems`, `MaxDetours`, `MaxCalls`, `MaxRounds`, `MaxRequests`.  `MaxKept`, `Capacity`,
`MaxProcesses`, `Warning` and `Spared` stand for constants of the code.

## 4. Fairness

- `WF(LoopStep)`: once an Op has been received the loop goes on with it; tokio
  polls it and none of its awaits depends on the client.  Receiving is not fair:
  nobody has to send anything.
- `WF(TaskStep(t))` for each task: the runtime polls every runnable task, and the
  model's stream ends in one of the ways the client code handles (completed,
  error, cancelled).  Which of its enabled steps a task takes is not constrained,
  but the number of tool calls is bounded by `MaxAsks` and of inputs by `Subs`.
- `WF(RecvApproval(req))`: the client answers each request it was shown.  Without
  it a turn may wait for ever, by design.
- `Readiness`: `WF` on the steps of calls already made (`OwnerStep`,
  `WaiterStep`); nobody has to make a call (`SubscribeLoad`, `MarkLoad`,
  `WaitLoad` are not fair) and no waiter has to be cancelled.
- `Rollout`: `WF` on the writer task, which waits for nothing but its channel; `SF` on
  each caller, because a full channel enables and disables its step and tokio's channel
  serves waiting senders in turn.  Exits and failures are not fair.
- `ToolCalls`: `WF` on each call's look at the cancelled token and on the turn's own
  steps.  Nothing is assumed of the user, of commands, of the gate or of the model's
  stream: `CancelReleases` must hold while they never answer.
- `AppServer`: `WF` on the processor, on the session's take of an Op, on each listener,
  and on the task that submits a decision the client gave.  The client need not
  send or answer anything, and a turn need not end by itself.
- `ThreadHistory`, `AgentControl` and `UnifiedExec` have no liveness property and state
  no fairness.
  `WatcherIsServed` is the safety core of a liveness claim: whatever the watcher
  waits for is there or on its way.

## 5. The proofs

All theorems hold for every value of the constants under the named
assumptions; every leaf is checked by tlapm.

**`SessionTurn_proofs`** (assumptions `MaxAsksAssumption`, `NoneAssumption`).
`OneLiveTask` is not inductive: a task is live from the moment it is spawned,
while it becomes the owner of the active turn one step later.  The inductive
invariant `IInv` adds

- `LoopHolds`: while the loop aborts or spawns no turn is active: it took the
  turn away and it alone installs one;
- `NextSet`: `next` is a submission exactly while one is being started;
- `LiveOwned`: a live task is the owner of the active turn, or the loop's
  victim, or the one just spawned: this gives `OneLiveTask` and
  `QuietWhenIdle`;
- `Fresh`: nothing happens to a task before it is spawned, a submission starts
  one task at most, and the active turn's task is never cancelled;
- `AskedPos`: a request about to be registered has been counted.

`Book` is the invariant of `RecordedOnce`: the fate of each input says in which of the
places it is (to be started, pending in the turn, taken by a task, in the history), and
`TakenOnce` that no two tasks have taken the same one, so that appending what a task took
cannot repeat one.  `Paid` strengthens `IInv` for `ApprovalsUsedOnce` (an approval in the channel of a
waiting task is a credit not spent), `Settled` with the lemma `ResumesAlive`
gives `NoCommandAfterAbort` (a turn reported as aborted is over or about to be
dropped), and `Leaves` gives `TurnLeavesByItsOwner`.  `SessionImplementsSlot`
maps initial states to initial states and each step to a step of `TaskSlot` or
a stutter.

**`AgentControl_proofs`** (`LimitsAssumption`, `NoLimitAssumption`,
`ThreadsAssumption`, `CallersAssumption`).  `Control` says who knows a thread id
at every point of a call: a thread being spawned is known to its spawner alone
until it is announced (`Private`), enters the registry and then the set once
(`Entering`), is in the set for as long as it is open (`OpenCounted`), and a slot
is released only after its thread left the registry (`Removed`).  `Count`, which
is `CountExact` with named sets, is inductive together with it; `Limited` bounds
the counter.  `OpenAgentsBounded` is then a comparison of cardinalities: each open
agent is in the set or belongs to one reservation (facts about cardinalities
from the library `FiniteSetTheorems`).  `Tracked` gives `LeakOnlyByArchive`.

**`Readiness_proofs`** (`ActorsAssumption`).  `Tokens`: a ready flag has no valid
token, one call at most made it ready, and until one did every token handed out
is valid.  It gives `OneCallMarks` and `TokenHoldsTheFlag`.

**`UnifiedExec_proofs`** (`NoneAssumption`, `LimitAssumption`).  `IInv`: the call that reports the end
starts no watcher, and the watcher is started only by a call that did not report
(`Reports`, gives `OneEnd`); the streaming task is started before the watcher and
leaves a permit that only the watcher takes (`Drains`), and no process ends
without its token (`Signals`), which give `WatcherIsServed`.  `LInv` is a second
invariant, for `LostOnlyByClash`: a call keeps its id (`Named`), a process is
stored under the id of its call (`Entries`), and a running process is within reach
or its id was given twice (`Reached`).

For `StoreBounded` the started processes are totally ordered by their last use
(`Order`), so that of finitely many one was used before all others (`LeastUsed`, by
well-foundedness of strict inclusion on finite sets); a full store therefore has a
process with at least `Spared` others used after it, and among those that may be pruned
a least recently used one (`VictimExists`): the store loses an entry for the one it
gains.  `Few` adds that the store is finite and holds started processes only.

**`Rollout_proofs`** (`BoundAssumption`).  `IInv`: the channel holds records in the order
of their numbers (`ChanOrder`), the file those before them (`FileOrder`), while there
is a writer, every record of this run is stored, at hand, or in the channel (`Complete`),
and what was acknowledged is stored.  Every step then maps to a step of `DurableLog` or a
stutter (`RolloutImplementsLog`).  For `AtMostOneLostPerRestart` (`Lost`), a record without its
newline is never acknowledged (`Unended`), so that the only acknowledged record a reader
misses is one joined to such a line, and each run joins its first record at most (`Joins`).

**`ToolCalls_proofs`** (`ToolAssumption`).  The lock is an invariant of who runs
(`ExclusiveToolsRunAlone`).  `ConsentInv` gives `ToolsRunWithConsent`: a call that is
past its question was answered, and a key is in the store only if the user approved a
call with it for the session (`StoreConsented`).  `AnswerInv` gives `ToolAnswersInOrder`:
every answer so far is of a call before those still awaited, and a turn that is over
awaits none.

**`AppServer_proofs`** (`RequestAssumption`).  `AskInv`: the client is shown a request only
after its callback was stored (`Sending`), an answer reaches the task that waits
(`Heard`) and reaches it once (`NotHeardTwice`), which gives `TheClientIsHeard`.
`AnswerInv`: a request that is pending anywhere is unanswered and of the kind of its map
(`Pending`), and one Op or outcome of a rollback at most is on its way, and belongs to the
pending one (`InFlight`); it gives `AnswersBelongToRequests`.

**`ThreadHistory_proofs`** (`BoundAssumption`), about any number of items and detours.
Its properties are about what recursive functions compute for every sequence, which is
proved by induction over sets instead of predicates: a set of naturals that holds 0 and
successors is `Nat` (`NatInduct`, by the least number outside it and
`WellFoundedInduction`), a set of sequences that holds `<<>>` and is closed under `Append`
has all (`SeqInduct`), and a function that the recursion describes exists
(`RecursiveFcn`).  From these come the equations of `Only`, `Conversation`,
`UserMessagePositions`, `EnsureCallOutputsPresent`, `ReconstructHistoryFromRollout` and
`UserMessagePositionsInRollout` for `Append`, and from those the lemmas about the code:
ghost snapshots change nothing of a rollback (`DropConversation`) nor of a replayed line
(`ReplayRespects`), removing an item with its other half keeps the rest in order
(`CoherentRemoveFirst`, `CoherentRemoveLast`, `CoherentTrim`), and a request made of
coherent items is paired (`ForPromptPaired`).  Then, each on top of the one before:

- `Typed` and `Steps`: the types, and which steps may find calls, a pending line or an
  unsaved replacement (`TypeCorrect`).
- `Agree`: what memory and rollout have in common while the two are apart.  Between the
  two halves of a compaction only the user messages agree, in a rollback the clone is
  what the rollout will be after the marker, in an undo the clone may have other
  ghosts.
  It gives `ResumedThreadsAgree`; `ResumeAgrees` alone is not inductive, as it says
  nothing away from rest.
- `IInv`: memory, clone, the rollout with what is pending, and each prefix of the rollout
  that a crash may leave rebuild items that are `Kept`: every output follows its call,
  nothing occurs twice, calls are numbered, and no turn is gone.  `Dropping` says that a
  rollback under way has dropped its turns from memory; its announcement flushes the
  marker, which leaves the whole rollout as the only prefix, and by `Agree` that has
  dropped them too.  `Awaited`: the outputs of the calls in flight are still missing.
  `IInv` gives `RolledBackTurnsStayGone` and `PromptsArePaired`.
- `Counts`: as long as no line is a compaction, the n-th line that `truncation.rs` counts
  is that of the n-th user message, and the lines before it rebuild what is before
  that message (induction over the lines).  With `Agree` it gives `ForksMatch`.

**Safety cores.**  What a liveness property rests on beside fairness is that whatever
an actor waits for is there or on its way; this part is stated as a property of its own,
checked by the run of the liveness property, and proved.

- `WaitersAreInLine` (of `Served`): a caller enters `wait` with its command at the end of the
  channel.  Receiving moves the others up by one, answering takes the first away with its
  caller, and every way the writer ends releases all callers.
- `AnswersAreComing` (of `RequestsAnswered`): `Books` says that what the processor and the
  queue of Ops hold is in the maps of pending requests; `RollbackComes` and
  `InterruptsCome` follow the request from there into the session, its event and the
  listener that takes it, on top of `AnswerInv`.
- `WaitersCanBeAnswered` and `AbortsAreSeenThrough` (of `TaskEnds`): a task waits on a held
  sender only for an answer that is still to come, and an abort ends in a task that is
  over or told to die.  The first rests on the order of registration and request: the
  answer takes the sender out, so a sender that is held while its task waits has had no
  answer, but for an abort given as answer, which leaves it behind until the loop has
  taken the turn.  While the task is between registration and request the sender is held
  for a request nobody has seen, so the property says nothing of that step.  The second
  follows from `Reported` (a cancelled task was reported, or the loop is at its abort) and
  from `Settled`, which says where a reported task can be.

For `CancelReleases` nothing of the kind is stated, as a cancelled call's way out is a step it
can take at any time, and none for `ReceiverIsWoken`, where it would restate the one step
of the send.

The type invariants of `SessionTurn`, `AgentControl`, `UnifiedExec`, `Readiness` and `Rollout`,
which say little but types, are proved and in no run: a proof covers every
value of the constants, and the runs are left to what says more.  Every safety property of
the passing runs is proved.  *Only model-checked* are the
liveness properties `TaskEnds`, `ReceiverIsWoken`, `Served`, `CancelReleases` and
`RequestsAnswered`, since liveness under fairness and `ENABLED` are out of the prover's
reach, and the three statements that a run refutes.

## 6. What the checks found

Each is a run that must find a violation of what the repository says.

1. `session_completion`: `on_task_finished` runs in the task it concerns and
   drops that task's `AbortOnDropHandle`; the task can die before it emits
   `TurnComplete` (`core/src/tasks/mod.rs:191`).
2. `session_lost_input`: input accepted by `inject_input` after the turn's last
   look at its pending input is dropped with the turn.
3. `thread_history_fork`: `truncation.rs` counts the user messages of the rollout and a
   rollback counts those of the compacted history; after a compaction, a rollback makes
   the fork drop a turn that the history keeps.

What the models show without a run of its own.

*Session.*  A task that finishes before it is registered leaves a finished turn active
until the next abort (`core/src/tasks/mod.rs:175`).  Pending approvals are keyed by the
turn alone, so a late answer answers the turn's next request
(`core/src/codex.rs:1548`).  A turn cancelled after its last test of the token reports
`TurnComplete` and `TurnAborted` (`TaskFlush`, then `LoopCancel`).  A command approval
asked for before the turn is registered is never delivered (`Orphan`).

*Readiness.*  `wait_ready` tests the flag, then subscribes and looks only at the channel.  A
broadcast in between finds no receiver and is not stored: the waiter reads that the flag is
not ready, and it and the mutating tool call behind it wait until their turn is cancelled
(`utils/readiness/src/lib.rs:172`; the doc at line 39 says "Asynchronously wait until the
flag becomes ready").

*Unified exec.*  A command cancelled while its output is collected has an
`ExecCommandBegin` and never an `ExecCommandEnd`.  The end event of a short-lived process
may precede its last output deltas (`core/src/unified_exec/async_watcher.rs:76`).  Two
calls can be given the same process id when the end of a turn clears the reservations of
a call that is still at work; the process of the first can then be neither polled nor
terminated (`LostOnlyByClash` names this as the only way).

*Rollout and history.*  After a write error, or on a torn line, the marker of a rollback
is not in the file although `send_event_raw_flushed` announces it
(`core/src/codex.rs:1434`).  An abort between recording in memory and persisting leaves
the two apart for good, as does a local compaction that fails; a remote compaction loses
the ghost snapshots recorded while it awaited the model, as an undo loses those recorded
during its restore (`core/src/tasks/undo.rs:104`); a local one loses them on
resumption; an undo is not in the rollout at all.  A rollback of a thread that an abort
tore need not last: if a task is aborted after a remote compaction replaced the history
and before it is persisted (`core/src/compact_remote.rs`), the rollout may still have the
summary of a local one, from before the thread was resumed with another provider, and a
later rollback takes that summary for a turn (`is_user_turn_boundary`); memory and rollout then drop different turns, and resuming
brings back one the client saw rolled back.  `RolledBackStaysGone` leaves such rollbacks
out; that no others bring a turn back is proved.

*App server.*  An interrupt while no turn runs stays unanswered until a later abort, whose
`TurnAborted` then answers it; the README of the app server promises an answer.
A second prompt overwrites the pending entry, so that the first is never answered; a prompt
may be answered by the completion of an earlier turn, and again with an error if its own
start then fails; a prompt whose turn is interrupted by `turn/interrupt` is never
answered.  A V1 command approval answered with an error submits nothing, so that the turn
waits for ever, while a patch approval denies.  `last_error` belongs to the thread, so an
error outside a turn marks the next one failed.  Several listeners share one event queue,
so each sees only a part of it.

Noticed while reading: `src/codex-rs/docs/protocol_v1.md:30` says that additional user
input aborts the current task, while `inject_input` adds it to the turn; line 82 calls
`TurnComplete` the end of a *successful* turn, while it also follows an `Error`;
`utils/readiness/src/lib.rs:22` requires a token to make the flag ready, while `is_ready`
makes it ready without any; a declined patch or command completes its item twice in the
app server; a local shell call without a call id has an output that nothing pairs.

## 7. Not modelled, and why

- *Within the modelled components.*  Other pending channels of a turn
  (`request_user_input`, dynamic tools, elicitation) follow the pattern of
  approvals.  Settings and listing Ops touch neither turn nor history.  `ThreadHistory` has automatic compaction, `SessionTurn` does not.  The depth
  limit of agents is a comparison.  The ghost snapshot's git work.  The output of
  processes (head/tail buffer, deltas).  The filter of what is persisted.  Texts, token
  counts and images of the history.  Read-only requests of the app server and the form of
  its messages.  Tools other than commands, patches and read-only ones, and the parsers of
  commands and policies.
- *Delegated sub-sessions, thread manager.*  Each is a composition of sessions with
  channels in between; the thread manager's registry appears in `AgentControl`.
- *Planned:* see section 8.
- *Left out:* the model client (HTTP, SSE and WebSocket transport), MCP,
  sandboxes and process spawning, user interfaces, configuration, prompts and
  skills, patches and diffs, search and code navigation, utilities: I/O, parsing
  and rendering, where the control is small or belongs to libraries.  Message
  history and the state database leave concurrency to file locks and SQLite.

## 8. Plan

1. `Delegate`: a review's sub-session and its parent, composed of two sessions reduced to
   their promises, with approvals in flight when the parent is cancelled.
2. The head/tail buffer of unified exec as pure operators against a reference definition.
3. Authentication's reload and refresh, the model catalogue's cache.
4. The thread manager with removal and resumption while sub-agents are at work.

Proofs still worth having: the composition of `AppServer` with `SessionTurn` in place of
the reduced session, and the bound on how long after a tear memory and rollout differ.
