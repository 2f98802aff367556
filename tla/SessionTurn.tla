---------------------------- MODULE SessionTurn ----------------------------
(* One session: the submission loop of core/src/codex.rs, the task life cycle *)
(* of core/src/tasks/mod.rs and the turn state of core/src/state/turn.rs.     *)
(*                                                                            *)
(* Two kinds of processes interleave at their .await points: the submission   *)
(* loop, which handles one Op at a time, and the tokio tasks it spawns, one   *)
(* per turn.  They share the active_turn mutex, the cancellation tokens and   *)
(* the one-shot channels of pending approvals.                                *)
(*                                                                            *)
(* The submission queue is not a variable: an Op carries nothing that grows   *)
(* stale except the request it answers, so the loop may receive any Op that   *)
(* a client could have sent by now.                                           *)
EXTENDS Integers, Sequences, FiniteSets

CONSTANTS
  Subs,      \* submission ids; a turn has the id of the Op that started it
  None,      \* stands for Option::None
  MaxAsks    \* bound: approval requests made by one turn

ASSUME MaxAsksAssumption == MaxAsks \in Nat

VARIABLES
  active,     \* Session::active_turn: None, or the ActiveTurn
  \* the submission loop
  lpc,        \* where the loop is
  goal,       \* where it goes once the abort is over
  next,       \* the turn spawn_task is starting
  victim,     \* the task handle_task_abort is stopping
  reason,     \* TurnAbortReason
  \* the tasks
  pc,         \* where the task is
  cancelled,  \* its CancellationToken is cancelled
  aborted,    \* JoinHandle::abort was called: dies at its next suspension
  follow,     \* needs_follow_up of the sampling request
  taken,      \* pending input taken from the turn, not yet recorded
  asked,      \* approval requests made so far
  reply,      \* what its approval channel holds
  \* what clients and the model see
  history,    \* user inputs recorded, in order
  fate,       \* what became of each submission
  unanswered, \* approval requests the client has not answered
  credit,     \* approvals the client gave the turn, less commands it ran
  events      \* per turn: Error, TurnComplete, TurnAborted with its reason

loopVars == <<lpc, goal, next, victim, reason>>
taskVars == <<pc, cancelled, aborted, follow, taken, asked, reply>>
seenVars == <<history, fate, unanswered, credit, events>>
vars == <<active, loopVars, taskVars, seenVars>>

\* Set(seq): the members of a sequence.
Members(s) == {s[i] : i \in DOMAIN s}

\* ActiveTurn::default with one task added.
NewTurn(t) == [owner |-> t, pending |-> <<>>, asks |-> {}]

\* What an approval channel holds: a decision, and the request it was made for.
NoReply == [decision |-> "none", for |-> 0]
Dropped(t) == [decision |-> "denied", for |-> asked[t]]
Replies == [decision : {"none", "approved", "denied"}, for : 0 .. MaxAsks]

Requests == Subs \X (1 .. MaxAsks)

ActiveTurns ==
  [owner : Subs, pending : Seq(Subs), asks : SUBSET Requests]

ASSUME NoneAssumption == None \notin Subs /\ None \notin ActiveTurns

LoopPCs == {"recv", "take", "cancel", "grace", "report", "spawn", "spawnother",
            "register", "stopped"}

TaskPCs == {"none", "start", "startother", "collect", "record", "stream", "ask", "show", "wait",
            "check", "work", "flush", "finish", "complete", "done", "killed"}

Fates == {"unsent", "starting", "injected", "taken", "recorded", "cleared", "lost",
          "rolledback", "empty"}

TypeOK ==
  /\ active = None \/ active \in ActiveTurns
  /\ lpc \in LoopPCs
  /\ goal \in {"recv", "spawn", "spawnother", "stopped"}
  /\ next \in Subs \union {None}
  /\ victim \in Subs \union {None}
  /\ reason \in {"Replaced", "Interrupted"}
  /\ pc \in [Subs -> TaskPCs]
  /\ cancelled \in [Subs -> BOOLEAN]
  /\ aborted \in [Subs -> BOOLEAN]
  /\ follow \in [Subs -> BOOLEAN]
  /\ taken \in [Subs -> Seq(Subs)]
  /\ asked \in [Subs -> 0 .. MaxAsks]
  /\ reply \in [Subs -> Replies]
  /\ history \in Seq(Subs)
  /\ fate \in [Subs -> Fates]
  /\ unanswered \subseteq Requests
  /\ credit \in [Subs -> Int]
  /\ events \in [Subs -> SUBSET {"Error", "Complete", "Replaced", "Interrupted"}]

Init ==
  /\ active = None
  /\ lpc = "recv" /\ goal = "recv" /\ next = None
  /\ victim = None /\ reason = "Replaced"
  /\ pc = [t \in Subs |-> "none"]
  /\ cancelled = [t \in Subs |-> FALSE]
  /\ aborted = [t \in Subs |-> FALSE]
  /\ follow = [t \in Subs |-> FALSE]
  /\ taken = [t \in Subs |-> <<>>]
  /\ asked = [t \in Subs |-> 0]
  /\ reply = [t \in Subs |-> NoReply]
  /\ history = <<>>
  /\ fate = [t \in Subs |-> "unsent"]
  /\ unanswered = {}
  /\ credit = [t \in Subs |-> 0]
  /\ events = [t \in Subs |-> {}]

\* No task: not spawned yet, or over.
Ended == {"none", "done", "killed"}

Goto(t, from, to) == pc[t] = from /\ pc' = [pc EXCEPT ![t] = to]
LoopGoto(from, to) == lpc = from /\ lpc' = to

Emit(t, e) == events' = [events EXCEPT ![t] = @ \union {e}]
SetFate(S, f) == fate' = [s \in Subs |-> IF s \in S THEN f ELSE fate[s]]

\* The sender of each of these pending requests is used or dropped, and only a
\* task that waits, or shows its request first, still has the receiver.  Denied is the default of a dropped sender.
Answer(asks, answers) ==
  reply' = [t \in Subs |->
              IF pc[t] \in {"show", "wait"} /\ \E a \in asks : a[1] = t THEN answers[t] ELSE reply[t]]

Refusals == [t \in Subs |-> Dropped(t)]

----------------------------------------------------------------------------
(* The submission loop: receiving an Op *)

\* abort_all_tasks(r), then spawn, stop or go back to receiving.
StartAbort(r, g, n) ==
  /\ LoopGoto("recv", "take")
  /\ reason' = r /\ goal' = g /\ next' = n
  /\ UNCHANGED victim

\* Op::UserInput / Op::UserTurn with a turn in progress: inject_input.
RecvInputInject(s) ==
  /\ lpc = "recv" /\ fate[s] = "unsent" /\ active # None
  /\ active' = [active EXCEPT !.pending = Append(@, s)]
  /\ SetFate({s}, "injected")
  /\ UNCHANGED <<loopVars, taskVars, history, unanswered, credit, events>>

\* The same with no turn in progress: inject_input hands the input back and
\* the handler spawns a RegularTask for it.
RecvInputSpawn(s) ==
  /\ lpc = "recv" /\ fate[s] = "unsent" /\ active = None
  /\ StartAbort("Replaced", "spawn", s)
  /\ SetFate({s}, "starting")
  /\ UNCHANGED <<active, taskVars, history, unanswered, credit, events>>

\* Mutant: spawn_task does not abort the turn in progress.
RecvOtherNoAbort(s) ==
  /\ fate[s] = "unsent"
  /\ LoopGoto("recv", "spawnother")
  /\ next' = s
  /\ SetFate({s}, "starting")
  /\ UNCHANGED <<active, goal, victim, reason, taskVars, history, unanswered,
                 credit, events>>

\* RunUserShellCommand, Undo, Compact, Review: spawn_task replaces any turn.
RecvOther(s) ==
  /\ lpc = "recv" /\ fate[s] = "unsent"
  /\ StartAbort("Replaced", "spawnother", s)
  /\ SetFate({s}, "starting")
  /\ UNCHANGED <<active, taskVars, history, unanswered, credit, events>>

\* interrupt_task: without an active turn only MCP start-up is cancelled.
InterruptTask ==
  \/ active # None /\ StartAbort("Interrupted", "recv", None)
  \/ active = None /\ lpc = "recv" /\ UNCHANGED loopVars

RecvInterrupt ==
  /\ InterruptTask
  /\ UNCHANGED <<active, taskVars, seenVars>>

\* Mutant: any pending approval will do.
AnyEntry(t) == IF active = None THEN {} ELSE active.asks

\* The approval a turn waits for, if its sender is in the active turn.
EntryOf(t) == IF active = None THEN {} ELSE {a \in active.asks : a[1] = t}

\* notify_approval: the entry is found by sub_id alone.
NotifyApproval(req, decision) ==
  /\ Answer(EntryOf(req[1]), [t \in Subs |-> [decision |-> decision, for |-> req[2]]])
  /\ active' = IF active = None THEN None
               ELSE [active EXCEPT !.asks = @ \ EntryOf(req[1])]

\* Op::ExecApproval / Op::PatchApproval for a request the client was shown.
RecvDecision(req, decision) ==
  /\ lpc = "recv" /\ req \in unanswered
  /\ unanswered' = unanswered \ {req}
  /\ NotifyApproval(req, decision)
  /\ credit' = [credit EXCEPT ![req[1]] =
                  IF decision = "approved" /\ pc[req[1]] \notin Ended THEN @ + 1 ELSE @]
  /\ UNCHANGED <<loopVars, pc, cancelled, aborted, follow, taken, asked,
                 history, fate, events>>

\* The same with ReviewDecision::Abort.
RecvDecisionAbort(req) ==
  /\ req \in unanswered
  /\ InterruptTask
  /\ unanswered' = unanswered \ {req}
  /\ UNCHANGED <<active, taskVars, history, fate, credit, events>>

RecvApproval(req) ==
  \/ \E d \in {"approved", "denied"} : RecvDecision(req, d)
  \/ RecvDecisionAbort(req)

\* Op::ThreadRollback of one turn; refused while a turn is in progress.
RecvRollback ==
  /\ lpc = "recv" /\ active = None /\ history # <<>>
  /\ history' = SubSeq(history, 1, Len(history) - 1)
  /\ SetFate({history[Len(history)]}, "rolledback")
  /\ UNCHANGED <<active, loopVars, taskVars, unanswered, credit, events>>

\* Op::Shutdown
RecvShutdown ==
  /\ StartAbort("Interrupted", "stopped", None)
  /\ UNCHANGED <<active, taskVars, seenVars>>

----------------------------------------------------------------------------
(* The submission loop: abort_all_tasks and spawn_task *)

\* abort_all_tasks is over: spawn the new task, stop, or receive again.
AbortOver ==
  /\ lpc' = goal /\ goal' = "recv" /\ reason' = "Replaced" /\ victim' = None

\* take_all_running_tasks: the turn leaves the session under the lock and its
\* pending approvals and inputs are cleared.
LoopTake ==
  /\ lpc = "take"
  /\ active' = None
  /\ IF active = None
       THEN AbortOver /\ UNCHANGED <<reply, fate>>
       ELSE /\ Answer(active.asks, Refusals)
            /\ SetFate(Members(active.pending), "cleared")
            /\ IF cancelled[active.owner]
                 THEN AbortOver
                 ELSE /\ lpc' = "cancel" /\ victim' = active.owner
                      /\ UNCHANGED <<goal, reason>>
  /\ UNCHANGED <<next, pc, cancelled, aborted, follow, taken,
                 asked, history, unanswered, credit, events>>

\* handle_task_abort: cancel the token ...
LoopCancel ==
  /\ LoopGoto("cancel", "grace")
  /\ cancelled' = [cancelled EXCEPT ![victim] = TRUE]
  /\ UNCHANGED <<active, goal, next, victim, reason, pc, aborted, follow, taken,
                 asked, reply, seenVars>>

\* Mutant: the task is only asked to stop, never aborted.
LoopGraceNoAbort ==
  /\ LoopGoto("grace", "report")
  /\ UNCHANGED <<active, goal, next, victim, reason, taskVars, seenVars>>

\* Mutant: a task found to be done already is not reported.
LoopGraceSkipsDone ==
  /\ lpc = "grace"
  /\ aborted' = [aborted EXCEPT ![victim] = pc[victim] \notin Ended]
  /\ IF pc[victim] \in Ended
       THEN AbortOver
       ELSE lpc' = "report" /\ UNCHANGED <<goal, victim, reason>>
  /\ UNCHANGED <<active, next, pc, cancelled, follow, taken, asked, reply, seenVars>>

\* ... wait for the task to be done or for 100 ms, whichever comes first (the
\* notification may also be missed, which leaves the 100 ms); handle.abort() ...
LoopGraceOver ==
  /\ LoopGoto("grace", "report")
  /\ aborted' = [aborted EXCEPT ![victim] = pc[victim] \notin Ended]
  /\ UNCHANGED <<active, goal, next, victim, reason, pc, cancelled,
                 follow, taken, asked, reply, seenVars>>

\* ... for an interruption record and flush the marker, emit TurnAborted, and
\* on with the Op.
LoopReport ==
  /\ lpc = "report" /\ AbortOver
  /\ Emit(victim, reason)
  /\ UNCHANGED <<active, next, taskVars, history, fate, unanswered, credit>>

\* spawn_task: tokio::spawn, from here on the task runs ...
LoopSpawn ==
  /\ lpc \in {"spawn", "spawnother"} /\ lpc' = "register"
  /\ pc' = [pc EXCEPT ![next] = IF lpc = "spawn" THEN "start" ELSE "startother"]
  /\ UNCHANGED <<active, goal, next, victim, reason, cancelled, aborted,
                 follow, taken, asked, reply, seenVars>>

\* ... and register_new_active_task.
LoopRegister ==
  /\ LoopGoto("register", "recv")
  /\ active' = NewTurn(next)
  /\ next' = None
  /\ UNCHANGED <<goal, victim, reason, taskVars, seenVars>>

LoopStep == LoopTake \/ LoopCancel \/ LoopGraceOver \/ LoopReport
              \/ LoopSpawn \/ LoopRegister

Receive ==
  \/ RecvInterrupt \/ RecvRollback \/ RecvShutdown
  \/ \E s \in Subs : RecvInputInject(s) \/ RecvInputSpawn(s) \/ RecvOther(s)
  \/ \E req \in Requests : RecvApproval(req)

----------------------------------------------------------------------------
(* A task.  A step guarded by ~aborted[t] resumes from an await that always   *)
(* suspends (network, approval, disk): an aborted task never resumes there.   *)
(* At the other awaits an aborted task may still run on, or be dropped.       *)

\* run_turn with a prompt: TurnStarted, and the prompt enters the history.
TaskStart(t) ==
  /\ ~aborted[t]
  /\ Goto(t, "start", "collect")
  /\ history' = Append(history, t)
  /\ SetFate({t}, "recorded")
  /\ UNCHANGED <<active, loopVars, cancelled, aborted, follow, taken, asked,
                 reply, unanswered, credit, events>>

\* run_turn with no input items returns at once.
TaskStartEmpty(t) ==
  /\ ~aborted[t]
  /\ Goto(t, "start", "flush")
  /\ SetFate({t}, "empty")
  /\ UNCHANGED <<active, loopVars, cancelled, aborted, follow, taken, asked,
                 reply, history, unanswered, credit, events>>

\* The other tasks run without reading input.
TaskStartOther(t) ==
  /\ ~aborted[t]
  /\ Goto(t, "startother", "work")
  /\ SetFate({t}, "empty")
  /\ UNCHANGED <<active, loopVars, cancelled, aborted, follow, taken, asked,
                 reply, history, unanswered, credit, events>>

\* They end by themselves or because the token is cancelled.
TaskWorked(t) ==
  /\ ~aborted[t]
  /\ Goto(t, "work", "flush")
  /\ UNCHANGED <<active, loopVars, cancelled, aborted, follow, taken, asked,
                 reply, seenVars>>

\* Mutant: the pending input is read but not taken.
TaskCollectKeeps(t) ==
  /\ Goto(t, "collect", "record")
  /\ IF active = None
       THEN UNCHANGED <<taken, fate>>
       ELSE /\ taken' = [taken EXCEPT ![t] = active.pending]
            /\ SetFate(Members(active.pending), "taken")
  /\ UNCHANGED <<active, loopVars, cancelled, aborted, follow, asked, reply,
                 history, unanswered, credit, events>>

\* get_pending_input takes what is pending in whatever turn is active ...
TaskCollect(t) ==
  /\ Goto(t, "collect", "record")
  /\ IF active = None
       THEN UNCHANGED <<active, taken, fate>>
       ELSE /\ active' = [active EXCEPT !.pending = <<>>]
            /\ taken' = [taken EXCEPT ![t] = active.pending]
            /\ SetFate(Members(active.pending), "taken")
  /\ UNCHANGED <<loopVars, cancelled, aborted, follow, asked, reply,
                 history, unanswered, credit, events>>

\* ... and it is recorded into the history before the next request.
TaskRecord(t) ==
  /\ Goto(t, "record", "stream")
  /\ follow' = [follow EXCEPT ![t] = FALSE]
  /\ taken' = [taken EXCEPT ![t] = <<>>]
  /\ history' = history \o taken[t]
  /\ SetFate(Members(taken[t]), "recorded")
  /\ UNCHANGED <<active, loopVars, cancelled, aborted, asked, reply,
                 unanswered, credit, events>>

\* The model calls a tool that needs approval.
TaskToolCall(t) ==
  /\ ~aborted[t] /\ asked[t] < MaxAsks
  /\ Goto(t, "stream", "ask")
  /\ follow' = [follow EXCEPT ![t] = TRUE]
  /\ asked' = [asked EXCEPT ![t] = @ + 1]
  /\ UNCHANGED <<active, loopVars, cancelled, aborted, taken, reply, seenVars>>

\* The sender goes into whatever turn is active, under this turn's sub_id;
\* `unheld` is what the channel holds if there is none.
Register(t, unheld) ==
  /\ IF active = None
       THEN reply' = [reply EXCEPT ![t] = unheld] /\ UNCHANGED active
       ELSE /\ active' = [active EXCEPT !.asks =
                             (@ \ EntryOf(t)) \union {<<t, asked[t]>>}]
            /\ reply' = [reply EXCEPT ![t] = NoReply]
  /\ UNCHANGED <<loopVars, cancelled, aborted, follow, taken, asked,
                 history, fate, unanswered, credit, events>>

\* The request event reaches the client.
Show(t) ==
  /\ unanswered' = unanswered \union {<<t, asked[t]>>}
  /\ UNCHANGED <<active, loopVars, cancelled, aborted, follow, taken, asked,
                 reply, history, fate, credit, events>>

\* request_command_approval awaits the decision itself, while tx_approve, not
\* moved into any turn, is still a local of it: nobody can answer.
TaskAskCommand(t) == Goto(t, "ask", "show") /\ Register(t, NoReply)

\* request_patch_approval returns the receiver, and tx_approve is dropped.
TaskAskPatch(t) == Goto(t, "ask", "show") /\ Register(t, Dropped(t))

\* send_event, an await after the registration.
TaskShow(t) == Goto(t, "show", "wait") /\ Show(t)

\* Mutant: the request is shown first, and its sender registered afterwards.
TaskAskShownFirst(t) ==
  \/ Goto(t, "ask", "show") /\ Show(t)
  \/ Goto(t, "show", "wait") /\ (Register(t, NoReply) \/ Register(t, Dropped(t)))

TaskAsk(t) == TaskAskCommand(t) \/ TaskAskPatch(t) \/ TaskShow(t)

\* rx_approve.await: run the command or report the refusal to the model.
TaskProceed(t) ==
  /\ ~aborted[t] /\ reply[t].decision # "none"
  /\ Goto(t, "wait", "stream")
  /\ credit' = [credit EXCEPT ![t] = IF reply[t].decision = "approved" THEN @ - 1 ELSE @]
  /\ reply' = [reply EXCEPT ![t] = NoReply]
  /\ UNCHANGED <<active, loopVars, cancelled, aborted, follow, taken, asked,
                 history, fate, unanswered, events>>

\* The response stream and the tools notice the cancelled token.
TaskSeesCancel(t) ==
  /\ cancelled[t] /\ ~aborted[t]
  /\ pc[t] \in {"stream", "ask", "show", "wait"}
  /\ pc' = [pc EXCEPT ![t] = "flush"]
  /\ UNCHANGED <<active, loopVars, cancelled, aborted, follow, taken, asked,
                 reply, seenVars>>

\* The request fails for good: an Error event ends the loop of run_turn.
TaskError(t) ==
  /\ ~aborted[t]
  /\ Goto(t, "stream", "flush")
  /\ Emit(t, "Error")
  /\ UNCHANGED <<active, loopVars, cancelled, aborted, follow, taken, asked,
                 reply, history, fate, unanswered, credit>>

\* ResponseEvent::Completed
TaskCompleted(t) ==
  /\ ~aborted[t]
  /\ Goto(t, "stream", "check")
  /\ UNCHANGED <<active, loopVars, cancelled, aborted, follow, taken, asked,
                 reply, seenVars>>

\* needs_follow_up |= has_pending_input: another request, or leave run_turn.
TaskCheck(t) ==
  /\ Goto(t, "check",
          IF follow[t] \/ (active # None /\ active.pending # <<>>)
            THEN "collect" ELSE "flush")
  /\ UNCHANGED <<active, loopVars, cancelled, aborted, follow, taken, asked,
                 reply, seenVars>>

\* The task is over; its local state is gone.
EndTask(t, how) ==
  /\ pc' = [pc EXCEPT ![t] = how]
  /\ follow' = [follow EXCEPT ![t] = FALSE]
  /\ taken' = [taken EXCEPT ![t] = <<>>]
  /\ asked' = [asked EXCEPT ![t] = 0]
  /\ reply' = [reply EXCEPT ![t] = NoReply]
  /\ credit' = [credit EXCEPT ![t] = 0]
  /\ aborted' = [aborted EXCEPT ![t] = FALSE]

\* flush_rollout after task.run, then the test of the cancellation token.
TaskFlush(t) ==
  /\ ~aborted[t]
  /\ IF cancelled[t]
       THEN pc[t] = "flush" /\ EndTask(t, "done")
       ELSE Goto(t, "flush", "finish") /\ UNCHANGED <<aborted, follow, taken, asked, reply, credit>>
  /\ UNCHANGED <<active, loopVars, cancelled, history, fate, unanswered, events>>

\* Mutant: whatever turn is active is cleared.
TaskFinishAny(t) ==
  /\ Goto(t, "finish", "complete")
  /\ active' = None
  /\ UNCHANGED <<loopVars, cancelled, aborted, follow, taken, asked, reply, seenVars>>

\* on_task_finished: remove_task leaves the turn empty only if it is this
\* task's.  The RunningTask it drops owns the AbortOnDropHandle of this very
\* task; pending inputs and senders are dropped with the ActiveTurn.
TaskFinish(t) ==
  /\ Goto(t, "finish", "complete")
  /\ IF active # None /\ active.owner = t
       THEN /\ active' = None
            /\ aborted' = [aborted EXCEPT ![t] = TRUE]
            /\ Answer(active.asks, Refusals)
            /\ SetFate(Members(active.pending), "lost")
       ELSE UNCHANGED <<active, aborted, reply, fate>>
  /\ UNCHANGED <<loopVars, cancelled, follow, taken, asked, history,
                 unanswered, credit, events>>

\* close_unified_exec_processes, TurnComplete, done.notify_waiters.
TaskComplete(t) ==
  /\ pc[t] = "complete" /\ EndTask(t, "done")
  /\ Emit(t, "Complete")
  /\ UNCHANGED <<active, loopVars, cancelled, history, fate, unanswered>>

\* tokio drops an aborted task at its next suspension.
TaskKilled(t) ==
  /\ aborted[t] /\ pc[t] \notin Ended
  /\ EndTask(t, "killed")
  /\ UNCHANGED <<active, loopVars, cancelled, history, fate, unanswered, events>>

TaskStep(t) ==
  \/ TaskStart(t) \/ TaskStartEmpty(t) \/ TaskStartOther(t) \/ TaskWorked(t)
  \/ TaskCollect(t) \/ TaskRecord(t) \/ TaskToolCall(t) \/ TaskAsk(t) \/ TaskProceed(t)
  \/ TaskSeesCancel(t) \/ TaskError(t) \/ TaskCompleted(t) \/ TaskCheck(t)
  \/ TaskFlush(t) \/ TaskFinish(t) \/ TaskComplete(t)
  \/ TaskKilled(t)

Next == Receive \/ LoopStep \/ \E t \in Subs : TaskStep(t)

\* The runtime polls every task that can run; the model and the client answer.
Fairness ==
  /\ WF_vars(LoopStep)
  /\ \A t \in Subs : WF_vars(TaskStep(t))
  /\ \A req \in Requests : WF_vars(RecvApproval(req))

Spec == Init /\ [][Next]_vars

FairSpec == Spec /\ Fairness

----------------------------------------------------------------------------
(* Properties *)

\* Between tokio::spawn and the end of on_task_finished's critical section.
Running(t) == pc[t] \notin Ended \union {"complete"}

AbortReported(t) == events[t] \intersect {"Replaced", "Interrupted"} # {}

\* A running task nobody has told to die yet.
Live(t) == Running(t) /\ ~aborted[t]

\* "Session has at most one Task running at a time" (protocol_v1.md): a task
\* is started only when every earlier one is over or told to die, whatever the
\* races between the submission loop and the tasks.
OneLiveTask == \A t, u \in Subs : Live(t) /\ Live(u) => t = u

\* When the loop may handle an Op (or has shut down) and no turn is active, no
\* task is at work: so thread_rollback's check of active_turn is enough, and a
\* task is never lost track of (thread_rollback, register_new_active_task).
QuietWhenIdle ==
  lpc \in {"recv", "stopped"} /\ active = None => \A t \in Subs : ~Live(t)

\* A turn runs no more commands as approved than the client approved for that
\* turn: no approval is used twice or by another turn, although late answers
\* are accepted and an aborted task may still register a request in the next
\* turn (notify_approval).
ApprovalsUsedOnce == \A t \in Subs : credit[t] >= 0

\* Each user input enters the history at most once (get_pending_input).
RecordedOnce ==
  \A i, j \in DOMAIN history : history[i] = history[j] => i = j

\* The active turn ends only because the loop takes it or because its own task
\* finishes; a late finisher never clears a newer turn (on_task_finished).
TurnLeavesByItsOwner ==
  [][active # None /\ active' = None =>
        lpc = "take" \/ (pc[active.owner] = "finish" /\ pc'[active.owner] = "complete")]_vars

\* Once TurnAborted is out no command of that turn is started
\* (handle_task_abort aborts the task before it reports).
NoCommandAfterAbort ==
  [][\A t \in Subs :
        pc[t] = "wait" /\ pc'[t] = "stream" /\ reply[t].decision = "approved"
          => ~AbortReported(t)]_vars

\* A task that waits on a sender the active turn holds can be answered: the
\* client was shown its request and has not answered it yet, unless the answer
\* was to abort and the loop is about to (request_command_approval registers
\* the sender before it shows the request, notify_approval takes it out).
WaitersCanBeAnswered ==
  \A t \in Subs :
    pc[t] = "wait" /\ active # None /\ <<t, asked[t]>> \in active.asks
      => <<t, asked[t]>> \in unanswered \/ lpc = "take"

\* Once a token is cancelled the loop sees the abort through: it is at it, or
\* the task is over or told to die and the abort is reported, even if the task
\* ended meanwhile or ignores its token (handle_task_abort).
AbortsAreSeenThrough ==
  \A t \in Subs : cancelled[t] =>
    \/ victim = t /\ lpc \in {"grace", "report"}
    \/ AbortReported(t) /\ (aborted[t] \/ pc[t] \in Ended)

\* It waits for a decision and no turn holds the sender.
Orphan(t) ==
  /\ pc[t] = "wait" /\ reply[t] = NoReply
  /\ active = None \/ <<t, asked[t]>> \notin active.asks

\* In the end every task is over, whatever it waits for (the model, an approval,
\* the abort), unless it is an orphan for ever.  And
\* every abort ends its task and is reported, even of a task that ignores its
\* token, that is an orphan, or that finishes meanwhile (handle_task_abort).
TaskEnds ==
  \A t \in Subs :
    <>[](/\ pc[t] \in Ended \/ Orphan(t)
         /\ cancelled[t] => pc[t] \in Ended /\ AbortReported(t))

\* The session implements the one-task slot of the protocol document.
LiveTask == IF \E t \in Subs : Live(t) THEN CHOOSE t \in Subs : Live(t) ELSE None
Slot == INSTANCE TaskSlot
          WITH Tasks <- Subs, slot <- LiveTask,
               over <- {t \in Subs : pc[t] # "none" /\ ~Live(t)}
ImplementsTaskSlot == Slot!Spec

----------------------------------------------------------------------------
(* What the repository says and the code does not do *)

\* "Returns the input if there was no task running to inject into" (codex.rs,
\* inject_input): an injected input is not dropped by a task that completes.
InjectedInputIsUsed == \A s \in Subs : fate[s] # "lost"

\* "Emit completion uniformly from spawn site so all tasks share the same
\* lifecycle" (tasks/mod.rs): a task nobody cancelled ends with TurnComplete.
UncancelledTaskReports ==
  \A t \in Subs : pc[t] = "killed" /\ ~cancelled[t] => "Complete" \in events[t]
=============================================================================
