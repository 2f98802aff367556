----------------------------- MODULE UnifiedExec -----------------------------
(* core/src/unified_exec: the store of interactive processes, the tool calls  *)
(* that start processes and poll them, the two background tasks of a process, *)
(* and the end of a turn, which terminates all processes.                     *)
(*                                                                            *)
(* A call starts one process, which has the name of the call.  A turn runs    *)
(* one such call at a time (they take the exclusive side of the tool lock);   *)
(* calls overlap only when one was told to stop with its turn.                *)
EXTENDS Integers, FiniteSets

CONSTANTS
  Calls,         \* exec_command and write_stdin tool calls
  Ids,           \* process ids that can be allocated
  None,
  MaxProcesses,  \* MAX_UNIFIED_EXEC_PROCESSES
  Warning,       \* WARNING_UNIFIED_EXEC_PROCESSES
  Spared         \* most recently used processes that are never pruned (8)

ASSUME NoneAssumption == None \notin Calls \union Ids
ASSUME LimitAssumption ==
  /\ MaxProcesses \in Nat /\ Spared \in Nat /\ Warning \in Nat
  /\ Spared < MaxProcesses

VARIABLES
  reserved,  \* ProcessStore::reserved_process_ids
  store,     \* ProcessStore::processes
  newer,     \* the order of last_used: the processes used since each was
  closing,   \* a turn was aborted and its close is still to come
  \* the tool calls
  pc,        \* where the call is
  current,   \* the call the turn waits for; the others at work were told to stop
  id,        \* the process id it allocated, or polls
  \* the processes and their background tasks
  proc,      \* the operating system's process
  token,     \* UnifiedExecProcess::cancellation_token
  stream,    \* the task of start_streaming_output
  permit,    \* output_drained holds a permit
  watcher,   \* the task of spawn_exit_watcher
  ended      \* ExecCommandEnd events

storeVars == <<reserved, store, newer>>
callVars == <<pc, current, id>>
procVars == <<proc, token, stream, permit, watcher, ended>>
vars == <<storeVars, closing, callVars, procVars>>

PCs == {"idle", "approve", "collect", "store", "warn", "release", "poll", "done",
        "dropped"}

TypeOK ==
  /\ reserved \subseteq Ids
  /\ store \in [Ids -> Calls \union {None}]
  /\ newer \in [Calls -> SUBSET Calls] /\ \A c \in Calls : c \notin newer[c]
  /\ closing \in BOOLEAN
  /\ pc \in [Calls -> PCs]
  /\ current \in Calls \union {None}
  /\ id \in [Calls -> Ids \union {None}]
  /\ proc \in [Calls -> {"none", "running", "exited", "killed"}]
  /\ token \in [Calls -> BOOLEAN]
  /\ stream \in [Calls -> {"off", "on", "over"}]
  /\ permit \in [Calls -> BOOLEAN]
  /\ watcher \in [Calls -> {"off", "exit", "drain", "over"}]
  /\ ended \in [Calls -> Nat]

Init ==
  /\ reserved = {} /\ store = [i \in Ids |-> None]
  /\ newer = [c \in Calls |-> {}]
  /\ closing = FALSE
  /\ pc = [c \in Calls |-> "idle"]
  /\ current = None
  /\ id = [c \in Calls |-> None]
  /\ proc = [c \in Calls |-> "none"]
  /\ token = [c \in Calls |-> FALSE]
  /\ stream = [c \in Calls |-> "off"]
  /\ permit = [c \in Calls |-> FALSE]
  /\ watcher = [c \in Calls |-> "off"]
  /\ ended = [c \in Calls |-> 0]

Goto(c, from, to) == pc[c] = from /\ pc' = [pc EXCEPT ![c] = to]

InFlight(c) == pc[c] \notin {"idle", "done", "dropped"}

\* The turn's next call.
Start(c) == ~closing /\ current = None /\ current' = c

\* The turn need not wait for c any longer.
Over(c) == current' = IF current = c THEN None ELSE current

StoredIds == {i \in Ids : store[i] # None}
StoredProcs == {store[i] : i \in StoredIds}

\* UnifiedExecProcess::terminate; the wait task is aborted, so a process that
\* is killed never counts as exited.
Terminate(S) ==
  /\ proc' = [c \in Calls |-> IF c \in S /\ proc[c] = "running" THEN "killed" ELSE proc[c]]
  /\ token' = [c \in Calls |-> token[c] \/ (c \in S /\ proc[c] # "none")]

\* ProcessStore::remove
RemoveId(i) ==
  /\ reserved' = reserved \ {i}
  /\ store' = [store EXCEPT ![i] = None]

\* The process stored under i, if only the store holds it: dropping the entry
\* terminates it (Drop).  Else its call or its watcher keeps it alive.
OnlyStored(i) ==
  {d \in {store[i]} \ {None} : /\ pc[d] # "warn"
                              /\ watcher[d] \notin {"exit", "drain"}}

\* last_used = now.
Touch(c) ==
  newer' = [d \in Calls |-> IF d = c \/ proc[d] = "none" THEN {} ELSE newer[d] \union {c}]

----------------------------------------------------------------------------
(* exec_command *)

\* allocate_process_id: a random id that is not reserved.
Allocate(c, i) ==
  /\ Start(c)
  /\ i \notin reserved
  /\ Goto(c, "idle", "approve")
  /\ reserved' = reserved \union {i}
  /\ id' = [id EXCEPT ![c] = i]
  /\ UNCHANGED <<store, newer, closing, procVars>>

\* An intercepted apply_patch that fails: the id stays reserved.
PatchFails(c) ==
  /\ c = current
  /\ Goto(c, "approve", "done") /\ Over(c)
  /\ UNCHANGED <<storeVars, closing, id, procVars>>

\* Refused, denied by the sandbox for good, or an apply_patch that was intercepted.
Refuse(c) ==
  /\ c = current
  /\ Goto(c, "approve", "release")
  /\ UNCHANGED <<storeVars, closing, current, id, procVars>>

\* open_session_with_sandbox: approved and spawned; then ExecCommandBegin,
\* start_streaming_output and start = now.
Spawn(c) ==
  /\ c = current
  /\ Goto(c, "approve", "collect")
  /\ proc' = [proc EXCEPT ![c] = "running"]
  /\ stream' = [stream EXCEPT ![c] = "on"]
  /\ Touch(c)
  /\ UNCHANGED <<reserved, store, closing, current, id, token, permit, watcher, ended>>

\* Mutant: a short-lived process is stored as well.
ReportShortAndStore(c) ==
  /\ c = current /\ proc[c] = "exited"
  /\ Goto(c, "collect", "store")
  /\ ended' = [ended EXCEPT ![c] = @ + 1]
  /\ UNCHANGED <<storeVars, closing, current, id, proc, token, stream, permit, watcher>>

\* collect_output_until_deadline is over and has_exited: ExecCommandEnd at once.
ReportShort(c) ==
  /\ c = current /\ proc[c] = "exited"
  /\ Goto(c, "collect", "release")
  /\ ended' = [ended EXCEPT ![c] = @ + 1]
  /\ UNCHANGED <<storeVars, closing, current, id, proc, token, stream, permit, watcher>>

\* Otherwise it will be stored, even if it exits in between.
KeepLong(c) ==
  /\ c = current /\ proc[c] # "exited"
  /\ Goto(c, "collect", "store")
  /\ UNCHANGED <<storeVars, closing, current, id, procVars>>

\* The stored processes that were used after c.
UsedAfter(c) == newer[c] \intersect StoredProcs

\* process_id_to_prune_from_meta: the least recently used of the exited ones,
\* else of all, that are not among the `Spared` last used.
Prunable == {c \in StoredProcs : Cardinality(UsedAfter(c)) >= Spared}
Victims ==
  LET exited == {c \in Prunable : proc[c] = "exited"}
      pool   == IF exited # {} THEN exited ELSE Prunable
  IN  {c \in pool : pool \ {c} \subseteq UsedAfter(c)}

\* Mutant: pruning starts one process too late.
PrunedLate == IF Cardinality(StoredIds) <= MaxProcesses THEN {} ELSE Victims

\* prune_processes_if_needed
Pruned == IF Cardinality(StoredIds) < MaxProcesses THEN {} ELSE Victims

\* spawn_exit_watcher
Watch(c) == watcher' = [watcher EXCEPT ![c] = "exit"]

\* Whatever is stored under the id is replaced.  The watcher is started in the
\* same breath, but for the warning to the model when there are many processes.
StoreProcess(c) ==
  /\ pc[c] = "store"
  /\ store' = [i \in Ids |-> IF i = id[c] THEN c
                             ELSE IF store[i] \in Pruned THEN None ELSE store[i]]
  /\ reserved' = reserved \ {i \in StoredIds : store[i] \in Pruned}
  /\ Terminate(Pruned \union OnlyStored(id[c]))
  /\ IF Cardinality({i \in Ids : store'[i] # None}) >= Warning
       THEN Goto(c, "store", "warn") /\ UNCHANGED <<current, watcher>>
       ELSE Goto(c, "store", "done") /\ Over(c) /\ Watch(c)
  /\ UNCHANGED <<newer, closing, id, stream, permit, ended>>

\* record_model_warning, then spawn_exit_watcher.
Warned(c) ==
  /\ Goto(c, "warn", "done") /\ Over(c)
  /\ Watch(c)
  /\ UNCHANGED <<storeVars, closing, id, proc, token, stream, permit, ended>>

\* release_process_id, which also drops whatever is stored under the id; the
\* call's own process is dropped, and thereby terminated, with the call.
Release(c) ==
  /\ Goto(c, "release", "done") /\ Over(c)
  /\ RemoveId(id[c])
  /\ Terminate({c} \union OnlyStored(id[c]))
  /\ UNCHANGED <<newer, closing, id, stream, permit, watcher, ended>>

----------------------------------------------------------------------------
(* write_stdin *)

\* prepare_process_handles
Poll(c, i) ==
  /\ Start(c) /\ store[i] # None
  /\ Goto(c, "idle", "poll")
  /\ id' = [id EXCEPT ![c] = i]
  /\ Touch(store[i])
  /\ UNCHANGED <<reserved, store, closing, procVars>>

\* refresh_process_state after the wait; or the input could not be sent.  The
\* name of the call is free for another one.
Polled(c) ==
  /\ c = current
  /\ Goto(c, "poll", "idle") /\ Over(c)
  /\ id' = [id EXCEPT ![c] = None]
  /\ \/ /\ store[id[c]] \in {d \in Calls : proc[d] = "exited"}
        /\ RemoveId(id[c])
     \/ UNCHANGED <<reserved, store>>
  /\ UNCHANGED <<newer, closing, procVars>>

----------------------------------------------------------------------------
(* The turn *)

\* The turn is aborted: the call it waits for is told to stop.
Tell ==
  /\ ~closing /\ closing' = TRUE
  /\ current' = None
  /\ UNCHANGED <<storeVars, pc, id, procVars>>

\* A call that was told to stop is dropped at an await, and its process with
\* it unless the store has it.  It may also run on past an await that does not
\* suspend: a lock that is free.
Dropped(c) ==
  /\ c # current /\ InFlight(c)
  /\ pc' = [pc EXCEPT ![c] = "dropped"]
  /\ id' = [id EXCEPT ![c] = IF pc[c] = "poll" THEN None ELSE @]
  /\ Terminate({c} \ StoredProcs)
  /\ UNCHANGED <<storeVars, closing, current, stream, permit, watcher, ended>>

\* Mutant: dropping an entry is taken for terminating its process, but the
\* watcher still holds it.
CloseForgets ==
  /\ store' = [i \in Ids |-> None]
  /\ reserved' = {}
  /\ closing' \in {FALSE, closing}
  /\ UNCHANGED <<newer, callVars, procVars>>

\* terminate_all_processes: at the end of an aborted turn, before the next one
\* starts; or by a task that finished, which had left its turn before, so that
\* the next turn may already be at work.
Close ==
  /\ store' = [i \in Ids |-> None]
  /\ reserved' = {}
  /\ Terminate(StoredProcs)
  /\ closing' \in {FALSE, closing}
  /\ UNCHANGED <<newer, callVars, stream, permit, watcher, ended>>

----------------------------------------------------------------------------
(* A process and its two background tasks *)

\* The wait task notes the exit, which is forwarded to the token (from_spawned).
Exit(c) ==
  /\ proc[c] = "running"
  /\ proc' = [proc EXCEPT ![c] = "exited"]
  /\ token' = [token EXCEPT ![c] = TRUE]
  /\ UNCHANGED <<storeVars, closing, callVars, stream, permit, watcher, ended>>

\* Mutant: notify_waiters, which no later waiter sees.
StreamOverNotifyWaiters(c) ==
  /\ stream[c] = "on" /\ token[c]
  /\ stream' = [stream EXCEPT ![c] = "over"]
  /\ permit' = [permit EXCEPT ![c] = watcher[c] = "drain"]
  /\ UNCHANGED <<storeVars, closing, callVars, proc, token, watcher, ended>>

\* The token, then TRAILING_OUTPUT_GRACE or the end of all senders: notify_one.
StreamOver(c) ==
  /\ stream[c] = "on" /\ token[c]
  /\ stream' = [stream EXCEPT ![c] = "over"]
  /\ permit' = [permit EXCEPT ![c] = TRUE]
  /\ UNCHANGED <<storeVars, closing, callVars, proc, token, watcher, ended>>

WatchExit(c) ==
  /\ watcher[c] = "exit" /\ token[c]
  /\ watcher' = [watcher EXCEPT ![c] = "drain"]
  /\ UNCHANGED <<storeVars, closing, callVars, proc, token, stream, permit, ended>>

\* output_drained.notified(), then ExecCommandEnd.
WatchReport(c) ==
  /\ watcher[c] = "drain" /\ permit[c]
  /\ watcher' = [watcher EXCEPT ![c] = "over"]
  /\ permit' = [permit EXCEPT ![c] = FALSE]
  /\ ended' = [ended EXCEPT ![c] = @ + 1]
  /\ UNCHANGED <<storeVars, closing, callVars, proc, token, stream>>

ExecStep(c) ==
  \/ PatchFails(c) \/ Refuse(c) \/ Spawn(c) \/ ReportShort(c) \/ KeepLong(c)
  \/ StoreProcess(c) \/ Warned(c) \/ Release(c)
  \/ \E i \in Ids : Allocate(c, i)

WriteStep(c) == Polled(c) \/ \E i \in Ids : Poll(c, i)

Background(c) ==
  StreamOver(c) \/ WatchExit(c) \/ WatchReport(c)

Next ==
  \/ Tell \/ Close
  \/ \E c \in Calls :
       ExecStep(c) \/ WriteStep(c) \/ Dropped(c) \/ Exit(c) \/ Background(c)

Spec == Init /\ [][Next]_vars

----------------------------------------------------------------------------
(* Properties *)

\* The store never holds more than MAX_UNIFIED_EXEC_PROCESSES processes, also
\* when cancelled calls still store theirs (prune_processes_if_needed).
StoreBounded == Cardinality(StoredIds) <= MaxProcesses

\* A call that has the process at hand, or the store under its id, can still
\* terminate it.
Held(c) ==
  pc[c] \in {"collect", "store", "release"} \/ c \in StoredProcs

\* A running process is out of reach only if another call was given the same
\* id, which takes a close that voids the reservation of a call in flight:
\* pruning, polling, dropped calls and turn ends never lose one
\* (terminate_all_processes, ProcessStore::remove, UnifiedExecProcess::drop).
LostOnlyByClash ==
  \A c \in Calls :
    proc[c] = "running" /\ ~Held(c)
      => \E d \in Calls \ {c} : pc[d] # "poll" /\ id[d] = id[c]

\* ExecCommandEnd is emitted by the call that saw the exit or by the watcher,
\* not by both, although the process may exit at any moment (exec_command,
\* "emits a single ExecCommandEnd event" of spawn_exit_watcher).
OneEnd == \A c \in Calls : ended[c] <= 1

\* No wakeup is lost: a watcher that has not reported yet finds a permit, or
\* the streaming task that will leave one, whichever of the two started first
\* and however the process ends (output_drained).
WatcherIsServed ==
  \A c \in Calls :
    watcher[c] \in {"exit", "drain"} =>
      /\ stream[c] = "on" \/ permit[c]
      /\ proc[c] # "running" => token[c]
=============================================================================
