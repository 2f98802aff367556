---------------------------- MODULE ThreadHistory ----------------------------
(* The conversation of one thread, in memory and in its rollout: what turns,  *)
(* compactions (compact.rs, compact_remote.rs), undo (tasks/undo.rs), ghost   *)
(* snapshots (tasks/ghost_snapshot.rs), aborts (tasks/mod.rs), rollback and   *)
(* resumption (codex.rs) do to both.                                          *)
(*                                                                            *)
(* Items reach the memory first and the rollout with a later step; a task     *)
(* that is aborted in between is dropped there.  The submission loop and the  *)
(* one task of SessionTurn take turns and share pc; a ghost snapshot is a     *)
(* task of its own that may outlive the turn.  The rollout is the log that    *)
(* Rollout implements: a restart keeps what was flushed and any prefix of the *)
(* rest.                                                                      *)
EXTENDS HistoryItems

CONSTANTS
  Outputs,         \* the kinds of items a model answers with
  MaxItems,        \* bound: items numbered
  MaxDetours       \* bound: snapshots, compactions, aborts, rollbacks and restarts

ASSUME BoundAssumption ==
  /\ Outputs \subseteq {"assistant"} \union CallKinds
  /\ MaxItems \in Nat /\ MaxDetours \in Nat

VARIABLES
  \* the session
  history,   \* SessionState::history
  seeded,    \* SessionState::initial_context_seeded
  pc,        \* what the loop or its task does
  back,      \* where a compaction returns to
  pending,   \* lines whose items are in memory, to be persisted next
  copy,      \* the clone of the history that the loop or the task works on
  calls,     \* in_flight: the calls whose outputs are awaited
  snapping,  \* ghost snapshots being taken
  snapped,   \* those in memory, to be persisted next
  \* the rollout
  log,       \* its lines
  flushed,   \* lines known to be on the disk
  \* history
  next,      \* items numbered so far
  detours,   \* snapshots, compactions, aborts, rollbacks and restarts so far
  unsaved,   \* the compaction under way put the model's answer in memory only
  torn,      \* an abort or a failed compaction left items in memory only
  rolled,    \* the turns the rollback under way has dropped; none if the memory is
             \* torn from the rollout, which may then lose other turns
  gone       \* those of the rollbacks that were announced

turnVars == <<pc, back, pending, copy, calls>>
ghostVars == <<snapping, snapped>>
logVars == <<log, flushed>>
rollVars == <<rolled, gone>>
auxVars == <<next, detours, unsaved, torn, rollVars>>
vars == <<history, seeded, turnVars, ghostVars, logVars, auxVars>>

TaskPCs == {"begin", "sampling", "draining", "undo",
            "compact", "rebuild", "remote", "compacted"}

TypeOK ==
  /\ history \in Seq([kind : ItemKinds, id : Nat])
  /\ copy \in Seq([kind : ItemKinds, id : Nat])
  /\ seeded \in BOOLEAN /\ torn \in BOOLEAN /\ unsaved \in BOOLEAN
  /\ pc \in {"idle", "updating", "aborting", "rollback", "rolled_back"} \union TaskPCs
  /\ back \in {"idle", "begin", "sampling"}
  /\ calls \in Seq([kind : CallKinds, id : Nat])
  /\ Len(pending) <= 1 /\ pending # <<>> => pc \notin {"begin", "undo", "remote"}
  /\ snapping \union snapped \union rolled \union gone \subseteq 1..next
  /\ snapping \intersect snapped = {}
  /\ flushed \in 0..Len(log) /\ next \in 0..MaxItems

Init ==
  /\ history = <<Context>> /\ seeded = TRUE
  /\ pc = "idle" /\ back = "idle" /\ pending = <<>> /\ copy = <<>> /\ calls = <<>>
  /\ snapping = {} /\ snapped = {}
  /\ log = <<ItemLine(Context)>> /\ flushed = 1
  /\ next = 0 /\ detours = 0
  /\ unsaved = FALSE /\ torn = FALSE /\ rolled = {} /\ gone = {}

-----------------------------------------------------------------------------
(* record_conversation_items: the memory, then the rollout. *)

Goto(from, to) == pc = from /\ pending = <<>> /\ pc' = to

\* A clone goes with whoever worked on it.
Goes(to) == pc' = to /\ back' = "idle" /\ copy' = <<>>

RecordIntoHistory(item) == history' = Append(history, item)
RecordItem(item) == RecordIntoHistory(item) /\ pending' = <<ItemLine(item)>>

Numbered == next < MaxItems /\ next' = next + 1
Detour == detours < MaxDetours /\ detours' = detours + 1

\* persist_rollout_items; the context and the marker of an abort are flushed.
Persist ==
  /\ pending # <<>> /\ pc # "rollback"
  /\ log' = log \o pending /\ pending' = <<>>
  /\ flushed' = IF pc \in {"idle", "aborting"} THEN Len(log') ELSE flushed
  /\ pc' = IF pc = "aborting" THEN "idle" ELSE pc
  /\ UNCHANGED <<history, seeded, back, copy, calls, ghostVars, auxVars>>

-----------------------------------------------------------------------------
(* A turn. *)

SeedInitialContextIfNeeded ==
  /\ ~seeded /\ seeded' = TRUE
  /\ Goto("idle", "idle") /\ RecordItem(Context)
  /\ UNCHANGED <<back, copy, calls, ghostVars, logVars, auxVars>>

\* user_input_or_turn tells the model of settings that changed since the last
\* turn; nothing is flushed for it.
RecordSettingsUpdate ==
  /\ seeded /\ Goto("idle", "updating") /\ Numbered
  /\ RecordItem(Item("developer", next'))
  /\ UNCHANGED <<seeded, back, copy, calls, ghostVars, logVars,
                 detours, unsaved, torn, rollVars>>

SpawnTurn ==
  /\ seeded
  /\ Goto("idle", "begin") \/ Goto("updating", "begin")
  /\ UNCHANGED <<history, seeded, back, pending, copy, calls, ghostVars, logVars, auxVars>>

\* The user's message; a snapshot of the working tree may start.
RecordUserPrompt ==
  /\ Goto("begin", "sampling") /\ Numbered
  /\ RecordItem(Item("user", next'))
  /\ \/ /\ Detour
        /\ snapping' = snapping \union {next'}
     \/ UNCHANGED <<detours, snapping>>
  /\ UNCHANGED <<seeded, back, copy, calls, snapped, logVars, unsaved, torn, rollVars>>

\* Input that was injected meanwhile, before the next request.
RecordPendingInput ==
  /\ calls = <<>> /\ Goto("sampling", "sampling") /\ Numbered
  /\ RecordItem(Item("user", next'))
  /\ UNCHANGED <<seeded, back, copy, calls, ghostVars, logVars,
                 detours, unsaved, torn, rollVars>>

HandleOutputItemDone ==
  /\ Goto("sampling", "sampling") /\ Numbered
  /\ \E kind \in Outputs :
       LET item == Item(kind, next') IN
       /\ RecordItem(item)
       /\ calls' = IF IsCall(item) THEN Append(calls, item) ELSE calls
  /\ UNCHANGED <<seeded, back, copy, ghostVars, logVars, detours, unsaved, torn, rollVars>>

StreamOver ==
  /\ calls # <<>> /\ Goto("sampling", "draining")
  /\ UNCHANGED <<history, seeded, back, pending, copy, calls, ghostVars, logVars, auxVars>>

\* drain_in_flight: the outputs in the order of their calls.
DrainOutput ==
  /\ calls # <<>> /\ Goto("draining", "draining")
  /\ RecordItem(OutputOf(Head(calls))) /\ calls' = Tail(calls)
  /\ UNCHANGED <<seeded, back, copy, ghostVars, logVars, auxVars>>

\* A tool call that ends in a fatal error has no output.
DrainFails ==
  /\ calls # <<>> /\ Goto("draining", "draining") /\ calls' = Tail(calls)
  /\ UNCHANGED <<history, seeded, back, pending, copy, ghostVars, logVars, auxVars>>

\* The next request, or the end of the turn.
Drained ==
  /\ calls = <<>>
  /\ Goto("draining", "sampling") \/ Goto("sampling", "idle")
  /\ UNCHANGED <<history, seeded, back, pending, copy, calls, ghostVars, logVars, auxVars>>

-----------------------------------------------------------------------------
(* Ghost snapshots. *)

\* Mutant: the task goes on after it has recorded the snapshot.
SnapshotTakenAgain(g) ==
  /\ g \in snapping
  /\ RecordIntoHistory(Item("ghost", g))
  /\ snapped' = snapped \union {g}
  /\ UNCHANGED <<seeded, turnVars, snapping, logVars, auxVars>>

SnapshotTaken(g) ==
  /\ g \in snapping
  /\ RecordIntoHistory(Item("ghost", g))
  /\ snapping' = snapping \ {g} /\ snapped' = snapped \union {g}
  /\ UNCHANGED <<seeded, turnVars, logVars, auxVars>>

SnapshotPersisted(g) ==
  /\ g \in snapped /\ snapped' = snapped \ {g}
  /\ log' = Append(log, ItemLine(Item("ghost", g)))
  /\ UNCHANGED <<history, seeded, turnVars, snapping, flushed, auxVars>>

\* It failed, or was cancelled with its turn.
SnapshotFails(g) ==
  /\ g \in snapping \union snapped
  /\ snapping' = snapping \ {g} /\ snapped' = snapped \ {g}
  /\ UNCHANGED <<history, seeded, turnVars, logVars, auxVars>>

\* The newest snapshot is restored, and leaves the clone taken before.
SpawnUndo ==
  /\ seeded /\ Ghosts(history) # <<>>
  /\ Goto("idle", "undo") /\ copy' = history
  /\ UNCHANGED <<history, seeded, back, pending, calls, ghostVars, logVars, auxVars>>

UndoRestored ==
  /\ pc = "undo" /\ Goes("idle")
  /\ history' = RemoveAt(copy, Max({i \in DOMAIN copy : IsGhost(copy[i])}))
  /\ UNCHANGED <<seeded, pending, calls, ghostVars, logVars, auxVars>>

UndoFails ==
  /\ pc = "undo" /\ Goes("idle")
  /\ UNCHANGED <<history, seeded, pending, calls, ghostVars, logVars, auxVars>>

-----------------------------------------------------------------------------
(* Compaction: a task of its own, or before or between the requests of a turn. *)

BeginCompaction(to) ==
  /\ Detour
  /\ \/ seeded /\ Goto("idle", to)
     \/ Goto("begin", to)
     \/ calls = <<>> /\ Goto("sampling", to)
  /\ back' = pc
  /\ UNCHANGED <<history, seeded, pending, calls, ghostVars, logVars,
                 next, unsaved, torn, rollVars>>

BeginLocal ==
  /\ BeginCompaction("compact")
  /\ copy' = Append(history, Item("user", 0))

\* The window is exceeded: the oldest item goes.
TrimOldest ==
  /\ Goto("compact", "compact") /\ Len(ForPrompt(copy)) > 1
  /\ copy' = RemoveFirstItem(copy)
  /\ UNCHANGED <<history, seeded, back, pending, calls, ghostVars, logVars, auxVars>>

\* drain_to_completed records the model's answer in memory only.
Summarise ==
  /\ Goto("compact", "compact") /\ Numbered
  /\ RecordIntoHistory(Item("assistant", next')) /\ unsaved' = TRUE
  /\ UNCHANGED <<seeded, back, pending, copy, calls, ghostVars, logVars,
                 detours, torn, rollVars>>

CompactFails ==
  /\ pc \in {"compact", "remote"} /\ Goes(back)
  /\ torn' = (torn \/ unsaved) /\ unsaved' = FALSE
  /\ UNCHANGED <<history, seeded, pending, calls, ghostVars, logVars,
                 next, detours, rollVars>>

CloneHistory ==
  /\ Goto("compact", "rebuild") /\ copy' = history
  /\ UNCHANGED <<history, seeded, back, pending, calls, ghostVars, logVars, auxVars>>

ReplaceLocal ==
  /\ Goto("rebuild", "compacted")
  /\ history' = BuildCompactedHistory(CollectUserMessages(copy), detours)
                  \o Ghosts(copy)
  /\ pending' = <<CompactedLine(detours, <<>>)>> /\ unsaved' = FALSE
  /\ UNCHANGED <<seeded, back, copy, calls, ghostVars, logVars, next, detours, torn, rollVars>>

BeginRemote ==
  /\ BeginCompaction("remote")
  /\ \E n \in 0..Len(history) : copy' = TrimOutputs(history, n)

\* What the service makes of a prompt.
RemoteAnswer(prompt) ==
  CollectUserMessages(prompt) \o <<Item("compaction", detours)>>

\* Mutant: the replacement is not persisted.
ReplaceRemoteOnly ==
  /\ Goto("remote", "compacted")
  /\ history' = RemoteAnswer(ForPrompt(copy)) \o Ghosts(copy)
  /\ pending' = <<CompactedLine(detours, <<>>)>>
  /\ UNCHANGED <<seeded, back, copy, calls, ghostVars, logVars, auxVars>>

ReplaceRemote ==
  /\ Goto("remote", "compacted")
  /\ history' = RemoteAnswer(ForPrompt(copy)) \o Ghosts(copy)
  /\ pending' = <<CompactedLine(detours, history')>>
  /\ UNCHANGED <<seeded, back, copy, calls, ghostVars, logVars, auxVars>>

CompactionOver ==
  /\ pc = "compacted" /\ pending = <<>> /\ Goes(back)
  /\ UNCHANGED <<history, seeded, pending, calls, ghostVars, logVars, auxVars>>

-----------------------------------------------------------------------------
(* Aborts, rollback and restarts. *)

\* The task is dropped wherever it is; what it had still to persist is not.
DropTask ==
  /\ pc \in TaskPCs /\ Detour
  /\ torn' = (torn \/ unsaved \/ pending # <<>>) /\ unsaved' = FALSE /\ calls' = <<>>

ReplaceTask ==
  /\ DropTask /\ Goes("idle") /\ pending' = <<>>
  /\ UNCHANGED <<history, seeded, ghostVars, logVars, next, rollVars>>

InterruptTask ==
  /\ DropTask /\ Goes("aborting") /\ Numbered
  /\ RecordItem(Item("aborted", next'))
  /\ UNCHANGED <<seeded, ghostVars, logVars, rollVars>>

Turns(items) == {i.id : i \in {j \in ToSet(items) : j.kind = "user"}}

\* thread_rollback: clone and drop, replace, then record, flush and announce.
ThreadRollback ==
  /\ Detour
  /\ Goto("idle", "rollback")
  /\ \E n \in 1..2 :
       /\ copy' = DropLastNUserTurns(history, n)
       /\ pending' = <<RolledBackLine(n)>>
  /\ UNCHANGED <<history, seeded, back, calls, ghostVars, logVars,
                 next, unsaved, torn, rollVars>>

ReplaceRolledBack ==
  /\ pc = "rollback" /\ pc' = "rolled_back"
  /\ history' = copy
  /\ rolled' = IF torn THEN {} ELSE Turns(history) \ Turns(copy)
  /\ UNCHANGED <<seeded, back, pending, copy, calls, ghostVars, logVars,
                 next, detours, unsaved, torn, gone>>

\* Mutant: the rollback is announced before its marker is flushed.
AnnounceUnflushed ==
  /\ pc = "rolled_back" /\ pending = <<>> /\ Goes("idle")
  /\ gone' = gone \union rolled /\ rolled' = {}
  /\ UNCHANGED <<history, seeded, pending, calls, ghostVars, logVars,
                 next, detours, unsaved, torn>>

AnnounceRollback ==
  /\ pc = "rolled_back" /\ pending = <<>> /\ Goes("idle")
  /\ flushed' = Len(log) /\ gone' = gone \union rolled /\ rolled' = {}
  /\ UNCHANGED <<history, seeded, pending, calls, ghostVars, log,
                 next, detours, unsaved, torn>>

\* The process ends and the thread is resumed from what reached the disk.
Restart ==
  /\ Detour
  /\ \E n \in flushed..Len(log) : log' = SubSeq(log, 1, n)
  /\ flushed' = Len(log') /\ history' = ReconstructHistoryFromRollout(log')
  /\ seeded' = FALSE /\ Goes("idle") /\ pending' = <<>> /\ calls' = <<>>
  /\ snapping' = {} /\ snapped' = {}
  /\ unsaved' = FALSE /\ torn' = FALSE /\ rolled' = {}
  /\ UNCHANGED <<next, gone>>

Next ==
  \/ Persist \/ SeedInitialContextIfNeeded
  \/ RecordSettingsUpdate \/ SpawnTurn \/ RecordUserPrompt \/ RecordPendingInput \/ HandleOutputItemDone
  \/ StreamOver \/ DrainOutput \/ DrainFails \/ Drained
  \/ \E g \in 1..MaxItems : SnapshotTaken(g) \/ SnapshotPersisted(g) \/ SnapshotFails(g)
  \/ SpawnUndo \/ UndoRestored \/ UndoFails
  \/ BeginLocal \/ TrimOldest \/ Summarise \/ CompactFails \/ CloneHistory \/ ReplaceLocal
  \/ BeginRemote \/ ReplaceRemote \/ CompactionOver
  \/ ReplaceTask \/ InterruptTask
  \/ ThreadRollback \/ ReplaceRolledBack \/ AnnounceRollback \/ Restart

Spec == Init /\ [][Next]_vars

-----------------------------------------------------------------------------
(* Properties. *)

\* The loop waits for an Op and the memory was not torn from the rollout.
AtRest == pc = "idle" /\ pending = <<>> /\ ~torn

\* A thread resumed from its rollout continues the conversation that the user
\* saw, whatever was compacted, rolled back, undone or interrupted before:
\* only ghost snapshots may differ.
ResumeAgrees ==
  AtRest => Conversation(ReconstructHistoryFromRollout(log)) = Conversation(history)

\* A turn that a rollback was announced for never comes back, not even by a
\* crash right after the announcement, a compaction or an undo.  (A rollback
\* of a memory that an abort tore from the rollout promises less: see gone.)
RolledBackStaysGone == Turns(history) \intersect gone = {}

\* As long as nothing was compacted, a fork at the n-th user message has the
\* conversation before that message (truncation.rs counts the lines of the
\* rollout, where the history has lost what was rolled back).
ForkMatches ==
  LET turns == UserMessagePositions(history)
      forked(n) == ReconstructHistoryFromRollout(TruncateRolloutBeforeNthUserMessage(log, n))
  IN AtRest /\ (\A i \in DOMAIN log : log[i].line # "compacted") =>
       \A n \in 0..Len(turns) - 1 :
         Conversation(forked(n)) = Conversation(SubSeq(history, 1, turns[n + 1] - 1))

\* What the comment of truncation.rs promises of that count, compactions or
\* not: the turns the history still has are among the turns a fork can name.
ForkSeesTurns ==
  AtRest => Turns(history) \subseteq
    {log[i].item.id : i \in ToSet(UserMessagePositionsInRollout(log))}

\* Each request pairs every call with one output behind it, whatever was
\* interrupted, dropped, trimmed or rolled back before.  And no output outlives
\* its call: normalisation panics on one in debug builds.
PromptPaired ==
  /\ Paired(ForPrompt(history))
  /\ pc \in {"compact", "remote"} => Paired(ForPrompt(copy))
  /\ \A items \in {history, copy} : RemoveOrphanOutputs(items) = items
=============================================================================
