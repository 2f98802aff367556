---------------------------- MODULE HistoryItems ----------------------------
(* The items of a conversation and the pure functions on them:                *)
(* core/src/context_manager/history.rs and normalize.rs, compact.rs,          *)
(* rollout/truncation.rs and reconstruct_history_from_rollout of codex.rs.    *)
(*                                                                            *)
(* An item is its kind and an id: the call id of a call or an output, the     *)
(* commit of a ghost snapshot, the number of a message.  Texts are left out.  *)
EXTENDS Integers, SequencesExt

CONSTANT MaxKept  \* user messages that fit COMPACT_USER_MESSAGE_MAX_TOKENS

ASSUME MaxKeptAssumption == MaxKept \in Nat

Item(kind, id) == [kind |-> kind, id |-> id]

MessageKinds == {"context", "developer", "user", "summary", "aborted", "assistant"}
CallKinds == {"function_call", "custom_call"}
OutputKinds == {"function_output", "custom_output"}
ItemKinds == MessageKinds \union CallKinds \union OutputKinds \union {"ghost", "compaction"}

\* The messages a session starts with, the last of them on its environment.
Context == Item("context", 0)

OutputOf(call) ==
  Item(IF call.kind = "function_call" THEN "function_output" ELSE "custom_output", call.id)
IsCall(item) == item.kind \in CallKinds
IsOutput(item) == item.kind \in OutputKinds
IsCodexGenerated(item) == IsOutput(item) \/ item.kind = "developer"
IsGhost(item) == item.kind = "ghost"
Answers(output, call) == IsCall(call) /\ output = OutputOf(call)

Items(kinds) == [kind : kinds, id : Nat]

\* The elements of a sequence that are in S, in their order.
Only(items, S) ==
  LET only[n \in 0..Len(items)] ==
        IF n = 0 THEN <<>>
        ELSE IF items[n] \in S THEN Append(only[n - 1], items[n]) ELSE only[n - 1]
  IN only[Len(items)]

Conversation(items) == Only(items, Items(ItemKinds \ {"ghost"}))
Ghosts(items) == Only(items, Items({"ghost"}))

-----------------------------------------------------------------------------
(* normalize.rs *)

\* Mutant: the output is inserted at the index of its call.
EnsureInsertsAtIndex(items) ==
  LET ensured[n \in 0..Len(items)] ==
        IF n = 0 THEN <<>>
        ELSE IF IsCall(items[n]) /\ ~Contains(items, OutputOf(items[n]))
             THEN ensured[n - 1] \o <<OutputOf(items[n]), items[n]>>
             ELSE Append(ensured[n - 1], items[n])
  IN ensured[Len(items)]

\* A call without an output gets one, right behind it.  This is the release
\* build: error_or_panic ends a debug build at a custom or local shell call.
EnsureCallOutputsPresent(items) ==
  LET ensured[n \in 0..Len(items)] ==
        IF n = 0 THEN <<>>
        ELSE IF IsCall(items[n]) /\ ~Contains(items, OutputOf(items[n]))
             THEN ensured[n - 1] \o <<items[n], OutputOf(items[n])>>
             ELSE Append(ensured[n - 1], items[n])
  IN ensured[Len(items)]

RemoveOrphanOutputs(items) ==
  Only(items, {i \in ToSet(items) : IsOutput(i) => \E c \in ToSet(items) : Answers(i, c)})

\* The other half of the pair that item was part of: the first one that matches.
RemoveCorrespondingFor(items, item) ==
  LET matches == {i \in DOMAIN items : Answers(items[i], item) \/ Answers(item, items[i])}
  IN IF matches = {} THEN items ELSE RemoveAt(items, Min(matches))

-----------------------------------------------------------------------------
(* history.rs *)

ForPrompt(items) == Conversation(RemoveOrphanOutputs(EnsureCallOutputsPresent(items)))

RemoveFirstItem(items) ==
  IF items = <<>> THEN <<>> ELSE RemoveCorrespondingFor(Tail(items), Head(items))

RemoveLastItem(items) ==
  IF items = <<>> THEN <<>> ELSE RemoveCorrespondingFor(Front(items), Last(items))

\* A summary is a user message like another.
IsUserTurnBoundary(item) == item.kind \in {"user", "summary"}

UserMessagePositions(items) ==
  Only([i \in DOMAIN items |-> i], {i \in DOMAIN items : IsUserTurnBoundary(items[i])})

DropLastNUserTurns(items, n) ==
  LET turns == UserMessagePositions(items)
      cut == IF n >= Len(turns) THEN turns[1] ELSE turns[Len(turns) - n + 1]
  IN IF n = 0 \/ turns = <<>> THEN items ELSE SubSeq(items, 1, cut - 1)

-----------------------------------------------------------------------------
(* compact.rs and compact_remote.rs *)

CollectUserMessages(items) == Only(items, Items({"user", "aborted"}))

\* The newest messages that fit, in their order, and the summary.
BuildCompactedHistory(messages, summary) ==
  LET first == IF Len(messages) > MaxKept THEN Len(messages) - MaxKept + 1 ELSE 1
  IN <<Context>> \o SubSeq(messages, first, Len(messages)) \o <<Item("summary", summary)>>

\* At most n trailing items that Codex generated go, an output with its call.
TrimOutputs(items, n) ==
  LET trimmed[k \in 0..n] ==
        IF k = 0 THEN items
        ELSE IF trimmed[k - 1] = <<>> \/ ~IsCodexGenerated(Last(trimmed[k - 1])) THEN trimmed[k - 1]
        ELSE RemoveLastItem(trimmed[k - 1])
  IN trimmed[n]

-----------------------------------------------------------------------------
(* What is persisted of a conversation, and what it is rebuilt from. *)

ItemLine(item) == [line |-> "item", item |-> item]
\* replacement_history is <<>> for the local compaction: it has none.
CompactedLine(summary, replacement) ==
  [line |-> "compacted", summary |-> summary, replacement |-> replacement]
RolledBackLine(n) == [line |-> "rolled_back", turns |-> n]

ReplayLine(items, line) ==
  CASE line.line = "item" -> Append(items, line.item)
    [] line.line = "compacted" /\ line.replacement # <<>> -> line.replacement
    [] line.line = "compacted" /\ line.replacement = <<>> ->
         BuildCompactedHistory(CollectUserMessages(items), line.summary)
    [] line.line = "rolled_back" -> DropLastNUserTurns(items, line.turns)

ReconstructHistoryFromRollout(lines) ==
  LET replayed[n \in 0..Len(lines)] ==
        IF n = 0 THEN <<>> ELSE ReplayLine(replayed[n - 1], lines[n])
  IN replayed[Len(lines)]

\* Mutant: rollbacks are not applied.
UserMessageLines(lines) ==
  Only([i \in DOMAIN lines |-> i],
       {i \in DOMAIN lines : lines[i].line = "item" /\ IsUserTurnBoundary(lines[i].item)})

\* truncation.rs: the lines of the user messages that were not rolled back.
UserMessagePositionsInRollout(lines) ==
  LET positions[n \in 0..Len(lines)] ==
        IF n = 0 THEN <<>>
        ELSE CASE lines[n].line = "item" /\ IsUserTurnBoundary(lines[n].item) ->
                    Append(positions[n - 1], n)
               [] lines[n].line = "rolled_back" ->
                    SubSeq(positions[n - 1], 1, Len(positions[n - 1]) - lines[n].turns)
               [] OTHER -> positions[n - 1]
  IN positions[Len(lines)]

\* Cut before the n-th user message, n counted from 0.
TruncateRolloutBeforeNthUserMessage(lines, n) ==
  LET turns == UserMessagePositionsInRollout(lines)
  IN IF n >= Len(turns) THEN <<>> ELSE SubSeq(lines, 1, turns[n + 1] - 1)

-----------------------------------------------------------------------------
(* What the functions are for. *)

\* Every call has one output, which follows it, and every output has its call.
Paired(items) ==
  /\ \A c \in DOMAIN items : IsCall(items[c]) =>
       \E o \in DOMAIN items :
         o > c /\ {j \in DOMAIN items : Answers(items[j], items[c])} = {o}
  /\ \A o \in DOMAIN items : IsOutput(items[o]) =>
       \E c \in DOMAIN items : Answers(items[o], items[c])
=============================================================================
