------------------------------ MODULE AppServer ------------------------------
(* One thread behind the app server: the processor that takes the client's    *)
(* messages one after the other (codex_message_processor.rs), the listeners   *)
(* that share the thread's events (bespoke_event_handling.rs), the requests   *)
(* the server makes of the client (outgoing_message.rs), and the session with *)
(* its queues of Ops and events.                                              *)
(*                                                                            *)
(* A client's request is answered by the processor at once, or later by a     *)
(* listener that finds it pending when an event arrives.  Processor,          *)
(* listeners, session and approval tasks interleave at their awaits.  An      *)
(* entry that was removed from a map belongs to the task that removed it, so  *)
(* that removal and answer are one step.                                      *)
EXTENDS Integers, Sequences, FiniteSets

CONSTANTS
  MaxRequests, \* bound: requests and notifications of the client
  Listeners,   \* subscriptions to the events of the thread
  V1,          \* those of the first version of the API
  MaxAsks      \* bound: approvals the session asks for

ASSUME RequestAssumption ==
  /\ V1 \subseteq Listeners /\ Listeners # {}
  /\ MaxRequests \in Nat /\ MaxAsks \in Nat

\* Named in the order in which they are received.
Requests == 1..MaxRequests
None == 0

VARIABLES
  \* the processor
  kind,        \* what each request is
  doing,       \* the one being handled
  step,        \* where its handler is
  taken,       \* the prompt that a cancellation found pending
  \* shared by the processor and the listeners
  prompt,      \* pending_acp_prompts
  interrupts,  \* pending_interrupts
  rollback,    \* pending_rollbacks
  \* the listeners
  stage,       \* where the listener is
  hand,        \* the event it has received
  stopping,    \* the listeners whose cancel_tx has fired
  \* requests of the server
  asked,       \* those made so far: turn, version, what their task has heard
  callbacks,   \* request_id_to_callback
  shown,       \* the requests sent to the client
  passed,      \* the tasks that have passed it on
  \* the session
  alive,       \* its loop runs
  ops,         \* the Ops submitted
  turn,        \* the turn that runs, 0 without one
  turns,       \* turns so far
  ending,      \* turns that are over and not reported
  asking,      \* the running turn waits for an approval
  asks,        \* approvals asked for so far
  events,      \* the events emitted
  \* history
  answers,     \* the answers to each request
  outcome,     \* what became of each rollback
  owed,        \* interrupts that aborted a turn
  replied      \* server requests that the client has answered

procVars == <<kind, doing, step, taken>>
mapVars == <<prompt, interrupts, rollback>>
listenVars == <<stage, hand, stopping>>
askVars == <<asked, callbacks, shown, passed>>
turnVars == <<turn, turns, ending, asking, asks>>
sessionVars == <<alive, ops, turnVars, events>>
histVars == <<answers, outcome, owed, replied>>
vars == <<procVars, mapVars, listenVars, askVars, sessionVars, histVars>>

Kinds == {"start", "prompt", "cancel", "interrupt", "rollback", "close"}
Op(op, by, t) == [op |-> op, by |-> by, turn |-> t]
\* What happened, and to which turn; or, in hand, which request to send.
Event(e, n) == [event |-> e, of |-> n]

Ops == [op : {"input", "interrupt", "rollback", "decision", "abort"},
        by : Requests \union {None}, turn : Nat]
Answered == {"approved", "abort", "error"}
Events == [event : {"complete", "aborted", "rolled_back", "failed", "ask", "none"}, of : Nat]
Idle == Event("none", 0)

TypeOK ==
  /\ kind \in [Requests -> Kinds \union {"none"}]
  /\ doing \in Requests \union {None}
  /\ step \in {"begin", "submit", "reply", "detach"}
  /\ {taken, prompt, rollback} \subseteq Requests \union {None}
  /\ interrupts \subseteq Requests
  /\ stage \in [Listeners -> {"new", "idle", "look", "claim", "handle", "send", "off"}]
  /\ hand \in [Listeners -> Events]
  /\ stopping \subseteq Listeners
  /\ asked \in Seq([turn : Nat, v1 : BOOLEAN, said : Answered \union {"none"}])
  /\ callbacks \union shown \union replied \union passed \subseteq 1..Len(asked)
  /\ alive \in BOOLEAN /\ asking \in BOOLEAN
  /\ ops \in Seq(Ops) /\ events \in Seq(Events)
  /\ turns \in Nat /\ turn \in 0..turns /\ ending \subseteq 1..turns
  /\ asking => turn # 0
  /\ asks \in 0..MaxAsks
  /\ answers \in [Requests -> Seq({"started", "end_turn", "cancelled", "aborted",
                                   "rolled_back", "failed", "busy", "error", "closed"})]
  /\ outcome \in [Requests -> {"none", "rolled_back", "failed"}]
  /\ owed \subseteq Requests

\* A thread that was just started, with the listener that goes with it.
Init ==
  /\ kind = [r \in Requests |-> "none"]
  /\ doing = None /\ step = "begin" /\ taken = None
  /\ prompt = None /\ interrupts = {} /\ rollback = None
  /\ \E l \in Listeners : stage = [m \in Listeners |-> IF m = l THEN "idle" ELSE "new"]
  /\ hand = [l \in Listeners |-> Idle] /\ stopping = {}
  /\ asked = <<>> /\ callbacks = {} /\ shown = {} /\ passed = {}
  /\ alive = TRUE /\ ops = <<>> /\ events = <<>>
  /\ turn = 0 /\ turns = 0 /\ ending = {} /\ asking = FALSE /\ asks = 0
  /\ answers = [r \in Requests |-> <<>>]
  /\ outcome = [r \in Requests |-> "none"]
  /\ owed = {} /\ replied = {}

-----------------------------------------------------------------------------
(* The processor. *)

Answer(r, a) == answers' = [answers EXCEPT ![r] = Append(@, a)]

\* The entry of a map is answered, if there is one.
AnswerEntry(entry, a) == IF entry = None THEN UNCHANGED answers ELSE Answer(entry, a)

Handling(kinds, at) == doing # None /\ kind[doing] \in kinds /\ step = at
Then(at) == step' = at /\ UNCHANGED doing
Handled == doing' = None /\ step' = "begin"

\* submit: an Op sent to a session that is gone is an error of the caller.
Submit(op, by) == alive /\ ops' = Append(ops, Op(op, by, 0))

Receive(r, k) ==
  /\ doing = None /\ kind[r] = "none"
  /\ \A q \in Requests : q < r => kind[q] # "none"
  /\ kind' = [kind EXCEPT ![r] = k] /\ doing' = r /\ step' = "begin"
  /\ UNCHANGED <<taken, mapVars, listenVars, askVars, sessionVars, histVars>>

\* session_prompt: pending before the turn is started.
RegisterPrompt ==
  /\ Handling({"prompt"}, "begin") /\ Then("submit")
  /\ prompt' = doing
  /\ UNCHANGED <<kind, taken, interrupts, rollback, listenVars, askVars, sessionVars, histVars>>

\* turn_start, for turn/start and for a prompt, which is not answered yet.
TurnStart ==
  /\ Handling({"start"}, "begin") \/ Handling({"prompt"}, "submit")
  /\ Submit("input", doing) /\ Handled
  /\ AnswerEntry(IF kind[doing] = "start" THEN doing ELSE None, "started")
  /\ UNCHANGED <<kind, taken, mapVars, listenVars, askVars,
                 alive, turnVars, events, outcome, owed, replied>>

TurnStartFails ==
  /\ Handling({"start"}, "begin") \/ Handling({"prompt"}, "submit")
  /\ ~alive /\ Answer(doing, "error") /\ Handled
  /\ prompt' = IF kind[doing] = "prompt" THEN None ELSE prompt
  /\ UNCHANGED <<kind, taken, interrupts, rollback, listenVars, askVars,
                 sessionVars, outcome, owed, replied>>

\* turn_interrupt: recorded, to be answered when TurnAborted arrives.
RecordInterrupt ==
  /\ Handling({"interrupt"}, "begin") /\ Then("submit")
  /\ interrupts' = interrupts \union {doing}
  /\ UNCHANGED <<kind, taken, prompt, rollback, listenVars, askVars, sessionVars, histVars>>

\* An interrupt, or the one of session_cancel; nobody looks at an error.
SubmitInterrupt ==
  /\ \/ Handling({"interrupt"}, "submit") /\ Handled
     \/ Handling({"cancel", "close"}, "submit") /\ Then("reply")
  /\ Submit("interrupt", doing) \/ (~alive /\ UNCHANGED ops)
  /\ UNCHANGED <<kind, taken, mapVars, listenVars, askVars,
                 alive, turnVars, events, histVars>>

\* Mutant: a rollback is recorded over the one in progress.
RecordRollbackOver ==
  /\ Handling({"rollback"}, "begin") /\ Then("submit")
  /\ rollback' = doing
  /\ UNCHANGED <<kind, taken, prompt, interrupts, listenVars, askVars, sessionVars, histVars>>

\* thread_rollback: one at a time.
RecordRollback ==
  /\ Handling({"rollback"}, "begin") /\ rollback = None /\ Then("submit")
  /\ rollback' = doing
  /\ UNCHANGED <<kind, taken, prompt, interrupts, listenVars, askVars, sessionVars, histVars>>

RefuseRollback ==
  /\ Handling({"rollback"}, "begin") /\ rollback # None /\ Handled
  /\ Answer(doing, "busy")
  /\ UNCHANGED <<kind, taken, mapVars, listenVars, askVars, sessionVars, outcome, owed, replied>>

SubmitRollback ==
  /\ Handling({"rollback"}, "submit") /\ Handled
  /\ Submit("rollback", doing)
  /\ UNCHANGED <<kind, taken, mapVars, listenVars, askVars,
                 alive, turnVars, events, histVars>>

SubmitRollbackFails ==
  /\ Handling({"rollback"}, "submit") /\ ~alive /\ Handled
  /\ rollback' = None /\ Answer(doing, "error")
  /\ UNCHANGED <<kind, taken, prompt, interrupts, listenVars, askVars,
                 sessionVars, outcome, owed, replied>>

\* session_cancel, also as the first part of session_close.
TakePrompt ==
  /\ Handling({"cancel", "close"}, "begin") /\ Then("submit")
  /\ taken' = prompt /\ prompt' = None
  /\ UNCHANGED <<kind, interrupts, rollback, listenVars, askVars, sessionVars, histVars>>

ReplyCancelled ==
  /\ \/ Handling({"cancel"}, "reply") /\ Handled
     \/ Handling({"close"}, "reply") /\ Then("detach")
  /\ AnswerEntry(taken, "cancelled") /\ taken' = None
  /\ UNCHANGED <<kind, mapVars, listenVars, askVars, sessionVars, outcome, owed, replied>>

Attached(l) == stage[l] \notin {"new", "off"} /\ l \notin stopping

Detach ==
  /\ Handling({"close"}, "detach") /\ Handled /\ Answer(doing, "closed")
  /\ stopping' = stopping \union {l \in Listeners : Attached(l)}
  /\ UNCHANGED <<kind, taken, mapVars, stage, hand, askVars, sessionVars, outcome, owed, replied>>

\* addConversationListener, removeConversationListener: any number of them.  It
\* takes a thread the manager has, and it has threads whose session is over.
AddListener(l) ==
  /\ doing = None /\ stage[l] = "new"
  /\ stage' = [stage EXCEPT ![l] = "idle"]
  /\ UNCHANGED <<procVars, mapVars, hand, stopping, askVars, sessionVars, histVars>>

RemoveListener(l) ==
  /\ doing = None /\ Attached(l) /\ stopping' = stopping \union {l}
  /\ UNCHANGED <<procVars, mapVars, stage, hand, askVars, sessionVars, histVars>>

-----------------------------------------------------------------------------
(* The listeners: each event goes to one of them. *)

Goto(l, from, to) == stage[l] = from /\ stage' = [stage EXCEPT ![l] = to]
Holds(l, e) == hand[l].event = e
Dropped(l) == hand' = [hand EXCEPT ![l] = Idle]

\* next_event, in the select.  The listener looks at the pending prompt for every
\* event; what it finds matters to the end of a turn.
NextEvent(l) ==
  /\ events # <<>> /\ events' = Tail(events)
  /\ hand' = [hand EXCEPT ![l] = Head(events)]
  /\ Goto(l, "idle", IF Head(events).event = "complete" THEN "look" ELSE "handle")
  /\ UNCHANGED <<procVars, mapVars, stopping, askVars, alive, ops, turnVars, histVars>>

\* The look itself, under the lock of the pending prompts.
LookForPrompt(l) ==
  /\ Goto(l, "look", IF prompt # None THEN "claim" ELSE "handle")
  /\ UNCHANGED <<procVars, mapVars, hand, stopping, askVars, sessionVars, histVars>>

\* Mutant: the prompt is answered and stays pending.
AnswerPromptAgain(l) ==
  /\ Goto(l, "claim", "handle")
  /\ AnswerEntry(prompt, "end_turn")
  /\ UNCHANGED <<procVars, mapVars, hand, stopping, askVars, sessionVars, outcome, owed, replied>>

\* The prompt is removed again to be answered: it may have gone meanwhile.
AnswerPrompt(l) ==
  /\ Goto(l, "claim", "handle")
  /\ AnswerEntry(prompt, "end_turn") /\ prompt' = None
  /\ UNCHANGED <<procVars, interrupts, rollback, hand, stopping, askVars,
                 sessionVars, outcome, owed, replied>>

HandleComplete(l) ==
  /\ Holds(l, "complete") /\ Goto(l, "handle", "idle") /\ Dropped(l)
  /\ UNCHANGED <<procVars, mapVars, stopping, askVars, sessionVars, histVars>>

HandleAborted(l) ==
  /\ Holds(l, "aborted") /\ Goto(l, "handle", "idle") /\ Dropped(l)
  /\ interrupts' = {}
  /\ answers' = [r \in Requests |->
       IF r \in interrupts THEN Append(answers[r], "aborted") ELSE answers[r]]
  /\ UNCHANGED <<procVars, prompt, rollback, stopping, askVars, sessionVars, outcome, owed, replied>>

\* Mutant: the rollback stays pending.
HandleFailedKeeps(l) ==
  /\ Holds(l, "failed") /\ Goto(l, "handle", "idle") /\ Dropped(l)
  /\ AnswerEntry(rollback, "failed")
  /\ UNCHANGED <<procVars, mapVars, stopping, askVars, sessionVars, outcome, owed, replied>>

\* The answer is read from the rollout, which may fail.
HandleRolledBack(l) ==
  /\ Holds(l, "rolled_back") /\ Goto(l, "handle", "idle") /\ Dropped(l)
  /\ \E a \in {"rolled_back", "error"} : AnswerEntry(rollback, a)
  /\ rollback' = None
  /\ UNCHANGED <<procVars, prompt, interrupts, stopping, askVars, sessionVars, outcome, owed, replied>>

HandleRollbackFailed(l) ==
  /\ Holds(l, "failed") /\ Goto(l, "handle", "idle") /\ Dropped(l)
  /\ AnswerEntry(rollback, "failed") /\ rollback' = None
  /\ UNCHANGED <<procVars, prompt, interrupts, stopping, askVars, sessionVars, outcome, owed, replied>>

\* Mutant: the request is sent, then its callback is stored.
StoreCallbackLate(l) ==
  /\ Holds(l, "ask") /\ Goto(l, "handle", "send")
  /\ asked' = Append(asked, [turn |-> hand[l].of, v1 |-> l \in V1, said |-> "none"])
  /\ hand' = [hand EXCEPT ![l] = Event("ask", Len(asked'))]
  /\ shown' = shown \union {Len(asked')}
  /\ UNCHANGED <<procVars, mapVars, stopping, callbacks, passed, sessionVars, histVars>>

\* send_request_with_id: the callback is stored, then the request is sent.
StoreCallback(l) ==
  /\ Holds(l, "ask") /\ Goto(l, "handle", "send")
  /\ asked' = Append(asked, [turn |-> hand[l].of, v1 |-> l \in V1, said |-> "none"])
  /\ hand' = [hand EXCEPT ![l] = Event("ask", Len(asked'))]
  /\ callbacks' = callbacks \union {Len(asked')}
  /\ UNCHANGED <<procVars, mapVars, stopping, shown, passed, sessionVars, histVars>>

\* The task that awaits the answer is spawned; an answer would wait for it.
SendRequest(l) ==
  /\ Goto(l, "send", "idle") /\ Dropped(l)
  /\ shown' = shown \union {hand[l].of}
  /\ UNCHANGED <<procVars, mapVars, stopping, asked, callbacks, passed, sessionVars, histVars>>

\* The select takes either branch as long as there are events.
ListenerStops(l) ==
  /\ l \in stopping \/ (~alive /\ events = <<>>)
  /\ Goto(l, "idle", "off")
  /\ UNCHANGED <<procVars, mapVars, hand, stopping, askVars, sessionVars, histVars>>

-----------------------------------------------------------------------------
(* The client's answers and the tasks that await them. *)

\* process_response, process_error: an error drops the sender of the callback.
ClientReplies(i, d) ==
  /\ doing = None /\ i \in shown /\ replied' = replied \union {i}
  /\ callbacks' = callbacks \ {i}
  /\ asked' = IF i \in callbacks THEN [asked EXCEPT ![i].said = d] ELSE asked
  /\ UNCHANGED <<procVars, mapVars, listenVars, shown, passed,
                 sessionVars, answers, outcome, owed>>

\* An error counts as denied, but for a command and the first version of the
\* API nothing is submitted then.
Lost(i) == asked[i].said = "error" /\ asked[i].v1

SubmitDecision(i) ==
  /\ i \in DOMAIN asked /\ asked[i].said # "none" /\ i \notin passed
  /\ passed' = passed \union {i}
  /\ LET op == Op(IF asked[i].said = "abort" THEN "abort" ELSE "decision", None, asked[i].turn)
     IN  \/ alive /\ ops' = Append(ops, op)
         \/ (~alive \/ Lost(i)) /\ UNCHANGED ops
  /\ UNCHANGED <<procVars, mapVars, listenVars, asked, callbacks, shown,
                 alive, turnVars, events, histVars>>

-----------------------------------------------------------------------------
(* The session: what SessionTurn says of its turns, as seen by a client. *)

Takes(op) == alive /\ ops # <<>> /\ Head(ops).op = op /\ ops' = Tail(ops)

\* A new turn, or more input of the running one.
TakeInput ==
  /\ Takes("input")
  /\ IF turn = 0 THEN turn' = turns + 1 /\ turns' = turns + 1
                 ELSE UNCHANGED <<turn, turns>>
  /\ UNCHANGED <<procVars, mapVars, listenVars, askVars, alive, ending, asking, asks, events, histVars>>

\* The running turn is aborted; it may have been past its last look at the
\* token, and then it is reported as completed as well.
TakeInterrupt ==
  /\ Takes("interrupt") \/ Takes("abort")
  /\ IF turn = 0 THEN UNCHANGED <<turn, ending, asking, events, owed>>
     ELSE /\ turn' = 0 /\ asking' = FALSE
          /\ \/ events' = Append(events, Event("aborted", turn)) /\ UNCHANGED ending
             \/ ~asking /\ ending' = ending \union {turn}
                        /\ events' = Append(events, Event("aborted", turn))
             \/ ~asking /\ UNCHANGED ending
                        /\ events' = events \o <<Event("complete", turn), Event("aborted", turn)>>
          /\ owed' = owed \union
               {r \in Requests : r = Head(ops).by /\ kind[r] = "interrupt"}
  /\ UNCHANGED <<procVars, mapVars, listenVars, askVars, alive, turns, asks,
                 answers, outcome, replied>>

\* Refused during a turn, and by one that was left active.
TakeRollback ==
  /\ Takes("rollback")
  /\ \E o \in {"rolled_back", "failed"} :
       /\ turn # 0 => o = "failed"
       /\ events' = Append(events, Event(o, 0))
       /\ outcome' = [outcome EXCEPT ![Head(ops).by] = o]
  /\ UNCHANGED <<procVars, mapVars, listenVars, askVars, alive, turnVars, answers, owed, replied>>

\* notify_approval.
TakeDecision ==
  /\ Takes("decision")
  /\ asking' = (asking /\ Head(ops).turn # turn)
  /\ UNCHANGED <<procVars, mapVars, listenVars, askVars, alive, turn, turns, ending, asks,
                 events, histVars>>

AskClient ==
  /\ alive /\ turn # 0 /\ ~asking /\ asks < MaxAsks
  /\ asking' = TRUE /\ asks' = asks + 1
  /\ events' = Append(events, Event("ask", turn))
  /\ UNCHANGED <<procVars, mapVars, listenVars, askVars, alive, ops, turn, turns, ending, histVars>>

\* Mutant: the turn does not wait for the approval.
FinishWhileAsking ==
  /\ alive /\ turn # 0
  /\ turn' = 0 /\ ending' = ending \union {turn}
  /\ UNCHANGED <<procVars, mapVars, listenVars, askVars, alive, ops, turns, asking, asks,
                 events, histVars>>

\* on_task_finished: the turn is over, then reported, if its task survives.
FinishTurn ==
  /\ alive /\ turn # 0 /\ ~asking
  /\ turn' = 0 /\ ending' = ending \union {turn}
  /\ UNCHANGED <<procVars, mapVars, listenVars, askVars, alive, ops, turns, asking, asks,
                 events, histVars>>

ReportTurn ==
  /\ \E t \in ending :
       /\ ending' = ending \ {t}
       /\ events' = Append(events, Event("complete", t)) \/ UNCHANGED events
  /\ UNCHANGED <<procVars, mapVars, listenVars, askVars, alive, ops, turn, turns, asking, asks,
                 histVars>>

\* The loop ends, and with it the turn and what was queued for it.
SessionEnds ==
  /\ alive /\ alive' = FALSE /\ ops' = <<>> /\ turn' = 0 /\ asking' = FALSE
  /\ \/ UNCHANGED events
     \/ turn # 0 /\ events' = Append(events, Event("aborted", turn))
  /\ UNCHANGED <<procVars, mapVars, listenVars, askVars, turns, ending, asks, histVars>>

-----------------------------------------------------------------------------
ProcessorStep ==
  \/ RegisterPrompt \/ TurnStart \/ TurnStartFails
  \/ RecordInterrupt \/ SubmitInterrupt
  \/ RecordRollback \/ RefuseRollback \/ SubmitRollback \/ SubmitRollbackFails
  \/ TakePrompt \/ ReplyCancelled \/ Detach

ListenerStep(l) ==
  \/ NextEvent(l) \/ LookForPrompt(l) \/ AnswerPrompt(l) \/ HandleComplete(l) \/ HandleAborted(l)
  \/ HandleRolledBack(l) \/ HandleRollbackFailed(l) \/ StoreCallback(l) \/ SendRequest(l)
  \/ ListenerStops(l)

TakeOp == TakeInput \/ TakeInterrupt \/ TakeRollback \/ TakeDecision

Next ==
  \/ \E r \in Requests, k \in Kinds : Receive(r, k)
  \/ ProcessorStep
  \/ \E l \in Listeners : AddListener(l) \/ RemoveListener(l) \/ ListenerStep(l)
  \/ \E i \in DOMAIN asked :
       SubmitDecision(i) \/ \E d \in Answered : ClientReplies(i, d)
  \/ TakeOp \/ AskClient \/ FinishTurn \/ ReportTurn \/ SessionEnds

Spec == Init /\ [][Next]_vars

\* Every task that can go on does.  Nothing is assumed of the client, nor of
\* the turns: one may run, and wait for an approval, for ever.
FairSpec ==
  /\ Spec
  /\ WF_vars(ProcessorStep) /\ WF_vars(TakeOp)
  /\ \A l \in Listeners : WF_vars(ListenerStep(l))
  /\ \A i \in 1..MaxAsks : WF_vars(SubmitDecision(i))

-----------------------------------------------------------------------------
(* Properties. *)

\* A request is answered once at most, whoever finds it pending: a prompt may
\* be cancelled while a listener has a TurnComplete in hand.  (But a prompt that
\* an earlier turn's TurnComplete answered is answered again when it then fails
\* to start.)  And a rollback is answered by its own outcome, although events
\* name no request.
AnswersMatch ==
  \A r \in Requests :
    /\ Len(answers[r]) <= 1 \/ (answers[r] = <<"end_turn", "error">> /\ ~alive)
    /\ answers[r] = <<"rolled_back">> => outcome[r] = "rolled_back"
    /\ answers[r] = <<"failed">> => outcome[r] = "failed"
    /\ answers[r] = <<"error">> => outcome[r] = "rolled_back" \/ ~alive

\* The client's first answer to a request of the server finds its callback,
\* however soon it comes.
ClientIsHeard == \A i \in replied : asked[i].said # "none"

\* An event that a listener will handle, or has in hand.
OnItsWay(e) ==
  \/ \E i \in DOMAIN events : events[i].event = e
  \/ \E l \in Listeners : stage[l] \in {"look", "claim", "handle"} /\ hand[l].event = e

\* Nothing stays pending that no event will answer: the rollback that was
\* submitted is in the queue of a live session or its outcome is on its way,
\* and an interrupt that aborted a turn is answered, or pending with a
\* TurnAborted on its way, whichever listener takes the events.
AnswersAreComing ==
  /\ rollback # None /\ doing # rollback =>
       IF outcome[rollback] = "none"
         THEN ~alive \/ \E i \in DOMAIN ops : ops[i] = Op("rollback", rollback, 0)
         ELSE OnItsWay(outcome[rollback])
  /\ \A r \in owed : answers[r] = <<>> => r \in interrupts /\ OnItsWay("aborted")

\* The running turn waits for the i-th request of the server.
WaitsFor(i) == asking /\ asks = i /\ i \in DOMAIN asked /\ asked[i].turn = turn

Deaf == \A l \in Listeners : ~Attached(l)

\* As long as somebody listens: a rollback is answered unless its session has
\* ended, an interrupt that aborted a turn is answered, and a turn that waits
\* for an approval the client has decided on goes on (but for an error that a
\* listener of the first version of the API was told of).
RequestsAnswered ==
  /\ \A r \in Requests :
       /\ rollback = r ~> answers[r] # <<>> \/ ~alive \/ Deaf
       /\ r \in owed ~> answers[r] # <<>> \/ Deaf
  /\ \A i \in 1..MaxAsks : i \in replied /\ ~Lost(i) ~> ~WaitsFor(i)
=============================================================================
