--------------------------- MODULE AppServer_proofs ---------------------------
(* Proofs about AppServer, for any number of requests, listeners and          *)
(* approvals.                                                                 *)
EXTENDS AppServer, SequenceTheorems, TLAPS

USE RequestAssumption

-----------------------------------------------------------------------------
(* Types, and the requests of the server. *)

Said == Answered \union {"none"}
AskRecord == [turn : Nat, v1 : BOOLEAN, said : Said]
Outcomes == {"started", "end_turn", "cancelled", "aborted",
             "rolled_back", "failed", "busy", "error", "closed"}

\* A listener that is about to send a request has stored its callback, and
\* whoever waits without a callback has heard the client.
Sending == \A l \in Listeners : stage[l] = "send" => hand[l].of \in DOMAIN asked
Heard == \A i \in DOMAIN asked : i \in callbacks \/ asked[i].said # "none"
NotHeardTwice == replied \intersect callbacks = {}

AskInv == TypeOK /\ Sending /\ Heard /\ NotHeardTwice

LEMMA InitAsk == Init => AskInv
<1> SUFFICES ASSUME Init PROVE AskInv
  OBVIOUS
<1>1. asked = <<>> /\ DOMAIN asked = {} /\ 1..Len(asked) = {}
  BY DEF Init
<1>2. asked \in Seq(AskRecord) /\ ops \in Seq(Ops) /\ events \in Seq(Events)
  BY DEF Init
<1>3. answers \in [Requests -> Seq(Outcomes)]
  BY DEF Init
<1>4. hand \in [Listeners -> Events]
  BY DEF Init, Idle, Event, Events
<1>5. Sending /\ Heard /\ NotHeardTwice
  BY <1>1 DEF Init, Sending, Heard, NotHeardTwice
<1>6. stage \in [Listeners -> {"new", "idle", "look", "claim", "handle", "send", "off"}]
  BY DEF Init
<1>7. callbacks \union shown \union replied \union passed \subseteq 1..Len(asked)
  BY DEF Init
<1>8. /\ kind \in [Requests -> Kinds \union {"none"}]
      /\ outcome \in [Requests -> {"none", "rolled_back", "failed"}]
  BY DEF Init
<1>9. /\ doing = None /\ step = "begin" /\ taken = None /\ prompt = None /\ rollback = None
      /\ interrupts = {} /\ stopping = {} /\ alive = TRUE /\ asking = FALSE
      /\ turn = 0 /\ turns = 0 /\ ending = {} /\ asks = 0 /\ owed = {}
  BY DEF Init
<1>10. turn \in 0..turns /\ asks \in 0..MaxAsks
  BY <1>9
<1> QED BY <1>2, <1>3, <1>4, <1>5, <1>6, <1>7, <1>8, <1>9, <1>10
        DEF AskInv, TypeOK, AskRecord, Said, Outcomes

\* What an answer does to the answers.
LEMMA AnswerType ==
  ASSUME TypeOK, NEW r, NEW a \in Outcomes, r \in Requests, Answer(r, a)
  PROVE  answers' \in [Requests -> Seq(Outcomes)]
<1>1. Append(answers[r], a) \in Seq(Outcomes)
  BY DEF TypeOK, Outcomes
<1> QED BY <1>1 DEF Answer, TypeOK, Outcomes

LEMMA AnswerEntryType ==
  ASSUME TypeOK, NEW r, NEW a \in Outcomes, r \in Requests \union {None}, AnswerEntry(r, a)
  PROVE  answers' \in [Requests -> Seq(Outcomes)]
BY AnswerType DEF AnswerEntry, TypeOK, Outcomes

LEMMA SubmitType ==
  ASSUME TypeOK, NEW op \in {"input", "interrupt", "rollback"}, NEW r \in Requests, Submit(op, r)
  PROVE  ops' \in Seq(Ops)
<1>1. Op(op, r, 0) \in Ops
  BY DEF Op, Ops
<1> QED BY <1>1 DEF Submit, TypeOK

LEMMA ProcessorAsk ==
  ASSUME AskInv, ProcessorStep
  PROVE  AskInv'
<1> USE DEF AskInv, Sending, Heard, NotHeardTwice, procVars, mapVars, listenVars, askVars,
            turnVars, sessionVars, histVars
<1>1. CASE RegisterPrompt
  BY <1>1 DEF RegisterPrompt, Handling, Then, TypeOK
<1>2. CASE TurnStart
  <2>1. doing \in Requests
    BY <1>2 DEF TurnStart, Handling, TypeOK
  <2>2. ops' \in Seq(Ops)
    BY <1>2, <2>1, SubmitType DEF TurnStart
  <2>3. answers' \in [Requests -> Seq(Outcomes)]
    BY <1>2, <2>1, AnswerEntryType DEF TurnStart, Outcomes
  <2> QED BY <1>2, <2>2, <2>3 DEF TurnStart, Handled, TypeOK, Outcomes
<1>3. CASE TurnStartFails
  <2>1. doing \in Requests
    BY <1>3 DEF TurnStartFails, Handling, TypeOK
  <2>3. answers' \in [Requests -> Seq(Outcomes)]
    BY <1>3, <2>1, AnswerType DEF TurnStartFails, Outcomes
  <2> QED BY <1>3, <2>3 DEF TurnStartFails, Handled, TypeOK, Outcomes
<1>4. CASE RecordInterrupt
  BY <1>4 DEF RecordInterrupt, Handling, Then, TypeOK
<1>5. CASE SubmitInterrupt
  <2>1. doing \in Requests
    BY <1>5 DEF SubmitInterrupt, Handling, TypeOK
  <2>2. ops' \in Seq(Ops)
    <3>1. CASE Submit("interrupt", doing)
      BY <3>1, <2>1, SubmitType
    <3> QED BY <3>1, <1>5 DEF SubmitInterrupt, TypeOK
  <2>3. doing' \in Requests \union {None} /\ step' \in {"begin", "reply"}
    BY <1>5, <2>1 DEF SubmitInterrupt, Handled, Then
  <2> QED BY <1>5, <2>2, <2>3 DEF SubmitInterrupt, TypeOK
<1>6. CASE RecordRollback
  BY <1>6 DEF RecordRollback, Handling, Then, TypeOK
<1>7. CASE RefuseRollback
  <2>1. doing \in Requests
    BY <1>7 DEF RefuseRollback, Handling, TypeOK
  <2>3. answers' \in [Requests -> Seq(Outcomes)]
    BY <1>7, <2>1, AnswerType DEF RefuseRollback, Outcomes
  <2> QED BY <1>7, <2>3 DEF RefuseRollback, Handled, TypeOK, Outcomes
<1>8. CASE SubmitRollback
  <2>1. doing \in Requests
    BY <1>8 DEF SubmitRollback, Handling, TypeOK
  <2>2. ops' \in Seq(Ops)
    BY <1>8, <2>1, SubmitType DEF SubmitRollback
  <2> QED BY <1>8, <2>2 DEF SubmitRollback, Handled, TypeOK
<1>9. CASE SubmitRollbackFails
  <2>1. doing \in Requests
    BY <1>9 DEF SubmitRollbackFails, Handling, TypeOK
  <2>3. answers' \in [Requests -> Seq(Outcomes)]
    BY <1>9, <2>1, AnswerType DEF SubmitRollbackFails, Outcomes
  <2> QED BY <1>9, <2>3 DEF SubmitRollbackFails, Handled, TypeOK, Outcomes
<1>10. CASE TakePrompt
  BY <1>10 DEF TakePrompt, Handling, Then, TypeOK
<1>11. CASE ReplyCancelled
  <2>3. answers' \in [Requests -> Seq(Outcomes)]
    BY <1>11, AnswerEntryType DEF ReplyCancelled, Outcomes, TypeOK
  <2> QED BY <1>11, <2>3 DEF ReplyCancelled, Handling, Handled, Then, TypeOK, Outcomes
<1>12. CASE Detach
  <2>1. doing \in Requests
    BY <1>12 DEF Detach, Handling, TypeOK
  <2>3. answers' \in [Requests -> Seq(Outcomes)]
    BY <1>12, <2>1, AnswerType DEF Detach, Outcomes
  <2> QED BY <1>12, <2>3 DEF Detach, Handled, TypeOK, Outcomes
<1> QED BY <1>1, <1>2, <1>3, <1>4, <1>5, <1>6, <1>7, <1>8, <1>9, <1>10, <1>11, <1>12
        DEF ProcessorStep

LEMMA ListenerAsk ==
  ASSUME AskInv, NEW l \in Listeners, ListenerStep(l)
  PROVE  AskInv'
<1> USE DEF AskInv, Sending, Heard, NotHeardTwice, procVars, mapVars, listenVars, askVars,
            turnVars, sessionVars, histVars
<1>1. CASE NextEvent(l)
  <2>1. Head(events) \in Events /\ Tail(events) \in Seq(Events)
    BY <1>1 DEF NextEvent, TypeOK
  <2> QED BY <1>1, <2>1 DEF NextEvent, Goto, TypeOK
<1>12. CASE LookForPrompt(l)
  BY <1>12 DEF LookForPrompt, Goto, TypeOK
<1>2. CASE AnswerPrompt(l)
  <2>1. answers' \in [Requests -> Seq(Outcomes)]
    BY <1>2, AnswerEntryType DEF AnswerPrompt, Outcomes, TypeOK
  <2> QED BY <1>2, <2>1 DEF AnswerPrompt, Goto, TypeOK, Outcomes
<1>3. Idle \in Events
  BY DEF Idle, Event, Events
<1>4. CASE HandleComplete(l)
  BY <1>3, <1>4 DEF HandleComplete, Goto, Dropped, TypeOK
<1>5. CASE HandleAborted(l)
  <2>1. answers' \in [Requests -> Seq(Outcomes)]
    <3>1. ASSUME NEW r \in Requests
          PROVE  Append(answers[r], "aborted") \in Seq(Outcomes) /\ answers[r] \in Seq(Outcomes)
      BY DEF TypeOK, Outcomes
    <3> QED BY <1>5, <3>1 DEF HandleAborted
  <2> QED BY <1>3, <1>5, <2>1 DEF HandleAborted, Goto, Dropped, TypeOK, Outcomes
<1>6. CASE HandleRolledBack(l)
  <2>1. answers' \in [Requests -> Seq(Outcomes)]
    BY <1>6, AnswerEntryType DEF HandleRolledBack, Outcomes, TypeOK
  <2> QED BY <1>3, <1>6, <2>1 DEF HandleRolledBack, Goto, Dropped, TypeOK, Outcomes
<1>7. CASE HandleRollbackFailed(l)
  <2>1. answers' \in [Requests -> Seq(Outcomes)]
    BY <1>7, AnswerEntryType DEF HandleRollbackFailed, Outcomes, TypeOK
  <2> QED BY <1>3, <1>7, <2>1 DEF HandleRollbackFailed, Goto, Dropped, TypeOK, Outcomes
<1>8. CASE StoreCallback(l)
  <2> DEFINE new == [turn |-> hand[l].of, v1 |-> l \in V1, said |-> "none"]
             n == Len(asked) + 1
  <2>1. hand[l].of \in Nat
    BY DEF TypeOK, Events
  <2>2. new \in AskRecord
    BY <2>1 DEF AskRecord, Said
  <2>3. asked \in Seq(AskRecord)
    BY DEF TypeOK, AskRecord, Said
  <2>4. /\ asked' = Append(asked, new) /\ callbacks' = callbacks \union {Len(asked')}
        /\ hand' = [hand EXCEPT ![l] = Event("ask", Len(asked'))]
        /\ stage' = [stage EXCEPT ![l] = "send"]
        /\ UNCHANGED <<procVars, mapVars, stopping, shown, passed, sessionVars, histVars>>
    BY <1>8 DEF StoreCallback, Goto
  <2> HIDE DEF new
  <2>5. /\ asked' \in Seq(AskRecord) /\ Len(asked') = n /\ n \in Nat
        /\ DOMAIN asked = 1..Len(asked) /\ DOMAIN asked' = 1..n
        /\ \A i \in 1..Len(asked) : asked'[i] = asked[i]
    BY <2>2, <2>3, <2>4
  <2>6. Event("ask", n) \in Events
    BY <2>5 DEF Event, Events
  <2>7. callbacks' \union shown' \union replied' \union passed' \subseteq 1..Len(asked')
    BY <2>4, <2>5 DEF TypeOK
  <2>8. TypeOK'
    BY <2>4, <2>5, <2>6, <2>7 DEF TypeOK, AskRecord, Said
  <2>9. Sending' /\ Heard' /\ NotHeardTwice'
    <3>1. Sending'
      BY <2>4, <2>5 DEF TypeOK, Event
    <3>2. Heard' /\ NotHeardTwice'
      BY <2>4, <2>5 DEF TypeOK
    <3> QED BY <3>1, <3>2
  <2> QED BY <2>8, <2>9
<1>9. CASE SendRequest(l)
  <2>1. hand[l].of \in DOMAIN asked /\ DOMAIN asked = 1..Len(asked)
    BY <1>9 DEF SendRequest, Goto, TypeOK
  <2> QED BY <1>3, <1>9, <2>1 DEF SendRequest, Goto, Dropped, TypeOK
<1>10. CASE ListenerStops(l)
  BY <1>10 DEF ListenerStops, Goto, TypeOK
<1> QED BY <1>1, <1>2, <1>4, <1>5, <1>6, <1>7, <1>8, <1>9, <1>10, <1>12 DEF ListenerStep

LEMMA ClientAsk ==
  ASSUME AskInv, NEW i \in DOMAIN asked,
         SubmitDecision(i) \/ \E d \in Answered : ClientReplies(i, d)
  PROVE  AskInv'
<1> USE DEF AskInv, Sending, Heard, NotHeardTwice, procVars, mapVars, listenVars, askVars,
            turnVars, sessionVars, histVars
<1>0. asked \in Seq(AskRecord) /\ ops \in Seq(Ops)
  BY DEF TypeOK, AskRecord, Said
<1>1. /\ asked \in Seq(AskRecord) /\ DOMAIN asked = 1..Len(asked)
      /\ asked[i] \in AskRecord
  BY <1>0
<1>2. ASSUME NEW d \in Answered, ClientReplies(i, d)
      PROVE  AskInv'
  <2>1. [asked[i] EXCEPT !.said = d] \in AskRecord /\ d # "none"
    BY <1>1, <1>2 DEF AskRecord, Said, Answered
  <2>2. /\ asked' = IF i \in callbacks THEN [asked EXCEPT ![i] = [asked[i] EXCEPT !.said = d]]
                                      ELSE asked
        /\ callbacks' = callbacks \ {i} /\ replied' = replied \union {i} /\ i \in shown
        /\ UNCHANGED <<procVars, mapVars, listenVars, shown, passed, sessionVars,
                       answers, outcome, owed>>
    BY <1>2 DEF ClientReplies
  <2>3. asked' \in Seq(AskRecord) /\ Len(asked') = Len(asked) /\ DOMAIN asked' = DOMAIN asked
    BY <1>1, <2>1, <2>2
  <2>4. /\ \A j \in DOMAIN asked : j # i => asked'[j] = asked[j]
        /\ i \in callbacks => asked'[i].said = d
        /\ i \notin callbacks => asked'[i] = asked[i]
    BY <1>1, <2>1, <2>2 DEF AskRecord
  <2>5. TypeOK'
    <3>1. callbacks' \union shown' \union replied' \union passed' \subseteq 1..Len(asked')
      BY <1>1, <2>2, <2>3 DEF TypeOK
    <3>2. UNCHANGED <<procVars, mapVars, listenVars, sessionVars, answers, outcome, owed>>
      BY <2>2
    <3> QED BY <2>3, <3>1, <3>2 DEF TypeOK, AskRecord, Said
  <2>6. Sending' /\ Heard' /\ NotHeardTwice'
    BY <2>1, <2>2, <2>3, <2>4
  <2> QED BY <2>5, <2>6
<1>3. CASE SubmitDecision(i)
  <2> DEFINE op == Op(IF asked[i].said = "abort" THEN "abort" ELSE "decision",
                      None, asked[i].turn)
  <2>1. op \in Ops
    BY <1>1 DEF Op, Ops, AskRecord
  <2>2. ops' \in Seq(Ops)
    <3>1. ops' = Append(ops, op) \/ ops' = ops
      BY <1>3 DEF SubmitDecision
    <3> HIDE DEF op
    <3> QED BY <1>0, <2>1, <3>1
  <2> QED BY <1>1, <1>3, <2>2 DEF SubmitDecision, TypeOK
<1> QED BY <1>2, <1>3

LEMMA EmitType ==
  ASSUME TypeOK, NEW e \in {"complete", "aborted", "rolled_back", "failed", "ask"},
         NEW n \in Nat
  PROVE  Event(e, n) \in Events /\ Append(events, Event(e, n)) \in Seq(Events)
<1>1. Event(e, n) \in Events
  BY DEF Event, Events
<1> QED BY <1>1 DEF TypeOK

LEMMA SessionAsk ==
  ASSUME AskInv, TakeOp \/ AskClient \/ FinishTurn \/ ReportTurn \/ SessionEnds
  PROVE  AskInv'
<1> USE DEF AskInv, Sending, Heard, NotHeardTwice, procVars, mapVars, listenVars, askVars,
            turnVars, sessionVars, histVars
<1>1. /\ turn \in Nat /\ turns \in Nat /\ turn \in 0..turns /\ ending \subseteq 1..turns
      /\ asks \in 0..MaxAsks /\ events \in Seq(Events) /\ ops \in Seq(Ops)
  BY DEF TypeOK
<1>2. ops # <<>> => Tail(ops) \in Seq(Ops)
  BY <1>1
<1>3. CASE TakeInput
  BY <1>1, <1>2, <1>3 DEF TakeInput, Takes, TypeOK
<1>4. CASE TakeInterrupt
  <2>1. events' \in Seq(Events)
    <3>1. /\ Event("aborted", turn) \in Events /\ Event("complete", turn) \in Events
          /\ Append(events, Event("aborted", turn)) \in Seq(Events)
      BY <1>1, EmitType
    <3>2. events \o <<Event("complete", turn), Event("aborted", turn)>> \in Seq(Events)
      BY <1>1, <3>1
    <3> QED BY <1>1, <1>4, <3>1, <3>2 DEF TakeInterrupt
  <2>2. ops' \in Seq(Ops)
    BY <1>2, <1>4 DEF TakeInterrupt, Takes
  <2>3. /\ turn' \in 0..turns' /\ ending' \subseteq 1..turns' /\ asking' \in BOOLEAN
        /\ (asking' => turn' # 0) /\ owed' \subseteq Requests
    <3>1. turn' \in 0..turns' /\ ending' \subseteq 1..turns'
      <4>1. /\ turns' = turns /\ turn' \in {turn, 0}
            /\ ending' \in {ending, ending \union {turn}}
            /\ turn = 0 => ending' = ending
        BY <1>4 DEF TakeInterrupt
      <4>2. turn # 0 => turn \in 1..turns
        BY <1>1
      <4> QED BY <1>1, <4>1, <4>2
    <3>2. asking' \in BOOLEAN /\ (asking' => turn' # 0)
      BY <1>4 DEF TakeInterrupt, TypeOK
    <3>3. owed' \subseteq Requests
      BY <1>4 DEF TakeInterrupt, TypeOK
    <3> QED BY <3>1, <3>2, <3>3
  <2>4. /\ UNCHANGED <<procVars, mapVars, listenVars, askVars, turns, asks,
                       answers, outcome, replied>>
        /\ alive' \in BOOLEAN
    BY <1>4 DEF TakeInterrupt, TypeOK
  <2> QED BY <1>1, <2>1, <2>2, <2>3, <2>4 DEF TypeOK
<1>5. CASE TakeRollback
  <2>1. events' \in Seq(Events)
    BY <1>5, EmitType DEF TakeRollback
  <2>2. outcome' \in [Requests -> {"none", "rolled_back", "failed"}]
    BY <1>5 DEF TakeRollback, TypeOK
  <2> QED BY <1>1, <1>2, <1>5, <2>1, <2>2 DEF TakeRollback, Takes, TypeOK
<1>6. CASE TakeDecision
  BY <1>1, <1>2, <1>6 DEF TakeDecision, Takes, TypeOK
<1>7. CASE AskClient
  <2>1. events' \in Seq(Events)
    BY <1>1, <1>7, EmitType DEF AskClient
  <2> QED BY <1>1, <1>7, <2>1 DEF AskClient, TypeOK
<1>8. CASE FinishTurn
  BY <1>1, <1>8 DEF FinishTurn, TypeOK
<1>9. CASE ReportTurn
  <2>1. PICK t \in ending :
          /\ ending' = ending \ {t}
          /\ events' = Append(events, Event("complete", t)) \/ UNCHANGED events
    BY <1>9 DEF ReportTurn
  <2>2. events' \in Seq(Events) /\ ending' \subseteq 1..turns
    <3>1. t \in Nat
      BY <1>1
    <3>2. Append(events, Event("complete", t)) \in Seq(Events)
      BY <3>1, EmitType
    <3>3. events' \in Seq(Events)
      BY <1>1, <2>1, <3>2
    <3>4. ending' \subseteq 1..turns
      <4>1. ending' = ending \ {t}
        BY <2>1
      <4> QED BY <1>1, <4>1
    <3> QED BY <3>3, <3>4
  <2> QED BY <1>1, <1>9, <2>2 DEF ReportTurn, TypeOK
<1>10. CASE SessionEnds
  <2>1. events' \in Seq(Events)
    BY <1>1, <1>10, EmitType DEF SessionEnds
  <2>2. ops' \in Seq(Ops) /\ turn' \in 0..turns'
    BY <1>1, <1>10 DEF SessionEnds
  <2> QED BY <1>1, <1>10, <2>1, <2>2 DEF SessionEnds, TypeOK
<1> QED BY <1>3, <1>4, <1>5, <1>6, <1>7, <1>8, <1>9, <1>10 DEF TakeOp

LEMMA NextAsk == AskInv /\ [Next]_vars => AskInv'
<1> SUFFICES ASSUME AskInv, [Next]_vars PROVE AskInv'
  OBVIOUS
<1> USE DEF AskInv, Sending, Heard, NotHeardTwice, procVars, mapVars, listenVars, askVars,
            turnVars, sessionVars, histVars
<1>1. CASE UNCHANGED vars
  BY <1>1 DEF vars, TypeOK
<1>2. ASSUME NEW r \in Requests, NEW k \in Kinds, Receive(r, k)
      PROVE  AskInv'
  BY <1>2 DEF Receive, TypeOK
<1>3. ASSUME NEW l \in Listeners, AddListener(l) \/ RemoveListener(l)
      PROVE  AskInv'
  <2>1. /\ stage' \in [Listeners -> {"new", "idle", "look", "claim", "handle", "send", "off"}]
        /\ \A m \in Listeners : stage'[m] = "send" => stage[m] = "send"
        /\ stopping' \subseteq Listeners
    BY <1>3 DEF AddListener, RemoveListener, TypeOK
  <2>2. UNCHANGED <<procVars, mapVars, hand, askVars, sessionVars, histVars>>
    BY <1>3 DEF AddListener, RemoveListener
  <2> QED BY <2>1, <2>2 DEF TypeOK
<1> QED BY <1>1, <1>2, <1>3, ProcessorAsk, ListenerAsk, ClientAsk, SessionAsk DEF Next

\* Types, and that no approval is submitted for a request that was not made.
THEOREM TypeCorrect == Spec => []TypeOK
<1>1. AskInv => TypeOK
  BY DEF AskInv
<1> QED BY <1>1, InitAsk, NextAsk, PTL DEF Spec

\* The client is heard whenever it answers.
THEOREM TheClientIsHeard == Spec => []ClientIsHeard
<1>1. AskInv => ClientIsHeard
  BY DEF AskInv, TypeOK, Heard, NotHeardTwice, ClientIsHeard
<1> QED BY <1>1, InitAsk, NextAsk, PTL DEF Spec

-----------------------------------------------------------------------------
(* Answers. *)

IsOutcome(e) == e.event \in {"rolled_back", "failed"}
IsRollback(op) == op.op = "rollback"

\* The rollback that is pending has been handed to the session.
Submitted == rollback # None /\ doing # rollback

\* Events and Ops name no request; but there is one Op or one outcome on its
\* way at most, and it belongs to the pending rollback.
OpOfPending == \A i \in DOMAIN ops : IsRollback(ops[i]) =>
  /\ Submitted /\ ops[i].by = rollback /\ outcome[rollback] = "none"
  /\ \A j \in DOMAIN ops : IsRollback(ops[j]) => j = i
EventOfPending == \A i \in DOMAIN events : IsOutcome(events[i]) =>
  /\ Submitted /\ outcome[rollback] = events[i].event
  /\ \A j \in DOMAIN events : IsOutcome(events[j]) => j = i
  /\ \A l \in Listeners : ~IsOutcome(hand[l])
HandOfPending == \A l \in Listeners : IsOutcome(hand[l]) =>
  /\ Submitted /\ outcome[rollback] = hand[l].event
  /\ \A m \in Listeners : IsOutcome(hand[m]) => m = l

\* What is pending is of its kind, has no answer yet, and is not at the
\* beginning of its handler.
Fresh == \A r \in Requests : kind[r] = "none" => answers[r] = <<>> /\ outcome[r] = "none"
PromptOpen == prompt # None =>
  kind[prompt] = "prompt" /\ answers[prompt] = <<>> /\ (doing = prompt => step = "submit")
TakenOpen == taken # None =>
  /\ kind[taken] = "prompt" /\ answers[taken] = <<>> /\ prompt = None
  /\ doing # None /\ kind[doing] \in {"cancel", "close"} /\ step # "detach"
InterruptsOpen == \A r \in interrupts :
  kind[r] = "interrupt" /\ answers[r] = <<>> /\ (doing = r => step = "submit")
RollbackOpen == rollback # None =>
  /\ kind[rollback] = "rollback" /\ answers[rollback] = <<>>
  /\ doing = rollback => step = "submit"

\* The processor has not answered what it handles; a prompt may have been
\* answered under its hands.
DoingOpen == doing # None =>
  /\ kind[doing] # "none"
  /\ kind[doing] \notin {"prompt", "interrupt"} \/ step = "begin" => answers[doing] = <<>>
  /\ kind[doing] = "prompt" => answers[doing] \in {<<>>, <<"end_turn">>}
  /\ kind[doing] = "rollback" =>
       outcome[doing] = "none" /\ (step # "begin" => rollback = doing)

Pending == Fresh /\ PromptOpen /\ TakenOpen /\ InterruptsOpen /\ RollbackOpen /\ DoingOpen
InFlight == OpOfPending /\ EventOfPending /\ HandOfPending

AnswerInv == AskInv /\ Pending /\ InFlight /\ AnswersMatch

LEMMA InitAnswer == Init => AnswerInv
<1> SUFFICES ASSUME Init PROVE AnswerInv
  OBVIOUS
<1>1. AskInv
  BY InitAsk
<1>2. /\ ops = <<>> /\ events = <<>> /\ DOMAIN ops = {} /\ DOMAIN events = {}
      /\ \A l \in Listeners : ~IsOutcome(hand[l])
  BY DEF Init, Idle, Event, IsOutcome
<1>3. InFlight
  BY <1>2 DEF InFlight, OpOfPending, EventOfPending, HandOfPending
<1>4. \A r \in Requests : answers[r] = <<>> /\ outcome[r] = "none"
  BY DEF Init
<1>5. Pending
  BY <1>4 DEF Init, Pending, Fresh, PromptOpen, TakenOpen, InterruptsOpen, RollbackOpen, DoingOpen
<1>6. AnswersMatch
  BY <1>4 DEF AnswersMatch
<1> QED BY <1>1, <1>3, <1>5, <1>6 DEF AnswerInv

LEMMA TailFacts ==
  ASSUME NEW S, NEW s \in Seq(S), s # <<>>
  PROVE  /\ Head(s) = s[1] /\ 1 \in DOMAIN s
         /\ \A i \in DOMAIN Tail(s) : i + 1 \in DOMAIN s /\ Tail(s)[i] = s[i + 1] /\ i \in Nat
OBVIOUS

LEMMA AppendFacts ==
  ASSUME NEW S, NEW s \in Seq(S), NEW x \in S
  PROVE  \A i \in DOMAIN Append(s, x) :
           \/ i \in DOMAIN s /\ Append(s, x)[i] = s[i]
           \/ i = Len(s) + 1 /\ i \notin DOMAIN s /\ Append(s, x)[i] = x
OBVIOUS

\* A step that leaves the submitted rollback alone.
RollbackKept ==
  Submitted => Submitted' /\ rollback' = rollback /\ outcome'[rollback] = outcome[rollback]

\* It keeps what is in flight if no Op, event or hand holds more than before.
LEMMA InFlightKept ==
  ASSUME TypeOK, InFlight, RollbackKept,
         NEW m \in {0, 1}, NEW n \in {0, 1},
         \A i \in DOMAIN ops' : IsRollback(ops'[i]) =>
           i \in Nat /\ i + m \in DOMAIN ops /\ ops'[i] = ops[i + m],
         \A i \in DOMAIN events' : IsOutcome(events'[i]) =>
           i \in Nat /\ i + n \in DOMAIN events /\ events'[i] = events[i + n],
         \A l \in Listeners : IsOutcome(hand'[l]) => hand'[l] = hand[l]
  PROVE  InFlight'
<1>1. OpOfPending'
  <2> SUFFICES ASSUME NEW i \in DOMAIN ops', IsRollback(ops'[i])
               PROVE  /\ Submitted' /\ ops'[i].by = rollback' /\ outcome'[rollback'] = "none"
                      /\ \A j \in DOMAIN ops' : IsRollback(ops'[j]) => j = i
    BY DEF OpOfPending, IsRollback
  <2>1. /\ i \in Nat /\ i + m \in DOMAIN ops /\ ops'[i] = ops[i + m] /\ IsRollback(ops[i + m])
        /\ \A j \in DOMAIN ops' : IsRollback(ops'[j]) =>
             j \in Nat /\ j + m \in DOMAIN ops /\ ops'[j] = ops[j + m] /\ IsRollback(ops[j + m])
    BY DEF IsRollback
  <2>2. /\ Submitted /\ ops[i + m].by = rollback /\ outcome[rollback] = "none"
        /\ \A j \in DOMAIN ops : IsRollback(ops[j]) => j = i + m
    BY <2>1 DEF InFlight, OpOfPending
  <2>3. ASSUME NEW j \in DOMAIN ops', IsRollback(ops'[j])
        PROVE  j = i
    BY <2>1, <2>2, <2>3
  <2> QED BY <2>1, <2>2, <2>3 DEF RollbackKept
<1>2. EventOfPending'
  <2> SUFFICES ASSUME NEW i \in DOMAIN events', IsOutcome(events'[i])
               PROVE  /\ Submitted' /\ outcome'[rollback'] = events'[i].event
                      /\ \A j \in DOMAIN events' : IsOutcome(events'[j]) => j = i
                      /\ \A l \in Listeners : ~IsOutcome(hand'[l])
    BY DEF EventOfPending, IsOutcome
  <2>1. /\ i \in Nat /\ i + n \in DOMAIN events /\ events'[i] = events[i + n]
        /\ IsOutcome(events[i + n])
        /\ \A j \in DOMAIN events' : IsOutcome(events'[j]) =>
             /\ j \in Nat /\ j + n \in DOMAIN events /\ events'[j] = events[j + n]
             /\ IsOutcome(events[j + n])
    BY DEF IsOutcome
  <2>2. /\ Submitted /\ outcome[rollback] = events[i + n].event
        /\ \A j \in DOMAIN events : IsOutcome(events[j]) => j = i + n
        /\ \A l \in Listeners : ~IsOutcome(hand[l])
    BY <2>1 DEF InFlight, EventOfPending
  <2>3. ASSUME NEW j \in DOMAIN events', IsOutcome(events'[j])
        PROVE  j = i
    BY <2>1, <2>2, <2>3
  <2>4. \A l \in Listeners : ~IsOutcome(hand'[l])
    BY <2>2 DEF IsOutcome
  <2> QED BY <2>1, <2>2, <2>3, <2>4 DEF RollbackKept
<1>3. HandOfPending'
  BY DEF HandOfPending, InFlight, IsOutcome, RollbackKept
<1> QED BY <1>1, <1>2, <1>3 DEF InFlight

\* In particular if it touches none of them.
LEMMA InFlightUntouched ==
  ASSUME TypeOK, InFlight, RollbackKept, UNCHANGED <<ops, events, hand>>
  PROVE  InFlight'
<1>1. /\ \A i \in DOMAIN ops : i \in Nat /\ i + 0 = i
      /\ \A i \in DOMAIN events : i \in Nat /\ i + 0 = i
  BY DEF TypeOK
<1> QED BY <1>1, InFlightKept

\* A submission of another Op.
LEMMA InFlightOp ==
  ASSUME TypeOK, InFlight, RollbackKept, NEW op \in Ops, ~IsRollback(op),
         ops' = Append(ops, op), UNCHANGED <<events, hand>>
  PROVE  InFlight'
<1>1. /\ \A i \in DOMAIN ops : i \in Nat /\ i + 0 = i
      /\ \A i \in DOMAIN events : i \in Nat /\ i + 0 = i
  BY DEF TypeOK
<1>2. \A i \in DOMAIN ops' : IsRollback(ops'[i]) =>
           i \in Nat /\ i + 0 \in DOMAIN ops /\ ops'[i] = ops[i + 0]
  BY <1>1, AppendFacts DEF TypeOK, IsRollback
<1> QED BY <1>1, <1>2, InFlightKept

LEMMA ProcessorInFlight ==
  ASSUME AnswerInv, ProcessorStep
  PROVE  InFlight'
<1> USE DEF procVars, mapVars, listenVars, turnVars, sessionVars, histVars, RollbackKept, Submitted
<1>1. /\ TypeOK /\ InFlight /\ RollbackOpen /\ DoingOpen
      /\ doing # None => doing \in Requests
  BY DEF AnswerInv, AskInv, Pending, TypeOK
<1>2. CASE RegisterPrompt
  BY <1>1, <1>2, InFlightUntouched DEF RegisterPrompt, Then
<1>3. ASSUME NEW op \in {"input", "interrupt"}, Submit(op, doing), doing \in Requests,
             RollbackKept, UNCHANGED <<events, hand>>
      PROVE  InFlight'
  <2>1. Op(op, doing, 0) \in Ops /\ ~IsRollback(Op(op, doing, 0))
    BY <1>3 DEF Op, Ops, IsRollback
  <2>2. ops' = Append(ops, Op(op, doing, 0))
    BY <1>3 DEF Submit
  <2> QED BY <1>1, <1>3, <2>1, <2>2, InFlightOp
<1>4. CASE TurnStart
  <2>1. doing \in Requests /\ Submit("input", doing) /\ RollbackKept /\ UNCHANGED <<events, hand>>
    BY <1>1, <1>4 DEF TurnStart, Handling, Handled, RollbackOpen
  <2> QED BY <1>3, <2>1
<1>5. CASE TurnStartFails
  BY <1>1, <1>5, InFlightUntouched DEF TurnStartFails, Handling, Handled, RollbackOpen
<1>6. CASE RecordInterrupt
  BY <1>1, <1>6, InFlightUntouched DEF RecordInterrupt, Then
<1>7. CASE SubmitInterrupt
  <2>1. doing \in Requests /\ RollbackKept /\ UNCHANGED <<events, hand>>
    BY <1>1, <1>7 DEF SubmitInterrupt, Handling, Handled, Then, RollbackOpen
  <2>2. CASE Submit("interrupt", doing)
    BY <1>3, <2>1, <2>2
  <2> QED BY <1>1, <1>7, <2>1, <2>2, InFlightUntouched DEF SubmitInterrupt
<1>8. CASE RecordRollback
  BY <1>1, <1>8, InFlightUntouched DEF RecordRollback
<1>9. CASE RefuseRollback
  BY <1>1, <1>9, InFlightUntouched DEF RefuseRollback, Handling, Handled, DoingOpen
<1>10. CASE SubmitRollback
  <2> DEFINE op == Op("rollback", doing, 0)
  <2>1. /\ rollback = doing /\ doing # None /\ doing \in Requests /\ outcome[doing] = "none"
        /\ doing' = None /\ ops' = Append(ops, op)
        /\ UNCHANGED <<rollback, outcome, events, hand>>
    BY <1>1, <1>10 DEF SubmitRollback, Handling, Handled, Submit, DoingOpen
  <2>2. /\ ~Submitted /\ \A i \in DOMAIN ops : ~IsRollback(ops[i])
        /\ \A i \in DOMAIN events : ~IsOutcome(events[i])
        /\ \A l \in Listeners : ~IsOutcome(hand[l])
    BY <1>1, <2>1 DEF InFlight, OpOfPending, EventOfPending, HandOfPending
  <2>3. op \in Ops /\ op.by = doing
    BY <2>1 DEF Op, Ops
  <2> HIDE DEF op
  <2>4. OpOfPending'
    <3>1. \A i \in DOMAIN ops' : IsRollback(ops'[i]) => i = Len(ops) + 1 /\ ops'[i] = op
      BY <1>1, <2>1, <2>2, <2>3, AppendFacts DEF TypeOK
    <3> QED BY <2>1, <2>3, <3>1 DEF OpOfPending, IsRollback
  <2>5. EventOfPending' /\ HandOfPending'
    BY <2>1, <2>2 DEF EventOfPending, HandOfPending, IsOutcome
  <2> QED BY <2>4, <2>5 DEF InFlight
<1>11. CASE SubmitRollbackFails
  BY <1>1, <1>11, InFlightUntouched DEF SubmitRollbackFails, Handling, Handled, DoingOpen
<1>12. CASE TakePrompt
  BY <1>1, <1>12, InFlightUntouched DEF TakePrompt, Then
<1>13. CASE ReplyCancelled
  BY <1>1, <1>13, InFlightUntouched DEF ReplyCancelled, Handling, Handled, Then, RollbackOpen
<1>14. CASE Detach
  BY <1>1, <1>14, InFlightUntouched DEF Detach, Handling, Handled, RollbackOpen
<1> QED BY <1>2, <1>4, <1>5, <1>6, <1>7, <1>8, <1>9, <1>10, <1>11, <1>12, <1>13, <1>14
        DEF ProcessorStep

LEMMA ListenerInFlight ==
  ASSUME AnswerInv, NEW l \in Listeners, ListenerStep(l)
  PROVE  InFlight'
<1> USE DEF procVars, mapVars, listenVars, turnVars, sessionVars, histVars, RollbackKept, Submitted
<1>1. /\ TypeOK /\ InFlight
      /\ \A i \in DOMAIN ops : i \in Nat /\ i + 0 = i
      /\ \A i \in DOMAIN events : i \in Nat /\ i + 0 = i
      /\ hand \in [Listeners -> Events]
  BY DEF AnswerInv, AskInv, Pending, TypeOK
<1>2. CASE NextEvent(l)
  <2>1. /\ events # <<>> /\ events' = Tail(events)
        /\ hand' = [hand EXCEPT ![l] = Head(events)]
        /\ UNCHANGED <<rollback, doing, outcome, ops>>
    BY <1>2 DEF NextEvent
  <2>2. /\ Head(events) = events[1] /\ 1 \in DOMAIN events
        /\ \A i \in DOMAIN Tail(events) :
             i + 1 \in DOMAIN events /\ Tail(events)[i] = events[i + 1] /\ i \in Nat
    BY <1>1, <2>1, TailFacts DEF TypeOK
  <2>3. CASE IsOutcome(events[1])
    <3>1. /\ Submitted /\ outcome[rollback] = events[1].event
          /\ \A j \in DOMAIN events : IsOutcome(events[j]) => j = 1
          /\ \A m \in Listeners : ~IsOutcome(hand[m])
      BY <1>1, <2>2, <2>3 DEF InFlight, EventOfPending
    <3>2. \A i \in DOMAIN events' : ~IsOutcome(events'[i])
      BY <2>1, <2>2, <3>1
    <3>3. \A m \in Listeners : IsOutcome(hand'[m]) => m = l /\ hand'[m] = events[1]
      BY <1>1, <2>1, <2>2, <3>1
    <3>4. OpOfPending'
      BY <1>1, <2>1 DEF InFlight, OpOfPending, IsRollback
    <3>5. EventOfPending' /\ HandOfPending'
      BY <2>1, <3>1, <3>2, <3>3 DEF EventOfPending, HandOfPending, IsOutcome
    <3> QED BY <3>4, <3>5 DEF InFlight
  <2>4. CASE ~IsOutcome(events[1])
    <3>1. \A m \in Listeners : IsOutcome(hand'[m]) => hand'[m] = hand[m]
      BY <1>1, <2>1, <2>2, <2>4
    <3> QED BY <1>1, <2>1, <2>2, <3>1, InFlightKept
  <2> QED BY <2>3, <2>4
<1>3. CASE AnswerPrompt(l)
  BY <1>1, <1>3, InFlightUntouched DEF AnswerPrompt
<1>4. ASSUME hand' = [hand EXCEPT ![l] = Idle] \/ hand' = hand
               \/ \E n \in Nat : hand' = [hand EXCEPT ![l] = Event("ask", n)],
             UNCHANGED <<rollback, doing, outcome, ops, events>>
      PROVE  InFlight'
  <2>1. \A m \in Listeners : IsOutcome(hand'[m]) => hand'[m] = hand[m]
    BY <1>1, <1>4 DEF IsOutcome, Idle, Event
  <2> QED BY <1>1, <1>4, <2>1, InFlightKept
<1>5. CASE HandleComplete(l)
  BY <1>4, <1>5 DEF HandleComplete, Dropped
<1>6. CASE HandleAborted(l)
  BY <1>4, <1>6 DEF HandleAborted, Dropped
<1>7. CASE HandleRolledBack(l) \/ HandleRollbackFailed(l)
  <2>1. /\ IsOutcome(hand[l]) /\ hand' = [hand EXCEPT ![l] = Idle]
        /\ UNCHANGED <<ops, events, doing, outcome>>
    BY <1>7 DEF HandleRolledBack, HandleRollbackFailed, Holds, Dropped, IsOutcome
  <2>2. /\ outcome[rollback] # "none" /\ \A m \in Listeners : IsOutcome(hand[m]) => m = l
    BY <1>1, <2>1 DEF InFlight, HandOfPending, IsOutcome
  <2>3. /\ \A i \in DOMAIN ops' : ~IsRollback(ops'[i])
        /\ \A i \in DOMAIN events' : ~IsOutcome(events'[i])
    BY <1>1, <2>1, <2>2 DEF InFlight, OpOfPending, EventOfPending, IsRollback, IsOutcome
  <2>4. \A m \in Listeners : ~IsOutcome(hand'[m])
    BY <1>1, <2>1, <2>2 DEF IsOutcome, Idle, Event
  <2> QED BY <2>3, <2>4 DEF InFlight, OpOfPending, EventOfPending, HandOfPending, IsRollback, IsOutcome
<1>8. CASE StoreCallback(l)
  <2>1. Len(asked') \in Nat
    <3>1. [turn |-> hand[l].of, v1 |-> l \in V1, said |-> "none"] \in AskRecord
      BY <1>1 DEF AskRecord, Said, Events
    <3>2. asked \in Seq(AskRecord) /\ asked' \in Seq(AskRecord)
      BY <1>1, <1>8, <3>1 DEF StoreCallback, TypeOK, AskRecord, Said
    <3> QED BY <3>2
  <2> QED BY <1>4, <1>8, <2>1 DEF StoreCallback
<1>9. CASE SendRequest(l)
  BY <1>4, <1>9 DEF SendRequest, Dropped
<1>12. CASE LookForPrompt(l)
  BY <1>1, <1>12, InFlightUntouched DEF LookForPrompt
<1>10. CASE ListenerStops(l)
  BY <1>4, <1>10 DEF ListenerStops
<1> QED BY <1>2, <1>3, <1>5, <1>6, <1>7, <1>8, <1>9, <1>10, <1>12 DEF ListenerStep

\* An event that is no outcome.
LEMMA OtherEvent ==
  ASSUME NEW s \in Seq(Events), NEW e \in {"complete", "aborted", "ask"}, NEW n \in Nat
  PROVE  /\ Append(s, Event(e, n)) \in Seq(Events)
         /\ \A i \in DOMAIN Append(s, Event(e, n)) : IsOutcome(Append(s, Event(e, n))[i]) =>
              i \in Nat /\ i + 0 \in DOMAIN s /\ Append(s, Event(e, n))[i] = s[i + 0]
<1>1. Event(e, n) \in Events /\ ~IsOutcome(Event(e, n))
  BY DEF Event, Events, IsOutcome
<1>2. \A i \in DOMAIN s : i \in Nat /\ i + 0 = i
  OBVIOUS
<1> QED BY <1>1, <1>2, AppendFacts

LEMMA SessionInFlight ==
  ASSUME AnswerInv, TakeOp \/ AskClient \/ FinishTurn \/ ReportTurn \/ SessionEnds
  PROVE  InFlight'
<1> USE DEF procVars, mapVars, listenVars, turnVars, sessionVars, histVars, RollbackKept, Submitted
<1>1. /\ TypeOK /\ InFlight
      /\ ops \in Seq(Ops) /\ events \in Seq(Events) /\ turn \in Nat
      /\ \A i \in DOMAIN ops : i \in Nat /\ i + 0 = i
      /\ \A i \in DOMAIN events : i \in Nat /\ i + 0 = i
  BY DEF AnswerInv, AskInv, TypeOK
<1>2. ops # <<>> =>
        /\ Head(ops) = ops[1] /\ 1 \in DOMAIN ops
        /\ \A i \in DOMAIN Tail(ops) : i \in Nat /\ i + 1 \in DOMAIN ops /\ Tail(ops)[i] = ops[i + 1]
  BY <1>1, TailFacts
<1>3. CASE TakeInput \/ TakeDecision
  <2>1. /\ ops # <<>> /\ ops' = Tail(ops)
        /\ UNCHANGED <<rollback, doing, outcome, events, hand>>
    BY <1>3 DEF TakeInput, TakeDecision, Takes
  <2> QED BY <1>1, <1>2, <2>1, InFlightKept
<1>4. CASE TakeInterrupt
  <2>1. /\ ops # <<>> /\ ops' = Tail(ops)
        /\ UNCHANGED <<rollback, doing, outcome, hand>>
        /\ \/ events' = events \/ events' = Append(events, Event("aborted", turn))
           \/ events' = events \o <<Event("complete", turn), Event("aborted", turn)>>
    BY <1>4 DEF TakeInterrupt, Takes
  <2>2. \A i \in DOMAIN events' : IsOutcome(events'[i]) =>
          i \in Nat /\ i + 0 \in DOMAIN events /\ events'[i] = events[i + 0]
    <3>1. CASE events' = events
      BY <1>1, <3>1
    <3>2. CASE events' = Append(events, Event("aborted", turn))
      BY <1>1, <3>2, OtherEvent
    <3>3. CASE events' = events \o <<Event("complete", turn), Event("aborted", turn)>>
      <4> DEFINE c == Event("complete", turn)
                 a == Event("aborted", turn)
                 s == Append(events, c)
      <4>1. c \in Events /\ a \in Events
        BY <1>1 DEF Event, Events
      <4> HIDE DEF c, a
      <4>2. events' = Append(s, a) /\ s \in Seq(Events)
        BY <1>1, <3>3, <4>1 DEF c, a
      <4>3. \A i \in DOMAIN s : IsOutcome(s[i]) =>
              i \in Nat /\ i + 0 \in DOMAIN events /\ s[i] = events[i + 0]
        BY <1>1, OtherEvent DEF c
      <4> HIDE DEF s
      <4>4. \A i \in DOMAIN Append(s, a) : IsOutcome(Append(s, a)[i]) =>
              i \in Nat /\ i + 0 \in DOMAIN s /\ Append(s, a)[i] = s[i + 0]
        BY <1>1, <4>2, OtherEvent DEF a
      <4>5. \A i \in DOMAIN s : i + 0 = i
        BY <4>2
      <4> QED BY <4>2, <4>3, <4>4, <4>5
    <3> QED BY <2>1, <3>1, <3>2, <3>3
  <2> QED BY <1>1, <1>2, <2>1, <2>2, InFlightKept
<1>5. CASE TakeRollback
  <2>1. PICK o \in {"rolled_back", "failed"} :
          /\ events' = Append(events, Event(o, 0))
          /\ outcome' = [outcome EXCEPT ![Head(ops).by] = o]
    BY <1>5 DEF TakeRollback
  <2>2. /\ ops # <<>> /\ Head(ops).op = "rollback" /\ ops' = Tail(ops)
        /\ UNCHANGED <<rollback, doing, hand>>
    BY <1>5 DEF TakeRollback, Takes
  <2>3. /\ Submitted /\ ops[1].by = rollback /\ outcome[rollback] = "none"
        /\ \A j \in DOMAIN ops : IsRollback(ops[j]) => j = 1
    BY <1>1, <1>2, <2>2 DEF InFlight, OpOfPending, IsRollback
  <2>4. /\ Submitted' /\ outcome'[rollback'] = o
    BY <1>1, <1>2, <2>1, <2>2, <2>3 DEF TypeOK
  <2>5. \A i \in DOMAIN ops' : ~IsRollback(ops'[i])
    BY <1>1, <1>2, <2>2, <2>3
  <2>6. /\ \A i \in DOMAIN events : ~IsOutcome(events[i])
        /\ \A m \in Listeners : ~IsOutcome(hand[m])
    BY <1>1, <2>3 DEF InFlight, EventOfPending, HandOfPending, IsOutcome
  <2>7. Event(o, 0) \in Events /\ Event(o, 0).event = o
    BY DEF Event, Events
  <2>8. \A i \in DOMAIN events' : IsOutcome(events'[i]) =>
          i = Len(events) + 1 /\ events'[i] = Event(o, 0)
    BY <1>1, <2>1, <2>6, <2>7, AppendFacts
  <2>9. OpOfPending' /\ HandOfPending'
    BY <2>2, <2>5, <2>6 DEF OpOfPending, HandOfPending, IsOutcome, IsRollback
  <2>10. EventOfPending'
    BY <2>2, <2>4, <2>6, <2>7, <2>8 DEF EventOfPending, IsOutcome
  <2> QED BY <2>9, <2>10 DEF InFlight
<1>6. CASE AskClient
  <2>1. /\ events' = Append(events, Event("ask", turn))
        /\ UNCHANGED <<rollback, doing, outcome, ops, hand>>
    BY <1>6 DEF AskClient
  <2> QED BY <1>1, <2>1, OtherEvent, InFlightKept
<1>7. CASE FinishTurn
  BY <1>1, <1>7, InFlightUntouched DEF FinishTurn
<1>8. CASE ReportTurn
  <2>1. PICK t \in ending : events' = Append(events, Event("complete", t)) \/ UNCHANGED events
    BY <1>8 DEF ReportTurn
  <2>2. t \in Nat /\ UNCHANGED <<rollback, doing, outcome, ops, hand>>
    BY <1>1, <1>8 DEF ReportTurn, TypeOK
  <2> QED BY <1>1, <2>1, <2>2, OtherEvent, InFlightKept
<1>9. CASE SessionEnds
  <2>1. /\ events' = events \/ events' = Append(events, Event("aborted", turn))
        /\ ops' = <<>> /\ DOMAIN ops' = {}
        /\ UNCHANGED <<rollback, doing, outcome, hand>>
    BY <1>9 DEF SessionEnds
  <2> QED BY <1>1, <2>1, OtherEvent, InFlightKept
<1> QED BY <1>3, <1>4, <1>5, <1>6, <1>7, <1>8, <1>9 DEF TakeOp

LEMMA NextInFlight == AnswerInv /\ [Next]_vars => InFlight'
<1> SUFFICES ASSUME AnswerInv, [Next]_vars PROVE InFlight'
  OBVIOUS
<1> USE DEF procVars, mapVars, listenVars, askVars, turnVars, sessionVars, histVars,
            RollbackKept, Submitted
<1>1. /\ TypeOK /\ InFlight /\ RollbackOpen
      /\ ops \in Seq(Ops)
      /\ \A i \in DOMAIN ops : i \in Nat /\ i + 0 = i
      /\ \A i \in DOMAIN events : i \in Nat /\ i + 0 = i
  BY DEF AnswerInv, AskInv, Pending, TypeOK
<1>2. CASE UNCHANGED vars
  BY <1>1, <1>2, InFlightUntouched DEF vars
<1>3. ASSUME NEW r \in Requests, NEW k \in Kinds, Receive(r, k)
      PROVE  InFlight'
  BY <1>1, <1>3, InFlightUntouched DEF Receive, RollbackOpen
<1>4. ASSUME NEW l \in Listeners, AddListener(l) \/ RemoveListener(l)
      PROVE  InFlight'
  BY <1>1, <1>4, InFlightUntouched DEF AddListener, RemoveListener
<1>5. ASSUME NEW i \in DOMAIN asked, SubmitDecision(i)
      PROVE  InFlight'
  <2> DEFINE op == Op(IF asked[i].said = "abort" THEN "abort" ELSE "decision",
                      None, asked[i].turn)
  <2>1. op \in Ops /\ ~IsRollback(op)
    <3>1. asked \in Seq(AskRecord)
      BY <1>1 DEF TypeOK, AskRecord, Said
    <3>2. asked[i] \in AskRecord
      BY <3>1
    <3>3. asked[i].turn \in Nat
      BY <3>2 DEF AskRecord
    <3> QED BY <3>3 DEF Op, Ops, IsRollback
  <2>2. /\ ops' = Append(ops, op) \/ ops' = ops
        /\ UNCHANGED <<rollback, doing, outcome, events, hand>>
    BY <1>5 DEF SubmitDecision
  <2> HIDE DEF op
  <2> QED BY <1>1, <2>1, <2>2, InFlightOp, InFlightUntouched
<1>6. ASSUME NEW i \in DOMAIN asked, NEW d \in Answered, ClientReplies(i, d)
      PROVE  InFlight'
  BY <1>1, <1>6, InFlightUntouched DEF ClientReplies
<1> QED BY <1>2, <1>3, <1>4, <1>5, <1>6, ProcessorInFlight, ListenerInFlight, SessionInFlight
        DEF Next

\* The one request that is answered.
LEMMA AnswerOne ==
  ASSUME TypeOK, NEW r \in Requests, NEW a, Answer(r, a)
  PROVE  /\ answers[r] = <<>> => answers'[r] = <<a>> /\ Len(answers'[r]) = 1
         /\ answers[r] = <<"end_turn">> => answers'[r] = <<"end_turn", a>>
         /\ \A q \in Requests : q # r => answers'[q] = answers[q]
<1>1. answers' = [q \in Requests |-> IF q = r THEN Append(answers[r], a) ELSE answers[q]]
  BY DEF Answer, TypeOK
<1>2. Append(<<>>, a) = <<a>> /\ Len(<<a>>) = 1
  OBVIOUS
<1>3. Append(<<"end_turn">>, a) = <<"end_turn", a>>
  <2> DEFINE s == Append(<<"end_turn">>, a)
             t == <<"end_turn", a>>
             S == {"end_turn", a}
  <2>1. s \in Seq(S) /\ Len(s) = 2 /\ s[1] = "end_turn" /\ s[2] = a
    OBVIOUS
  <2>2. t \in Seq(S) /\ Len(t) = 2 /\ t[1] = "end_turn" /\ t[2] = a
    OBVIOUS
  <2> HIDE DEF s, t, S
  <2>3. \A i \in 1..2 : s[i] = t[i]
    BY <2>1, <2>2
  <2>4. s = t
    BY <2>1, <2>2, <2>3, SeqEqual
  <2> QED BY <2>4 DEF s, t
<1> QED BY <1>1, <1>2, <1>3

LEMMA MatchOne ==
  ASSUME TypeOK, AnswersMatch, NEW r \in Requests, NEW a \in Outcomes, Answer(r, a),
         answers[r] = <<>> \/ (answers[r] = <<"end_turn">> /\ a = "error" /\ ~alive),
         a \in {"rolled_back", "failed"} => outcome[r] = a,
         a = "error" => outcome[r] = "rolled_back" \/ ~alive,
         UNCHANGED <<outcome, alive>>
  PROVE  AnswersMatch'
<1> SUFFICES ASSUME NEW q \in Requests
             PROVE  /\ Len(answers'[q]) <= 1 \/ (answers'[q] = <<"end_turn", "error">> /\ ~alive)
                    /\ answers'[q] = <<"rolled_back">> => outcome[q] = "rolled_back"
                    /\ answers'[q] = <<"failed">> => outcome[q] = "failed"
                    /\ answers'[q] = <<"error">> => outcome[q] = "rolled_back" \/ ~alive
  BY DEF AnswersMatch
<1>1. CASE q # r
  BY <1>1, AnswerOne DEF AnswersMatch
<1>2. CASE q = r /\ answers[r] = <<>>
  <2>1. answers'[q] = <<a>> /\ Len(answers'[q]) = 1
    BY <1>2, AnswerOne
  <2>2. ASSUME NEW b, answers'[q] = <<b>>
        PROVE  a = b
    BY <2>1, <2>2
  <2> QED BY <1>2, <2>1, <2>2
<1>3. CASE q = r /\ answers[r] # <<>>
  <2>1. answers'[q] = <<"end_turn", "error">> /\ ~alive
    BY <1>3, AnswerOne
  <2>2. ASSUME NEW b
        PROVE  <<"end_turn", "error">> # <<b>>
    OBVIOUS
  <2> QED BY <2>1, <2>2
<1> QED BY <1>1, <1>2, <1>3

LEMMA ProcessorPending ==
  ASSUME AnswerInv, ProcessorStep
  PROVE  Pending' /\ AnswersMatch'
<1> USE DEF procVars, mapVars, listenVars, turnVars, sessionVars, histVars, Pending,
            Fresh, PromptOpen, TakenOpen, InterruptsOpen, RollbackOpen, DoingOpen
<1>1. /\ TypeOK /\ Pending /\ AnswersMatch /\ doing # None
      /\ doing \in Requests /\ None \notin Requests
      /\ {taken, prompt, rollback} \subseteq Requests \union {None}
      /\ interrupts \subseteq Requests
  <2>1. doing # None
    BY DEF ProcessorStep, RegisterPrompt, TurnStart, TurnStartFails, RecordInterrupt,
       SubmitInterrupt, RecordRollback, RefuseRollback, SubmitRollback, SubmitRollbackFails,
       TakePrompt, ReplyCancelled, Detach, Handling
  <2>2. None \notin Requests
    BY DEF Requests, None
  <2>3. TypeOK /\ Pending /\ AnswersMatch
    BY DEF AnswerInv, AskInv
  <2> QED BY <2>1, <2>2, <2>3 DEF TypeOK
<1>2. CASE RegisterPrompt
  <2>1. Pending'
    BY <1>1, <1>2 DEF RegisterPrompt, Handling, Then
  <2>2. AnswersMatch'
    BY <1>1, <1>2 DEF RegisterPrompt, AnswersMatch
  <2> QED BY <2>1, <2>2
<1>3. CASE TurnStart
  <2>1. CASE kind[doing] = "start"
    <3>1. Answer(doing, "started") /\ answers[doing] = <<>>
      BY <1>1, <1>3, <2>1 DEF TurnStart, Handling, AnswerEntry
    <3>2. Pending'
      BY <1>1, <1>3, <2>1, <3>1, AnswerOne DEF TurnStart, Handled
    <3>3. AnswersMatch'
      BY <1>1, <1>3, <3>1, MatchOne DEF TurnStart, Outcomes
    <3> QED BY <3>2, <3>3
  <2>2. CASE kind[doing] # "start"
    <3>1. UNCHANGED answers
      BY <1>3, <2>2 DEF TurnStart, AnswerEntry
    <3>2. Pending'
      BY <1>1, <1>3, <3>1 DEF TurnStart, Handling, Handled
    <3>3. AnswersMatch'
      BY <1>1, <1>3, <3>1 DEF TurnStart, AnswersMatch
    <3> QED BY <3>2, <3>3
  <2> QED BY <2>1, <2>2
<1>4. CASE TurnStartFails
  <2>1. /\ Answer(doing, "error") /\ kind[doing] \in {"start", "prompt"} /\ ~alive
        /\ answers[doing] \in {<<>>, <<"end_turn">>}
    BY <1>1, <1>4 DEF TurnStartFails, Handling
  <2>2. Pending'
    BY <1>1, <1>4, <2>1, AnswerOne DEF TurnStartFails, Handled
  <2>3. AnswersMatch'
    BY <1>1, <1>4, <2>1, MatchOne DEF TurnStartFails, Outcomes
  <2> QED BY <2>2, <2>3
<1>5. CASE RecordInterrupt
  <2>1. Pending'
    BY <1>1, <1>5 DEF RecordInterrupt, Handling, Then
  <2>2. AnswersMatch'
    BY <1>1, <1>5 DEF RecordInterrupt, AnswersMatch
  <2> QED BY <2>1, <2>2
<1>6. CASE SubmitInterrupt
  <2>1. Pending'
    BY <1>1, <1>6 DEF SubmitInterrupt, Handling, Then, Handled
  <2>2. AnswersMatch'
    BY <1>1, <1>6 DEF SubmitInterrupt, AnswersMatch
  <2> QED BY <2>1, <2>2
<1>7. CASE RecordRollback
  <2>1. Pending'
    BY <1>1, <1>7 DEF RecordRollback, Handling, Then
  <2>2. AnswersMatch'
    BY <1>1, <1>7 DEF RecordRollback, AnswersMatch
  <2> QED BY <2>1, <2>2
<1>8. CASE RefuseRollback
  <2>1. Answer(doing, "busy") /\ answers[doing] = <<>> /\ kind[doing] = "rollback" /\ rollback # doing
    BY <1>1, <1>8 DEF RefuseRollback, Handling
  <2>2. Pending'
    BY <1>1, <1>8, <2>1, AnswerOne DEF RefuseRollback, Handled
  <2>3. AnswersMatch'
    BY <1>1, <1>8, <2>1, MatchOne DEF RefuseRollback, Outcomes
  <2> QED BY <2>2, <2>3
<1>9. CASE SubmitRollback
  <2>1. Pending'
    BY <1>1, <1>9 DEF SubmitRollback, Handling, Handled
  <2>2. AnswersMatch'
    BY <1>1, <1>9 DEF SubmitRollback, AnswersMatch
  <2> QED BY <2>1, <2>2
<1>10. CASE SubmitRollbackFails
  <2>1. Answer(doing, "error") /\ answers[doing] = <<>> /\ kind[doing] = "rollback" /\ ~alive
    BY <1>1, <1>10 DEF SubmitRollbackFails, Handling
  <2>2. Pending'
    BY <1>1, <1>10, <2>1, AnswerOne DEF SubmitRollbackFails, Handled
  <2>3. AnswersMatch'
    BY <1>1, <1>10, <2>1, MatchOne DEF SubmitRollbackFails, Outcomes
  <2> QED BY <2>2, <2>3
<1>11. CASE TakePrompt
  <2>1. Pending'
    BY <1>1, <1>11 DEF TakePrompt, Handling, Then
  <2>2. AnswersMatch'
    BY <1>1, <1>11 DEF TakePrompt, AnswersMatch
  <2> QED BY <2>1, <2>2
<1>12. CASE ReplyCancelled
  <2>1. /\ kind[doing] \in {"cancel", "close"} /\ taken' = None
        /\ UNCHANGED <<kind, prompt, interrupts, rollback, outcome, alive>>
        /\ doing' = None \/ doing' = doing
    BY <1>12 DEF ReplyCancelled, Handling, Handled, Then
  <2>2. \/ taken = None /\ UNCHANGED answers
        \/ taken \in Requests /\ Answer(taken, "cancelled") /\ answers[taken] = <<>>
    BY <1>1, <1>12 DEF ReplyCancelled, AnswerEntry
  <2>3. Pending'
    BY <1>1, <2>1, <2>2, AnswerOne
  <2>4. AnswersMatch'
    BY <1>1, <2>1, <2>2, MatchOne DEF AnswersMatch, Outcomes
  <2> QED BY <2>3, <2>4
<1>13. CASE Detach
  <2>1. Answer(doing, "closed") /\ answers[doing] = <<>> /\ kind[doing] = "close"
    BY <1>1, <1>13 DEF Detach, Handling
  <2>2. Pending'
    BY <1>1, <1>13, <2>1, AnswerOne DEF Detach, Handling, Handled
  <2>3. AnswersMatch'
    BY <1>1, <1>13, <2>1, MatchOne DEF Detach, Outcomes
  <2> QED BY <2>2, <2>3
<1> QED BY <1>2, <1>3, <1>4, <1>5, <1>6, <1>7, <1>8, <1>9, <1>10, <1>11, <1>12, <1>13
        DEF ProcessorStep

LEMMA ListenerPending ==
  ASSUME AnswerInv, NEW l \in Listeners, ListenerStep(l)
  PROVE  Pending' /\ AnswersMatch'
<1> USE DEF procVars, mapVars, listenVars, turnVars, sessionVars, histVars, Pending,
            Fresh, PromptOpen, TakenOpen, InterruptsOpen, RollbackOpen, DoingOpen
<1>1. /\ TypeOK /\ Pending /\ AnswersMatch /\ InFlight /\ None \notin Requests
      /\ {doing, taken, prompt, rollback} \subseteq Requests \union {None}
      /\ interrupts \subseteq Requests
  <2>1. None \notin Requests
    BY DEF Requests, None
  <2>2. TypeOK /\ Pending /\ AnswersMatch /\ InFlight
    BY DEF AnswerInv, AskInv
  <2> QED BY <2>1, <2>2 DEF TypeOK
<1>2. CASE AnswerPrompt(l)
  <2>1. /\ prompt' = None
        /\ UNCHANGED <<kind, doing, step, taken, interrupts, rollback, outcome, alive>>
    BY <1>2 DEF AnswerPrompt
  <2>2. \/ prompt = None /\ UNCHANGED answers
        \/ prompt \in Requests /\ Answer(prompt, "end_turn") /\ answers[prompt] = <<>>
    BY <1>1, <1>2 DEF AnswerPrompt, AnswerEntry
  <2>3. Pending'
    BY <1>1, <2>1, <2>2, AnswerOne
  <2>4. AnswersMatch'
    BY <1>1, <2>1, <2>2, MatchOne DEF AnswersMatch, Outcomes
  <2> QED BY <2>3, <2>4
<1>3. CASE HandleAborted(l)
  <2>1. /\ interrupts' = {}
        /\ UNCHANGED <<kind, doing, step, taken, prompt, rollback, outcome, alive>>
    BY <1>3 DEF HandleAborted
  <2>2. \A r \in Requests :
          IF r \in interrupts THEN answers'[r] = <<"aborted">> /\ answers[r] = <<>>
                              ELSE answers'[r] = answers[r]
    <3>1. Append(<<>>, "aborted") = <<"aborted">>
      OBVIOUS
    <3> QED BY <1>1, <1>3, <3>1 DEF HandleAborted
  <2>3. Pending'
    BY <1>1, <2>1, <2>2
  <2>4. AnswersMatch'
    <3> SUFFICES ASSUME NEW r \in Requests
                 PROVE  /\ Len(answers'[r]) <= 1 \/ (answers'[r] = <<"end_turn", "error">> /\ ~alive)
                        /\ answers'[r] = <<"rolled_back">> => outcome[r] = "rolled_back"
                        /\ answers'[r] = <<"failed">> => outcome[r] = "failed"
                        /\ answers'[r] = <<"error">> => outcome[r] = "rolled_back" \/ ~alive
      BY <2>1 DEF AnswersMatch
    <3>1. CASE r \in interrupts
      <4>1. answers'[r] = <<"aborted">> /\ Len(<<"aborted">>) = 1
        BY <2>2, <3>1
      <4>2. ASSUME NEW b, <<"aborted">> = <<b>>
            PROVE  b = "aborted"
        BY <4>2
      <4> QED BY <4>1, <4>2
    <3> QED BY <1>1, <2>2, <3>1 DEF AnswersMatch
  <2> QED BY <2>3, <2>4
<1>4. CASE HandleRolledBack(l) \/ HandleRollbackFailed(l)
  <2>1. PICK a \in {"rolled_back", "error", "failed"} :
          /\ AnswerEntry(rollback, a) /\ rollback' = None
          /\ IsOutcome(hand[l]) /\ (a = "failed" <=> hand[l].event = "failed")
          /\ UNCHANGED <<kind, doing, step, taken, prompt, interrupts, outcome, alive>>
    BY <1>4 DEF HandleRolledBack, HandleRollbackFailed, Holds, IsOutcome
  <2>2. Submitted /\ outcome[rollback] = hand[l].event
    BY <1>1, <2>1 DEF InFlight, HandOfPending
  <2>3. /\ rollback \in Requests /\ Answer(rollback, a) /\ answers[rollback] = <<>>
        /\ kind[rollback] = "rollback" /\ doing # rollback
    BY <1>1, <2>1, <2>2 DEF AnswerEntry, Submitted
  <2>4. Pending'
    BY <1>1, <2>1, <2>2, <2>3, AnswerOne
  <2>5. AnswersMatch'
    BY <1>1, <2>1, <2>2, <2>3, MatchOne DEF Outcomes, IsOutcome
  <2> QED BY <2>4, <2>5
<1>5. CASE NextEvent(l) \/ LookForPrompt(l) \/ HandleComplete(l) \/ StoreCallback(l) \/ SendRequest(l)
           \/ ListenerStops(l)
  <2>1. UNCHANGED <<procVars, mapVars, answers, outcome, alive>>
    BY <1>5 DEF NextEvent, LookForPrompt, HandleComplete, StoreCallback, SendRequest, ListenerStops
  <2>2. Pending'
    BY <1>1, <2>1
  <2>3. AnswersMatch'
    BY <1>1, <2>1 DEF AnswersMatch
  <2> QED BY <2>2, <2>3
<1> QED BY <1>2, <1>3, <1>4, <1>5 DEF ListenerStep

LEMMA NextPending == AnswerInv /\ [Next]_vars => Pending' /\ AnswersMatch'
<1> SUFFICES ASSUME AnswerInv, [Next]_vars PROVE Pending' /\ AnswersMatch'
  OBVIOUS
<1> USE DEF procVars, mapVars, listenVars, turnVars, sessionVars, histVars, Pending,
            Fresh, PromptOpen, TakenOpen, InterruptsOpen, RollbackOpen, DoingOpen
<1>1. /\ TypeOK /\ Pending /\ AnswersMatch /\ InFlight /\ None \notin Requests
      /\ {doing, taken, prompt, rollback} \subseteq Requests \union {None}
      /\ interrupts \subseteq Requests
  <2>1. None \notin Requests
    BY DEF Requests, None
  <2>2. TypeOK /\ Pending /\ AnswersMatch /\ InFlight
    BY DEF AnswerInv, AskInv
  <2> QED BY <2>1, <2>2 DEF TypeOK
<1>2. ASSUME UNCHANGED <<procVars, mapVars, answers, outcome>>, alive' => alive
      PROVE  Pending' /\ AnswersMatch'
  <2>1. Pending'
    BY <1>1, <1>2
  <2>2. AnswersMatch'
    BY <1>1, <1>2 DEF AnswersMatch
  <2> QED BY <2>1, <2>2
<1>3. ASSUME NEW r \in Requests, NEW k \in Kinds, Receive(r, k)
      PROVE  Pending' /\ AnswersMatch'
  <2>1. Pending'
    BY <1>1, <1>3 DEF Receive, Kinds, TypeOK
  <2>2. AnswersMatch'
    BY <1>1, <1>3 DEF Receive, AnswersMatch
  <2> QED BY <2>1, <2>2
<1>4. CASE TakeRollback
  <2>1. PICK o \in {"rolled_back", "failed"} : outcome' = [outcome EXCEPT ![Head(ops).by] = o]
    BY <1>4 DEF TakeRollback
  <2>2. /\ ops # <<>> /\ Head(ops).op = "rollback"
        /\ UNCHANGED <<procVars, mapVars, answers, alive>>
    BY <1>4 DEF TakeRollback, Takes
  <2>3. Submitted /\ Head(ops).by = rollback /\ outcome[rollback] = "none"
    <3>1. Head(ops) = ops[1] /\ 1 \in DOMAIN ops
      BY <1>1, <2>2, TailFacts DEF TypeOK
    <3> QED BY <1>1, <2>2, <3>1 DEF InFlight, OpOfPending, IsRollback
  <2>4. /\ rollback \in Requests /\ doing # rollback /\ answers[rollback] = <<>>
        /\ kind[rollback] = "rollback"
        /\ \A r \in Requests : r # rollback => outcome'[r] = outcome[r]
    BY <1>1, <2>1, <2>3 DEF Submitted, TypeOK
  <2>5. Pending'
    BY <1>1, <2>2, <2>4
  <2>6. AnswersMatch'
    <3>1. \A b : <<>> # <<b>>
      OBVIOUS
    <3> QED BY <1>1, <2>2, <2>4, <3>1 DEF AnswersMatch
  <2> QED BY <2>5, <2>6
<1>5. CASE UNCHANGED vars
  BY <1>2, <1>5 DEF vars
<1>6. ASSUME NEW l \in Listeners, AddListener(l) \/ RemoveListener(l)
      PROVE  Pending' /\ AnswersMatch'
  BY <1>2, <1>6 DEF AddListener, RemoveListener
<1>7. ASSUME NEW i \in DOMAIN asked, SubmitDecision(i) \/ \E d \in Answered : ClientReplies(i, d)
      PROVE  Pending' /\ AnswersMatch'
  BY <1>2, <1>7 DEF SubmitDecision, ClientReplies
<1>8. CASE TakeInput \/ TakeInterrupt \/ TakeDecision \/ AskClient \/ FinishTurn \/ ReportTurn
           \/ SessionEnds
  BY <1>2, <1>8 DEF TakeInput, TakeInterrupt, TakeDecision, AskClient, FinishTurn, ReportTurn,
     SessionEnds
<1> QED BY <1>3, <1>4, <1>5, <1>6, <1>7, <1>8, ProcessorPending, ListenerPending DEF Next, TakeOp

LEMMA AnswerInvariant == Spec => []AnswerInv
<1>1. AnswerInv /\ [Next]_vars => AnswerInv'
  BY NextAsk, NextInFlight, NextPending DEF AnswerInv
<1> QED BY <1>1, InitAnswer, PTL DEF Spec

\* A request is answered once at most, and a rollback by its own outcome,
\* though every listener may take what is pending and no event names a request.
THEOREM AnswersBelongToRequests == Spec => []AnswersMatch
<1>1. AnswerInv => AnswersMatch
  BY DEF AnswerInv
<1> QED BY <1>1, AnswerInvariant, PTL
-----------------------------------------------------------------------------
(* What is pending is answered by an Op or event under way. *)

\* An interrupt is recorded as pending before it is submitted, and stays so
\* until it is answered.
Recorded(r) == answers[r] # <<>> \/ r \in interrupts
OpsRecorded == \A i \in DOMAIN ops, r \in Requests : ops[i].by = r =>
  kind[r] # "none" /\ (kind[r] = "interrupt" => Recorded(r))
DoingRecorded == Handling({"interrupt"}, "submit") => Recorded(doing)
Books == OpsRecorded /\ DoingRecorded

ComingInv == AnswerInv /\ Books /\ AnswersAreComing

\* What is recorded stays recorded.
RecordsKept == \A r \in Requests :
  /\ Recorded(r) => Recorded(r)'
  /\ kind[r] # "none" => kind'[r] = kind[r]

\* Steps that submit nothing.
LEMMA BooksKept ==
  ASSUME TypeOK, Books, RecordsKept,
         \A j \in DOMAIN ops' : \E i \in DOMAIN ops : ops'[j] = ops[i],
         Handling({"interrupt"}, "submit")' => Handling({"interrupt"}, "submit") /\ doing' = doing
  PROVE  Books'
<1>1. OpsRecorded'
  <2> SUFFICES ASSUME NEW j \in DOMAIN ops', NEW r \in Requests, ops'[j].by = r
               PROVE  kind'[r] # "none" /\ (kind'[r] = "interrupt" => Recorded(r)')
    BY DEF OpsRecorded
  <2>1. PICK i \in DOMAIN ops : ops'[j] = ops[i]
    OBVIOUS
  <2> QED BY <2>1 DEF Books, OpsRecorded, RecordsKept
<1>2. DoingRecorded'
  BY DEF Books, DoingRecorded, RecordsKept, Handling, TypeOK
<1> QED BY <1>1, <1>2 DEF Books

\* A submission of the request at hand.
LEMMA BooksSubmit ==
  ASSUME TypeOK, Books, RecordsKept, NEW op, doing \in Requests, Submit(op, doing),
         kind[doing] # "none", kind[doing] = "interrupt" => Recorded(doing),
         op \in {"input", "interrupt", "rollback"}, ~Handling({"interrupt"}, "submit")'
  PROVE  Books'
<1> DEFINE new == Op(op, doing, 0)
<1>1. new \in Ops /\ new.by = doing
  BY DEF Op, Ops
<1>2. ops \in Seq(Ops) /\ ops' = Append(ops, new)
  BY DEF TypeOK, Submit
<1> HIDE DEF new
<1>3. \A j \in DOMAIN ops' : (j \in DOMAIN ops /\ ops'[j] = ops[j]) \/ ops'[j] = new
  BY <1>1, <1>2, AppendFacts
<1>4. OpsRecorded'
  <2> SUFFICES ASSUME NEW j \in DOMAIN ops', NEW r \in Requests, ops'[j].by = r
               PROVE  kind'[r] # "none" /\ (kind'[r] = "interrupt" => Recorded(r)')
    BY DEF OpsRecorded
  <2> QED BY <1>1, <1>3 DEF Books, OpsRecorded, RecordsKept
<1> QED BY <1>4 DEF Books, DoingRecorded, Handling

\* Answers are added, never taken back.
LEMMA AnswersStay ==
  ASSUME TypeOK, NEW r \in Requests \union {None}, NEW a \in Outcomes, AnswerEntry(r, a)
  PROVE  \A q \in Requests : answers[q] # <<>> => answers'[q] # <<>>
<1>1. \A q \in Requests : answers[q] \in Seq(Outcomes)
  BY DEF TypeOK, Outcomes
<1>2. \A q \in Requests : Append(answers[q], a) # <<>>
  BY <1>1
<1> QED BY <1>2 DEF AnswerEntry, Answer, TypeOK

LEMMA AnswerStays ==
  ASSUME TypeOK, NEW r \in Requests, NEW a \in Outcomes, Answer(r, a)
  PROVE  \A q \in Requests : answers[q] # <<>> => answers'[q] # <<>>
<1>1. None \notin Requests
  BY DEF Requests, None
<1> QED BY <1>1, AnswersStay DEF AnswerEntry

\* An event on its way goes on if none is lost.
EventsKept ==
  /\ \A i \in DOMAIN events : \E j \in DOMAIN events' : events'[j] = events[i]
  /\ \A l \in Listeners : stage[l] \in {"look", "claim", "handle"} =>
       stage'[l] \in {"look", "claim", "handle"} /\ hand'[l] = hand[l]

LEMMA WayKept ==
  ASSUME EventsKept, NEW e, OnItsWay(e)
  PROVE  \/ \E i \in DOMAIN events' : events'[i].event = e
         \/ \E l \in Listeners : stage'[l] \in {"look", "claim", "handle"} /\ hand'[l].event = e
  BY DEF OnItsWay, EventsKept

\* The two halves of AnswersAreComing.
RollbackComes == rollback # None /\ doing # rollback =>
  IF outcome[rollback] = "none"
    THEN ~alive \/ \E i \in DOMAIN ops : ops[i] = Op("rollback", rollback, 0)
    ELSE OnItsWay(outcome[rollback])
InterruptsCome == \A r \in owed : answers[r] = <<>> => r \in interrupts /\ OnItsWay("aborted")

\* Steps that do not take the rollback from the queue.
LEMMA RollbackStillComes ==
  ASSUME TypeOK, RollbackComes, outcome' = outcome, alive' => alive,
         \A e \in {"rolled_back", "failed"} : OnItsWay(e) => OnItsWay(e)',
         \A i \in DOMAIN ops : IsRollback(ops[i]) /\ alive' => \E j \in DOMAIN ops' : ops'[j] = ops[i],
         rollback' # None /\ doing' # rollback' => rollback' = rollback /\ doing # rollback
  PROVE  RollbackComes'
<1> SUFFICES ASSUME rollback' # None, doing' # rollback'
             PROVE  IF outcome'[rollback'] = "none"
                      THEN ~alive' \/ \E i \in DOMAIN ops' : ops'[i] = Op("rollback", rollback', 0)
                      ELSE OnItsWay(outcome[rollback])'
  BY DEF RollbackComes
<1>1. rollback' = rollback /\ rollback # None /\ doing # rollback
  OBVIOUS
<1>2. CASE outcome[rollback] = "none" /\ alive'
  <2>1. PICK i \in DOMAIN ops : ops[i] = Op("rollback", rollback, 0)
    BY <1>1, <1>2 DEF RollbackComes
  <2>2. IsRollback(ops[i])
    BY <2>1 DEF IsRollback, Op
  <2> QED BY <1>1, <1>2, <2>1, <2>2
<1>3. CASE outcome[rollback] = "none" /\ ~alive'
  BY <1>1, <1>3
<1>4. CASE outcome[rollback] # "none"
  <2>1. PICK e \in {"rolled_back", "failed"} : e = outcome[rollback]
    BY <1>1, <1>4 DEF TypeOK
  <2>2. OnItsWay(e)
    BY <1>1, <1>4, <2>1 DEF RollbackComes
  <2>3. OnItsWay(e)'
    BY <2>2
  <2> QED BY <1>1, <1>4, <2>1, <2>3 DEF OnItsWay
<1> QED BY <1>2, <1>3, <1>4

\* Steps that neither answer interrupts nor abort a turn.
LEMMA InterruptsStillCome ==
  ASSUME TypeOK, InterruptsCome, owed' = owed, interrupts \subseteq interrupts',
         \A r \in Requests : answers[r] # <<>> => answers'[r] # <<>>,
         OnItsWay("aborted") => OnItsWay("aborted")'
  PROVE  InterruptsCome'
<1> SUFFICES ASSUME NEW r \in owed', answers'[r] = <<>>
             PROVE  r \in interrupts' /\ OnItsWay("aborted")'
  BY DEF InterruptsCome
<1>1. r \in owed /\ r \in Requests
  BY DEF TypeOK
<1> QED BY <1>1 DEF InterruptsCome

LEMMA ComingKept ==
  ASSUME TypeOK, AnswersAreComing, EventsKept,
         \A r \in Requests : answers[r] # <<>> => answers'[r] # <<>>,
         interrupts \subseteq interrupts', owed' = owed, outcome' = outcome, alive' => alive,
         \A i \in DOMAIN ops : IsRollback(ops[i]) /\ alive' => \E j \in DOMAIN ops' : ops'[j] = ops[i],
         rollback' # None /\ doing' # rollback' => rollback' = rollback /\ doing # rollback
  PROVE  AnswersAreComing'
<1>1. \A e \in {"rolled_back", "failed"} : OnItsWay(e) => OnItsWay(e)'
  BY WayKept DEF OnItsWay
<1>2. OnItsWay("aborted") => OnItsWay("aborted")'
  BY WayKept DEF OnItsWay
<1>3. RollbackComes /\ InterruptsCome
  BY DEF AnswersAreComing, RollbackComes, InterruptsCome
<1>4. RollbackComes' /\ InterruptsCome'
  BY <1>1, <1>2, <1>3, RollbackStillComes, InterruptsStillCome
<1> QED BY <1>4 DEF AnswersAreComing, RollbackComes, InterruptsCome

LEMMA InitComing == Init => Books /\ AnswersAreComing
<1> SUFFICES ASSUME Init PROVE Books /\ AnswersAreComing
  OBVIOUS
<1>1. ops = <<>> /\ DOMAIN ops = {} /\ doing = None /\ rollback = None /\ owed = {}
  BY DEF Init
<1> QED BY <1>1 DEF Books, OpsRecorded, DoingRecorded, Handling, AnswersAreComing

\* The facts every step starts from.
LEMMA ComingFacts ==
  ASSUME ComingInv
  PROVE  /\ TypeOK /\ Books /\ AnswersAreComing /\ Pending /\ AskInv /\ AnswerInv
         /\ ops \in Seq(Ops) /\ events \in Seq(Events) /\ None \notin Requests
         /\ {doing, rollback, prompt, taken} \subseteq Requests \union {None}
         /\ hand \in [Listeners -> Events] /\ DOMAIN stage = Listeners
<1>1. None \notin Requests
  BY DEF Requests, None
<1> QED BY <1>1 DEF ComingInv, AnswerInv, AskInv, TypeOK

\* A submission keeps what was in the queue.
LEMMA SubmitKeeps ==
  ASSUME TypeOK, NEW op \in {"input", "interrupt", "rollback"}, doing \in Requests, Submit(op, doing)
  PROVE  /\ \A i \in DOMAIN ops : \E j \in DOMAIN ops' : ops'[j] = ops[i]
         /\ \E j \in DOMAIN ops' : ops'[j] = Op(op, doing, 0)
<1> DEFINE new == Op(op, doing, 0)
<1>1. new \in Ops
  BY DEF Op, Ops
<1>2. ops \in Seq(Ops) /\ ops' = Append(ops, new)
  BY DEF TypeOK, Submit
<1> HIDE DEF new
<1>3. /\ \A i \in DOMAIN ops : i \in DOMAIN ops' /\ ops'[i] = ops[i]
      /\ Len(ops) + 1 \in DOMAIN ops' /\ ops'[Len(ops) + 1] = new
  BY <1>1, <1>2
<1> QED BY <1>3 DEF new

LEMMA ProcessorComing ==
  ASSUME ComingInv, ProcessorStep
  PROVE  Books' /\ AnswersAreComing'
<1> USE DEF procVars, mapVars, listenVars, askVars, turnVars, sessionVars, histVars
<1>1. /\ TypeOK /\ Books /\ AnswersAreComing /\ Pending
      /\ doing # None /\ doing \in Requests /\ None \notin Requests
      /\ {taken, prompt, rollback} \subseteq Requests \union {None}
      /\ kind[doing] # "none" /\ EventsKept /\ owed' = owed /\ outcome' = outcome /\ alive' = alive
      /\ kind' = kind
  <2>1. doing # None
    BY DEF ProcessorStep, RegisterPrompt, TurnStart, TurnStartFails, RecordInterrupt,
       SubmitInterrupt, RecordRollback, RefuseRollback, SubmitRollback, SubmitRollbackFails,
       TakePrompt, ReplyCancelled, Detach, Handling
  <2>2. /\ UNCHANGED <<events, stage, hand>> /\ owed' = owed /\ outcome' = outcome
        /\ alive' = alive /\ kind' = kind
    BY DEF ProcessorStep, RegisterPrompt, TurnStart, TurnStartFails, RecordInterrupt,
       SubmitInterrupt, RecordRollback, RefuseRollback, SubmitRollback, SubmitRollbackFails,
       TakePrompt, ReplyCancelled, Detach, Submit
  <2>3. EventsKept
    BY <2>2 DEF EventsKept
  <2> QED BY <2>1, <2>2, <2>3, ComingFacts DEF Pending, DoingOpen
\* Answers stay, interrupts stay, and so do the records of them.
<1>2. ASSUME \A r \in Requests : answers[r] # <<>> => answers'[r] # <<>>,
             interrupts \subseteq interrupts'
      PROVE  RecordsKept
  BY <1>1, <1>2 DEF RecordsKept, Recorded
\* Nothing submitted.
<1>3. ASSUME \A r \in Requests : answers[r] # <<>> => answers'[r] # <<>>,
             interrupts \subseteq interrupts', ops' = ops,
             rollback' # None /\ doing' # rollback' => rollback' = rollback /\ doing # rollback,
             Handling({"interrupt"}, "submit")' => Handling({"interrupt"}, "submit") /\ doing' = doing
      PROVE  Books' /\ AnswersAreComing'
  <2>1. Books'
    BY <1>1, <1>2, <1>3, BooksKept
  <2>2. AnswersAreComing'
    BY <1>1, <1>3, ComingKept
  <2> QED BY <2>1, <2>2
\* Something submitted that is no rollback.
<1>4. ASSUME NEW op \in {"input", "interrupt"}, Submit(op, doing),
             kind[doing] = "interrupt" => Recorded(doing),
             \A r \in Requests : answers[r] # <<>> => answers'[r] # <<>>,
             interrupts \subseteq interrupts', ~Handling({"interrupt"}, "submit")',
             rollback' # None /\ doing' # rollback' => rollback' = rollback /\ doing # rollback
      PROVE  Books' /\ AnswersAreComing'
  <2>1. Books'
    BY <1>1, <1>2, <1>4, BooksSubmit
  <2>2. \A i \in DOMAIN ops : \E j \in DOMAIN ops' : ops'[j] = ops[i]
    BY <1>1, <1>4, SubmitKeeps
  <2>3. AnswersAreComing'
    BY <1>1, <1>4, <2>2, ComingKept
  <2> QED BY <2>1, <2>3
<1>5. CASE RegisterPrompt
  BY <1>1, <1>3, <1>5 DEF RegisterPrompt, Handling, Then
<1>6. CASE TurnStart
  <2>1. \A r \in Requests : answers[r] # <<>> => answers'[r] # <<>>
    BY <1>1, <1>6, AnswersStay DEF TurnStart, Outcomes
  <2>2. /\ Submit("input", doing) /\ kind[doing] \in {"start", "prompt"} /\ doing' = None
        /\ UNCHANGED <<interrupts, rollback>>
    BY <1>6 DEF TurnStart, Handling, Handled
  <2>3. rollback # None => doing # rollback
    BY <1>1, <2>2 DEF Pending, RollbackOpen
  <2> QED BY <1>1, <1>4, <2>1, <2>2, <2>3 DEF Handling
<1>7. CASE TurnStartFails
  <2>1. \A r \in Requests : answers[r] # <<>> => answers'[r] # <<>>
    BY <1>1, <1>7, AnswerStays DEF TurnStartFails, Outcomes
  <2>2. rollback # None => doing # rollback
    BY <1>1, <1>7 DEF Pending, RollbackOpen, TurnStartFails, Handling
  <2> QED BY <1>1, <1>3, <1>7, <2>1, <2>2 DEF TurnStartFails, Handling, Handled
<1>8. CASE RecordInterrupt
  <2>1. /\ doing' = doing /\ step' = "submit" /\ interrupts' = interrupts \union {doing}
        /\ UNCHANGED <<ops, rollback, answers>>
    BY <1>8 DEF RecordInterrupt, Then
  <2>2. RecordsKept /\ Recorded(doing)'
    BY <1>2, <2>1 DEF Recorded
  <2>3. OpsRecorded'
    BY <1>1, <2>1, <2>2 DEF Books, OpsRecorded, RecordsKept
  <2>4. DoingRecorded'
    BY <2>1, <2>2 DEF DoingRecorded, Recorded
  <2>5. AnswersAreComing'
    BY <1>1, <2>1, ComingKept
  <2> QED BY <2>3, <2>4, <2>5 DEF Books
<1>9. CASE SubmitInterrupt
  <2>1. /\ kind[doing] = "interrupt" => Recorded(doing)
        /\ kind[doing] \in {"interrupt", "cancel", "close"}
        /\ UNCHANGED <<interrupts, rollback, answers>>
        /\ ~Handling({"interrupt"}, "submit")'
        /\ doing' = None \/ doing' = doing
    BY <1>1, <1>9 DEF SubmitInterrupt, Books, DoingRecorded, Handling, Handled, Then
  <2>2. rollback # None => doing # rollback
    BY <1>1, <2>1 DEF Pending, RollbackOpen
  <2>3. CASE Submit("interrupt", doing)
    BY <1>1, <1>4, <2>1, <2>2, <2>3
  <2>4. CASE UNCHANGED ops
    BY <1>1, <1>3, <2>1, <2>2, <2>4
  <2> QED BY <1>9, <2>3, <2>4 DEF SubmitInterrupt
<1>10. CASE RecordRollback
  BY <1>1, <1>3, <1>10 DEF RecordRollback, Handling, Then
<1>11. CASE RefuseRollback
  <2>1. \A r \in Requests : answers[r] # <<>> => answers'[r] # <<>>
    BY <1>1, <1>11, AnswerStays DEF RefuseRollback, Outcomes
  <2>2. rollback # None => doing # rollback
    BY <1>1, <1>11 DEF Pending, RollbackOpen, RefuseRollback, Handling
  <2> QED BY <1>1, <1>3, <1>11, <2>1, <2>2 DEF RefuseRollback, Handling, Handled
<1>12. CASE SubmitRollback
  <2>1. /\ Submit("rollback", doing) /\ kind[doing] = "rollback" /\ rollback = doing
        /\ outcome[doing] = "none" /\ doing' = None
        /\ UNCHANGED <<interrupts, rollback, answers>>
    BY <1>1, <1>12 DEF SubmitRollback, Handling, Handled, Pending, DoingOpen
  <2>2. Books'
    BY <1>1, <1>2, <2>1, BooksSubmit DEF Handling
  <2>3. \E j \in DOMAIN ops' : ops'[j] = Op("rollback", rollback', 0)
    BY <1>1, <2>1, SubmitKeeps
  <2>4. \A r \in owed' : answers'[r] = <<>> => r \in interrupts' /\ OnItsWay("aborted")'
    BY <1>1, <2>1, WayKept DEF AnswersAreComing, OnItsWay
  <2>5. AnswersAreComing'
    BY <1>1, <2>1, <2>3, <2>4 DEF AnswersAreComing
  <2> QED BY <2>2, <2>5
<1>13. CASE SubmitRollbackFails
  <2>1. \A r \in Requests : answers[r] # <<>> => answers'[r] # <<>>
    BY <1>1, <1>13, AnswerStays DEF SubmitRollbackFails, Outcomes
  <2> QED BY <1>1, <1>3, <1>13, <2>1 DEF SubmitRollbackFails, Handling, Handled
<1>14. CASE TakePrompt
  BY <1>1, <1>3, <1>14 DEF TakePrompt, Handling, Then
<1>15. CASE ReplyCancelled
  <2>1. \A r \in Requests : answers[r] # <<>> => answers'[r] # <<>>
    BY <1>1, <1>15, AnswersStay DEF ReplyCancelled, Outcomes
  <2>2. rollback # None => doing # rollback
    BY <1>1, <1>15 DEF Pending, RollbackOpen, ReplyCancelled, Handling
  <2> QED BY <1>1, <1>3, <1>15, <2>1, <2>2 DEF ReplyCancelled, Handling, Handled, Then
<1>16. CASE Detach
  <2>1. \A r \in Requests : answers[r] # <<>> => answers'[r] # <<>>
    BY <1>1, <1>16, AnswerStays DEF Detach, Outcomes
  <2>2. rollback # None => doing # rollback
    BY <1>1, <1>16 DEF Pending, RollbackOpen, Detach, Handling
  <2> QED BY <1>1, <1>3, <1>16, <2>1, <2>2 DEF Detach, Handling, Handled
<1> QED BY <1>5, <1>6, <1>7, <1>8, <1>9, <1>10, <1>11, <1>12, <1>13, <1>14, <1>15, <1>16
        DEF ProcessorStep

\* A listener lets go of an event that is no e.
LEMMA DropKeeps ==
  ASSUME TypeOK, events' = events, NEW l \in Listeners, NEW e, OnItsWay(e),
         stage[l] \notin {"look", "claim", "handle"} \/ hand[l].event # e,
         \A m \in Listeners : m # l => stage'[m] = stage[m] /\ hand'[m] = hand[m]
  PROVE  OnItsWay(e)'
  BY DEF OnItsWay

LEMMA ListenerComing ==
  ASSUME ComingInv, NEW l \in Listeners, ListenerStep(l)
  PROVE  Books' /\ AnswersAreComing'
<1> USE DEF procVars, mapVars, listenVars, askVars, turnVars, sessionVars, histVars
<1>1. /\ TypeOK /\ Books /\ RollbackComes /\ InterruptsCome /\ Pending
      /\ events \in Seq(Events) /\ None \notin Requests
      /\ hand \in [Listeners -> Events] /\ DOMAIN stage = Listeners
      /\ {prompt, rollback} \subseteq Requests \union {None}
      /\ UNCHANGED <<kind, doing, step, ops, alive, owed, outcome>>
  <2>1. UNCHANGED <<kind, doing, step, ops, alive, owed, outcome>>
    BY DEF ListenerStep, NextEvent, LookForPrompt, AnswerPrompt, HandleComplete, HandleAborted,
       HandleRolledBack, HandleRollbackFailed, StoreCallback, SendRequest, ListenerStops
  <2> QED BY <2>1, ComingFacts DEF AnswersAreComing, RollbackComes, InterruptsCome
<1>2. ASSUME \A r \in Requests : Recorded(r) => Recorded(r)'
      PROVE  Books'
  <2>1. RecordsKept
    BY <1>1, <1>2 DEF RecordsKept
  <2> QED BY <1>1, <2>1, BooksKept DEF Handling
\* Every step lets events go on, but for the one it handles.
<1>3. ASSUME rollback' = rollback,
             \A e \in {"rolled_back", "failed"} : OnItsWay(e) => OnItsWay(e)'
      PROVE  RollbackComes'
  BY <1>1, <1>3, RollbackStillComes
<1>4. ASSUME RollbackComes', InterruptsCome' PROVE AnswersAreComing'
  BY <1>4 DEF AnswersAreComing, RollbackComes, InterruptsCome
<1>5. ASSUME \A r \in Requests : answers[r] # <<>> => answers'[r] # <<>>,
             interrupts' = interrupts, OnItsWay("aborted") => OnItsWay("aborted")'
      PROVE  Books' /\ InterruptsCome'
  <2>1. \A r \in Requests : Recorded(r) => Recorded(r)'
    BY <1>5 DEF Recorded
  <2> QED BY <1>1, <1>2, <1>5, <2>1, InterruptsStillCome
<1>6. ASSUME events' = events, \A m \in Listeners : m # l => stage'[m] = stage[m] /\ hand'[m] = hand[m],
             NEW e, stage[l] \notin {"look", "claim", "handle"} \/ hand[l].event # e
      PROVE  OnItsWay(e) => OnItsWay(e)'
  BY <1>1, <1>6, DropKeeps
<1>7. CASE NextEvent(l)
  <2>1. /\ events # <<>> /\ events' = Tail(events) /\ stage[l] = "idle"
        /\ stage'[l] \in {"look", "claim", "handle"} /\ hand'[l] = Head(events)
        /\ \A m \in Listeners : m # l => stage'[m] = stage[m] /\ hand'[m] = hand[m]
        /\ UNCHANGED <<answers, interrupts, rollback>>
    BY <1>1, <1>7 DEF NextEvent, Goto
  <2>2. ASSUME NEW e, OnItsWay(e)
        PROVE  OnItsWay(e)'
    <3>1. CASE \E i \in DOMAIN events : events[i].event = e
      <4>1. PICK i \in DOMAIN events : events[i].event = e
        BY <3>1
      <4>2. CASE i = 1
        <5>1. hand'[l].event = e
          BY <1>1, <2>1, <4>1, <4>2, TailFacts
        <5> QED BY <2>1, <5>1 DEF OnItsWay
      <4>3. CASE i # 1
        <5>1. i - 1 \in DOMAIN events' /\ events'[i - 1] = events[i]
          BY <1>1, <2>1, <4>3
        <5> QED BY <4>1, <5>1 DEF OnItsWay
      <4> QED BY <4>2, <4>3
    <3>2. CASE \E m \in Listeners : stage[m] \in {"look", "claim", "handle"} /\ hand[m].event = e
      BY <2>1, <3>2 DEF OnItsWay
    <3> QED BY <2>2, <3>1, <3>2 DEF OnItsWay
  <2> QED BY <2>1, <2>2, <1>3, <1>4, <1>5
<1>12. CASE LookForPrompt(l)
  <2>1. UNCHANGED <<answers, interrupts, rollback>>
    BY <1>12 DEF LookForPrompt
  <2>2. ASSUME NEW e PROVE OnItsWay(e) => OnItsWay(e)'
    BY <1>1, <1>12 DEF LookForPrompt, Goto, OnItsWay
  <2> QED BY <2>1, <2>2, <1>3, <1>4, <1>5
<1>8. CASE AnswerPrompt(l)
  <2>1. \A r \in Requests : answers[r] # <<>> => answers'[r] # <<>>
    BY <1>1, <1>8, AnswersStay DEF AnswerPrompt, Outcomes
  <2>2. ASSUME NEW e PROVE OnItsWay(e) => OnItsWay(e)'
    BY <1>1, <1>8 DEF AnswerPrompt, Goto, OnItsWay
  <2> QED BY <1>8, <2>1, <2>2, <1>3, <1>4, <1>5 DEF AnswerPrompt
<1>9. CASE HandleComplete(l) \/ StoreCallback(l) \/ SendRequest(l) \/ ListenerStops(l)
  <2>1. /\ events' = events /\ UNCHANGED <<answers, interrupts, rollback>>
        /\ stage[l] \notin {"look", "claim", "handle"} \/ hand[l].event \in {"complete", "ask"}
        /\ \A m \in Listeners : m # l => stage'[m] = stage[m] /\ hand'[m] = hand[m]
    BY <1>1, <1>9 DEF HandleComplete, StoreCallback, SendRequest, ListenerStops, Goto, Holds, Dropped
  <2>2. ASSUME NEW e \in {"rolled_back", "failed", "aborted"} PROVE OnItsWay(e) => OnItsWay(e)'
    BY <1>6, <2>1
  <2> QED BY <2>1, <2>2, <1>3, <1>4, <1>5
<1>10. CASE HandleAborted(l)
  <2>1. /\ events' = events /\ interrupts' = {} /\ rollback' = rollback /\ hand[l].event = "aborted"
        /\ \A m \in Listeners : m # l => stage'[m] = stage[m] /\ hand'[m] = hand[m]
    BY <1>1, <1>10 DEF HandleAborted, Goto, Holds, Dropped
  <2>2. \A r \in Requests : Recorded(r) => answers'[r] # <<>>
    <3>1. \A r \in Requests : answers[r] \in Seq(Outcomes)
      BY <1>1 DEF TypeOK, Outcomes
    <3>2. \A r \in Requests : Append(answers[r], "aborted") # <<>>
      BY <3>1
    <3> QED BY <1>10, <3>2 DEF HandleAborted, Recorded
  <2>3. Books'
    BY <1>2, <2>2 DEF Recorded
  <2>4. InterruptsCome'
    BY <1>1, <2>2 DEF InterruptsCome, Recorded, TypeOK
  <2>5. ASSUME NEW e \in {"rolled_back", "failed"} PROVE OnItsWay(e) => OnItsWay(e)'
    BY <1>6, <2>1
  <2> QED BY <2>1, <2>3, <2>4, <2>5, <1>3, <1>4
<1>11. CASE HandleRolledBack(l) \/ HandleRollbackFailed(l)
  <2>1. /\ events' = events /\ interrupts' = interrupts /\ rollback' = None
        /\ hand[l].event # "aborted"
        /\ \A m \in Listeners : m # l => stage'[m] = stage[m] /\ hand'[m] = hand[m]
    BY <1>1, <1>11 DEF HandleRolledBack, HandleRollbackFailed, Goto, Holds, Dropped
  <2>2. \A r \in Requests : answers[r] # <<>> => answers'[r] # <<>>
    BY <1>1, <1>11, AnswersStay DEF HandleRolledBack, HandleRollbackFailed, Outcomes
  <2>3. OnItsWay("aborted") => OnItsWay("aborted")'
    BY <1>6, <2>1
  <2>4. RollbackComes'
    BY <2>1 DEF RollbackComes
  <2> QED BY <2>1, <2>2, <2>3, <2>4, <1>4, <1>5
<1> QED BY <1>7, <1>8, <1>9, <1>10, <1>11, <1>12 DEF ListenerStep

\* More events: those that were on their way still are.
LEMMA MoreEvents ==
  ASSUME TypeOK, UNCHANGED <<stage, hand>>, NEW x \in Events, events' = Append(events, x)
  PROVE  EventsKept /\ \E i \in DOMAIN events' : events'[i] = x
<1>1. events \in Seq(Events)
  BY DEF TypeOK
<1>2. /\ \A i \in DOMAIN events : i \in DOMAIN events' /\ events'[i] = events[i]
      /\ Len(events) + 1 \in DOMAIN events' /\ events'[Len(events) + 1] = x
  BY <1>1
<1> QED BY <1>2 DEF EventsKept

\* An Op that is taken leaves the others in the queue.
LEMMA TakeKeeps ==
  ASSUME TypeOK, NEW op, Takes(op)
  PROVE  /\ \A j \in DOMAIN ops' : \E i \in DOMAIN ops : ops'[j] = ops[i]
         /\ \A i \in DOMAIN ops : i = 1 \/ \E j \in DOMAIN ops' : ops'[j] = ops[i]
         /\ 1 \in DOMAIN ops /\ Head(ops) = ops[1] /\ ops[1].op = op
<1>1. ops \in Seq(Ops) /\ ops # <<>> /\ ops' = Tail(ops) /\ Head(ops).op = op
  BY DEF TypeOK, Takes
<1>2. /\ Head(ops) = ops[1] /\ 1 \in DOMAIN ops
      /\ \A j \in DOMAIN ops' : j + 1 \in DOMAIN ops /\ ops'[j] = ops[j + 1]
  BY <1>1, TailFacts
<1>3. \A i \in DOMAIN ops : i = 1 \/ (i - 1 \in DOMAIN ops' /\ ops'[i - 1] = ops[i])
  BY <1>1
<1> QED BY <1>1, <1>2, <1>3

LEMMA SessionComing ==
  ASSUME ComingInv, TakeOp \/ AskClient \/ FinishTurn \/ ReportTurn \/ SessionEnds
  PROVE  Books' /\ AnswersAreComing'
<1> USE DEF procVars, mapVars, listenVars, askVars, turnVars, sessionVars, histVars
<1>1. /\ TypeOK /\ Books /\ AnswersAreComing /\ RollbackComes /\ InterruptsCome /\ InFlight
      /\ events \in Seq(Events) /\ ops \in Seq(Ops) /\ turn \in Nat
      /\ UNCHANGED <<kind, doing, step, answers, interrupts, rollback, stage, hand>>
      /\ RecordsKept
  <2>1. UNCHANGED <<kind, doing, step, answers, interrupts, rollback, stage, hand>>
    BY DEF TakeOp, TakeInput, TakeInterrupt, TakeRollback, TakeDecision, AskClient, FinishTurn,
       ReportTurn, SessionEnds
  <2>2. RecordsKept
    BY <2>1 DEF RecordsKept, Recorded
  <2> QED BY <2>1, <2>2, ComingFacts DEF AnswersAreComing, RollbackComes, InterruptsCome,
             AnswerInv, TypeOK
<1>2. ASSUME \A j \in DOMAIN ops' : \E i \in DOMAIN ops : ops'[j] = ops[i]
      PROVE  Books'
  BY <1>1, <1>2, BooksKept DEF Handling
<1>3. ASSUME EventsKept, owed' = owed, outcome' = outcome, alive' => alive,
             \A i \in DOMAIN ops : IsRollback(ops[i]) /\ alive' => \E j \in DOMAIN ops' : ops'[j] = ops[i]
      PROVE  AnswersAreComing'
  BY <1>1, <1>3, ComingKept
<1>4. events' = events => EventsKept
  BY <1>1 DEF EventsKept
<1>5. CASE TakeInput \/ TakeDecision
  <2>1. PICK op \in {"input", "decision"} : Takes(op)
    BY <1>5 DEF TakeInput, TakeDecision
  <2>2. /\ \A j \in DOMAIN ops' : \E i \in DOMAIN ops : ops'[j] = ops[i]
        /\ \A i \in DOMAIN ops : IsRollback(ops[i]) => \E j \in DOMAIN ops' : ops'[j] = ops[i]
    BY <1>1, <2>1, TakeKeeps DEF IsRollback
  <2>3. UNCHANGED <<events, owed, outcome, alive>>
    BY <1>5 DEF TakeInput, TakeDecision
  <2> QED BY <1>2, <1>3, <1>4, <2>2, <2>3
<1>6. CASE TakeInterrupt
  <2>1. PICK op \in {"interrupt", "abort"} : Takes(op)
    BY <1>6 DEF TakeInterrupt
  <2>2. /\ \A j \in DOMAIN ops' : \E i \in DOMAIN ops : ops'[j] = ops[i]
        /\ \A i \in DOMAIN ops : IsRollback(ops[i]) => \E j \in DOMAIN ops' : ops'[j] = ops[i]
        /\ 1 \in DOMAIN ops /\ Head(ops) = ops[1]
    BY <1>1, <2>1, TakeKeeps DEF IsRollback
  <2>3. CASE turn = 0
    BY <1>2, <1>3, <1>4, <1>6, <2>2, <2>3 DEF TakeInterrupt
  <2>4. CASE turn # 0
    <3>1. EventsKept /\ OnItsWay("aborted")'
      <4> DEFINE c == Event("complete", turn)
                 a == Event("aborted", turn)
      <4>1. c \in Events /\ a \in Events /\ a.event = "aborted"
        BY <1>1 DEF Event, Events
      <4>2. events' = Append(events, a) \/ events' = events \o <<c, a>>
        BY <1>6, <2>4 DEF TakeInterrupt
      <4> HIDE DEF c, a
      <4>3. /\ \A i \in DOMAIN events : i \in DOMAIN events' /\ events'[i] = events[i]
            /\ \E i \in DOMAIN events' : events'[i] = a
        <5>1. CASE events' = Append(events, a)
          <6>1. Len(events) + 1 \in DOMAIN events' /\ events'[Len(events) + 1] = a
            BY <1>1, <4>1, <5>1
          <6> QED BY <1>1, <4>1, <5>1, <6>1
        <5>2. CASE events' = events \o <<c, a>>
          <6>1. <<c, a>> \in Seq(Events) /\ Len(<<c, a>>) = 2 /\ <<c, a>>[2] = a
            BY <4>1
          <6> DEFINE s == <<c, a>>
          <6> HIDE DEF s
          <6>2. /\ Len(events') = Len(events) + 2 /\ DOMAIN events' = 1..(Len(events) + 2)
                /\ \A i \in 1..Len(events) : events'[i] = events[i]
                /\ events'[Len(events) + 2] = s[2]
            BY <1>1, <5>2, <6>1 DEF s
          <6>3. Len(events) \in Nat /\ DOMAIN events = 1..Len(events)
            BY <1>1
          <6>4. events'[Len(events) + 2] = a
            BY <6>1, <6>2 DEF s
          <6> QED BY <6>2, <6>3, <6>4
        <5> QED BY <4>2, <5>1, <5>2
      <4> QED BY <1>1, <4>1, <4>3 DEF EventsKept, OnItsWay
    <3>2. UNCHANGED <<outcome, alive>>
      BY <1>6 DEF TakeInterrupt, Takes
    <3>3. \A e \in {"rolled_back", "failed"} : OnItsWay(e) => OnItsWay(e)'
      BY <3>1, WayKept DEF OnItsWay
    <3>4. RollbackComes'
      BY <1>1, <2>2, <3>2, <3>3, RollbackStillComes
    <3>5. InterruptsCome'
      <4> SUFFICES ASSUME NEW r \in owed', answers'[r] = <<>>
                   PROVE  r \in interrupts' /\ OnItsWay("aborted")'
        BY DEF InterruptsCome
      <4>1. r \in owed \/ (r \in Requests /\ r = ops[1].by /\ kind[r] = "interrupt")
        BY <1>6, <2>2, <2>4 DEF TakeInterrupt
      <4>2. r \in interrupts
        BY <1>1, <2>2, <4>1 DEF InterruptsCome, Books, OpsRecorded, Recorded
      <4> QED BY <1>1, <3>1, <4>2
    <3>6. Books'
      BY <1>2, <2>2
    <3> QED BY <3>4, <3>5, <3>6 DEF AnswersAreComing, RollbackComes, InterruptsCome
  <2> QED BY <2>3, <2>4
<1>7. CASE TakeRollback
  <2>1. PICK o \in {"rolled_back", "failed"} :
          /\ events' = Append(events, Event(o, 0))
          /\ outcome' = [outcome EXCEPT ![Head(ops).by] = o]
    BY <1>7 DEF TakeRollback
  <2>2. Takes("rollback") /\ owed' = owed
    BY <1>7 DEF TakeRollback
  <2>3. /\ \A j \in DOMAIN ops' : \E i \in DOMAIN ops : ops'[j] = ops[i]
        /\ 1 \in DOMAIN ops /\ Head(ops) = ops[1] /\ IsRollback(ops[1])
    BY <1>1, <2>2, TakeKeeps DEF IsRollback
  <2>4. Submitted /\ ops[1].by = rollback /\ rollback \in Requests
    BY <1>1, <2>3 DEF InFlight, OpOfPending, Submitted, TypeOK
  <2>5. outcome'[rollback] = o
    BY <1>1, <2>1, <2>3, <2>4 DEF TypeOK
  <2>6. Event(o, 0) \in Events /\ Event(o, 0).event = o
    BY DEF Event, Events
  <2>7. EventsKept /\ \E i \in DOMAIN events' : events'[i] = Event(o, 0)
    BY <1>1, <2>1, <2>6, MoreEvents
  <2>8. OnItsWay(o)'
    BY <2>6, <2>7 DEF OnItsWay
  <2>9. RollbackComes'
    BY <1>1, <2>5, <2>8 DEF RollbackComes, OnItsWay
  <2>10. InterruptsCome'
    <3>1. OnItsWay("aborted") => OnItsWay("aborted")'
      BY <2>7, WayKept DEF OnItsWay
    <3> QED BY <1>1, <2>2, <3>1, InterruptsStillCome
  <2>11. Books'
    BY <1>2, <2>3
  <2> QED BY <2>9, <2>10, <2>11 DEF AnswersAreComing, RollbackComes, InterruptsCome
<1>8. CASE AskClient
  <2>1. Event("ask", turn) \in Events
    BY <1>1 DEF Event, Events
  <2>2. EventsKept
    BY <1>1, <1>8, <2>1, MoreEvents DEF AskClient
  <2> QED BY <1>2, <1>3, <1>8, <2>2 DEF AskClient
<1>9. CASE FinishTurn
  BY <1>2, <1>3, <1>4, <1>9 DEF FinishTurn
<1>10. CASE ReportTurn
  <2>1. PICK t \in ending : events' = Append(events, Event("complete", t)) \/ UNCHANGED events
    BY <1>10 DEF ReportTurn
  <2>2. Event("complete", t) \in Events
    BY <1>1 DEF Event, Events, TypeOK
  <2>3. EventsKept
    BY <1>1, <1>4, <2>1, <2>2, MoreEvents
  <2> QED BY <1>2, <1>3, <1>10, <2>3 DEF ReportTurn
<1>11. CASE SessionEnds
  <2>1. Event("aborted", turn) \in Events
    BY <1>1 DEF Event, Events
  <2>2. EventsKept
    BY <1>1, <1>4, <1>11, <2>1, MoreEvents DEF SessionEnds
  <2>3. DOMAIN ops' = {} /\ ~alive' /\ UNCHANGED <<owed, outcome>>
    BY <1>11 DEF SessionEnds
  <2> QED BY <1>2, <1>3, <2>2, <2>3
<1> QED BY <1>5, <1>6, <1>7, <1>8, <1>9, <1>10, <1>11 DEF TakeOp

LEMMA NextComing == ComingInv /\ [Next]_vars => Books' /\ AnswersAreComing'
<1> SUFFICES ASSUME ComingInv, [Next]_vars PROVE Books' /\ AnswersAreComing'
  OBVIOUS
<1> USE DEF procVars, mapVars, listenVars, askVars, turnVars, sessionVars, histVars
<1>1. /\ TypeOK /\ Books /\ AnswersAreComing /\ Pending /\ ops \in Seq(Ops) /\ None \notin Requests
      /\ DOMAIN stage = Listeners
  BY ComingFacts
\* Steps outside the processor, the events and the session.
<1>2. ASSUME RecordsKept, EventsKept,
             UNCHANGED <<answers, interrupts, owed, outcome, alive, rollback>>,
             rollback # None /\ doing' # rollback => doing # rollback,
             \A i \in DOMAIN ops : \E j \in DOMAIN ops' : ops'[j] = ops[i]
      PROVE  AnswersAreComing'
  BY <1>1, <1>2, ComingKept
<1>3. CASE UNCHANGED vars
  <2>1. RecordsKept /\ EventsKept
    BY <1>3 DEF vars, RecordsKept, Recorded, EventsKept
  <2>2. Books'
    BY <1>1, <1>3, <2>1, BooksKept DEF vars, Handling
  <2> QED BY <1>2, <1>3, <2>1, <2>2 DEF vars
<1>4. ASSUME NEW r \in Requests, NEW k \in Kinds, Receive(r, k)
      PROVE  Books' /\ AnswersAreComing'
  <2>1. RecordsKept /\ EventsKept
    BY <1>1, <1>4 DEF Receive, RecordsKept, Recorded, EventsKept, TypeOK
  <2>2. Books'
    BY <1>1, <1>4, <2>1, BooksKept DEF Receive, Handling
  <2> QED BY <1>1, <1>2, <1>4, <2>1, <2>2 DEF Receive
<1>5. ASSUME NEW l \in Listeners, AddListener(l) \/ RemoveListener(l)
      PROVE  Books' /\ AnswersAreComing'
  <2>1. RecordsKept
    BY <1>5 DEF AddListener, RemoveListener, RecordsKept, Recorded
  <2>2. EventsKept
    BY <1>1, <1>5 DEF AddListener, RemoveListener, EventsKept
  <2>3. Books'
    BY <1>1, <1>5, <2>1, BooksKept DEF AddListener, RemoveListener, Handling
  <2> QED BY <1>2, <1>5, <2>1, <2>2, <2>3 DEF AddListener, RemoveListener
<1>6. ASSUME NEW i \in DOMAIN asked, NEW d \in Answered, ClientReplies(i, d)
      PROVE  Books' /\ AnswersAreComing'
  <2>1. RecordsKept /\ EventsKept
    BY <1>6 DEF ClientReplies, RecordsKept, Recorded, EventsKept
  <2>2. Books'
    BY <1>1, <1>6, <2>1, BooksKept DEF ClientReplies, Handling
  <2> QED BY <1>2, <1>6, <2>1, <2>2 DEF ClientReplies
<1>7. ASSUME NEW i \in DOMAIN asked, SubmitDecision(i)
      PROVE  Books' /\ AnswersAreComing'
  <2> DEFINE op == Op(IF asked[i].said = "abort" THEN "abort" ELSE "decision",
                      None, asked[i].turn)
  <2>1. op \in Ops /\ op.by = None
    <3>1. asked \in Seq(AskRecord)
      BY <1>1 DEF TypeOK, AskRecord, Said
    <3>2. asked[i] \in AskRecord
      BY <3>1
    <3>3. asked[i].turn \in Nat
      BY <3>2 DEF AskRecord
    <3> QED BY <3>3 DEF Op, Ops
  <2>2. /\ ops' = Append(ops, op) \/ ops' = ops
        /\ UNCHANGED <<kind, doing, step, answers, interrupts, owed, outcome, alive, rollback,
                       events, stage, hand>>
    BY <1>7 DEF SubmitDecision
  <2> HIDE DEF op
  <2>3. RecordsKept /\ EventsKept
    BY <2>2 DEF RecordsKept, Recorded, EventsKept
  <2>4. \A j \in DOMAIN ops : j \in DOMAIN ops' /\ ops'[j] = ops[j]
    BY <1>1, <2>1, <2>2
  <2>5. \A j \in DOMAIN ops' : (j \in DOMAIN ops /\ ops'[j] = ops[j]) \/ ops'[j] = op
    BY <1>1, <2>1, <2>2, AppendFacts
  <2>6. OpsRecorded'
    <3> SUFFICES ASSUME NEW j \in DOMAIN ops', NEW r \in Requests, ops'[j].by = r
                 PROVE  kind'[r] # "none" /\ (kind'[r] = "interrupt" => Recorded(r)')
      BY DEF OpsRecorded
    <3> QED BY <1>1, <2>1, <2>3, <2>5 DEF Books, OpsRecorded, RecordsKept
  <2>7. DoingRecorded'
    BY <1>1, <2>2 DEF Books, DoingRecorded, Handling, Recorded
  <2>8. AnswersAreComing'
    BY <1>2, <2>2, <2>3, <2>4
  <2> QED BY <2>6, <2>7, <2>8 DEF Books
<1> QED BY <1>3, <1>4, <1>5, <1>6, <1>7, ProcessorComing, ListenerComing, SessionComing DEF Next

\* For any number of requests and listeners: what is pending, an Op or an event
\* will answer, whichever listeners come and go and take the events.
THEOREM WhatIsPendingIsAnswered == Spec => []AnswersAreComing
<1>1. Init => ComingInv
  BY InitAnswer, InitComing DEF ComingInv
<1>2. AnswerInv /\ [Next]_vars => AnswerInv'
  BY NextAsk, NextInFlight, NextPending DEF AnswerInv
<1>3. ComingInv /\ [Next]_vars => ComingInv'
  BY <1>2, NextComing DEF ComingInv
<1>4. ComingInv => AnswersAreComing
  BY DEF ComingInv
<1> QED BY <1>1, <1>3, <1>4, PTL DEF Spec
=============================================================================
