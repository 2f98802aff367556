------------------------- MODULE SessionTurn_proofs -------------------------
(* Proofs about SessionTurn: an inductive invariant that says who owns the    *)
(* live task at every point of the submission loop, and from it the safety    *)
(* properties and the refinement of TaskSlot.                                 *)
EXTENDS SessionTurn, SequenceTheorems, TLAPS

\* While the loop aborts or spawns, no turn is active: it took the turn away
\* and it alone installs one.
LoopHolds ==
  lpc \in {"cancel", "grace", "report", "spawn", "spawnother", "register"} => active = None

\* A turn to start is at hand exactly while the loop means to start one.
NextSet ==
  /\ goal \in {"spawn", "spawnother"} \/ lpc \in {"spawn", "spawnother", "register"}
       => next \in Subs
  /\ lpc \in {"spawn", "spawnother", "register"} => goal = "recv"

\* A request that is about to be registered or shown has been counted.
AskedPos == \A t \in Subs : pc[t] \in {"ask", "show"} => asked[t] \in 1 .. MaxAsks

\* A submission starts at most one task, and nothing happens to a task before
\* it is spawned.
Fresh ==
  /\ \A s \in Subs : fate[s] = "unsent" => pc[s] = "none"
  /\ \A s \in Subs : pc[s] = "none" => ~cancelled[s] /\ ~aborted[s]
  /\ goal \in {"spawn", "spawnother"} \/ lpc \in {"spawn", "spawnother"}
       => pc[next] = "none" /\ fate[next] # "unsent"
  /\ lpc = "register" => pc[next] # "none" /\ ~cancelled[next]
  /\ lpc = "cancel" => victim \in Subs /\ pc[victim] # "none"
  /\ active # None => pc[active.owner] # "none" /\ ~cancelled[active.owner]

\* A live task is the one of the active turn, the one being registered, or the
\* one being aborted.
Owned(t) ==
  \/ active # None /\ active.owner = t
  \/ lpc = "register" /\ next = t
  \/ lpc \in {"cancel", "grace"} /\ victim = t

LiveOwned == \A t \in Subs : Live(t) => Owned(t)

IInv == TypeOK /\ LoopHolds /\ NextSet /\ AskedPos /\ Fresh /\ LiveOwned

\* The part of the invariant that is not about types.
Control == LoopHolds /\ NextSet /\ AskedPos /\ Fresh /\ LiveOwned

\* The turn stays, or there is none.
SameOwner ==
  IF active = None THEN active' = None
                   ELSE active' # None /\ active'.owner = active.owner

----------------------------------------------------------------------------
(* Lemmas on the helpers *)

\* What the helpers return has the type the variables expect.
LEMMA SetFateType ==
  ASSUME NEW S, NEW f \in Fates, fate \in [Subs -> Fates], SetFate(S, f)
  PROVE  fate' \in [Subs -> Fates]
BY DEF SetFate


LEMMA TurnPending ==
  ASSUME NEW a \in ActiveTurns, NEW p \in Seq(Subs)
  PROVE  /\ [a EXCEPT !.pending = p] \in ActiveTurns
         /\ [a EXCEPT !.pending = p].owner = a.owner
BY DEF ActiveTurns

LEMMA TurnAsks ==
  ASSUME NEW a \in ActiveTurns, NEW q \in SUBSET Requests
  PROVE  /\ [a EXCEPT !.asks = q] \in ActiveTurns
         /\ [a EXCEPT !.asks = q].owner = a.owner
BY DEF ActiveTurns

\* Changing the pending inputs or senders does not change whose turn it is.
LEMMA KeepsOwner ==
  ASSUME active \in ActiveTurns,
         \/ \E p \in Seq(Subs) : active' = [active EXCEPT !.pending = p]
         \/ \E q \in SUBSET Requests : active' = [active EXCEPT !.asks = q]
  PROVE  active # None /\ active' # None /\ active'.owner = active.owner
<1>1. active' \in ActiveTurns /\ active'.owner = active.owner
  <2>1. CASE \E p \in Seq(Subs) : active' = [active EXCEPT !.pending = p]
    BY <2>1, TurnPending
  <2>2. CASE \E q \in SUBSET Requests : active' = [active EXCEPT !.asks = q]
    BY <2>2, TurnAsks
  <2> QED
    BY <2>1, <2>2
<1> QED
  BY <1>1, NoneAssumption

LEMMA TurnOfTask ==
  ASSUME NEW t \in Subs
  PROVE  NewTurn(t) \in ActiveTurns /\ NewTurn(t).owner = t
BY DEF NewTurn, ActiveTurns

LEMMA TurnParts ==
  ASSUME NEW a \in ActiveTurns
  PROVE  a.owner \in Subs /\ a.pending \in Seq(Subs) /\ a.asks \in SUBSET Requests
BY DEF ActiveTurns

LEMMA ReplyTypes ==
  ASSUME asked \in [Subs -> 0 .. MaxAsks]
  PROVE  /\ NoReply \in Replies
         /\ \A t \in Subs : Dropped(t) \in Replies
         /\ \A d \in {"approved", "denied"}, n \in 0 .. MaxAsks :
               [decision |-> d, for |-> n] \in Replies
BY MaxAsksAssumption DEF NoReply, Dropped, Replies

\* What the halves of a request, registering the sender and showing the event,
\* do to the other variables.
LEMMA RegisterFrame ==
  ASSUME NEW t \in Subs, TaskAskCommand(t) \/ TaskAskPatch(t)
  PROVE  /\ pc[t] = "ask" /\ pc' = [pc EXCEPT ![t] = "show"]
         /\ \/ active = None /\ UNCHANGED active
            \/ /\ active # None
               /\ active' = [active EXCEPT !.asks =
                               (active.asks \ EntryOf(t)) \union {<<t, asked[t]>>}]
         /\ \E r \in {NoReply, Dropped(t)} : reply' = [reply EXCEPT ![t] = r]
         /\ UNCHANGED <<loopVars, cancelled, aborted, follow, taken, asked, history, fate,
                        unanswered, credit, events>>
BY DEF TaskAskCommand, TaskAskPatch, Register, Goto

LEMMA ShowFrame ==
  ASSUME NEW t \in Subs, TaskShow(t)
  PROVE  /\ pc[t] = "show" /\ pc' = [pc EXCEPT ![t] = "wait"]
         /\ unanswered' = unanswered \union {<<t, asked[t]>>}
         /\ UNCHANGED <<active, reply, loopVars, cancelled, aborted, follow, taken, asked,
                        history, fate, credit, events>>
BY DEF TaskShow, Show, Goto

LEMMA AskFrame ==
  ASSUME NEW t \in Subs, TaskAsk(t)
  PROVE  /\ pc[t] \in {"ask", "show"}
         /\ \E to \in {"show", "wait"} : pc' = [pc EXCEPT ![t] = to]
         /\ UNCHANGED <<loopVars, cancelled, aborted, follow, taken, asked, history, fate,
                        credit, events>>
BY RegisterFrame, ShowFrame DEF TaskAsk

LEMMA AnswerDropped ==
  ASSUME asked \in [Subs -> 0 .. MaxAsks], reply \in [Subs -> Replies],
         NEW A, Answer(A, Refusals)
  PROVE  reply' \in [Subs -> Replies]
BY ReplyTypes DEF Answer, Refusals

----------------------------------------------------------------------------
(* Type correctness *)

\* Every step preserves the types; asking needs AskedPos, spawning NextSet.
LEMMA TypeStep == IInv /\ [Next]_vars => TypeOK'
<1> SUFFICES ASSUME IInv, [Next]_vars PROVE TypeOK'
  OBVIOUS
<1> USE NoneAssumption, MaxAsksAssumption
    DEF IInv, TypeOK, Requests, NextSet, Fates, LoopPCs, TaskPCs,
        vars, loopVars, taskVars, seenVars
<1>1. CASE RecvInterrupt
  BY <1>1 DEF RecvInterrupt, InterruptTask, StartAbort, LoopGoto
<1>2. CASE RecvRollback
  <2>1. history' \in Seq(Subs)
    BY <1>2, ElementOfSeq, SubSeqProperties DEF RecvRollback
  <2>2. fate' \in [Subs -> Fates]
    BY <1>2, SetFateType DEF RecvRollback
  <2> QED
    BY <1>2, <2>1, <2>2 DEF RecvRollback
<1>3. CASE RecvShutdown
  BY <1>3 DEF RecvShutdown, StartAbort, LoopGoto
<1>4. CASE LoopTake
  <2>1. fate' \in [Subs -> Fates]
    BY <1>4, SetFateType DEF LoopTake
  <2>2. reply' \in [Subs -> Replies]
    BY <1>4, ReplyTypes, AnswerDropped DEF LoopTake
  <2>3. active # None => active.owner \in Subs
    BY DEF ActiveTurns
  <2> QED
    BY <1>4, <2>1, <2>2, <2>3 DEF LoopTake, AbortOver
<1>5. CASE LoopCancel
  BY <1>5 DEF LoopCancel, LoopGoto
<1>6. CASE LoopGraceOver
  BY <1>6 DEF LoopGraceOver, LoopGoto
<1>7. CASE LoopReport
  BY <1>7 DEF LoopReport, AbortOver, Emit
<1>8. CASE LoopSpawn
  BY <1>8 DEF LoopSpawn
<1>9. CASE LoopRegister
  BY <1>9, TurnOfTask DEF LoopRegister, LoopGoto
<1>10. ASSUME NEW s \in Subs, RecvInputInject(s) PROVE  TypeOK'
  <2>1. active' \in ActiveTurns
    <3>1. active \in ActiveTurns /\ Append(active.pending, s) \in Seq(Subs)
      BY <1>10, TurnParts DEF RecvInputInject
    <3> QED
      BY <1>10, <3>1, TurnPending DEF RecvInputInject
  <2>2. fate' \in [Subs -> Fates]
    BY <1>10, SetFateType DEF RecvInputInject
  <2> QED
    BY <1>10, <2>1, <2>2 DEF RecvInputInject
<1>11. ASSUME NEW s \in Subs, RecvInputSpawn(s) PROVE  TypeOK'
  BY <1>11 DEF RecvInputSpawn, StartAbort, LoopGoto, SetFate
<1>12. ASSUME NEW s \in Subs, RecvOther(s) PROVE  TypeOK'
  BY <1>12 DEF RecvOther, StartAbort, LoopGoto, SetFate
<1>13. ASSUME NEW req \in Requests, NEW d \in {"approved", "denied"}, RecvDecision(req, d)
      PROVE  TypeOK'
  <2>1. active' = None \/ active' \in ActiveTurns
    BY <1>13, TurnAsks, TurnParts DEF RecvDecision, NotifyApproval
  <2>2. req[1] \in Subs /\ req[2] \in 0 .. MaxAsks
    BY DEF Requests
  <2>3. reply' \in [Subs -> Replies]
    BY <1>13, <2>2, ReplyTypes DEF RecvDecision, NotifyApproval, Answer
  <2>4. credit' \in [Subs -> Int]
    BY <1>13, <2>2 DEF RecvDecision
  <2> QED
    BY <1>13, <2>1, <2>3, <2>4 DEF RecvDecision
<1>14. ASSUME NEW req \in Requests, RecvDecisionAbort(req) PROVE  TypeOK'
  BY <1>14 DEF RecvDecisionAbort, InterruptTask, StartAbort, LoopGoto
<1>15. ASSUME NEW t \in Subs, TaskStart(t) PROVE  TypeOK'
  <2>1. fate' \in [Subs -> Fates]
    BY <1>15, SetFateType DEF TaskStart
  <2>2. history' \in Seq(Subs)
    BY <1>15 DEF TaskStart
  <2> QED
    BY <1>15, <2>1, <2>2 DEF TaskStart, Goto
<1>16. ASSUME NEW t \in Subs, TaskStartEmpty(t) PROVE  TypeOK'
  BY <1>16 DEF TaskStartEmpty, Goto, SetFate
<1>17. ASSUME NEW t \in Subs, TaskStartOther(t) PROVE  TypeOK'
  BY <1>17 DEF TaskStartOther, Goto, SetFate
<1>18. ASSUME NEW t \in Subs, TaskWorked(t) PROVE  TypeOK'
  BY <1>18 DEF TaskWorked, Goto
<1>19. ASSUME NEW t \in Subs, TaskCollect(t) PROVE  TypeOK'
  <2>1. active' = None \/ active' \in ActiveTurns
    <3>1. CASE active = None
      BY <1>19, <3>1 DEF TaskCollect
    <3>2. CASE active # None
      <4>1. active \in ActiveTurns /\ <<>> \in Seq(Subs)
        BY <3>2
      <4>2. active' = [active EXCEPT !.pending = <<>>]
        BY <1>19, <3>2 DEF TaskCollect
      <4> QED
        BY <4>1, <4>2, TurnPending
    <3> QED
      BY <3>1, <3>2
  <2>2. fate' \in [Subs -> Fates]
    BY <1>19, SetFateType DEF TaskCollect
  <2>3. taken' \in [Subs -> Seq(Subs)]
    BY <1>19, TurnParts DEF TaskCollect
  <2> QED
    BY <1>19, <2>1, <2>2, <2>3 DEF TaskCollect, Goto
<1>32. ASSUME NEW t \in Subs, TaskRecord(t) PROVE  TypeOK'
  <2>1. fate' \in [Subs -> Fates]
    BY <1>32, SetFateType DEF TaskRecord
  <2>2. history' \in Seq(Subs)
    BY <1>32, ConcatProperties DEF TaskRecord
  <2>3. taken' \in [Subs -> Seq(Subs)]
    BY <1>32 DEF TaskRecord
  <2> QED
    BY <1>32, <2>1, <2>2, <2>3 DEF TaskRecord, Goto
<1>20. ASSUME NEW t \in Subs, TaskToolCall(t) PROVE  TypeOK'
  <2>1. asked' \in [Subs -> 0 .. MaxAsks] /\ pc' \in [Subs -> TaskPCs]
    BY <1>20 DEF TaskToolCall, Goto
  <2>2. /\ follow' \in [Subs -> BOOLEAN]
        /\ UNCHANGED <<active, loopVars, cancelled, aborted, taken, reply, seenVars>>
    BY <1>20 DEF TaskToolCall
  <2> QED
    BY <2>1, <2>2
<1>21. ASSUME NEW t \in Subs, TaskAsk(t) PROVE  TypeOK'
  <2>1. <<t, asked[t]>> \in Requests
    BY <1>21, AskFrame DEF AskedPos
  <2>2. CASE TaskAskCommand(t) \/ TaskAskPatch(t)
    <3>1. active' = None \/ active' \in ActiveTurns
      <4>1. CASE active = None
        BY <2>2, <4>1, RegisterFrame
      <4>2. CASE active # None
        <5>1. (active.asks \ EntryOf(t)) \union {<<t, asked[t]>>} \in SUBSET Requests
          BY <2>1, <4>2, TurnParts
        <5>2. active' = [active EXCEPT !.asks = (active.asks \ EntryOf(t)) \union {<<t, asked[t]>>}]
          BY <2>2, <4>2, RegisterFrame
        <5> QED
          BY <4>2, <5>1, <5>2, TurnAsks
      <4> QED
        BY <4>1, <4>2
    <3>2. reply' \in [Subs -> Replies]
      <4>1. NoReply \in Replies /\ Dropped(t) \in Replies
        BY ReplyTypes
      <4>2. PICK r \in {NoReply, Dropped(t)} : reply' = [reply EXCEPT ![t] = r]
        BY <2>2, RegisterFrame
      <4> QED
        BY <4>1, <4>2
    <3>3. pc' = [pc EXCEPT ![t] = "show"]
          /\ UNCHANGED <<loopVars, cancelled, aborted, follow, taken, asked, history, fate,
                         unanswered, credit, events>>
      BY <2>2, RegisterFrame
    <3> QED
      BY <3>1, <3>2, <3>3
  <2>3. CASE TaskShow(t)
    <3>1. /\ pc' = [pc EXCEPT ![t] = "wait"]
          /\ unanswered' = unanswered \union {<<t, asked[t]>>}
          /\ UNCHANGED <<active, reply, loopVars, cancelled, aborted, follow, taken, asked,
                         history, fate, credit, events>>
      BY <2>3, ShowFrame
    <3> QED
      BY <2>1, <3>1
  <2> QED
    BY <1>21, <2>2, <2>3 DEF TaskAsk
<1>22. ASSUME NEW t \in Subs, TaskProceed(t) PROVE  TypeOK'
  <2>1. reply' \in [Subs -> Replies]
    BY <1>22, ReplyTypes DEF TaskProceed
  <2>2. credit' \in [Subs -> Int]
    BY <1>22 DEF TaskProceed
  <2> QED
    BY <1>22, <2>1, <2>2 DEF TaskProceed, Goto
<1>23. ASSUME NEW t \in Subs, TaskSeesCancel(t) PROVE  TypeOK'
  BY <1>23 DEF TaskSeesCancel
<1>24. ASSUME NEW t \in Subs, TaskError(t) PROVE  TypeOK'
  BY <1>24 DEF TaskError, Goto, Emit
<1>25. ASSUME NEW t \in Subs, TaskCompleted(t) PROVE  TypeOK'
  BY <1>25 DEF TaskCompleted, Goto
<1>26. ASSUME NEW t \in Subs, TaskCheck(t) PROVE  TypeOK'
  BY <1>26 DEF TaskCheck, Goto
<1>27. ASSUME NEW t \in Subs, TaskFlush(t) PROVE  TypeOK'
  <2>1. CASE cancelled[t]
    <3>1. EndTask(t, "done")
      BY <1>27, <2>1, Zenon DEF TaskFlush
    <3>2. reply' \in [Subs -> Replies] /\ asked' \in [Subs -> 0 .. MaxAsks] /\ credit' \in [Subs -> Int]
      BY <3>1, ReplyTypes DEF EndTask
    <3>3. /\ pc' \in [Subs -> TaskPCs] /\ taken' \in [Subs -> Seq(Subs)]
          /\ follow' \in [Subs -> BOOLEAN] /\ aborted' \in [Subs -> BOOLEAN]
      BY <3>1 DEF EndTask
    <3>4. UNCHANGED <<active, loopVars, cancelled, history, fate, unanswered, events>>
      BY <1>27, Zenon DEF TaskFlush
    <3> QED
      BY <3>2, <3>3, <3>4
  <2>2. CASE ~cancelled[t]
    BY <1>27, <2>2 DEF TaskFlush, Goto
  <2> QED
    BY <2>1, <2>2
<1>28. ASSUME NEW t \in Subs, TaskFinish(t) PROVE  TypeOK'
  <2>1. fate' \in [Subs -> Fates]
    BY <1>28, SetFateType DEF TaskFinish
  <2>2. reply' \in [Subs -> Replies]
    BY <1>28, ReplyTypes, AnswerDropped DEF TaskFinish
  <2> QED
    BY <1>28, <2>1, <2>2 DEF TaskFinish, Goto
<1>29. ASSUME NEW t \in Subs, TaskComplete(t) PROVE  TypeOK'
  <2>1. reply' \in [Subs -> Replies] /\ asked' \in [Subs -> 0 .. MaxAsks] /\ credit' \in [Subs -> Int]
    BY <1>29, ReplyTypes DEF TaskComplete, EndTask, Emit
  <2> QED
    BY <1>29, <2>1 DEF TaskComplete, EndTask, Emit
<1>30. ASSUME NEW t \in Subs, TaskKilled(t) PROVE  TypeOK'
  <2>1. reply' \in [Subs -> Replies] /\ asked' \in [Subs -> 0 .. MaxAsks] /\ credit' \in [Subs -> Int]
    BY <1>30, ReplyTypes DEF TaskKilled, EndTask
  <2> QED
    BY <1>30, <2>1 DEF TaskKilled, EndTask
<1>31. CASE UNCHANGED vars
  BY <1>31
<1> HIDE DEF IInv, TypeOK, Requests, NextSet, Fates, LoopPCs, TaskPCs
<1> QED
  BY <1>1, <1>2, <1>3, <1>4, <1>5, <1>6, <1>7, <1>8, <1>9, <1>10, <1>11, 
     <1>12, <1>13, <1>14, <1>15, <1>16, <1>17, <1>18, <1>19, <1>20, <1>21, 
     <1>22, <1>23, <1>24, <1>25, <1>26, <1>27, <1>28, <1>29, <1>30, <1>31, <1>32
     DEF Next, Receive, LoopStep, TaskStep, RecvApproval

----------------------------------------------------------------------------
(* The control invariant *)

\* Recording, asking, injecting and answering leave the turn to its owner.
LEMMA InjectKeeps ==
  ASSUME IInv, NEW s \in Subs, RecvInputInject(s)
  PROVE  SameOwner
<1> USE NoneAssumption DEF IInv, TypeOK, AskedPos
<1>1. active \in ActiveTurns /\ Append(active.pending, s) \in Seq(Subs)
  BY TurnParts DEF RecvInputInject
<1>2. active' = [active EXCEPT !.pending = Append(active.pending, s)]
  BY DEF RecvInputInject
<1> QED
  BY <1>1, <1>2, KeepsOwner DEF SameOwner

LEMMA DecisionKeeps ==
  ASSUME IInv, NEW req \in Requests, NEW d \in {"approved", "denied"}, RecvDecision(req, d)
  PROVE  SameOwner
<1> USE NoneAssumption DEF IInv, TypeOK, AskedPos
<1>1. CASE active = None
  BY <1>1 DEF RecvDecision, NotifyApproval, SameOwner
<1>2. CASE active # None
  <2>1. active.asks \ EntryOf(req[1]) \in SUBSET Requests
    BY <1>2, TurnParts
  <2>2. active' = [active EXCEPT !.asks = active.asks \ EntryOf(req[1])]
    BY <1>2 DEF RecvDecision, NotifyApproval
  <2> QED
    BY <1>2, <2>1, <2>2, KeepsOwner DEF SameOwner
<1> QED
  BY <1>1, <1>2

LEMMA CollectKeeps ==
  ASSUME IInv, NEW t \in Subs, TaskCollect(t)
  PROVE  SameOwner
<1> USE NoneAssumption DEF IInv, TypeOK, AskedPos
<1>1. CASE active = None
  BY <1>1 DEF TaskCollect, SameOwner
<1>2. CASE active # None
  <2>1. active \in ActiveTurns /\ <<>> \in Seq(Subs)
    BY <1>2
  <2>2. active' = [active EXCEPT !.pending = <<>>]
    BY <1>2 DEF TaskCollect
  <2> QED
    BY <2>1, <2>2, <1>2, KeepsOwner DEF SameOwner
<1> QED
  BY <1>1, <1>2

LEMMA AskKeeps ==
  ASSUME IInv, NEW t \in Subs, TaskAsk(t)
  PROVE  SameOwner
<1> USE NoneAssumption DEF IInv, TypeOK, AskedPos
<1>1. <<t, asked[t]>> \in Requests
  BY AskFrame DEF Requests
<1>2. CASE UNCHANGED active
  BY <1>2 DEF SameOwner
<1>3. CASE active # None /\ active' = [active EXCEPT !.asks =
                               (active.asks \ EntryOf(t)) \union {<<t, asked[t]>>}]
  <2>1. (active.asks \ EntryOf(t)) \union {<<t, asked[t]>>} \in SUBSET Requests
    BY <1>1, <1>3, TurnParts
  <2> QED
    BY <1>3, <2>1, KeepsOwner DEF SameOwner
<1> QED
  BY <1>2, <1>3, RegisterFrame, ShowFrame DEF TaskAsk

\* Every step preserves the control invariant.
LEMMA ControlStep == IInv /\ [Next]_vars => Control'
<1> SUFFICES ASSUME IInv, [Next]_vars PROVE Control'
  OBVIOUS
<1> USE NoneAssumption, MaxAsksAssumption
    DEF IInv, TypeOK, Control, LoopHolds, NextSet, AskedPos, Fresh, LiveOwned,
        Owned, Live, Running, Ended, vars, loopVars, taskVars, seenVars
<1>1. CASE RecvInterrupt
  BY <1>1 DEF RecvInterrupt, InterruptTask, StartAbort, LoopGoto
<1>2. CASE RecvRollback
  BY <1>2 DEF RecvRollback, SetFate
<1>3. CASE RecvShutdown
  BY <1>3 DEF RecvShutdown, StartAbort, LoopGoto
<1>4. CASE LoopTake
  <2>1. active # None => active.owner \in Subs
    BY DEF ActiveTurns
  <2>2. CASE active = None
    BY <1>4, <2>2 DEF LoopTake, AbortOver
  <2>3. CASE active # None
    BY <1>4, <2>1, <2>3 DEF LoopTake, SetFate
  <2> QED
    BY <2>2, <2>3
<1>5. CASE LoopCancel
  BY <1>5 DEF LoopCancel, LoopGoto
<1>6. CASE LoopGraceOver
  BY <1>6 DEF LoopGraceOver, LoopGoto
<1>7. CASE LoopReport
  BY <1>7 DEF LoopReport, AbortOver, Emit
<1>8. CASE LoopSpawn
  <2>1. next \in Subs /\ active = None
      /\ pc[next] = "none" /\ fate[next] # "unsent"
    BY <1>8 DEF LoopSpawn
  <2>2. AskedPos' /\ LoopHolds' /\ NextSet'
    BY <1>8, <2>1 DEF LoopSpawn
  <2>3. Fresh'
    <3>1. \A s \in Subs : fate[s] = "unsent" => pc'[s] = "none"
      BY <1>8, <2>1 DEF LoopSpawn
    <3>2. \A s \in Subs : pc'[s] = "none" => pc[s] = "none"
      BY <1>8, <2>1 DEF LoopSpawn
    <3>3. pc'[next] # "none" /\ ~cancelled[next]
      BY <1>8, <2>1 DEF LoopSpawn
    <3> QED
      BY <1>8, <2>1, <3>1, <3>2, <3>3 DEF LoopSpawn
  <2>4. LiveOwned'
    BY <1>8, <2>1 DEF LoopSpawn
  <2> QED
    BY <2>2, <2>3, <2>4
<1>9. CASE LoopRegister
  <2>1. active' # None /\ active'.owner = next
    BY <1>9, TurnOfTask DEF LoopRegister, LoopGoto
  <2> QED
    BY <1>9, <2>1 DEF LoopRegister, LoopGoto
<1>10. ASSUME NEW s \in Subs, RecvInputInject(s) PROVE  Control'
  <2>1. SameOwner
    BY <1>10, InjectKeeps
  <2> QED
    BY <1>10, <2>1 DEF RecvInputInject, SetFate, SameOwner
<1>11. ASSUME NEW s \in Subs, RecvInputSpawn(s) PROVE  Control'
  BY <1>11 DEF RecvInputSpawn, StartAbort, LoopGoto, SetFate
<1>12. ASSUME NEW s \in Subs, RecvOther(s) PROVE  Control'
  BY <1>12 DEF RecvOther, StartAbort, LoopGoto, SetFate
<1>13. ASSUME NEW req \in Requests, NEW d \in {"approved", "denied"}, RecvDecision(req, d)
      PROVE  Control'
  <2>1. SameOwner
    BY <1>13, DecisionKeeps
  <2> QED
    BY <1>13, <2>1 DEF RecvDecision, SameOwner
<1>14. ASSUME NEW req \in Requests, RecvDecisionAbort(req) PROVE  Control'
  BY <1>14 DEF RecvDecisionAbort, InterruptTask, StartAbort, LoopGoto
<1>15. ASSUME NEW t \in Subs, TaskStart(t) PROVE  Control'
  BY <1>15 DEF TaskStart, Goto, SetFate
<1>16. ASSUME NEW t \in Subs, TaskStartEmpty(t) PROVE  Control'
  BY <1>16 DEF TaskStartEmpty, Goto, SetFate
<1>17. ASSUME NEW t \in Subs, TaskStartOther(t) PROVE  Control'
  BY <1>17 DEF TaskStartOther, Goto, SetFate
<1>18. ASSUME NEW t \in Subs, TaskWorked(t) PROVE  Control'
  BY <1>18 DEF TaskWorked, Goto
<1>19. ASSUME NEW t \in Subs, TaskCollect(t) PROVE  Control'
  <2>1. SameOwner
    BY <1>19, CollectKeeps
  <2> QED
    BY <1>19, <2>1 DEF TaskCollect, Goto, SetFate, SameOwner
<1>32. ASSUME NEW t \in Subs, TaskRecord(t) PROVE  Control'
  BY <1>32 DEF TaskRecord, Goto, SetFate, Members
<1>20. ASSUME NEW t \in Subs, TaskToolCall(t) PROVE  Control'
  BY <1>20 DEF TaskToolCall, Goto
<1>21. ASSUME NEW t \in Subs, TaskAsk(t) PROVE  Control'
  <2>1. SameOwner
    BY <1>21, AskKeeps
  <2>2. CASE TaskAskCommand(t) \/ TaskAskPatch(t)
    <3>1. pc[t] = "ask" /\ pc' = [pc EXCEPT ![t] = "show"]
          /\ UNCHANGED <<loopVars, cancelled, aborted, asked, fate>>
      BY <2>2, RegisterFrame
    <3> QED
      BY <2>1, <3>1 DEF SameOwner
  <2>3. CASE TaskShow(t)
    <3>1. pc[t] = "show" /\ pc' = [pc EXCEPT ![t] = "wait"]
          /\ UNCHANGED <<active, lpc, goal, next, victim, cancelled, aborted, asked, fate>>
      BY <2>3, ShowFrame
    <3>2. LoopHolds' /\ NextSet' /\ AskedPos'
      BY <3>1
    <3>3. Fresh'
      BY <3>1
    <3>4. LiveOwned'
      BY <3>1
    <3> QED
      BY <3>2, <3>3, <3>4
  <2> QED
    BY <1>21, <2>2, <2>3 DEF TaskAsk
<1>22. ASSUME NEW t \in Subs, TaskProceed(t) PROVE  Control'
  BY <1>22 DEF TaskProceed, Goto, NoReply
<1>23. ASSUME NEW t \in Subs, TaskSeesCancel(t) PROVE  Control'
  BY <1>23 DEF TaskSeesCancel
<1>24. ASSUME NEW t \in Subs, TaskError(t) PROVE  Control'
  BY <1>24 DEF TaskError, Goto, Emit
<1>25. ASSUME NEW t \in Subs, TaskCompleted(t) PROVE  Control'
  BY <1>25 DEF TaskCompleted, Goto
<1>26. ASSUME NEW t \in Subs, TaskCheck(t) PROVE  Control'
  BY <1>26 DEF TaskCheck, Goto
<1>27. ASSUME NEW t \in Subs, TaskFlush(t) PROVE  Control'
  <2>1. CASE cancelled[t]
    <3>1. pc[t] = "flush" /\ EndTask(t, "done")
      BY <1>27, <2>1, Zenon DEF TaskFlush
    <3> QED
      BY <1>27, <3>1 DEF TaskFlush, EndTask
  <2>2. CASE ~cancelled[t]
    <3>1. Goto(t, "flush", "finish") /\ UNCHANGED aborted /\ UNCHANGED asked
      BY <1>27, <2>2, Zenon DEF TaskFlush
    <3> QED
      BY <1>27, <3>1 DEF TaskFlush, Goto
  <2> QED
    BY <2>1, <2>2
<1>28. ASSUME NEW t \in Subs, TaskFinish(t) PROVE  Control'
  <2>1. CASE active # None /\ active.owner = t
    BY <1>28, <2>1 DEF TaskFinish, Goto, SetFate
  <2>2. CASE ~(active # None /\ active.owner = t)
    BY <1>28, <2>2 DEF TaskFinish, Goto
  <2> QED
    BY <2>1, <2>2
<1>29. ASSUME NEW t \in Subs, TaskComplete(t) PROVE  Control'
  BY <1>29 DEF TaskComplete, EndTask, NoReply, Emit
<1>30. ASSUME NEW t \in Subs, TaskKilled(t) PROVE  Control'
  BY <1>30 DEF TaskKilled, EndTask, NoReply
<1>31. CASE UNCHANGED vars
  BY <1>31
<1> QED
  BY <1>1, <1>2, <1>3, <1>4, <1>5, <1>6, <1>7, <1>8, <1>9, <1>10, <1>11, 
     <1>12, <1>13, <1>14, <1>15, <1>16, <1>17, <1>18, <1>19, <1>20, <1>21, 
     <1>22, <1>23, <1>24, <1>25, <1>26, <1>27, <1>28, <1>29, <1>30, <1>31, <1>32
     DEF Next, Receive, LoopStep, TaskStep, RecvApproval

\* The invariant holds initially and always.
LEMMA Initial == Init => IInv
BY MaxAsksAssumption, ReplyTypes, <<>> \in Seq(Subs) DEF Init, IInv, TypeOK, LoopHolds, NextSet, AskedPos, Fresh, LiveOwned,
   Live, Running, Ended, Requests, Fates, LoopPCs, TaskPCs

LEMMA Invariance == Spec => []IInv
<1>1. IInv /\ [Next]_vars => IInv'
  BY TypeStep, ControlStep DEF IInv, Control
<1> QED
  BY Initial, <1>1, PTL DEF Spec

\* Every variable keeps its type.
THEOREM TypeCorrect == Spec => []TypeOK
<1>1. IInv => TypeOK
  BY DEF IInv
<1> QED
  BY Invariance, <1>1, PTL

\* A session runs at most one task that nobody told to die.
THEOREM AtMostOneLiveTask == Spec => []OneLiveTask
<1>1. IInv => OneLiveTask
  BY NoneAssumption DEF IInv, LoopHolds, LiveOwned, Owned, OneLiveTask
<1> QED
  BY Invariance, <1>1, PTL

\* Without an active turn, and with the loop at rest, no task is at work.
THEOREM IdleIsQuiet == Spec => []QuietWhenIdle
<1>1. IInv => QuietWhenIdle
  BY DEF IInv, LiveOwned, Owned, QuietWhenIdle
<1> QED
  BY Invariance, <1>1, PTL

----------------------------------------------------------------------------
(* The session implements the slot *)

\* What a step does to the live tasks: nothing, one ends, or one begins.
Quiet ==
  \A u \in Subs : (Live(u)' <=> Live(u)) /\ (pc'[u] = "none" <=> pc[u] = "none")

Ends(t) ==
  /\ Live(t) /\ ~Live(t)'
  /\ pc[t] # "none" /\ pc'[t] # "none"
  /\ \A u \in Subs \ {t} :
        (Live(u)' <=> Live(u)) /\ (pc'[u] = "none" <=> pc[u] = "none")

Begins(t) ==
  /\ pc[t] = "none" /\ \A u \in Subs : ~Live(u)
  /\ Live(t)'
  /\ \A u \in Subs \ {t} : ~Live(u)' /\ (pc'[u] = "none" <=> pc[u] = "none")

Moves == Quiet \/ \E t \in Subs : Ends(t) \/ Begins(t)

\* Every step is one of these.
LEMMA StepMoves == IInv /\ [Next]_vars => Moves
<1> SUFFICES ASSUME IInv, [Next]_vars PROVE Moves
  OBVIOUS
<1>0. /\ pc \in [Subs -> TaskPCs] /\ aborted \in [Subs -> BOOLEAN]
      /\ active \in ActiveTurns => active.owner \in Subs
  BY TurnParts DEF IInv, TypeOK
<1> USE <1>0, NoneAssumption
    DEF Moves, Live, Running, Ended, vars, loopVars, taskVars, seenVars
<1>1. CASE RecvInterrupt
  BY <1>1 DEF RecvInterrupt, InterruptTask, StartAbort, LoopGoto, Quiet
<1>2. CASE RecvRollback
  BY <1>2 DEF RecvRollback, SetFate, Quiet
<1>3. CASE RecvShutdown
  BY <1>3 DEF RecvShutdown, StartAbort, LoopGoto, Quiet
<1>4. CASE LoopTake
  BY <1>4 DEF LoopTake, AbortOver, Answer, Refusals, Dropped, SetFate, Members, Quiet
<1>5. CASE LoopCancel
  BY <1>5 DEF LoopCancel, LoopGoto, Quiet
<1>6. CASE LoopGraceOver
  <2>1. CASE victim \in Subs /\ Live(victim)
    BY <1>6, <2>1 DEF LoopGraceOver, LoopGoto, Ends
  <2>2. CASE ~(victim \in Subs /\ Live(victim))
    BY <1>6, <2>2 DEF LoopGraceOver, LoopGoto, Quiet
  <2> QED
    BY <2>1, <2>2
<1>7. CASE LoopReport
  BY <1>7 DEF LoopReport, AbortOver, Emit, Quiet
<1>8. CASE LoopSpawn
  <2>1. next \in Subs /\ pc[next] = "none" /\ active = None
    BY <1>8 DEF LoopSpawn, IInv, NextSet, LoopHolds, Fresh
  <2>2. \A u \in Subs : ~Live(u)
    BY <1>8, <2>1 DEF LoopSpawn, IInv, LiveOwned, Owned
  <2>3. ~aborted[next]
    BY <2>1 DEF IInv, Fresh
  <2> QED
    BY <1>8, <2>1, <2>2, <2>3 DEF LoopSpawn, Begins
<1>9. CASE LoopRegister
  BY <1>9 DEF LoopRegister, LoopGoto, NewTurn, Quiet
<1>10. ASSUME NEW s \in Subs, RecvInputInject(s) PROVE  Moves
  BY <1>10 DEF RecvInputInject, SetFate, Quiet
<1>11. ASSUME NEW s \in Subs, RecvInputSpawn(s) PROVE  Moves
  BY <1>11 DEF RecvInputSpawn, StartAbort, LoopGoto, SetFate, Quiet
<1>12. ASSUME NEW s \in Subs, RecvOther(s) PROVE  Moves
  BY <1>12 DEF RecvOther, StartAbort, LoopGoto, SetFate, Quiet
<1>13. ASSUME NEW req \in Requests, NEW d \in {"approved", "denied"}, RecvDecision(req, d)
      PROVE  Moves
  BY <1>13 DEF RecvDecision, NotifyApproval, Answer, EntryOf, Quiet
<1>14. ASSUME NEW req \in Requests, RecvDecisionAbort(req) PROVE  Moves
  BY <1>14 DEF RecvDecisionAbort, InterruptTask, StartAbort, LoopGoto, Quiet
<1>15. ASSUME NEW t \in Subs, TaskStart(t) PROVE  Moves
  BY <1>15 DEF TaskStart, Goto, SetFate, Quiet
<1>16. ASSUME NEW t \in Subs, TaskStartEmpty(t) PROVE  Moves
  BY <1>16 DEF TaskStartEmpty, Goto, SetFate, Quiet
<1>17. ASSUME NEW t \in Subs, TaskStartOther(t) PROVE  Moves
  BY <1>17 DEF TaskStartOther, Goto, SetFate, Quiet
<1>18. ASSUME NEW t \in Subs, TaskWorked(t) PROVE  Moves
  BY <1>18 DEF TaskWorked, Goto, Quiet
<1>19. ASSUME NEW t \in Subs, TaskCollect(t) PROVE  Moves
  BY <1>19 DEF TaskCollect, Goto, SetFate, Members, Quiet
<1>32. ASSUME NEW t \in Subs, TaskRecord(t) PROVE  Moves
  BY <1>32 DEF TaskRecord, Goto, SetFate, Members, Quiet
<1>20. ASSUME NEW t \in Subs, TaskToolCall(t) PROVE  Moves
  BY <1>20 DEF TaskToolCall, Goto, Quiet
<1>21. ASSUME NEW t \in Subs, TaskAsk(t) PROVE  Moves
  BY <1>21, AskFrame DEF Quiet
<1>22. ASSUME NEW t \in Subs, TaskProceed(t) PROVE  Moves
  BY <1>22 DEF TaskProceed, Goto, NoReply, Quiet
<1>23. ASSUME NEW t \in Subs, TaskSeesCancel(t) PROVE  Moves
  BY <1>23 DEF TaskSeesCancel, Quiet
<1>24. ASSUME NEW t \in Subs, TaskError(t) PROVE  Moves
  BY <1>24 DEF TaskError, Goto, Emit, Quiet
<1>25. ASSUME NEW t \in Subs, TaskCompleted(t) PROVE  Moves
  BY <1>25 DEF TaskCompleted, Goto, Quiet
<1>26. ASSUME NEW t \in Subs, TaskCheck(t) PROVE  Moves
  BY <1>26 DEF TaskCheck, Goto, Quiet
<1>27. ASSUME NEW t \in Subs, TaskFlush(t) PROVE  Moves
  <2>1. CASE cancelled[t]
    <3>1. pc[t] = "flush" /\ ~aborted[t] /\ EndTask(t, "done")
      BY <1>27, <2>1, Zenon DEF TaskFlush
    <3> QED
      BY <1>27, <3>1 DEF EndTask, Ends
  <2>2. CASE ~cancelled[t]
    <3>1. Goto(t, "flush", "finish") /\ UNCHANGED aborted
      BY <1>27, <2>2, Zenon DEF TaskFlush
    <3> QED
      BY <1>27, <3>1 DEF Goto, Quiet
  <2> QED
    BY <2>1, <2>2
<1>28. ASSUME NEW t \in Subs, TaskFinish(t) PROVE  Moves
  <2>1. pc[t] = "finish" /\ pc'[t] = "complete"
        /\ \A u \in Subs \ {t} : pc'[u] = pc[u] /\ aborted'[u] = aborted[u]
    BY <1>28 DEF TaskFinish, Goto
  <2>2. CASE aborted[t]
    BY <2>1, <2>2 DEF Quiet
  <2>3. CASE ~aborted[t]
    BY <2>1, <2>3 DEF Ends
  <2> QED
    BY <2>2, <2>3
<1>29. ASSUME NEW t \in Subs, TaskComplete(t) PROVE  Moves
  BY <1>29 DEF TaskComplete, EndTask, NoReply, Emit, Quiet
<1>30. ASSUME NEW t \in Subs, TaskKilled(t) PROVE  Moves
  BY <1>30 DEF TaskKilled, EndTask, NoReply, Quiet
<1>31. CASE UNCHANGED vars
  BY <1>31 DEF Quiet
<1> QED
  BY <1>1, <1>2, <1>3, <1>4, <1>5, <1>6, <1>7, <1>8, <1>9, <1>10, <1>11, 
     <1>12, <1>13, <1>14, <1>15, <1>16, <1>17, <1>18, <1>19, <1>20, <1>21, 
     <1>22, <1>23, <1>24, <1>25, <1>26, <1>27, <1>28, <1>29, <1>30, <1>31, <1>32
     DEF Next, Receive, LoopStep, TaskStep, RecvApproval

\* LiveTask is the live task.
LEMMA LiveTaskIs ==
  IInv => /\ \A t \in Subs : Live(t) => LiveTask = t
          /\ (\A t \in Subs : ~Live(t)) => LiveTask = None
<1> SUFFICES ASSUME IInv PROVE /\ \A t \in Subs : Live(t) => LiveTask = t
                               /\ (\A t \in Subs : ~Live(t)) => LiveTask = None
  OBVIOUS
<1>1. OneLiveTask
  BY NoneAssumption DEF IInv, LoopHolds, LiveOwned, Owned, OneLiveTask
<1>2. ASSUME NEW t \in Subs, Live(t) PROVE LiveTask = t
  <2>1. (CHOOSE u \in Subs : Live(u)) \in Subs /\ Live(CHOOSE u \in Subs : Live(u))
    BY <1>2, Zenon
  <2>2. LiveTask = (CHOOSE u \in Subs : Live(u))
    BY <1>2, Zenon DEF LiveTask
  <2> QED
    BY <1>1, <1>2, <2>1, <2>2, Zenon DEF OneLiveTask
<1>3. (\A t \in Subs : ~Live(t)) => LiveTask = None
  BY Zenon DEF LiveTask
<1> QED
  BY <1>2, <1>3

\* The tasks that are over or told to die.
Gone == {t \in Subs : pc[t] # "none" /\ ~Live(t)}

\* Every step of the session is a step of the slot or leaves it alone.
LEMMA SlotStep == IInv /\ IInv' /\ [Next]_vars => [Slot!Next]_<<LiveTask, Gone>>
<1> SUFFICES ASSUME IInv, IInv', [Next]_vars PROVE [Slot!Next]_<<LiveTask, Gone>>
  OBVIOUS
<1>1. /\ \A t \in Subs : Live(t) => LiveTask = t
      /\ (\A t \in Subs : ~Live(t)) => LiveTask = None
  BY LiveTaskIs
<1>2. /\ \A t \in Subs : Live(t)' => LiveTask' = t
      /\ (\A t \in Subs : ~Live(t)') => LiveTask' = None
  <2>1. (IInv => /\ \A t \in Subs : Live(t) => LiveTask = t
                 /\ (\A t \in Subs : ~Live(t)) => LiveTask = None)'
    BY LiveTaskIs, PTL
  <2> QED
    BY <2>1
<1>3. CASE Quiet
  <2>1. LiveTask' = LiveTask
    BY <1>1, <1>2, <1>3 DEF Quiet
  <2>2. Gone' = Gone
    BY <1>3 DEF Quiet, Gone
  <2> QED
    BY <2>1, <2>2
<1>4. ASSUME NEW t \in Subs, Ends(t) PROVE Slot!End
  <2>1. LiveTask = t /\ t # None
    BY <1>1, <1>4, NoneAssumption DEF Ends
  <2>2. \A u \in Subs : ~Live(u)'
    <3>1. OneLiveTask
      BY NoneAssumption DEF IInv, LoopHolds, LiveOwned, Owned, OneLiveTask
    <3> QED
      BY <1>4, <3>1 DEF Ends, OneLiveTask
  <2>3. LiveTask' = None
    BY <1>2, <2>2
  <2>4. Gone' = Gone \union {t}
    BY <1>4 DEF Ends, Gone
  <2> QED
    BY <2>1, <2>3, <2>4 DEF Slot!End, Gone
<1>5. ASSUME NEW t \in Subs, Begins(t) PROVE Slot!Begin(t)
  <2>1. LiveTask = None
    BY <1>1, <1>5 DEF Begins
  <2>2. LiveTask' = t
    BY <1>2, <1>5 DEF Begins
  <2>3. t \notin Gone /\ Gone' = Gone
    BY <1>5 DEF Begins, Gone
  <2> QED
    BY <2>1, <2>2, <2>3 DEF Slot!Begin, Gone
<1> QED
  BY StepMoves, <1>3, <1>4, <1>5 DEF Moves, Slot!Next

\* Every behaviour of the session is one of the slot: tasks come and go one at
\* a time, and none comes back.
THEOREM SessionImplementsSlot == Spec => ImplementsTaskSlot
<1>1. Init => Slot!Init
  <2> SUFFICES ASSUME Init PROVE Slot!Init
    OBVIOUS
  <2>1. IInv
    BY Initial
  <2>2. \A t \in Subs : pc[t] = "none" /\ ~Live(t)
    BY DEF Init, Live, Running, Ended
  <2> QED
    BY <2>1, <2>2, LiveTaskIs DEF Slot!Init
<1>2. IInv /\ IInv' /\ [Next]_vars => [Slot!Next]_<<LiveTask, Gone>>
  BY SlotStep
<1> QED
  BY <1>1, <1>2, Invariance, PTL DEF Spec, ImplementsTaskSlot, Slot!Spec, Gone

----------------------------------------------------------------------------
(* Approvals and aborts *)

\* An approval a waiting task holds is paid for.
Paid ==
  \A t \in Subs :
    /\ credit[t] >= 0
    /\ pc[t] \in {"show", "wait"} /\ reply[t].decision = "approved" => credit[t] >= 1

\* A reported abort, and one about to be reported, is of a task that is over
\* or told to die.
Over(t) == aborted[t] \/ pc[t] \in {"done", "killed"}

Settled ==
  /\ \A t \in Subs : AbortReported(t) => pc[t] # "none" /\ Over(t)
  /\ lpc = "grace" => victim \in Subs /\ pc[victim] # "none"
  /\ lpc = "report" => victim \in Subs /\ pc[victim] # "none" /\ Over(victim)

\* Every step keeps approvals paid for.
LEMMA PaidStep == TypeOK /\ Paid /\ [Next]_vars => Paid'
<1> SUFFICES ASSUME TypeOK, Paid, [Next]_vars PROVE Paid'
  OBVIOUS
<1>0. /\ credit \in [Subs -> Int] /\ pc \in [Subs -> TaskPCs]
      /\ reply \in [Subs -> Replies]
  BY DEF TypeOK
<1> USE <1>0 DEF Paid, vars, taskVars, seenVars
<1>1. CASE RecvInterrupt
  BY <1>1 DEF RecvInterrupt, InterruptTask, StartAbort, LoopGoto
<1>2. CASE RecvRollback
  BY <1>2 DEF RecvRollback, SetFate
<1>3. CASE RecvShutdown
  BY <1>3 DEF RecvShutdown, StartAbort, LoopGoto
<1>4. CASE LoopTake
  <2>1. \A u \in Subs : reply'[u] = reply[u] \/ reply'[u].decision = "denied"
    BY <1>4 DEF LoopTake, Answer, Refusals, Dropped
  <2> QED
    BY <1>4, <2>1 DEF LoopTake
<1>5. CASE LoopCancel
  BY <1>5 DEF LoopCancel, LoopGoto
<1>6. CASE LoopGraceOver
  BY <1>6 DEF LoopGraceOver, LoopGoto
<1>7. CASE LoopReport
  BY <1>7 DEF LoopReport, AbortOver, Emit
<1>8. CASE LoopSpawn
  BY <1>8 DEF LoopSpawn
<1>9. CASE LoopRegister
  BY <1>9 DEF LoopRegister, LoopGoto, NewTurn
<1>10. ASSUME NEW s \in Subs, RecvInputInject(s) PROVE  Paid'
  BY <1>10 DEF RecvInputInject, SetFate
<1>11. ASSUME NEW s \in Subs, RecvInputSpawn(s) PROVE  Paid'
  BY <1>11 DEF RecvInputSpawn, StartAbort, LoopGoto, SetFate
<1>12. ASSUME NEW s \in Subs, RecvOther(s) PROVE  Paid'
  BY <1>12 DEF RecvOther, StartAbort, LoopGoto, SetFate
<1>13. ASSUME NEW req \in Requests, NEW d \in {"approved", "denied"}, RecvDecision(req, d)
      PROVE  Paid'
  <2>1. req[1] \in Subs
    BY DEF Requests
  <2>2. ASSUME NEW u \in Subs, pc[u] \in {"show", "wait"}, reply'[u].decision = "approved", reply'[u] # reply[u]
        PROVE  u = req[1] /\ d = "approved"
    BY <1>13, <2>2 DEF RecvDecision, NotifyApproval, Answer, EntryOf
  <2>3. \A u \in Subs : credit'[u] = credit[u] \/ credit'[u] = credit[u] + 1
    BY <1>13, <2>1 DEF RecvDecision
  <2>4. d = "approved" /\ pc[req[1]] \in {"show", "wait"} => credit'[req[1]] = credit[req[1]] + 1
    BY <1>13, <2>1 DEF RecvDecision, Ended
  <2> QED
    BY <1>13, <2>2, <2>3, <2>4 DEF RecvDecision
<1>14. ASSUME NEW req \in Requests, RecvDecisionAbort(req) PROVE  Paid'
  BY <1>14 DEF RecvDecisionAbort, InterruptTask, StartAbort, LoopGoto
<1>15. ASSUME NEW t \in Subs, TaskStart(t) PROVE  Paid'
  BY <1>15 DEF TaskStart, Goto, SetFate
<1>16. ASSUME NEW t \in Subs, TaskStartEmpty(t) PROVE  Paid'
  BY <1>16 DEF TaskStartEmpty, Goto, SetFate
<1>17. ASSUME NEW t \in Subs, TaskStartOther(t) PROVE  Paid'
  BY <1>17 DEF TaskStartOther, Goto, SetFate
<1>18. ASSUME NEW t \in Subs, TaskWorked(t) PROVE  Paid'
  BY <1>18 DEF TaskWorked, Goto
<1>19. ASSUME NEW t \in Subs, TaskCollect(t) PROVE  Paid'
  BY <1>19 DEF TaskCollect, Goto, SetFate, Members
<1>32. ASSUME NEW t \in Subs, TaskRecord(t) PROVE  Paid'
  BY <1>32 DEF TaskRecord, Goto, SetFate, Members
<1>20. ASSUME NEW t \in Subs, TaskToolCall(t) PROVE  Paid'
  BY <1>20 DEF TaskToolCall, Goto
<1>21. ASSUME NEW t \in Subs, TaskAsk(t) PROVE  Paid'
  <2>1. CASE TaskAskCommand(t) \/ TaskAskPatch(t)
    <3>1. reply'[t].decision \in {"none", "denied"}
      BY <2>1, RegisterFrame DEF NoReply, Dropped
    <3>2. \A u \in Subs \ {t} : pc'[u] = pc[u] /\ reply'[u] = reply[u]
      BY <2>1, RegisterFrame
    <3> QED
      BY <2>1, <3>1, <3>2, RegisterFrame
  <2>2. CASE TaskShow(t)
    BY <2>2, ShowFrame
  <2> QED
    BY <1>21, <2>1, <2>2 DEF TaskAsk
<1>22. ASSUME NEW t \in Subs, TaskProceed(t) PROVE  Paid'
  BY <1>22 DEF TaskProceed, Goto, NoReply
<1>23. ASSUME NEW t \in Subs, TaskSeesCancel(t) PROVE  Paid'
  BY <1>23 DEF TaskSeesCancel
<1>24. ASSUME NEW t \in Subs, TaskError(t) PROVE  Paid'
  BY <1>24 DEF TaskError, Goto, Emit
<1>25. ASSUME NEW t \in Subs, TaskCompleted(t) PROVE  Paid'
  BY <1>25 DEF TaskCompleted, Goto
<1>26. ASSUME NEW t \in Subs, TaskCheck(t) PROVE  Paid'
  BY <1>26 DEF TaskCheck, Goto
<1>27. ASSUME NEW t \in Subs, TaskFlush(t) PROVE  Paid'
  <2>1. CASE cancelled[t]
    <3>1. EndTask(t, "done")
      BY <1>27, <2>1, Zenon DEF TaskFlush
    <3> QED
      BY <3>1 DEF EndTask, NoReply
  <2>2. CASE ~cancelled[t]
    <3>1. Goto(t, "flush", "finish") /\ UNCHANGED <<credit, reply>>
      BY <1>27, <2>2, Zenon DEF TaskFlush
    <3> QED
      BY <3>1 DEF Goto
  <2> QED
    BY <2>1, <2>2
<1>28. ASSUME NEW t \in Subs, TaskFinish(t) PROVE  Paid'
  <2>1. \A u \in Subs : reply'[u] = reply[u] \/ reply'[u].decision = "denied"
    BY <1>28 DEF TaskFinish, Answer, Refusals, Dropped
  <2> QED
    BY <1>28, <2>1 DEF TaskFinish, Goto
<1>29. ASSUME NEW t \in Subs, TaskComplete(t) PROVE  Paid'
  BY <1>29 DEF TaskComplete, EndTask, NoReply, Emit
<1>30. ASSUME NEW t \in Subs, TaskKilled(t) PROVE  Paid'
  BY <1>30 DEF TaskKilled, EndTask, NoReply
<1>31. CASE UNCHANGED vars
  BY <1>31
<1> QED
  BY <1>1, <1>2, <1>3, <1>4, <1>5, <1>6, <1>7, <1>8, <1>9, <1>10, <1>11, 
     <1>12, <1>13, <1>14, <1>15, <1>16, <1>17, <1>18, <1>19, <1>20, <1>21, 
     <1>22, <1>23, <1>24, <1>25, <1>26, <1>27, <1>28, <1>29, <1>30, <1>31, <1>32
     DEF Next, Receive, LoopStep, TaskStep, RecvApproval

\* Every step keeps reported aborts settled.
LEMMA SettledStep == IInv /\ Settled /\ [Next]_vars => Settled'
<1> SUFFICES ASSUME IInv, Settled, [Next]_vars PROVE Settled'
  OBVIOUS
<1>0. /\ pc \in [Subs -> TaskPCs] /\ aborted \in [Subs -> BOOLEAN]
      /\ events \in [Subs -> SUBSET {"Error", "Complete", "Replaced", "Interrupted"}]
      /\ goal \notin {"grace", "report"}
      /\ lpc = "cancel" => victim \in Subs /\ pc[victim] # "none"
  BY DEF IInv, TypeOK, Fresh
<1> USE <1>0
    DEF Settled, Over, AbortReported, Ended, vars, loopVars, taskVars, seenVars
<1>1. CASE RecvInterrupt
  BY <1>1 DEF RecvInterrupt, InterruptTask, StartAbort, LoopGoto
<1>2. CASE RecvRollback
  BY <1>2 DEF RecvRollback, SetFate
<1>3. CASE RecvShutdown
  BY <1>3 DEF RecvShutdown, StartAbort, LoopGoto
<1>4. CASE LoopTake
  <2>1. active # None => active.owner \in Subs /\ pc[active.owner] # "none"
    BY TurnParts DEF IInv, TypeOK, Fresh
  <2> QED
    BY <1>4, <2>1 DEF LoopTake, AbortOver, IInv, TypeOK
<1>5. CASE LoopCancel
  BY <1>5 DEF LoopCancel, LoopGoto
<1>6. CASE LoopGraceOver
  BY <1>6 DEF LoopGraceOver, LoopGoto
<1>7. CASE LoopReport
  BY <1>7 DEF LoopReport, AbortOver, Emit
<1>8. CASE LoopSpawn
  <2>1. next \in Subs /\ pc[next] = "none"
    BY <1>8 DEF LoopSpawn, IInv, NextSet, Fresh
  <2> QED
    BY <1>8, <2>1 DEF LoopSpawn
<1>9. CASE LoopRegister
  BY <1>9 DEF LoopRegister, LoopGoto, NewTurn
<1>10. ASSUME NEW s \in Subs, RecvInputInject(s) PROVE  Settled'
  BY <1>10 DEF RecvInputInject, SetFate
<1>11. ASSUME NEW s \in Subs, RecvInputSpawn(s) PROVE  Settled'
  BY <1>11 DEF RecvInputSpawn, StartAbort, LoopGoto, SetFate
<1>12. ASSUME NEW s \in Subs, RecvOther(s) PROVE  Settled'
  BY <1>12 DEF RecvOther, StartAbort, LoopGoto, SetFate
<1>13. ASSUME NEW req \in Requests, NEW d \in {"approved", "denied"}, RecvDecision(req, d)
      PROVE  Settled'
  BY <1>13 DEF RecvDecision, NotifyApproval, Answer, EntryOf
<1>14. ASSUME NEW req \in Requests, RecvDecisionAbort(req) PROVE  Settled'
  BY <1>14 DEF RecvDecisionAbort, InterruptTask, StartAbort, LoopGoto
<1>15. ASSUME NEW t \in Subs, TaskStart(t) PROVE  Settled'
  BY <1>15 DEF TaskStart, Goto, SetFate
<1>16. ASSUME NEW t \in Subs, TaskStartEmpty(t) PROVE  Settled'
  BY <1>16 DEF TaskStartEmpty, Goto, SetFate
<1>17. ASSUME NEW t \in Subs, TaskStartOther(t) PROVE  Settled'
  BY <1>17 DEF TaskStartOther, Goto, SetFate
<1>18. ASSUME NEW t \in Subs, TaskWorked(t) PROVE  Settled'
  BY <1>18 DEF TaskWorked, Goto
<1>19. ASSUME NEW t \in Subs, TaskCollect(t) PROVE  Settled'
  BY <1>19 DEF TaskCollect, Goto, SetFate, Members
<1>32. ASSUME NEW t \in Subs, TaskRecord(t) PROVE  Settled'
  BY <1>32 DEF TaskRecord, Goto, SetFate, Members
<1>20. ASSUME NEW t \in Subs, TaskToolCall(t) PROVE  Settled'
  BY <1>20 DEF TaskToolCall, Goto
<1>21. ASSUME NEW t \in Subs, TaskAsk(t) PROVE  Settled'
  BY <1>21, AskFrame
<1>22. ASSUME NEW t \in Subs, TaskProceed(t) PROVE  Settled'
  BY <1>22 DEF TaskProceed, Goto, NoReply
<1>23. ASSUME NEW t \in Subs, TaskSeesCancel(t) PROVE  Settled'
  BY <1>23 DEF TaskSeesCancel
<1>24. ASSUME NEW t \in Subs, TaskError(t) PROVE  Settled'
  BY <1>24 DEF TaskError, Goto, Emit
<1>25. ASSUME NEW t \in Subs, TaskCompleted(t) PROVE  Settled'
  BY <1>25 DEF TaskCompleted, Goto
<1>26. ASSUME NEW t \in Subs, TaskCheck(t) PROVE  Settled'
  BY <1>26 DEF TaskCheck, Goto
<1>27. ASSUME NEW t \in Subs, TaskFlush(t) PROVE  Settled'
  <2>1. CASE cancelled[t]
    <3>1. EndTask(t, "done") /\ UNCHANGED <<events, lpc, victim>>
      BY <1>27, <2>1, Zenon DEF TaskFlush, loopVars
    <3> QED
      BY <3>1 DEF EndTask
  <2>2. CASE ~cancelled[t]
    <3>1. Goto(t, "flush", "finish") /\ UNCHANGED <<aborted, events, lpc, victim>>
      BY <1>27, <2>2, Zenon DEF TaskFlush, loopVars
    <3> QED
      BY <3>1 DEF Goto
  <2> QED
    BY <2>1, <2>2
<1>28. ASSUME NEW t \in Subs, TaskFinish(t) PROVE  Settled'
  BY <1>28 DEF TaskFinish, Goto, Answer, Refusals, Dropped, SetFate, Members
<1>29. ASSUME NEW t \in Subs, TaskComplete(t) PROVE  Settled'
  BY <1>29 DEF TaskComplete, EndTask, NoReply, Emit
<1>30. ASSUME NEW t \in Subs, TaskKilled(t) PROVE  Settled'
  BY <1>30 DEF TaskKilled, EndTask, NoReply
<1>31. CASE UNCHANGED vars
  BY <1>31
<1> QED
  BY <1>1, <1>2, <1>3, <1>4, <1>5, <1>6, <1>7, <1>8, <1>9, <1>10, <1>11, 
     <1>12, <1>13, <1>14, <1>15, <1>16, <1>17, <1>18, <1>19, <1>20, <1>21, 
     <1>22, <1>23, <1>24, <1>25, <1>26, <1>27, <1>28, <1>29, <1>30, <1>31, <1>32
     DEF Next, Receive, LoopStep, TaskStep, RecvApproval

\* Only a task that is not aborted gets past its approval.
ResumesAlive ==
  \A u \in Subs : pc[u] = "wait" /\ pc'[u] = "stream" => ~aborted[u]

LEMMA ProceedsAlive == TypeOK /\ [Next]_vars => ResumesAlive
<1> SUFFICES ASSUME TypeOK, [Next]_vars PROVE ResumesAlive
  OBVIOUS
<1>0. pc \in [Subs -> TaskPCs]
  BY DEF TypeOK
<1> USE <1>0 DEF ResumesAlive, vars, taskVars
<1>1. CASE RecvInterrupt
  BY <1>1 DEF RecvInterrupt, InterruptTask, StartAbort, LoopGoto
<1>2. CASE RecvRollback
  BY <1>2 DEF RecvRollback, SetFate
<1>3. CASE RecvShutdown
  BY <1>3 DEF RecvShutdown, StartAbort, LoopGoto
<1>4. CASE LoopTake
  BY <1>4 DEF LoopTake, AbortOver, Answer, Refusals, Dropped, SetFate, Members
<1>5. CASE LoopCancel
  BY <1>5 DEF LoopCancel, LoopGoto
<1>6. CASE LoopGraceOver
  BY <1>6 DEF LoopGraceOver, LoopGoto
<1>7. CASE LoopReport
  BY <1>7 DEF LoopReport, AbortOver, Emit
<1>8. CASE LoopSpawn
  BY <1>8 DEF LoopSpawn
<1>9. CASE LoopRegister
  BY <1>9 DEF LoopRegister, LoopGoto, NewTurn
<1>10. ASSUME NEW s \in Subs, RecvInputInject(s) PROVE  ResumesAlive
  BY <1>10 DEF RecvInputInject, SetFate
<1>11. ASSUME NEW s \in Subs, RecvInputSpawn(s) PROVE  ResumesAlive
  BY <1>11 DEF RecvInputSpawn, StartAbort, LoopGoto, SetFate
<1>12. ASSUME NEW s \in Subs, RecvOther(s) PROVE  ResumesAlive
  BY <1>12 DEF RecvOther, StartAbort, LoopGoto, SetFate
<1>13. ASSUME NEW req \in Requests, NEW d \in {"approved", "denied"}, RecvDecision(req, d)
      PROVE  ResumesAlive
  BY <1>13 DEF RecvDecision, NotifyApproval, Answer, EntryOf
<1>14. ASSUME NEW req \in Requests, RecvDecisionAbort(req) PROVE  ResumesAlive
  BY <1>14 DEF RecvDecisionAbort, InterruptTask, StartAbort, LoopGoto
<1>15. ASSUME NEW t \in Subs, TaskStart(t) PROVE  ResumesAlive
  BY <1>15 DEF TaskStart, Goto, SetFate
<1>16. ASSUME NEW t \in Subs, TaskStartEmpty(t) PROVE  ResumesAlive
  BY <1>16 DEF TaskStartEmpty, Goto, SetFate
<1>17. ASSUME NEW t \in Subs, TaskStartOther(t) PROVE  ResumesAlive
  BY <1>17 DEF TaskStartOther, Goto, SetFate
<1>18. ASSUME NEW t \in Subs, TaskWorked(t) PROVE  ResumesAlive
  BY <1>18 DEF TaskWorked, Goto
<1>19. ASSUME NEW t \in Subs, TaskCollect(t) PROVE  ResumesAlive
  BY <1>19 DEF TaskCollect, Goto, SetFate, Members
<1>32. ASSUME NEW t \in Subs, TaskRecord(t) PROVE  ResumesAlive
  BY <1>32 DEF TaskRecord, Goto, SetFate, Members
<1>20. ASSUME NEW t \in Subs, TaskToolCall(t) PROVE  ResumesAlive
  BY <1>20 DEF TaskToolCall, Goto
<1>21. ASSUME NEW t \in Subs, TaskAsk(t) PROVE  ResumesAlive
  BY <1>21, AskFrame
<1>22. ASSUME NEW t \in Subs, TaskProceed(t) PROVE  ResumesAlive
  BY <1>22 DEF TaskProceed, Goto, NoReply
<1>23. ASSUME NEW t \in Subs, TaskSeesCancel(t) PROVE  ResumesAlive
  BY <1>23 DEF TaskSeesCancel
<1>24. ASSUME NEW t \in Subs, TaskError(t) PROVE  ResumesAlive
  BY <1>24 DEF TaskError, Goto, Emit
<1>25. ASSUME NEW t \in Subs, TaskCompleted(t) PROVE  ResumesAlive
  BY <1>25 DEF TaskCompleted, Goto
<1>26. ASSUME NEW t \in Subs, TaskCheck(t) PROVE  ResumesAlive
  BY <1>26 DEF TaskCheck, Goto
<1>27. ASSUME NEW t \in Subs, TaskFlush(t) PROVE  ResumesAlive
  <2>1. CASE cancelled[t]
    <3>1. pc[t] = "flush" /\ EndTask(t, "done")
      BY <1>27, <2>1, Zenon DEF TaskFlush
    <3> QED
      BY <3>1 DEF EndTask
  <2>2. CASE ~cancelled[t]
    <3>1. Goto(t, "flush", "finish")
      BY <1>27, <2>2, Zenon DEF TaskFlush
    <3> QED
      BY <3>1 DEF Goto
  <2> QED
    BY <2>1, <2>2
<1>28. ASSUME NEW t \in Subs, TaskFinish(t) PROVE  ResumesAlive
  BY <1>28 DEF TaskFinish, Goto, Answer, Refusals, Dropped, SetFate, Members
<1>29. ASSUME NEW t \in Subs, TaskComplete(t) PROVE  ResumesAlive
  BY <1>29 DEF TaskComplete, EndTask, NoReply, Emit
<1>30. ASSUME NEW t \in Subs, TaskKilled(t) PROVE  ResumesAlive
  BY <1>30 DEF TaskKilled, EndTask, NoReply
<1>31. CASE UNCHANGED vars
  BY <1>31
<1> QED
  BY <1>1, <1>2, <1>3, <1>4, <1>5, <1>6, <1>7, <1>8, <1>9, <1>10, <1>11, 
     <1>12, <1>13, <1>14, <1>15, <1>16, <1>17, <1>18, <1>19, <1>20, <1>21, 
     <1>22, <1>23, <1>24, <1>25, <1>26, <1>27, <1>28, <1>29, <1>30, <1>31, <1>32
     DEF Next, Receive, LoopStep, TaskStep, RecvApproval

\* No approval is used twice, or by another turn.
THEOREM ApprovalsAreUsedOnce == Spec => []ApprovalsUsedOnce
<1>1. Init => Paid
  BY DEF Init, Paid
<1>2. TypeOK /\ Paid /\ [Next]_vars => Paid'
  BY PaidStep
<1>3. Paid => ApprovalsUsedOnce
  BY DEF Paid, ApprovalsUsedOnce
<1> QED
  BY TypeCorrect, <1>1, <1>2, <1>3, PTL DEF Spec

\* A turn reported as aborted starts no command.
THEOREM NoCommandOnceAborted == Spec => NoCommandAfterAbort
<1>1. Init => Settled
  BY DEF Init, Settled, AbortReported
<1>2. IInv /\ Settled /\ [Next]_vars => Settled'
  BY SettledStep
<1>3. IInv /\ Settled /\ [Next]_vars =>
        [\A t \in Subs :
           pc[t] = "wait" /\ pc'[t] = "stream" /\ reply[t].decision = "approved"
             => ~AbortReported(t)]_vars
  BY ProceedsAlive DEF ResumesAlive, Settled, Over, IInv
<1> QED
  BY Invariance, <1>1, <1>2, <1>3, PTL DEF Spec, NoCommandAfterAbort

\* The active turn ends only by its own task or by the loop that takes it.
Leaves ==
  active # None /\ active' = None =>
    lpc = "take" \/ (pc[active.owner] = "finish" /\ pc'[active.owner] = "complete")

LEMMA LeavesStep == IInv /\ [Next]_vars => Leaves
<1> SUFFICES ASSUME IInv, [Next]_vars PROVE Leaves
  OBVIOUS
<1>0. pc \in [Subs -> TaskPCs] /\ (active # None => active.owner \in Subs)
  BY TurnParts DEF IInv, TypeOK
<1> USE <1>0 DEF Leaves, vars
<1>1. CASE RecvInterrupt
  BY <1>1 DEF RecvInterrupt, InterruptTask, StartAbort, LoopGoto
<1>2. CASE RecvRollback
  BY <1>2 DEF RecvRollback, SetFate
<1>3. CASE RecvShutdown
  BY <1>3 DEF RecvShutdown, StartAbort, LoopGoto
<1>4. CASE LoopTake
  BY <1>4 DEF LoopTake
<1>5. CASE LoopCancel
  BY <1>5 DEF LoopCancel, LoopGoto
<1>6. CASE LoopGraceOver
  BY <1>6 DEF LoopGraceOver, LoopGoto
<1>7. CASE LoopReport
  BY <1>7 DEF LoopReport, AbortOver, Emit
<1>8. CASE LoopSpawn
  BY <1>8 DEF LoopSpawn
<1>9. CASE LoopRegister
  BY <1>9 DEF LoopRegister, LoopGoto, IInv, LoopHolds
<1>10. ASSUME NEW s \in Subs, RecvInputInject(s) PROVE  Leaves
  BY <1>10, InjectKeeps DEF SameOwner
<1>11. ASSUME NEW s \in Subs, RecvInputSpawn(s) PROVE  Leaves
  BY <1>11 DEF RecvInputSpawn, StartAbort, LoopGoto, SetFate
<1>12. ASSUME NEW s \in Subs, RecvOther(s) PROVE  Leaves
  BY <1>12 DEF RecvOther, StartAbort, LoopGoto, SetFate
<1>13. ASSUME NEW req \in Requests, NEW d \in {"approved", "denied"}, RecvDecision(req, d)
      PROVE  Leaves
  BY <1>13, DecisionKeeps DEF SameOwner
<1>14. ASSUME NEW req \in Requests, RecvDecisionAbort(req) PROVE  Leaves
  BY <1>14 DEF RecvDecisionAbort, InterruptTask, StartAbort, LoopGoto
<1>15. ASSUME NEW t \in Subs, TaskStart(t) PROVE  Leaves
  BY <1>15 DEF TaskStart, Goto, SetFate
<1>16. ASSUME NEW t \in Subs, TaskStartEmpty(t) PROVE  Leaves
  BY <1>16 DEF TaskStartEmpty, Goto, SetFate
<1>17. ASSUME NEW t \in Subs, TaskStartOther(t) PROVE  Leaves
  BY <1>17 DEF TaskStartOther, Goto, SetFate
<1>18. ASSUME NEW t \in Subs, TaskWorked(t) PROVE  Leaves
  BY <1>18 DEF TaskWorked, Goto
<1>19. ASSUME NEW t \in Subs, TaskCollect(t) PROVE  Leaves
  BY <1>19, CollectKeeps DEF SameOwner
<1>32. ASSUME NEW t \in Subs, TaskRecord(t) PROVE  Leaves
  BY <1>32 DEF TaskRecord, Goto, SetFate, Members
<1>20. ASSUME NEW t \in Subs, TaskToolCall(t) PROVE  Leaves
  BY <1>20 DEF TaskToolCall, Goto
<1>21. ASSUME NEW t \in Subs, TaskAsk(t) PROVE  Leaves
  BY <1>21, AskKeeps DEF SameOwner
<1>22. ASSUME NEW t \in Subs, TaskProceed(t) PROVE  Leaves
  BY <1>22 DEF TaskProceed, Goto, NoReply
<1>23. ASSUME NEW t \in Subs, TaskSeesCancel(t) PROVE  Leaves
  BY <1>23 DEF TaskSeesCancel
<1>24. ASSUME NEW t \in Subs, TaskError(t) PROVE  Leaves
  BY <1>24 DEF TaskError, Goto, Emit
<1>25. ASSUME NEW t \in Subs, TaskCompleted(t) PROVE  Leaves
  BY <1>25 DEF TaskCompleted, Goto
<1>26. ASSUME NEW t \in Subs, TaskCheck(t) PROVE  Leaves
  BY <1>26 DEF TaskCheck, Goto
<1>27. ASSUME NEW t \in Subs, TaskFlush(t) PROVE  Leaves
  <2>1. UNCHANGED active
    BY <1>27, Zenon DEF TaskFlush
  <2> QED
    BY <2>1
<1>28. ASSUME NEW t \in Subs, TaskFinish(t) PROVE  Leaves
  <2>1. CASE active # None /\ active.owner = t
    BY <1>28, <2>1 DEF TaskFinish, Goto
  <2>2. CASE ~(active # None /\ active.owner = t)
    BY <1>28, <2>2 DEF TaskFinish
  <2> QED
    BY <2>1, <2>2
<1>29. ASSUME NEW t \in Subs, TaskComplete(t) PROVE  Leaves
  BY <1>29 DEF TaskComplete, EndTask, NoReply, Emit
<1>30. ASSUME NEW t \in Subs, TaskKilled(t) PROVE  Leaves
  BY <1>30 DEF TaskKilled, EndTask, NoReply
<1>31. CASE UNCHANGED vars
  BY <1>31
<1> QED
  BY <1>1, <1>2, <1>3, <1>4, <1>5, <1>6, <1>7, <1>8, <1>9, <1>10, <1>11, 
     <1>12, <1>13, <1>14, <1>15, <1>16, <1>17, <1>18, <1>19, <1>20, <1>21, 
     <1>22, <1>23, <1>24, <1>25, <1>26, <1>27, <1>28, <1>29, <1>30, <1>31, <1>32
     DEF Next, Receive, LoopStep, TaskStep, RecvApproval

\* A task that finishes late never clears a newer turn.
THEOREM TurnIsLeftByItsOwner == Spec => TurnLeavesByItsOwner
<1>1. IInv /\ [Next]_vars =>
        [active # None /\ active' = None =>
           lpc = "take" \/ (pc[active.owner] = "finish" /\ pc'[active.owner] = "complete")]_vars
  BY LeavesStep DEF Leaves
<1> QED
  BY Invariance, <1>1, PTL DEF Spec, TurnLeavesByItsOwner
----------------------------------------------------------------------------
(* What becomes of the inputs *)

Starting == {"start", "startother"}
ToSpawn == goal \in {"spawn", "spawnother"} \/ lpc \in {"spawn", "spawnother"}

\* Recorded inputs are in the history once, injected ones in the turn once, and
\* a prompt is not in either before its task starts.
Book ==
  /\ RecordedOnce
  /\ \A i \in DOMAIN history : fate[history[i]] = "recorded"
  /\ active # None =>
       /\ \A i, j \in DOMAIN active.pending : active.pending[i] = active.pending[j] => i = j
       /\ \A i \in DOMAIN active.pending : fate[active.pending[i]] = "injected"
  /\ \A t \in Subs : pc[t] \in Starting => fate[t] = "starting"
  /\ ToSpawn => fate[next] = "starting"

\* Inputs a task has taken and not recorded yet are with one task, once.
TakenOnce ==
  \A t \in Subs : \A i \in DOMAIN taken[t] :
    /\ fate[taken[t][i]] = "taken"
    /\ \A u \in Subs : \A j \in DOMAIN taken[u] :
         taken[t][i] = taken[u][j] => t = u /\ i = j

\* What a step must not do to keep the books if it records nothing.
NothingStarts ==
  /\ \A t \in Subs : pc'[t] \in Starting => pc[t] \in Starting
  /\ ToSpawn' => ToSpawn /\ next' = next

PendingKept ==
  active' # None => active' \in ActiveTurns /\
    (active'.pending = <<>> \/ (active # None /\ active'.pending = active.pending))

\* A step that records and injects nothing keeps them.
LEMMA BookKept ==
  ASSUME IInv, Book, NothingStarts, PendingKept, UNCHANGED <<history, fate>>
  PROVE  Book'
BY DEF Book, NothingStarts, PendingKept, RecordedOnce, Starting, ToSpawn

\* The same for a step that only changes what became of other submissions.
LEMMA BookSettled ==
  ASSUME IInv, Book, NothingStarts, active' = None, UNCHANGED history,
         NEW f \in Fates, active # None, SetFate(Members(active.pending), f)
  PROVE  Book'
<1>1. ASSUME NEW s \in Subs, fate[s] # "injected"
      PROVE  fate'[s] = fate[s]
  BY <1>1, TurnParts, NoneAssumption DEF SetFate, Members, Book, IInv, TypeOK
<1>2. \A i \in DOMAIN history : history[i] \in Subs
  BY DEF IInv, TypeOK
<1>3. ToSpawn => next \in Subs
  BY DEF IInv, NextSet, ToSpawn
<1> QED BY <1>1, <1>2, <1>3 DEF Book, NothingStarts, RecordedOnce, Starting

\* Every step keeps the books.
LEMMA BookStep == IInv /\ Book /\ TakenOnce /\ [Next]_vars => Book'
<1> SUFFICES ASSUME IInv, Book, TakenOnce, [Next]_vars PROVE Book'
  OBVIOUS
<1>0. /\ pc \in [Subs -> TaskPCs] /\ fate \in [Subs -> Fates] /\ history \in Seq(Subs)
      /\ active = None \/ active \in ActiveTurns
      /\ active # None => active.owner \in Subs /\ active.pending \in Seq(Subs)
      /\ \A i \in DOMAIN history : history[i] \in Subs
      /\ ToSpawn => next \in Subs /\ pc[next] = "none"
  BY TurnParts DEF IInv, TypeOK, Fresh, NextSet, ToSpawn
<1> USE <1>0 DEF Starting, ToSpawn, NothingStarts, PendingKept, vars, loopVars, taskVars, seenVars
<1>1. CASE RecvInterrupt
  BY <1>1, BookKept DEF RecvInterrupt, InterruptTask, StartAbort, LoopGoto
<1>2. CASE RecvRollback
  <2> DEFINE n == Len(history)
  <2>1. /\ n \in Nat /\ n >= 1 /\ history' \in Seq(Subs) /\ Len(history') = n - 1
        /\ \A i \in DOMAIN history' : i \in 1..(n - 1) /\ history'[i] = history[i]
    <3>1. n \in Nat /\ n >= 1 /\ history' = SubSeq(history, 1, n - 1)
      BY <1>2 DEF RecvRollback
    <3>2. /\ history' \in Seq(Subs) /\ Len(history') = n - 1
          /\ \A i \in 1..(n - 1) : history'[i] = history[i]
      <4>1. \A i \in 1..(n - 1) : history[i] \in Subs
        BY <3>1
      <4> HIDE DEF n
      <4> QED BY <3>1, <4>1, SubSeqProperties
    <3> QED BY <3>1, <3>2
  <2>2. \A i \in DOMAIN history' : i \in DOMAIN history /\ i # n /\ n \in DOMAIN history
    BY <2>1
  <2>3. /\ active = None /\ UNCHANGED <<active, loopVars, pc>>
        /\ SetFate({history[n]}, "rolledback")
    BY <1>2 DEF RecvRollback
  <2>4. fate[history[n]] = "recorded" /\ history[n] \in Subs
    BY <2>1 DEF Book
  <2>5. ASSUME NEW s \in Subs, s # history[n]
        PROVE  fate'[s] = fate[s]
    BY <2>3, <2>5 DEF SetFate
  <2> HIDE DEF n
  <2>6. RecordedOnce'
    BY <2>1, <2>2 DEF Book, RecordedOnce
  <2>7. \A i \in DOMAIN history' : fate'[history'[i]] = "recorded"
    BY <2>1, <2>2, <2>4, <2>5 DEF Book, RecordedOnce
  <2>8. \A t \in Subs : pc'[t] \in Starting => fate'[t] = "starting"
    BY <2>3, <2>4, <2>5 DEF Book
  <2>9. ToSpawn' => fate'[next'] = "starting"
    BY <2>3, <2>4, <2>5 DEF Book
  <2> QED BY <2>3, <2>6, <2>7, <2>8, <2>9 DEF Book
<1>3. CASE RecvShutdown
  BY <1>3, BookKept DEF RecvShutdown, StartAbort, LoopGoto
<1>4. CASE LoopTake
  <2>1. /\ active' = None /\ UNCHANGED <<pc, history, next>>
        /\ ToSpawn' => ToSpawn
    BY <1>4 DEF LoopTake, AbortOver
  <2>2. CASE active = None
    BY <1>4, <2>1, <2>2, BookKept DEF LoopTake
  <2>3. CASE active # None
    BY <1>4, <2>1, <2>3, BookSettled DEF LoopTake, Fates
  <2> QED BY <2>2, <2>3
<1>5. CASE LoopCancel
  BY <1>5, BookKept DEF LoopCancel, LoopGoto
<1>6. CASE LoopGraceOver
  BY <1>6, BookKept DEF LoopGraceOver, LoopGoto
<1>7. CASE LoopReport
  BY <1>7, BookKept DEF LoopReport, AbortOver
<1>8. CASE LoopSpawn
  BY <1>8 DEF LoopSpawn, Book, RecordedOnce, IInv, NextSet
<1>9. CASE LoopRegister
  <2>1. active' \in ActiveTurns /\ active'.pending = <<>>
    BY <1>9, TurnOfTask DEF LoopRegister, LoopGoto, NewTurn, IInv, NextSet
  <2>2. goal = "recv"
    BY <1>9 DEF LoopRegister, LoopGoto, IInv, NextSet
  <2> QED BY <1>9, <2>1, <2>2, BookKept DEF LoopRegister, LoopGoto
<1>10. ASSUME NEW s \in Subs, RecvInputInject(s) PROVE Book'
  <2> DEFINE p == active.pending
  <2>1. /\ active # None /\ fate[s] = "unsent" /\ UNCHANGED <<loopVars, pc, history>>
        /\ active' = [active EXCEPT !.pending = Append(p, s)] /\ SetFate({s}, "injected")
    BY <1>10 DEF RecvInputInject
  <2>2. active'.pending = Append(p, s) /\ p \in Seq(Subs)
    BY <2>1 DEF ActiveTurns
  <2>3. \A u \in Subs : u # s => fate'[u] = fate[u]
    BY <2>1 DEF SetFate
  <2>4. fate'[s] = "injected"
    BY <2>1 DEF SetFate
  <2>5. /\ \A i \in DOMAIN history : history[i] # s
        /\ \A i \in DOMAIN p : p[i] # s /\ p[i] \in Subs
        /\ \A t \in Subs : pc[t] \in Starting => t # s
        /\ ToSpawn => next # s
    BY <2>1, <2>2 DEF Book
  <2>6. \A i \in DOMAIN active'.pending :
          \/ i \in DOMAIN p /\ active'.pending[i] = p[i]
          \/ i = Len(p) + 1 /\ active'.pending[i] = s
    BY <2>2
  <2> HIDE DEF p
  <2>7. \A i, j \in DOMAIN active'.pending : active'.pending[i] = active'.pending[j] => i = j
    BY <2>1, <2>5, <2>6 DEF Book, p
  <2>8. \A i \in DOMAIN active'.pending : fate'[active'.pending[i]] = "injected"
    BY <2>1, <2>3, <2>4, <2>5, <2>6 DEF Book, p
  <2>9. \A i \in DOMAIN history' : fate'[history'[i]] = "recorded"
    BY <2>1, <2>3, <2>5 DEF Book
  <2>10. RecordedOnce'
    BY <2>1 DEF Book, RecordedOnce
  <2> QED BY <2>1, <2>3, <2>5, <2>7, <2>8, <2>9, <2>10 DEF Book
<1>11. ASSUME NEW s \in Subs, RecvInputSpawn(s) \/ RecvOther(s) PROVE Book'
  <2>1. /\ fate[s] = "unsent" /\ pc[s] = "none" /\ next' = s /\ lpc' = "take"
        /\ SetFate({s}, "starting") /\ UNCHANGED <<active, pc, history>>
    BY <1>11 DEF RecvInputSpawn, RecvOther, StartAbort, LoopGoto, IInv, Fresh
  <2>2. /\ \A u \in Subs : u # s => fate'[u] = fate[u]
        /\ fate'[s] = "starting"
    BY <2>1 DEF SetFate
  <2>3. /\ \A i \in DOMAIN history : history[i] # s
        /\ active # None => \A i \in DOMAIN active.pending :
              active.pending[i] # s /\ active.pending[i] \in Subs
    BY <2>1 DEF Book
  <2> QED BY <2>1, <2>2, <2>3 DEF Book, RecordedOnce
<1>12. ASSUME NEW t \in Subs, TaskStart(t) PROVE Book'
  <2>1. /\ pc[t] = "start" /\ fate[t] = "starting" /\ UNCHANGED <<active, loopVars>>
        /\ pc' = [pc EXCEPT ![t] = "collect"]
        /\ history' = Append(history, t) /\ SetFate({t}, "recorded")
    BY <1>12 DEF TaskStart, Goto, Book
  <2>2. /\ \A u \in Subs : u # t => fate'[u] = fate[u]
        /\ fate'[t] = "recorded"
    BY <2>1 DEF SetFate
  <2>3. /\ \A i \in DOMAIN history : history[i] # t
        /\ active # None => \A i \in DOMAIN active.pending :
              active.pending[i] # t /\ active.pending[i] \in Subs
        /\ ToSpawn => next # t
    BY <2>1 DEF Book
  <2>4. \A i \in DOMAIN history' :
          \/ i \in DOMAIN history /\ history'[i] = history[i]
          \/ i = Len(history) + 1 /\ history'[i] = t
    BY <2>1
  <2>5. RecordedOnce'
    BY <2>3, <2>4 DEF Book, RecordedOnce
  <2>6. \A i \in DOMAIN history' : fate'[history'[i]] = "recorded"
    BY <2>2, <2>3, <2>4 DEF Book
  <2> QED BY <2>1, <2>2, <2>3, <2>5, <2>6 DEF Book
<1>13. ASSUME NEW t \in Subs, TaskStartEmpty(t) PROVE Book'
  <2>1. /\ pc[t] = "start" /\ fate[t] = "starting" /\ UNCHANGED <<active, loopVars, history>>
        /\ pc' = [pc EXCEPT ![t] = "flush"] /\ SetFate({t}, "empty")
    BY <1>13 DEF TaskStartEmpty, Goto, Book
  <2>2. \A u \in Subs : u # t => fate'[u] = fate[u]
    BY <2>1 DEF SetFate
  <2>3. /\ \A i \in DOMAIN history : history[i] # t
        /\ active # None => \A i \in DOMAIN active.pending :
              active.pending[i] # t /\ active.pending[i] \in Subs
        /\ ToSpawn => next # t
    BY <2>1 DEF Book
  <2> QED BY <2>1, <2>2, <2>3 DEF Book, RecordedOnce
<1>14. ASSUME NEW t \in Subs, TaskCollect(t) PROVE Book'
  <2>1. pc' = [pc EXCEPT ![t] = "record"] /\ UNCHANGED <<loopVars, history>>
    BY <1>14 DEF TaskCollect, Goto
  <2>2. CASE active = None
    BY <1>14, <2>1, <2>2, BookKept DEF TaskCollect
  <2>3. CASE active # None
    <3> DEFINE p == active.pending
    <3>1. active' = [active EXCEPT !.pending = <<>>] /\ SetFate(Members(p), "taken")
      BY <1>14, <2>3 DEF TaskCollect
    <3>2. active'.pending = <<>> /\ DOMAIN active'.pending = {} /\ p \in Seq(Subs)
      BY <2>3, <3>1 DEF ActiveTurns
    <3>3. \A i \in DOMAIN p : fate[p[i]] = "injected"
      BY <2>3 DEF Book
    <3> HIDE DEF p
    <3>4. \A s \in Subs : fate[s] # "injected" => fate'[s] = fate[s]
      BY <3>1, <3>3 DEF SetFate, Members
    <3>5. \A i \in DOMAIN history' : fate'[history'[i]] = "recorded"
      BY <2>1, <3>4 DEF Book
    <3>6. RecordedOnce'
      BY <2>1 DEF Book, RecordedOnce
    <3>7. \A u \in Subs : pc'[u] \in Starting => fate'[u] = "starting"
      BY <2>1, <3>4 DEF Book
    <3>8. ToSpawn' => fate'[next'] = "starting"
      BY <2>1, <3>4 DEF Book
    <3> QED BY <3>2, <3>5, <3>6, <3>7, <3>8 DEF Book
  <2> QED BY <2>2, <2>3
<1>23. ASSUME NEW t \in Subs, TaskRecord(t) PROVE Book'
  <2> DEFINE p == taken[t]
  <2>1. /\ pc' = [pc EXCEPT ![t] = "stream"] /\ UNCHANGED <<active, loopVars>>
        /\ history' = history \o p /\ SetFate(Members(p), "recorded")
    BY <1>23 DEF TaskRecord, Goto
  <2>2. p \in Seq(Subs)
    BY DEF IInv, TypeOK
  <2>3. /\ \A i \in DOMAIN history : fate[history[i]] = "recorded"
        /\ \A i \in DOMAIN p : fate[p[i]] = "taken" /\ p[i] \in Subs
        /\ \A i, j \in DOMAIN p : p[i] = p[j] => i = j
    BY <2>2 DEF Book, TakenOnce
  <2> HIDE DEF p
  <2>4. \A i \in DOMAIN history' :
          \/ i \in DOMAIN history /\ history'[i] = history[i]
          \/ /\ i - Len(history) \in DOMAIN p /\ i \in Int
             /\ history'[i] = p[i - Len(history)]
    BY <2>1, <2>2
  <2>5. /\ \A s \in Subs : fate[s] # "taken" => fate'[s] = fate[s]
        /\ \A i \in DOMAIN p : fate'[p[i]] = "recorded"
    BY <2>1, <2>3 DEF SetFate, Members
  <2>6. RecordedOnce'
    BY <2>3, <2>4 DEF Book, RecordedOnce
  <2>7. \A i \in DOMAIN history' : fate'[history'[i]] = "recorded"
    BY <2>3, <2>4, <2>5
  <2>8. \A u \in Subs : pc'[u] \in Starting => fate'[u] = "starting"
    BY <2>1, <2>5 DEF Book
  <2>9. ToSpawn' => fate'[next'] = "starting"
    BY <2>1, <2>5 DEF Book
  <2>10. active' # None =>
          /\ \A i, j \in DOMAIN active'.pending : active'.pending[i] = active'.pending[j] => i = j
          /\ \A i \in DOMAIN active'.pending : fate'[active'.pending[i]] = "injected"
    <3>1. active # None => \A i \in DOMAIN active.pending : active.pending[i] \in Subs
      OBVIOUS
    <3> QED BY <2>1, <2>5, <3>1 DEF Book
  <2> QED BY <2>6, <2>7, <2>8, <2>9, <2>10 DEF Book
<1>15. ASSUME NEW t \in Subs, TaskFinish(t) PROVE Book'
  <2>1. pc' = [pc EXCEPT ![t] = "complete"] /\ UNCHANGED <<loopVars, history>>
    BY <1>15 DEF TaskFinish, Goto
  <2>2. CASE active # None /\ active.owner = t
    BY <1>15, <2>1, <2>2, BookSettled DEF TaskFinish, Fates
  <2>3. CASE ~(active # None /\ active.owner = t)
    BY <1>15, <2>1, <2>3, BookKept DEF TaskFinish
  <2> QED BY <2>2, <2>3
<1>16. ASSUME NEW t \in Subs, TaskStartOther(t) PROVE Book'
  <2>1. /\ pc[t] = "startother" /\ fate[t] = "starting" /\ UNCHANGED <<active, loopVars, history>>
        /\ pc' = [pc EXCEPT ![t] = "work"] /\ SetFate({t}, "empty")
    BY <1>16 DEF TaskStartOther, Goto, Book
  <2>2. \A u \in Subs : u # t => fate'[u] = fate[u]
    BY <2>1 DEF SetFate
  <2>3. /\ \A i \in DOMAIN history : history[i] # t
        /\ active # None => \A i \in DOMAIN active.pending :
              active.pending[i] # t /\ active.pending[i] \in Subs
        /\ ToSpawn => next # t
    BY <2>1 DEF Book
  <2> QED BY <2>1, <2>2, <2>3 DEF Book, RecordedOnce
<1>17. ASSUME NEW req \in Requests, NEW d \in {"approved", "denied"}, RecvDecision(req, d)
       PROVE  Book'
  <2>1. UNCHANGED <<history, fate, loopVars, pc>>
    BY <1>17 DEF RecvDecision
  <2>2. CASE active = None
    BY <1>17, <2>1, <2>2, BookKept DEF RecvDecision, NotifyApproval
  <2>3. CASE active # None
    <3>1. active.asks \ EntryOf(req[1]) \in SUBSET Requests
      BY <2>3, TurnParts
    <3>2. active' = [active EXCEPT !.asks = active.asks \ EntryOf(req[1])]
      BY <1>17, <2>3 DEF RecvDecision, NotifyApproval
    <3>3. active' \in ActiveTurns /\ active'.pending = active.pending
      BY <2>3, <3>1, <3>2, TurnAsks DEF ActiveTurns
    <3> QED BY <2>1, <2>3, <3>3, BookKept
  <2> QED BY <2>2, <2>3
<1>18. ASSUME NEW req \in Requests, RecvDecisionAbort(req) PROVE Book'
  BY <1>18, BookKept DEF RecvDecisionAbort, InterruptTask, StartAbort, LoopGoto
<1>19. ASSUME NEW t \in Subs, TaskAsk(t) PROVE Book'
  <2>1. /\ \E to \in {"show", "wait"} : pc' = [pc EXCEPT ![t] = to]
        /\ UNCHANGED <<loopVars, history, fate>>
        /\ <<t, asked[t]>> \in Requests
    BY <1>19, AskFrame DEF IInv, AskedPos, Requests
  <2>2. CASE UNCHANGED active
    BY <2>1, <2>2, BookKept
  <2>3. CASE active # None /\ active' = [active EXCEPT !.asks =
                               (active.asks \ EntryOf(t)) \union {<<t, asked[t]>>}]
    <3>1. (active.asks \ EntryOf(t)) \union {<<t, asked[t]>>} \in SUBSET Requests
      BY <2>1, <2>3, TurnParts
    <3>2. active' \in ActiveTurns /\ active'.pending = active.pending
      BY <2>3, <3>1, TurnAsks DEF ActiveTurns
    <3> QED BY <2>1, <2>3, <3>2, BookKept
  <2> QED BY <1>19, <2>2, <2>3, RegisterFrame, ShowFrame DEF TaskAsk
<1>20. ASSUME NEW t \in Subs, TaskFlush(t) PROVE Book'
  <2>1. UNCHANGED <<active, loopVars, history, fate>>
    BY <1>20, Zenon DEF TaskFlush, loopVars
  <2>2. \A u \in Subs : pc'[u] \in Starting => pc[u] \in Starting
    <3>1. CASE cancelled[t]
      <4>1. EndTask(t, "done")
        BY <1>20, <3>1, Zenon DEF TaskFlush
      <4> QED BY <4>1 DEF EndTask
    <3>2. CASE ~cancelled[t]
      <4>1. Goto(t, "flush", "finish")
        BY <1>20, <3>2, Zenon DEF TaskFlush
      <4> QED BY <4>1 DEF Goto
    <3> QED BY <3>1, <3>2
  <2> QED BY <2>1, <2>2, BookKept
<1>21. ASSUME NEW t \in Subs,
              \/ TaskWorked(t) \/ TaskToolCall(t) \/ TaskProceed(t) \/ TaskSeesCancel(t)
              \/ TaskError(t) \/ TaskCompleted(t) \/ TaskCheck(t) \/ TaskComplete(t)
              \/ TaskKilled(t)
       PROVE  Book'
  <2>1. UNCHANGED <<active, loopVars, history, fate>>
    BY <1>21 DEF TaskWorked, TaskToolCall, TaskProceed, TaskSeesCancel, TaskError,
       TaskCompleted, TaskCheck, TaskComplete, TaskKilled
  <2>2. \E to \in TaskPCs \ Starting : pc' = [pc EXCEPT ![t] = to]
    BY <1>21 DEF TaskWorked, TaskToolCall, TaskProceed, TaskSeesCancel, TaskError,
       TaskCompleted, TaskCheck, TaskComplete, TaskKilled, EndTask, Goto, TaskPCs
  <2> QED BY <2>1, <2>2, BookKept
<1>22. CASE UNCHANGED vars
  BY <1>22, BookKept
<1> QED
  BY <1>1, <1>2, <1>3, <1>4, <1>5, <1>6, <1>7, <1>8, <1>9, <1>10, <1>11, <1>12, <1>13,
     <1>14, <1>15, <1>16, <1>17, <1>18, <1>19, <1>20, <1>21, <1>22, <1>23
     DEF Next, Receive, LoopStep, TaskStep, RecvApproval

\* Steps that take nothing, and change the fate of no input that was taken.
LEMMA TakenStays ==
  ASSUME IInv, TakenOnce, \A t \in Subs : taken'[t] = taken[t] \/ taken'[t] = <<>>,
         \A s \in Subs : fate[s] = "taken" => fate'[s] = "taken"
  PROVE  TakenOnce'
<1>1. \A t \in Subs : \A i \in DOMAIN taken[t] : taken[t][i] \in Subs
  BY DEF IInv, TypeOK
<1> QED BY <1>1 DEF TakenOnce

\* Changing the fate of submissions that have another one keeps what is taken.
LEMMA FateKeepsTaken ==
  ASSUME IInv, NEW S, NEW f, SetFate(S, f), \A s \in S : fate[s] # "taken"
  PROVE  \A s \in Subs : fate[s] = "taken" => fate'[s] = "taken"
BY DEF SetFate

\* Every step keeps what is taken with one task.
LEMMA TakenStep == IInv /\ Book /\ TakenOnce /\ [Next]_vars => TakenOnce'
<1> SUFFICES ASSUME IInv, Book, TakenOnce, [Next]_vars PROVE TakenOnce'
  OBVIOUS
<1> USE DEF vars, loopVars, taskVars, seenVars
<1>0. /\ taken \in [Subs -> Seq(Subs)] /\ fate \in [Subs -> Fates] /\ history \in Seq(Subs)
      /\ active # None => \A s \in Members(active.pending) : fate[s] # "taken"
  BY DEF IInv, TypeOK, Book, Members
<1>1. CASE RecvRollback
  <2>1. Len(history) \in DOMAIN history /\ fate[history[Len(history)]] # "taken"
    BY <1>0, <1>1 DEF RecvRollback, Book
  <2>2. UNCHANGED taken /\ SetFate({history[Len(history)]}, "rolledback")
    BY <1>1 DEF RecvRollback
  <2> QED BY <2>1, <2>2, FateKeepsTaken, TakenStays
<1>2. ASSUME NEW s \in Subs, RecvInputInject(s) \/ RecvInputSpawn(s) \/ RecvOther(s)
      PROVE  TakenOnce'
  <2>1. UNCHANGED taken /\ fate[s] # "taken" /\ \E f \in Fates : SetFate({s}, f)
    BY <1>2 DEF RecvInputInject, RecvInputSpawn, RecvOther, Fates
  <2> QED BY <2>1, FateKeepsTaken, TakenStays
<1>3. CASE RecvInterrupt \/ RecvShutdown \/ \E req \in Requests : RecvApproval(req)
  <2>1. UNCHANGED <<taken, fate>>
    BY <1>3 DEF RecvInterrupt, RecvShutdown, RecvApproval, RecvDecision, RecvDecisionAbort
  <2> QED BY <2>1, TakenStays
<1>4. CASE LoopTake
  <2>1. UNCHANGED taken
        /\ \/ UNCHANGED fate
           \/ active # None /\ SetFate(Members(active.pending), "cleared")
    BY <1>4 DEF LoopTake
  <2> QED BY <1>0, <2>1, FateKeepsTaken, TakenStays
<1>5. CASE LoopCancel \/ LoopGraceOver \/ LoopReport \/ LoopSpawn \/ LoopRegister
  <2>1. UNCHANGED <<taken, fate>>
    BY <1>5 DEF LoopCancel, LoopGraceOver, LoopReport, LoopSpawn, LoopRegister
  <2> QED BY <2>1, TakenStays
<1>6. ASSUME NEW t \in Subs, TaskStart(t) \/ TaskStartEmpty(t) \/ TaskStartOther(t)
      PROVE  TakenOnce'
  <2>1. UNCHANGED taken /\ pc[t] \in Starting /\ \E f \in Fates : SetFate({t}, f)
    BY <1>6 DEF TaskStart, TaskStartEmpty, TaskStartOther, Goto, Starting, Fates
  <2>2. fate[t] # "taken"
    BY <2>1 DEF Book
  <2> QED BY <2>1, <2>2, FateKeepsTaken, TakenStays
<1>7. ASSUME NEW t \in Subs, TaskCollect(t) PROVE TakenOnce'
  <2>1. CASE active = None
    BY <1>7, <2>1, TakenStays DEF TaskCollect
  <2>2. CASE active # None
    <3> DEFINE p == active.pending
    <3>1. taken' = [taken EXCEPT ![t] = p] /\ SetFate(Members(p), "taken")
      BY <1>7, <2>2 DEF TaskCollect
    <3>2. /\ p \in Seq(Subs)
          /\ \A i \in DOMAIN p : fate[p[i]] = "injected" /\ p[i] \in Subs
          /\ \A i, j \in DOMAIN p : p[i] = p[j] => i = j
      <4>1. active \in ActiveTurns
        BY <2>2 DEF IInv, TypeOK
      <4>2. p \in Seq(Subs)
        BY <4>1, TurnParts
      <4> QED BY <2>2, <4>2 DEF Book
    <3> HIDE DEF p
    <3>3. \A i \in DOMAIN p : fate'[p[i]] = "taken"
      BY <3>1, <3>2 DEF SetFate, Members
    <3>4. \A u \in Subs \ {t} : taken'[u] = taken[u]
      BY <1>0, <3>1
    <3>5. \A u \in Subs : \A i \in DOMAIN taken[u] :
            taken[u][i] \in Subs /\ fate[taken[u][i]] = "taken" /\ fate'[taken[u][i]] = "taken"
      BY <1>0, <3>1 DEF TakenOnce, SetFate
    <3>6. taken'[t] = p
      BY <1>0, <3>1
    <3> QED BY <3>2, <3>3, <3>4, <3>5, <3>6 DEF TakenOnce
  <2> QED BY <2>1, <2>2
<1>8. ASSUME NEW t \in Subs, TaskRecord(t) PROVE TakenOnce'
  <2>1. taken' = [taken EXCEPT ![t] = <<>>] /\ SetFate(Members(taken[t]), "recorded")
    BY <1>8 DEF TaskRecord
  <2>2. ASSUME NEW u \in Subs, u # t, NEW i \in DOMAIN taken[u]
        PROVE  taken[u][i] \in Subs /\ fate'[taken[u][i]] = "taken"
    BY <1>0, <2>1, <2>2 DEF TakenOnce, SetFate, Members
  <2> QED BY <1>0, <2>1, <2>2 DEF TakenOnce
<1>9. ASSUME NEW t \in Subs, TaskFinish(t) PROVE TakenOnce'
  <2>1. UNCHANGED taken
        /\ \/ UNCHANGED fate
           \/ active # None /\ SetFate(Members(active.pending), "lost")
    BY <1>9 DEF TaskFinish
  <2> QED BY <1>0, <2>1, FateKeepsTaken, TakenStays
<1>10. ASSUME NEW t \in Subs,
              \/ TaskWorked(t) \/ TaskToolCall(t) \/ TaskAsk(t) \/ TaskProceed(t)
              \/ TaskSeesCancel(t) \/ TaskError(t) \/ TaskCompleted(t) \/ TaskCheck(t)
       PROVE  TakenOnce'
  <2>1. UNCHANGED <<taken, fate>>
    BY <1>10, AskFrame DEF TaskWorked, TaskToolCall, TaskProceed, TaskSeesCancel, TaskError,
       TaskCompleted, TaskCheck
  <2> QED BY <2>1, TakenStays
<1>11. ASSUME NEW t \in Subs, TaskFlush(t) \/ TaskComplete(t) \/ TaskKilled(t)
       PROVE  TakenOnce'
  <2>1. UNCHANGED fate /\ (UNCHANGED taken \/ taken' = [taken EXCEPT ![t] = <<>>])
    BY <1>11, Zenon DEF TaskFlush, TaskComplete, TaskKilled, EndTask
  <2> QED BY <1>0, <2>1, TakenStays
<1>12. CASE UNCHANGED vars
  BY <1>12, TakenStays
<1> QED
  BY <1>1, <1>2, <1>3, <1>4, <1>5, <1>6, <1>7, <1>8, <1>9, <1>10, <1>11, <1>12
     DEF Next, Receive, LoopStep, TaskStep

\* No input is recorded twice, whether it was injected or started its turn.
THEOREM InputsAreRecordedOnce == Spec => []RecordedOnce
<1>1. Init => Book /\ TakenOnce
  BY DEF Init, Book, TakenOnce, RecordedOnce, Starting, ToSpawn
<1>2. IInv /\ Book /\ TakenOnce /\ [Next]_vars => (Book /\ TakenOnce)'
  BY BookStep, TakenStep
<1>3. Book => RecordedOnce
  BY DEF Book
<1> QED BY Invariance, <1>1, <1>2, <1>3, PTL DEF Spec
----------------------------------------------------------------------------
(* What an abort and an approval come to *)

\* A cancelled task is being aborted, or was reported.
Reported ==
  \A t \in Subs : cancelled[t] =>
    AbortReported(t) \/ (victim = t /\ lpc \in {"grace", "report"})

\* Events are never taken back.
EventsStay == \A t \in Subs : events[t] \subseteq events'[t]

\* Steps that cancel nobody, and leave the loop to its abort.
LEMMA ReportedStays ==
  ASSUME Reported, cancelled' = cancelled, EventsStay,
         lpc \in {"grace", "report"} => UNCHANGED <<lpc, victim>>
  PROVE  Reported'
BY DEF Reported, EventsStay, AbortReported

LEMMA EmitStays ==
  ASSUME TypeOK, NEW t \in Subs, NEW e, Emit(t, e)
  PROVE  EventsStay /\ e \in events'[t]
BY DEF Emit, EventsStay, TypeOK

\* Every step keeps cancelled tasks reported, or about to be.
LEMMA ReportedStep == IInv /\ Settled /\ Reported /\ [Next]_vars => Reported'
<1> SUFFICES ASSUME IInv, Settled, Reported, [Next]_vars PROVE Reported'
  OBVIOUS
<1> USE DEF vars, loopVars, taskVars, seenVars
<1>0. TypeOK /\ (UNCHANGED events => EventsStay)
  BY DEF IInv, EventsStay
<1>1. CASE Receive
  <2>1. lpc \notin {"grace", "report"} /\ UNCHANGED <<cancelled, events>>
    BY <1>1 DEF Receive, RecvInterrupt, RecvRollback, RecvShutdown, InterruptTask, StartAbort,
       LoopGoto, RecvInputInject, RecvInputSpawn, RecvOther, RecvApproval, RecvDecision,
       RecvDecisionAbort
  <2> QED
    BY <1>0, <2>1, ReportedStays
<1>2. CASE LoopTake \/ LoopSpawn \/ LoopRegister
  <2>1. lpc \notin {"grace", "report"} /\ UNCHANGED <<cancelled, events>>
    BY <1>2 DEF LoopTake, LoopSpawn, LoopRegister, LoopGoto
  <2> QED
    BY <1>0, <2>1, ReportedStays
<1>3. CASE LoopCancel
  BY <1>0, <1>3 DEF LoopCancel, LoopGoto, Reported, AbortReported, TypeOK
<1>4. CASE LoopGraceOver
  BY <1>4 DEF LoopGraceOver, LoopGoto, Reported, AbortReported
<1>5. CASE LoopReport
  <2>1. victim \in Subs /\ reason \in {"Replaced", "Interrupted"} /\ cancelled' = cancelled
    BY <1>0, <1>5 DEF LoopReport, Settled, TypeOK
  <2>2. EventsStay /\ reason \in events'[victim]
    BY <1>0, <1>5, <2>1, EmitStays DEF LoopReport
  <2> QED
    BY <1>5, <2>1, <2>2 DEF Reported, EventsStay, AbortReported
<1>6. ASSUME NEW t \in Subs, TaskStep(t)
      PROVE  Reported'
  <2>1. UNCHANGED <<cancelled, lpc, victim>>
    BY <1>6, AskFrame DEF TaskStep, TaskStart, TaskStartEmpty, TaskStartOther, TaskWorked,
       TaskCollect, TaskRecord, TaskToolCall, TaskProceed, TaskSeesCancel, TaskError, TaskCompleted,
       TaskCheck, TaskFlush, TaskFinish, TaskComplete, TaskKilled
  <2>2. EventsStay
    <3>1. CASE UNCHANGED events
      BY <1>0, <3>1
    <3>2. CASE Emit(t, "Error") \/ Emit(t, "Complete")
      BY <1>0, <3>2, EmitStays
    <3> QED
      BY <1>6, <3>1, <3>2, AskFrame DEF TaskStep, TaskStart, TaskStartEmpty, TaskStartOther,
         TaskWorked, TaskCollect, TaskRecord, TaskToolCall, TaskProceed, TaskSeesCancel, TaskError,
         TaskCompleted, TaskCheck, TaskFlush, TaskFinish, TaskComplete, TaskKilled
  <2> QED
    BY <2>1, <2>2, ReportedStays
<1>7. CASE UNCHANGED vars
  BY <1>0, <1>7, ReportedStays
<1> QED
  BY <1>1, <1>2, <1>3, <1>4, <1>5, <1>6, <1>7 DEF Next, LoopStep

\* No new sender and no new waiter for one, and no request taken back.
LEMMA WaitersStay ==
  ASSUME WaitersCanBeAnswered, UNCHANGED asked,
         active' # None => active # None /\ active'.asks \subseteq active.asks,
         \A t \in Subs : pc'[t] = "wait" => pc[t] = "wait",
         unanswered \subseteq unanswered' \/ lpc' = "take",
         lpc = "take" => lpc' = "take"
  PROVE  WaitersCanBeAnswered'
BY DEF WaitersCanBeAnswered

\* The same for a step of one task, which does not become a waiter by it.
LEMMA WaitersStayTask ==
  ASSUME TypeOK, WaitersCanBeAnswered, NEW t \in Subs, pc'[t] # "wait",
         \A u \in Subs \ {t} : pc'[u] = pc[u] /\ asked'[u] = asked[u],
         active' # None => /\ active # None
                           /\ active'.asks \subseteq active.asks \union {<<t, asked[t]>>},
         UNCHANGED <<unanswered, lpc>>
  PROVE  WaitersCanBeAnswered'
BY DEF WaitersCanBeAnswered

\* Every step keeps to waiters that can be answered.
LEMMA WaitersStep == IInv /\ WaitersCanBeAnswered /\ [Next]_vars => WaitersCanBeAnswered'
<1> SUFFICES ASSUME IInv, WaitersCanBeAnswered, [Next]_vars PROVE WaitersCanBeAnswered'
  OBVIOUS
<1> USE DEF vars, loopVars, taskVars, seenVars
<1>0. /\ TypeOK /\ lpc \in LoopPCs /\ pc \in [Subs -> TaskPCs]
      /\ asked \in [Subs -> 0 .. MaxAsks]
      /\ active # None => active \in ActiveTurns /\ active.asks \in SUBSET Requests
  BY TurnParts DEF IInv, TypeOK
<1>1. CASE RecvInterrupt \/ RecvRollback \/ RecvShutdown
           \/ \E s \in Subs : RecvInputSpawn(s) \/ RecvOther(s)
  <2>1. UNCHANGED <<active, unanswered, pc, asked>> /\ lpc # "take"
    BY <1>1 DEF RecvInterrupt, RecvRollback, RecvShutdown, RecvInputSpawn, RecvOther,
       InterruptTask, StartAbort, LoopGoto
  <2> QED
    BY <2>1, WaitersStay
<1>2. ASSUME NEW s \in Subs, RecvInputInject(s)
      PROVE  WaitersCanBeAnswered'
  <2>1. active # None /\ active'.asks = active.asks
    BY <1>0, <1>2 DEF RecvInputInject, ActiveTurns
  <2> QED
    BY <1>2, <2>1, WaitersStay DEF RecvInputInject
<1>3. ASSUME NEW req \in Requests, NEW d \in {"approved", "denied"}, RecvDecision(req, d)
      PROVE  WaitersCanBeAnswered'
  <2>1. CASE active = None
    BY <1>3, <2>1 DEF RecvDecision, NotifyApproval, WaitersCanBeAnswered
  <2>2. CASE active # None
    <3>1. active'.asks = active.asks \ EntryOf(req[1])
      BY <1>0, <1>3, <2>2 DEF RecvDecision, NotifyApproval, ActiveTurns
    <3>2. \A t \in Subs : <<t, asked[t]>> \in active'.asks =>
             <<t, asked[t]>> \in active.asks /\ <<t, asked[t]>> # req
      BY <2>2, <3>1 DEF EntryOf
    <3>3. unanswered' = unanswered \ {req} /\ UNCHANGED <<pc, asked, lpc>>
      BY <1>3 DEF RecvDecision
    <3> QED
      BY <2>2, <3>2, <3>3 DEF WaitersCanBeAnswered
  <2> QED
    BY <2>1, <2>2
<1>4. ASSUME NEW req \in Requests, RecvDecisionAbort(req)
      PROVE  WaitersCanBeAnswered'
  BY <1>4 DEF RecvDecisionAbort, InterruptTask, StartAbort, LoopGoto, WaitersCanBeAnswered
<1>5. CASE LoopTake \/ LoopRegister
  <2>1. active' = None \/ active'.asks = {}
    BY <1>5 DEF LoopTake, LoopRegister, NewTurn
  <2> QED
    BY <2>1 DEF WaitersCanBeAnswered
<1>6. CASE LoopCancel \/ LoopGraceOver \/ LoopReport \/ LoopSpawn
  <2>1. /\ UNCHANGED <<active, unanswered, asked>> /\ lpc # "take"
        /\ \A t \in Subs : pc'[t] = "wait" => pc[t] = "wait"
    BY <1>0, <1>6 DEF LoopCancel, LoopGraceOver, LoopReport, LoopSpawn, LoopGoto
  <2> QED
    BY <2>1, WaitersStay
<1>7. ASSUME NEW t \in Subs, TaskCollect(t)
      PROVE  WaitersCanBeAnswered'
  <2>1. UNCHANGED <<unanswered, lpc, asked>> /\ pc' = [pc EXCEPT ![t] = "record"]
    BY <1>7 DEF TaskCollect, Goto
  <2>2. active' # None => active # None /\ active'.asks = active.asks
    BY <1>0, <1>7 DEF TaskCollect, ActiveTurns
  <2> QED
    BY <1>0, <2>1, <2>2, WaitersStay
<1>8. ASSUME NEW t \in Subs, TaskAskCommand(t) \/ TaskAskPatch(t)
      PROVE  WaitersCanBeAnswered'
  <2>1. UNCHANGED <<unanswered, lpc, asked>> /\ pc' = [pc EXCEPT ![t] = "show"]
    BY <1>8, RegisterFrame
  <2>2. active' # None => /\ active # None
                          /\ active'.asks \subseteq active.asks \union {<<t, asked[t]>>}
    BY <1>0, <1>8, RegisterFrame DEF ActiveTurns
  <2> QED
    BY <1>0, <2>1, <2>2, WaitersStayTask
<1>9. ASSUME NEW t \in Subs, TaskShow(t)
      PROVE  WaitersCanBeAnswered'
  BY <1>0, <1>9, ShowFrame DEF WaitersCanBeAnswered
<1>10. ASSUME NEW t \in Subs, TaskStep(t), ~TaskCollect(t), ~TaskAsk(t)
       PROVE  WaitersCanBeAnswered'
  <2>1. UNCHANGED <<unanswered, lpc>> /\ (active' = active \/ active' = None)
    BY <1>10 DEF TaskStep, TaskStart, TaskStartEmpty, TaskStartOther, TaskWorked,
       TaskRecord, TaskToolCall, TaskProceed, TaskSeesCancel, TaskError, TaskCompleted,
       TaskCheck, TaskFlush, TaskFinish, TaskComplete, TaskKilled
  <2>2. \E to \in TaskPCs \ {"wait"} : pc' = [pc EXCEPT ![t] = to]
    BY <1>10 DEF TaskStep, TaskStart, TaskStartEmpty, TaskStartOther, TaskWorked,
       TaskRecord, TaskToolCall, TaskProceed, TaskSeesCancel, TaskError, TaskCompleted,
       TaskCheck, TaskFlush, TaskFinish, TaskComplete, TaskKilled, EndTask, Goto, TaskPCs
  <2>3. \A u \in Subs \ {t} : asked'[u] = asked[u]
    BY <1>0, <1>10 DEF TaskStep, TaskStart, TaskStartEmpty, TaskStartOther, TaskWorked,
       TaskRecord, TaskToolCall, TaskProceed, TaskSeesCancel, TaskError, TaskCompleted,
       TaskCheck, TaskFlush, TaskFinish, TaskComplete, TaskKilled, EndTask
  <2> QED
    BY <1>0, <2>1, <2>2, <2>3, WaitersStayTask
<1>11. CASE UNCHANGED vars
  BY <1>11, WaitersStay
<1> QED
  BY <1>1, <1>2, <1>3, <1>4, <1>5, <1>6, <1>7, <1>8, <1>9, <1>10, <1>11
     DEF Next, Receive, LoopStep, RecvApproval, TaskAsk

\* For any number of submissions and requests: the loop sees every abort
\* through, until its task is over or told to die and the abort is reported.
THEOREM AbortsAreFinished == Spec => []AbortsAreSeenThrough
<1>1. Init => Settled /\ Reported
  BY DEF Init, Settled, Reported, AbortReported
<1>2. IInv /\ Settled /\ Reported => AbortsAreSeenThrough
  BY DEF Settled, Over, Reported, AbortsAreSeenThrough, Ended
<1>3. IInv /\ Settled /\ [Next]_vars => Settled'
  BY SettledStep
<1>4. IInv /\ Settled /\ Reported /\ [Next]_vars => Reported'
  BY ReportedStep
<1> QED
  BY <1>1, <1>2, <1>3, <1>4, Invariance, PTL DEF Spec

\* For any number of submissions and requests: the sender is registered before
\* the request is shown, so no task waits on a sender for an answer that came.
THEOREM WaitersAreAnswerable == Spec => []WaitersCanBeAnswered
<1>1. Init => WaitersCanBeAnswered
  BY DEF Init, WaitersCanBeAnswered
<1> QED
  BY <1>1, WaitersStep, Invariance, PTL DEF Spec
=============================================================================
