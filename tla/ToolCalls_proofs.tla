--------------------------- MODULE ToolCalls_proofs ---------------------------
(* Proofs about ToolCalls, for every bound, every set of requests and every   *)
(* set of policies.                                                           *)
EXTENDS ToolCalls, TLAPS

USE ToolAssumption

-----------------------------------------------------------------------------
(* Types. *)

CallRecord(n) == [request : Requests, turn : Contexts, round : 1..n]

LEMMA CallType ==
  ASSUME TypeOK, NEW c \in 1..made
  PROVE  /\ call[c] \in CallRecord(now)
         /\ call[c].request \in AnyRequest
<1>1. call \in Seq(CallRecord(now)) /\ made = Len(call)
  BY DEF TypeOK, CallRecord, made
<1>2. call[c] \in CallRecord(now)
  BY <1>1
<1> QED BY <1>2 DEF CallRecord

LEMMA RequirementType ==
  ASSUME NEW c
  PROVE  Requirement(c) \in {"skip", "bypass", "ask", "reject"}
BY DEF Requirement, PatchRequirement, ShellRequirement

LEMMA FirstAttemptType ==
  ASSUME NEW c, NEW q
  PROVE  FirstAttempt(c, q) \in {"bare", "sandboxed"}
BY DEF FirstAttempt

\* Calls are only ever appended.
LEMMA CallsStay ==
  ASSUME TypeOK, [Next]_vars
  PROVE  /\ made \in Nat /\ made' \in Nat /\ made <= made'
         /\ \A c \in 1..made : call'[c] = call[c]
<1>1. CASE \E r \in Requests : MakeCall(r)
  BY <1>1 DEF MakeCall, TypeOK, made
<1>2. CASE UNCHANGED call
  BY <1>2 DEF TypeOK, made
<1>3. (\E r \in Requests : MakeCall(r)) \/ UNCHANGED call
  BY DEF Next, vars, TaskStep, TurnStep, UserDecides, AcquireShared, AcquireAlone,
         Dispatch, Decided, Finish, SandboxDenied, SeesCancel, Reap, BeginRequest,
         StreamEnds, StreamFails, DrainOne, Drained, NoRequest, Cancel, GraceOver,
         GateReady, NewTurn
<1> QED BY <1>1, <1>2, <1>3

\* A step of a task moves that task and may touch the requirement, the user's
\* decisions, the store and the rules.
LEMMA TaskType ==
  ASSUME TypeOK, NEW c \in 1..made, TaskStep(c) \/ \E d \in Decisions : UserDecides(c, d)
  PROVE  TypeOK'
<1> c \in Call
  BY DEF TypeOK, made, Call
<1>1. CASE Dispatch(c)
  <2> DEFINE q == Requirement(c)
             next == CASE q = "reject" -> "done"
                       [] q = "ask" /\ ~Cached(c) -> "asked"
                       [] OTHER -> FirstAttempt(c, q)
  <2>1. next \in {"done", "asked", "bare", "sandboxed"}
    BY FirstAttemptType
  <2>2. q \in {"skip", "bypass", "ask", "reject"}
    BY RequirementType
  <2>3. /\ pc' = [pc EXCEPT ![c] = next]
        /\ need' = [need EXCEPT ![c] = IF q = "reject" THEN "none" ELSE q]
        /\ UNCHANGED <<turnVars, said, policyVars, call, doomed, answers>>
    BY <1>1 DEF Dispatch, Goto
  <2> HIDE DEF q, next
  <2> QED BY <2>1, <2>2, <2>3 DEF TypeOK, Unfinished, Waiting, Running, turnVars, policyVars, made
<1>2. CASE Decided(c)
  <2> DEFINE next == IF said[c] = "denied" THEN "done"
                     ELSE IF need[c] = "ask" THEN FirstAttempt(c, "ask") ELSE "bare"
  <2>1. next \in {"done", "bare", "sandboxed"}
    BY FirstAttemptType
  <2>2. /\ pc' = [pc EXCEPT ![c] = next]
        /\ UNCHANGED <<turnVars, need, said, rules, call, doomed, answers>>
    BY <1>2 DEF Decided, Goto
  <2> HIDE DEF next
  <2> QED BY <2>1, <2>2 DEF TypeOK, Unfinished, Waiting, Running, turnVars, made
<1>3. CASE SandboxDenied(c)
  BY <1>3 DEF SandboxDenied, Goto, TypeOK, Unfinished, Waiting, Running, turnVars, policyVars, made
<1>4. CASE \E d \in Decisions : UserDecides(c, d)
  <2>1. call[c].request \in AnyRequest
    BY CallType
  <2>2. call[c].request.tool = "shell" => call[c].request.command \in Commands
    BY <2>1 DEF AnyRequest, Read
  <2> QED BY <1>4, <2>2 DEF UserDecides, TypeOK, turnVars, made
<1>5. CASE AcquireShared(c) \/ AcquireAlone(c)
  BY <1>5 DEF AcquireShared, AcquireAlone, Goto, TypeOK, Unfinished, Waiting, Running,
              turnVars, policyVars, made
<1>6. CASE Finish(c) \/ SeesCancel(c) \/ Reap(c)
  BY <1>6 DEF Finish, SeesCancel, Reap, Goto, TypeOK, turnVars, policyVars, made
<1> QED BY <1>1, <1>2, <1>3, <1>4, <1>5, <1>6 DEF TaskStep

LEMMA MakeCallType ==
  ASSUME TypeOK, NEW r \in Requests, MakeCall(r)
  PROVE  TypeOK'
<1> DEFINE new == [request |-> r, turn |-> turn, round |-> now]
<1>1. new \in CallRecord(now)
  BY DEF MakeCall, TypeOK, CallRecord
<1>2. call \in Seq(CallRecord(now)) /\ call' = Append(call, new)
  BY DEF MakeCall, TypeOK, CallRecord
<1> HIDE DEF new
<1>3. call' \in Seq(CallRecord(now)) /\ made' = made + 1 /\ made \in Nat
  BY <1>1, <1>2 DEF made
<1>4. made + 1 \in Call /\ made' <= MaxCalls
  BY <1>3 DEF MakeCall, Call
<1> QED BY <1>3, <1>4 DEF MakeCall, TypeOK, CallRecord, turnVars, policyVars, Unfinished, Waiting

LEMMA TurnType ==
  ASSUME TypeOK, TurnStep
  PROVE  TypeOK'
<1>1. InFlight \subseteq 1..made
  BY DEF InFlight
<1>2. CASE BeginRequest
  <2>1. call \in Seq(CallRecord(now)) /\ CallRecord(now) \subseteq CallRecord(now + 1)
    BY DEF TypeOK, CallRecord
  <2>2. call \in Seq(CallRecord(now + 1))
    BY <2>1
  <2>3. /\ now' = now + 1 /\ now' \in 0..MaxRounds
        /\ call' \in Seq(CallRecord(now'))
    BY <1>2, <2>2 DEF BeginRequest, TypeOK
  <2> QED BY <1>2, <2>3 DEF BeginRequest, From, TypeOK, CallRecord, taskVars, policyVars, made, Draining
<1>6. CASE NewTurn
  BY <1>6 DEF NewTurn, From, TypeOK, taskVars, policyVars, made, Draining
<1>3. CASE StreamEnds \/ Drained \/ NoRequest \/ Cancel \/ GateReady
  BY <1>3 DEF StreamEnds, Drained, NoRequest, Cancel, GateReady, From, TypeOK, taskVars,
              policyVars, made, Draining
<1>4. CASE StreamFails \/ GraceOver
  BY <1>1, <1>4 DEF StreamFails, GraceOver, DropHandles, From, TypeOK, taskVars, policyVars,
                   made, Draining
<1>5. CASE DrainOne
  <2>1. PICK c \in InFlight : /\ Goto(c, "done", "answered")
                            /\ answers' \in {answers, Append(answers, c)}
    BY <1>5 DEF DrainOne
  <2>2. c \in 1..made /\ c \in Call
    BY <1>1 DEF TypeOK, made, Call
  <2>3. answers' \in Seq(1..made)
    <3>1. answers \in Seq(1..made) /\ Append(answers, c) \in Seq(1..made)
      BY <2>2 DEF TypeOK
    <3> QED BY <2>1, <3>1
  <2>4. pc' = [pc EXCEPT ![c] = "answered"]
    BY <2>1 DEF Goto
  <2>5. UNCHANGED <<turnVars, need, said, policyVars, call, doomed>>
    BY <1>5 DEF DrainOne
  <2> QED BY <2>2, <2>3, <2>4, <2>5 DEF TypeOK, turnVars, policyVars, made
<1> QED BY <1>2, <1>3, <1>4, <1>5, <1>6 DEF TurnStep

LEMMA TypeInit == Init => TypeOK
<1> SUFFICES ASSUME Init PROVE TypeOK
  OBVIOUS
<1>1. call \in Seq(CallRecord(now)) /\ made = 0 /\ answers \in Seq(1..made)
  BY DEF Init, made
<1>2. /\ pc \in [Call -> {"new", "done", "answered", "gone"} \union Unfinished]
      /\ need \in [Call -> {"none", "skip", "bypass", "ask"}]
      /\ said \in [Call -> {"none"} \union Decisions]
  BY DEF Init
<1>3. /\ turn \in Contexts /\ phase = "prompt" /\ now = 0
      /\ cancelled = FALSE /\ gate = FALSE
      /\ doomed = {} /\ rules = {}
  BY DEF Init
<1>4. now \in 0..MaxRounds /\ made <= MaxCalls /\ doomed \subseteq 1..made
  BY <1>1, <1>3
<1> QED BY <1>1, <1>2, <1>3, <1>4 DEF TypeOK, CallRecord, Draining

LEMMA TypeStep == TypeOK /\ [Next]_vars => TypeOK'
<1> SUFFICES ASSUME TypeOK, [Next]_vars PROVE TypeOK'
  OBVIOUS
<1>1. CASE UNCHANGED vars
  BY <1>1 DEF vars, turnVars, taskVars, policyVars, TypeOK, made
<1> QED BY <1>1, TaskType, MakeCallType, TurnType DEF Next

\* Every variable keeps its type, for every set of requests and policies.
THEOREM ToolTypes == Spec => []TypeOK
BY TypeInit, TypeStep, PTL DEF Spec

-----------------------------------------------------------------------------
(* The lock of a sampling request. *)

LEMMA ExclusiveStep ==
  ASSUME TypeOK, ExclusiveAlone, [Next]_vars
  PROVE  ExclusiveAlone'
<1> SUFFICES ASSUME NEW c \in 1..made', NEW d \in 1..made', c # d,
                    call'[c].round = call'[d].round, Holding(c)', Holding(d)'
             PROVE  Parallel(c)' /\ Parallel(d)'
  BY DEF ExclusiveAlone
<1>1. CASE \E r \in Requests : MakeCall(r)
  <2>1. made \in Nat /\ made' = made + 1 /\ made + 1 \in Call
    BY <1>1 DEF MakeCall, TypeOK, made, Call
  <2>2. pc' = [pc EXCEPT ![made + 1] = "spawned"]
    BY <1>1 DEF MakeCall
  <2>3. c # made + 1 /\ d # made + 1
    BY <2>1, <2>2 DEF Holding, Running, TypeOK
  <2>4. c \in 1..made /\ d \in 1..made /\ Holding(c) /\ Holding(d)
    BY <2>1, <2>2, <2>3 DEF Holding, TypeOK, Call
  <2>5. call'[c] = call[c] /\ call'[d] = call[d]
    BY <2>4, CallsStay
  <2> QED BY <2>4, <2>5 DEF ExclusiveAlone, Parallel
<1>2. ASSUME NEW b \in 1..made, AcquireShared(b) \/ AcquireAlone(b)
      PROVE  Parallel(c)' /\ Parallel(d)'
  <2>1. call' = call /\ made' = made /\ LockFree(b)
    BY <1>2 DEF AcquireShared, AcquireAlone, made
  <2>2. \A e \in 1..made : e # b /\ Holding(e)' => Holding(e)
    BY <1>2 DEF AcquireShared, AcquireAlone, Goto, Holding, TypeOK, Call, made
  <2>3. CASE c # b /\ d # b
    BY <2>1, <2>2, <2>3 DEF ExclusiveAlone, Parallel
  <2>4. CASE c = b
    BY <2>1, <2>2, <2>4 DEF LockFree, Parallel
  <2>5. CASE d = b
    BY <2>1, <2>2, <2>5 DEF LockFree, Parallel
  <2> QED BY <2>3, <2>4, <2>5
<1>3. CASE /\ UNCHANGED call
           /\ \A e \in 1..made : Holding(e)' => Holding(e)
  BY <1>3 DEF ExclusiveAlone, Parallel, made
<1>4. ASSUME NEW b \in 1..made, TaskStep(b), ~AcquireShared(b), ~AcquireAlone(b)
      PROVE  UNCHANGED call /\ \A e \in 1..made : Holding(e)' => Holding(e)
  <2>1. UNCHANGED call /\ \A e \in Call : e # b => pc'[e] = pc[e]
    BY <1>4 DEF TypeOK, TaskStep, Dispatch, Decided, Finish, SandboxDenied, SeesCancel,
         Reap, Goto
  <2>2. pc[b] \in Waiting \union Running /\ (pc[b] = "spawned" => pc'[b] \in {"done", "gone"})
    BY <1>4 DEF TaskStep, Dispatch, Decided, Finish, SandboxDenied, SeesCancel,
         Reap, Goto, Running, Waiting, Unfinished, TypeOK, Call, made
  <2> QED BY <2>1, <2>2 DEF Holding, Running, Waiting, TypeOK, Call, made
<1>5. CASE TurnStep \/ UNCHANGED vars \/ \E b \in 1..made, x \in Decisions : UserDecides(b, x)
  <2>1. UNCHANGED call
    BY <1>5 DEF TurnStep, UserDecides, BeginRequest, StreamEnds, StreamFails, DrainOne, Drained,
         NoRequest, Cancel, GraceOver, GateReady, NewTurn, vars
  <2>2. UNCHANGED pc \/ \E b \in 1..made : pc' = [pc EXCEPT ![b] = "answered"]
    BY <1>5 DEF TurnStep, UserDecides, BeginRequest, StreamEnds, StreamFails, DrainOne, Drained,
         NoRequest, Cancel, GraceOver, GateReady, NewTurn, vars, taskVars, Goto, InFlight
  <2> QED BY <2>1, <2>2, <1>3 DEF Holding, Running, TypeOK, Call, made
<1> QED BY <1>1, <1>2, <1>3, <1>4, <1>5 DEF Next

\* A tool that is not read-only has its sampling request to itself.
THEOREM ExclusiveToolsRunAlone == Spec => []ExclusiveAlone
<1>1. Init => ExclusiveAlone
  BY DEF Init, ExclusiveAlone, made
<1> QED BY <1>1, TypeInit, TypeStep, ExclusiveStep, PTL DEF Spec

-----------------------------------------------------------------------------
(* Consent.  A decision stays what it was; the store holds only what the user *)
(* approved for the session; who has not been asked has not been answered.    *)

Asking ==
  /\ \A c \in Call : c > made => pc[c] = "new"
  /\ \A c \in 1..made : pc[c] # "new"
  /\ \A c \in 1..made : pc[c] \in {"gate", "asked", "sandboxed", "bare"} => ~Parallel(c)
  /\ \A c \in Call : pc[c] \in {"new", "spawned", "gate"} => said[c] = "none"

StoreConsented ==
  \A k \in store : \E d \in 1..made : said[d] = "session" /\ k \in Keys(call[d].request)

ConsentInv == TypeOK /\ Asking /\ StoreConsented /\ RunsWithConsent

LEMMA SaidStays ==
  ASSUME TypeOK, [Next]_vars
  PROVE  \A c \in Call : said[c] # "none" => said'[c] = said[c]
<1>1. UNCHANGED said \/ \E b \in 1..made, d \in Decisions :
        said[b] = "none" /\ said' = [said EXCEPT ![b] = d]
  BY DEF Next, vars, taskVars, TaskStep, TurnStep, UserDecides, AcquireShared, AcquireAlone,
         Dispatch, Decided, Finish, SandboxDenied, SeesCancel, Reap, MakeCall, BeginRequest,
         StreamEnds, StreamFails, DrainOne, Drained, NoRequest, Cancel, GraceOver,
         GateReady, NewTurn
<1> QED BY <1>1 DEF TypeOK

LEMMA ConsentStays ==
  ASSUME TypeOK, [Next]_vars, NEW c \in 1..made, Consent(c)
  PROVE  Consent(c)'
<1>1. /\ 1..made \subseteq Call /\ 1..made \subseteq 1..made'
      /\ \A d \in 1..made : call'[d] = call[d]
  BY CallsStay DEF TypeOK, made, Call
<1>2. CASE said[c] \in {"approved", "session", "amendment"}
  BY <1>1, <1>2, SaidStays DEF Consent
<1>3. CASE \A k \in Keys(call[c].request) :
             \E d \in 1..made : said[d] = "session" /\ k \in Keys(call[d].request)
  <2>1. ASSUME NEW k \in Keys(call'[c].request)
        PROVE  \E d \in 1..made' : said'[d] = "session" /\ k \in Keys(call'[d].request)
    <3>1. PICK d \in 1..made : said[d] = "session" /\ k \in Keys(call[d].request)
      BY <1>1, <1>3, <2>1
    <3>2. said'[d] = "session" /\ call'[d] = call[d] /\ d \in 1..made'
      BY <1>1, <3>1, SaidStays
    <3> QED BY <3>1, <3>2
  <2> QED BY <2>1 DEF Consent, Keys
<1> QED BY <1>2, <1>3 DEF Consent

LEMMA StoreStep ==
  ASSUME TypeOK, StoreConsented, [Next]_vars
  PROVE  StoreConsented'
<1> SUFFICES ASSUME NEW k \in store'
             PROVE  \E d \in 1..made' : said'[d] = "session" /\ k \in Keys(call'[d].request)
  BY DEF StoreConsented, Keys
<1>1. /\ 1..made \subseteq Call /\ 1..made \subseteq 1..made'
      /\ \A d \in 1..made : call'[d] = call[d]
  BY CallsStay DEF TypeOK, made, Call
<1>2. k \in store \/ \E d \in 1..made : said[d] = "session" /\ k \in Keys(call[d].request)
  <2>1. UNCHANGED store \/ \E c \in 1..made : Decided(c)
    BY DEF Next, vars, policyVars, TaskStep, TurnStep, UserDecides, AcquireShared, AcquireAlone,
         Dispatch, Finish, SandboxDenied, SeesCancel, Reap, MakeCall, BeginRequest,
         StreamEnds, StreamFails, DrainOne, Drained, NoRequest, Cancel, GraceOver,
         GateReady, NewTurn
  <2> QED BY <2>1 DEF Decided
<1>3. PICK d \in 1..made : said[d] = "session" /\ k \in Keys(call[d].request)
  BY <1>2 DEF StoreConsented
<1> QED BY <1>1, <1>3, SaidStays

LEMMA AskingStep ==
  ASSUME TypeOK, Asking, [Next]_vars
  PROVE  Asking'
<1>1. /\ made \in Nat /\ made' \in Nat /\ made <= made' /\ 1..made \subseteq Call
      /\ \A c \in 1..made : call'[c] = call[c]
  BY CallsStay DEF TypeOK, made, Call
<1>2. CASE \E r \in Requests : MakeCall(r)
  <2>1. made' = made + 1 /\ made + 1 \in Call
    BY <1>1, <1>2 DEF MakeCall, TypeOK, made, Call
  <2>2. pc' = [pc EXCEPT ![made + 1] = "spawned"] /\ said' = said
    BY <1>2 DEF MakeCall
  <2>3. pc'[made + 1] = "spawned" /\ \A e \in Call : e # made + 1 => pc'[e] = pc[e]
    BY <2>1, <2>2 DEF TypeOK
  <2>4. \A c \in 1..made' : c \in 1..made \/ c = made + 1
    BY <1>1, <2>1
  <2>5. pc[made + 1] = "new" /\ said[made + 1] = "none"
    BY <1>1, <2>1 DEF Asking
  <2>6. \A c \in 1..made : c # made + 1 /\ c \in Call
    BY <1>1
  <2>7. \A c \in Call : c > made' => c > made /\ c # made + 1
    BY <1>1, <2>1 DEF Call
  <2>8. \A c \in Call : c > made' => pc'[c] = "new"
    BY <2>3, <2>7 DEF Asking
  <2>9. \A c \in 1..made' : pc'[c] # "new"
    BY <2>3, <2>4, <2>6 DEF Asking
  <2>10. \A c \in 1..made' : pc'[c] \in {"gate", "asked", "sandboxed", "bare"} => ~Parallel(c)'
    BY <1>1, <2>3, <2>4, <2>6 DEF Asking, Parallel
  <2>11. \A c \in Call : pc'[c] \in {"new", "spawned", "gate"} => said'[c] = "none"
    BY <2>2, <2>3, <2>5 DEF Asking
  <2> QED BY <2>8, <2>9, <2>10, <2>11 DEF Asking
<1>3. ASSUME NEW b \in 1..made, Dispatch(b)
      PROVE  Asking'
  <2>1. pc[b] = "gate" /\ pc'[b] \in {"done", "asked", "sandboxed", "bare"}
    BY <1>1, <1>3, FirstAttemptType DEF Dispatch, Goto, TypeOK
  <2>2. /\ UNCHANGED <<said, call, made>> /\ b \in Call
        /\ \A e \in Call : e # b => pc'[e] = pc[e]
    BY <1>1, <1>3 DEF Dispatch, Goto, TypeOK, made
  <2> QED BY <1>1, <2>1, <2>2 DEF Asking, Parallel
<1>4. ASSUME NEW b \in 1..made, Decided(b)
      PROVE  Asking'
  <2>1. pc[b] = "asked" /\ pc'[b] \in {"done", "sandboxed", "bare"}
    BY <1>1, <1>4, FirstAttemptType DEF Decided, Goto, TypeOK
  <2>2. /\ UNCHANGED <<said, call, made>> /\ b \in Call
        /\ \A e \in Call : e # b => pc'[e] = pc[e]
    BY <1>1, <1>4 DEF Decided, Goto, TypeOK, made
  <2> QED BY <1>1, <2>1, <2>2 DEF Asking, Parallel
<1>5. ASSUME NEW b \in 1..made,
             \/ AcquireShared(b) \/ AcquireAlone(b) \/ Finish(b)
             \/ SandboxDenied(b) \/ SeesCancel(b) \/ Reap(b)
      PROVE  Asking'
  <2>1. /\ UNCHANGED <<said, call, made>> /\ b \in Call
        /\ \A e \in Call : e # b => pc'[e] = pc[e]
    BY <1>1, <1>5 DEF AcquireShared, AcquireAlone, Finish, SandboxDenied, SeesCancel, Reap,
         Goto, TypeOK, made
  <2>2. \/ pc'[b] \in {"reading", "done", "gone"}
        \/ pc[b] = "spawned" /\ pc'[b] = "gate" /\ ~Parallel(b)
        \/ pc[b] = "sandboxed" /\ pc'[b] \in {"asked", "bare"}
    BY <1>1, <1>5 DEF AcquireShared, AcquireAlone, Finish, SandboxDenied, SeesCancel, Reap,
         Goto, TypeOK
  <2> QED BY <1>1, <2>1, <2>2 DEF Asking, Parallel
<1>6. ASSUME NEW b \in 1..made, NEW d \in Decisions, UserDecides(b, d)
      PROVE  Asking'
  BY <1>1, <1>6 DEF UserDecides, Asking, Parallel, TypeOK, made
<1>7. CASE TurnStep \/ UNCHANGED vars
  <2>1. UNCHANGED <<said, call, made>>
    BY <1>7 DEF TurnStep, BeginRequest, StreamEnds, StreamFails, DrainOne, Drained,
         NoRequest, Cancel, GraceOver, GateReady, NewTurn, vars, taskVars, made
  <2>2. UNCHANGED pc \/ \E b \in 1..made : pc' = [pc EXCEPT ![b] = "answered"]
    BY <1>7 DEF TurnStep, BeginRequest, StreamEnds, StreamFails, DrainOne, Drained,
         NoRequest, Cancel, GraceOver, GateReady, NewTurn, vars, taskVars, Goto, InFlight
  <2> QED BY <1>1, <2>1, <2>2 DEF Asking, Parallel, TypeOK
<1> QED BY <1>2, <1>3, <1>4, <1>5, <1>6, <1>7 DEF Next, TaskStep

\* Cached keys are consent.
LEMMA CachedConsent ==
  ASSUME StoreConsented, NEW c, Cached(c)
  PROVE  Consent(c)
BY DEF StoreConsented, Cached, Consent

\* A command outside the sandbox that was not asked about has its reason.
LEMMA BareReason ==
  ASSUME NEW c \in 1..made, call[c].request \in AnyRequest, ~Parallel(c),
         Requirement(c) = "skip", FirstAttempt(c, "skip") = "bare"
  PROVE  \/ Bypassed(call[c].turn)
         \/ call[c].request.command = "safe" /\ call[c].request.escalated
<1> DEFINE r == call[c].request
           t == call[c].turn
<1>1. SUFFICES ASSUME ~Bypassed(t) PROVE r.command = "safe" /\ r.escalated
  OBVIOUS
<1>2. r.tool = "shell" /\ r.escalated
  BY <1>1 DEF FirstAttempt
<1>3. ShellRequirement(r, t) = "skip"
  BY <1>2 DEF Requirement
<1>4. /\ t.approval = "OnRequest" /\ Verdict(r, t) \notin {"forbid", "prompt"}
      /\ r.command \notin {"trusted"} \union rules
  BY <1>2, <1>3 DEF ShellRequirement, Allowed
<1>5. r.command \in Commands
  BY <1>2 DEF AnyRequest, Read
<1> QED BY <1>1, <1>2, <1>4, <1>5 DEF Verdict, Allowed, Commands

LEMMA ConsentStep ==
  ASSUME ConsentInv, [Next]_vars
  PROVE  RunsWithConsent'
<1> SUFFICES ASSUME NEW c \in 1..made', pc'[c] \in {"sandboxed", "bare"}
             PROVE  MayRun(c)'
  BY DEF RunsWithConsent
<1> USE DEF ConsentInv
<1>1. /\ made \in Nat /\ made' \in Nat /\ 1..made \subseteq Call
      /\ \A d \in 1..made : call'[d] = call[d]
  BY CallsStay DEF TypeOK, made, Call
<1>2. c \in 1..made
  <2>1. CASE \E r \in Requests : MakeCall(r)
    <3>1. made' = made + 1 /\ made + 1 \in Call /\ pc'[made + 1] = "spawned"
      BY <1>1, <2>1 DEF MakeCall, TypeOK, made, Call
    <3> QED BY <1>1, <3>1
  <2>2. CASE made' = made
    BY <2>2
  <2>3. (\E r \in Requests : MakeCall(r)) \/ made' = made
    BY DEF Next, vars, TaskStep, TurnStep, UserDecides, AcquireShared, AcquireAlone,
         Dispatch, Decided, Finish, SandboxDenied, SeesCancel, Reap, BeginRequest,
         StreamEnds, StreamFails, DrainOne, Drained, NoRequest, Cancel, GraceOver,
         GateReady, NewTurn, made
  <2> QED BY <2>1, <2>2, <2>3
<1>3. /\ c \in Call /\ call'[c] = call[c]
      /\ call[c].request \in AnyRequest
  BY <1>1, <1>2, CallType
<1>4. CASE Dispatch(c)
  <2> DEFINE q == Requirement(c)
  <2>1. /\ pc[c] = "gate" /\ said[c] = "none" /\ said' = said /\ ~Parallel(c)
    BY <1>2, <1>3, <1>4 DEF Dispatch, Goto, Asking
  <2>2. /\ pc'[c] = IF q = "reject" THEN "done"
                     ELSE IF q = "ask" /\ ~Cached(c) THEN "asked" ELSE FirstAttempt(c, q)
        /\ need'[c] = IF q = "reject" THEN "none" ELSE q
    BY <1>3, <1>4, FirstAttemptType DEF Dispatch, Goto, TypeOK
  <2>3. CASE q = "ask"
    <3>1. Consent(c)
      BY <2>2, <2>3, CachedConsent
    <3> QED BY <1>2, <2>1, <3>1, ConsentStays DEF MayRun
  <2>4. CASE q = "bypass"
    BY <2>1, <2>2, <2>4 DEF MayRun
  <2>5. CASE q = "skip"
    <3>1. pc'[c] = "bare" => FirstAttempt(c, "skip") = "bare"
      BY <2>2, <2>5
    <3>2. ASSUME pc'[c] = "bare"
          PROVE  \/ Bypassed(call[c].turn)
                 \/ call[c].request.command = "safe" /\ call[c].request.escalated
      <4>1. FirstAttempt(c, "skip") = "bare" /\ Requirement(c) = "skip"
        BY <2>5, <3>1, <3>2
      <4> QED BY <1>2, <1>3, <2>1, <4>1, BareReason
    <3> QED BY <1>3, <2>1, <2>2, <2>5, <3>2 DEF MayRun, Bypassed
  <2>6. q \in {"skip", "bypass", "ask"}
    BY <2>2, RequirementType
  <2> QED BY <2>3, <2>4, <2>5, <2>6
<1>5. CASE Decided(c)
  <2>1. said[c] \notin {"none", "denied"} /\ said' = said
    <3>1. said' = said /\ said[c] # "none"
      BY <1>5 DEF Decided
    <3>2. said[c] = "denied" => pc' = [pc EXCEPT ![c] = "done"]
      BY <1>5 DEF Decided, Goto
    <3>3. pc \in [Call -> {"new", "done", "answered", "gone"} \union Unfinished]
      BY DEF TypeOK
    <3> QED BY <1>3, <3>1, <3>2, <3>3
  <2>2. Consent(c)
    BY <1>3, <2>1 DEF Consent, TypeOK, Decisions
  <2> QED BY <1>2, <2>1, <2>2, ConsentStays DEF MayRun
<1>6. CASE SandboxDenied(c)
  <2>1. pc[c] = "sandboxed" /\ said' = said /\ (need[c] = "ask" \/ Cached(c))
    BY <1>3, <1>6 DEF SandboxDenied, Goto, TypeOK
  <2>2. MayRun(c)
    BY <1>2, <2>1 DEF RunsWithConsent
  <2>3. Consent(c)
    BY <2>1, <2>2, CachedConsent DEF MayRun
  <2> QED BY <1>2, <2>1, <2>2, <2>3, ConsentStays DEF MayRun
<1>7. CASE pc'[c] = pc[c] /\ need'[c] = need[c] /\ said'[c] = said[c]
  <2>1. MayRun(c)
    BY <1>2, <1>7 DEF RunsWithConsent
  <2> QED BY <1>2, <1>3, <1>7, <2>1, ConsentStays DEF MayRun, Bypassed
<1>8. pc'[c] \in {"sandboxed", "bare"} /\ ~Dispatch(c) /\ ~Decided(c) /\ ~SandboxDenied(c)
        => pc'[c] = pc[c] /\ need'[c] = need[c] /\ said'[c] = said[c]
  <2>1. CASE \E r \in Requests : MakeCall(r)
    BY <1>1, <1>2, <1>3, <2>1 DEF MakeCall, TypeOK
  <2>2. ASSUME NEW b \in 1..made, TaskStep(b), ~Dispatch(b), ~Decided(b), ~SandboxDenied(b)
        PROVE  pc'[c] = pc[c] /\ need'[c] = need[c] /\ said'[c] = said[c]
    BY <1>1, <1>3, <2>2 DEF TaskStep, AcquireShared, AcquireAlone, Finish, SeesCancel, Reap,
         Goto, TypeOK
  <2>3. ASSUME NEW b \in 1..made, Dispatch(b) \/ Decided(b) \/ SandboxDenied(b), b # c
        PROVE  pc'[c] = pc[c] /\ need'[c] = need[c] /\ said'[c] = said[c]
    BY <1>1, <1>3, <2>3 DEF Dispatch, Decided, SandboxDenied, Goto, TypeOK
  <2>4. ASSUME NEW b \in 1..made, NEW d \in Decisions, UserDecides(b, d)
        PROVE  pc'[c] = pc[c] /\ need'[c] = need[c] /\ said'[c] = said[c]
    BY <1>1, <1>3, <2>4 DEF UserDecides, TypeOK
  <2>5. CASE TurnStep \/ UNCHANGED vars
    <3>1. UNCHANGED <<need, said>>
      BY <2>5 DEF TurnStep, BeginRequest, StreamEnds, StreamFails, DrainOne, Drained,
         NoRequest, Cancel, GraceOver, GateReady, NewTurn, vars, taskVars
    <3>2. UNCHANGED pc \/ \E b \in 1..made : pc' = [pc EXCEPT ![b] = "answered"]
      BY <2>5 DEF TurnStep, BeginRequest, StreamEnds, StreamFails, DrainOne, Drained,
         NoRequest, Cancel, GraceOver, GateReady, NewTurn, vars, taskVars, Goto, InFlight
    <3> QED BY <1>3, <3>1, <3>2 DEF TypeOK
  <2> QED BY <2>1, <2>2, <2>3, <2>4, <2>5 DEF Next
<1> QED BY <1>4, <1>5, <1>6, <1>7, <1>8

\* What runs was consented to whenever consent was required.
THEOREM ToolsRunWithConsent == Spec => []RunsWithConsent
<1>1. Init => ConsentInv
  BY TypeInit DEF Init, ConsentInv, Asking, StoreConsented, RunsWithConsent, made, Call
<1>2. ConsentInv /\ [Next]_vars => ConsentInv'
  BY TypeStep, AskingStep, StoreStep, ConsentStep DEF ConsentInv
<1>3. ConsentInv => RunsWithConsent
  BY DEF ConsentInv
<1> QED BY <1>1, <1>2, <1>3, PTL DEF Spec

-----------------------------------------------------------------------------
(* The outputs.  Whatever awaits its output was made after all that have it;  *)
(* between two requests, and after the last, nothing is awaited.              *)

AnswerInv ==
  /\ TypeOK /\ AnswersInOrder
  /\ \A i \in DOMAIN answers : \A c \in InFlight : answers[i] < c
  /\ phase = "over" => InFlight = {}

LEMMA ElementOfSeq ==
  ASSUME NEW S, NEW s \in Seq(S)
  PROVE  \A i \in DOMAIN s : s[i] \in S
OBVIOUS

LEMMA AnswerStep == AnswerInv /\ [Next]_vars => AnswerInv'
<1> SUFFICES ASSUME AnswerInv, [Next]_vars PROVE AnswerInv'
  OBVIOUS
<1> USE DEF AnswerInv
<1>1. TypeOK'
  BY TypeStep
<1>2. /\ made \in Nat /\ 1..made \subseteq Call /\ InFlight \subseteq 1..made
  BY DEF TypeOK, made, Call, InFlight
<1>3. CASE \E r \in Requests : MakeCall(r)
  <2>1. /\ made' = made + 1 /\ phase = "stream" /\ phase' = "stream"
        /\ UNCHANGED <<answers, doomed>> /\ pc' = [pc EXCEPT ![made + 1] = "spawned"]
    BY <1>2, <1>3 DEF MakeCall, TypeOK, made, turnVars
  <2>2. InFlight' \subseteq InFlight \union {made + 1}
    BY <1>2, <2>1 DEF InFlight, TypeOK
  <2>3. \A i \in DOMAIN answers : answers[i] \in 1..made
    BY ElementOfSeq DEF TypeOK
  <2> QED BY <1>1, <1>2, <2>1, <2>2, <2>3 DEF AnswersInOrder
<1>4. ASSUME NEW b \in 1..made, TaskStep(b) \/ \E d \in Decisions : UserDecides(b, d)
      PROVE  AnswerInv'
  <2>1. UNCHANGED <<answers, doomed, phase, made>> /\ \A e \in Call : e # b => pc'[e] = pc[e]
    BY <1>4 DEF TaskStep, UserDecides, AcquireShared, AcquireAlone,
         Dispatch, Decided, Finish, SandboxDenied, SeesCancel, Reap, Goto, TypeOK, turnVars, made
  <2>2. b \in 1..made /\ pc[b] # "answered"
    BY <1>4 DEF TaskStep, UserDecides, AcquireShared, AcquireAlone,
         Dispatch, Decided, Finish, SandboxDenied, SeesCancel, Reap, Goto,
         Unfinished, Waiting, Running
  <2>3. InFlight' \subseteq InFlight
    BY <1>2, <2>1, <2>2 DEF InFlight
  <2> QED BY <1>1, <2>1, <2>3 DEF AnswersInOrder
<1>5. CASE DrainOne
  <2>1. PICK c \in InFlight : /\ \A d \in InFlight : c <= d
                            /\ Goto(c, "done", "answered")
                            /\ answers' \in {answers, Append(answers, c)}
    BY <1>5 DEF DrainOne
  <2>2. /\ UNCHANGED <<phase, doomed, made>> /\ c \in 1..made /\ c \in Call
        /\ pc' = [pc EXCEPT ![c] = "answered"]
    BY <1>2, <1>5, <2>1 DEF DrainOne, Goto, turnVars, made
  <2>3. InFlight' \subseteq InFlight \ {c} /\ phase # "prompt"
    BY <1>2, <1>5, <2>2 DEF InFlight, TypeOK, DrainOne, Draining
  <2>4. CASE answers' = answers
    BY <1>1, <2>2, <2>3, <2>4 DEF AnswersInOrder
  <2>5. SUFFICES ASSUME answers' = Append(answers, c) PROVE AnswerInv'
    BY <2>1, <2>4
  <2>6. /\ answers \in Seq(Int) /\ DOMAIN answers' = 1..(Len(answers) + 1)
        /\ answers'[Len(answers) + 1] = c
        /\ \A i \in 1..Len(answers) : answers'[i] = answers[i]
    BY <1>2, <2>5, <2>2 DEF TypeOK
  <2>7. \A i, j \in DOMAIN answers' : i < j => answers'[i] < answers'[j]
    BY <2>1, <2>6 DEF AnswersInOrder
  <2>8. \A i \in DOMAIN answers' : \A d \in InFlight' : answers'[i] < d
    <3> SUFFICES ASSUME NEW i \in DOMAIN answers', NEW d \in InFlight' PROVE answers'[i] < d
      OBVIOUS
    <3>1. d \in InFlight /\ c < d
      BY <1>2, <2>1, <2>2, <2>3
    <3> QED BY <2>1, <2>6, <3>1
  <2> QED BY <1>1, <2>2, <2>3, <2>7, <2>8 DEF AnswersInOrder
<1>6. CASE StreamFails \/ GraceOver
  <2>1. InFlight' = {} /\ UNCHANGED answers
    BY <1>2, <1>6 DEF StreamFails, GraceOver, DropHandles, InFlight, taskVars, made
  <2> QED BY <1>1, <2>1 DEF AnswersInOrder
<1>7. CASE \/ BeginRequest \/ StreamEnds \/ Drained \/ NoRequest \/ Cancel \/ GateReady
           \/ NewTurn \/ UNCHANGED vars
  <2>1. UNCHANGED <<InFlight, answers>>
    BY <1>7 DEF BeginRequest, StreamEnds, Drained, NoRequest, Cancel, GateReady, NewTurn, vars,
         taskVars, InFlight, made
  <2>2. phase' \in {"prompt", "over"} => InFlight = {}
    BY <1>7 DEF BeginRequest, StreamEnds, Drained, NoRequest, Cancel, GateReady, NewTurn, vars,
         turnVars, From, AnswersInOrder
  <2> QED BY <1>1, <2>1, <2>2 DEF AnswersInOrder
<1> QED BY <1>3, <1>4, <1>5, <1>6, <1>7 DEF Next, TurnStep

\* Outputs are recorded in the order of the calls, and all of them before the
\* model is asked again.
THEOREM ToolAnswersInOrder == Spec => []AnswersInOrder
<1>1. Init => AnswerInv
  BY TypeInit DEF Init, AnswerInv, AnswersInOrder, InFlight, made
<1> QED BY <1>1, AnswerStep, PTL DEF Spec, AnswerInv
=============================================================================
