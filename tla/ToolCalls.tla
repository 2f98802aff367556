------------------------------ MODULE ToolCalls ------------------------------
(* The tool calls of a session: how a sampling request starts and answers     *)
(* them (codex.rs, tools/parallel.rs, tools/registry.rs), which of them the   *)
(* user is asked about and where they run (tools/orchestrator.rs,             *)
(* tools/sandboxing.rs, exec_policy.rs, safety.rs).                           *)
(*                                                                            *)
(* Every call is a tokio task.  The turn awaits them in the order in which    *)
(* the model made them; a cancelled token ends each of them where it waits; a *)
(* broken stream drops their handles, which aborts the tasks at their next    *)
(* await while the turn goes on.  A read-only tool shares the lock of its     *)
(* sampling request, any other takes it alone.                                *)
EXTENDS Integers, Sequences

CONSTANTS
  MaxCalls,    \* bound: calls the model makes
  MaxRounds,   \* bound: sampling requests
  Requests,    \* what the model may ask for
  Paths,       \* the paths its patches touch
  Writable,    \* those below the writable roots of the workspace
  Contexts     \* the policies of a turn: [approval, sandbox]

Commands == {"trusted", "prompted", "forbidden", "safe", "dangerous", "other"}

\* A read-only tool, a shell command or a patch; an empty patch is refused.
Read == [tool |-> "read"]
AnyRequest ==
  {Read} \union [tool : {"shell"}, command : Commands, escalated : BOOLEAN]
         \union [tool : {"patch"}, paths : (SUBSET Paths) \ {{}}]

AnyContext == [approval : {"UnlessTrusted", "OnFailure", "OnRequest", "Never"},
               sandbox : {"full", "workspace"}]

ASSUME ToolAssumption ==
  /\ MaxCalls \in Nat /\ MaxRounds \in Nat
  /\ Requests \subseteq AnyRequest
  /\ Contexts \subseteq AnyContext

Call == 1..MaxCalls

VARIABLES
  turn,       \* TurnContext: the policies of the turn under way
  phase,      \* where its sampling loop is
  now,        \* sampling requests so far
  cancelled,  \* the turn's cancellation token
  gate,       \* the turn's tool_call_gate is ready
  call,       \* the calls so far: [request, turn, round]
  pc,         \* where its task is
  need,       \* its ExecApprovalRequirement
  doomed,     \* the calls whose handle was dropped
  store,      \* ApprovalStore: the keys approved for the session
  rules,      \* commands that an amendment of the exec policy allows
  said,       \* history: what the user decided on each call
  answers     \* the outputs recorded, in order

turnVars == <<turn, phase, now, cancelled, gate>>
taskVars == <<pc, need, said>>
policyVars == <<store, rules>>
vars == <<turnVars, taskVars, policyVars, call, doomed, answers>>

made == Len(call)

Waiting == {"spawned", "gate", "asked"}
Running == {"reading", "sandboxed", "bare"}
Unfinished == Waiting \union Running
Draining == {"drain", "retry", "leave"}
Decisions == {"approved", "session", "amendment", "denied"}

TypeOK ==
  /\ turn \in Contexts
  /\ phase \in {"prompt", "stream", "drain", "retry", "leave", "over"}
  /\ now \in 0..MaxRounds /\ made <= MaxCalls
  /\ phase \in {"stream"} \union Draining => now > 0
  /\ cancelled \in BOOLEAN /\ gate \in BOOLEAN
  /\ call \in Seq([request : Requests, turn : Contexts, round : 1..now])
  /\ pc \in [Call -> {"new", "done", "answered", "gone"} \union Unfinished]
  /\ need \in [Call -> {"none", "skip", "bypass", "ask"}]
  /\ said \in [Call -> {"none"} \union Decisions]
  /\ doomed \subseteq 1..made
  /\ rules \subseteq Commands
  /\ answers \in Seq(1..made)

Init ==
  /\ turn \in Contexts /\ phase = "prompt" /\ now = 0
  /\ cancelled = FALSE /\ gate = FALSE
  /\ call = <<>> /\ doomed = {} /\ answers = <<>>
  /\ pc = [c \in Call |-> "new"]
  /\ need = [c \in Call |-> "none"]
  /\ said = [c \in Call |-> "none"]
  /\ store = {} /\ rules = {}

-----------------------------------------------------------------------------
(* Approval and sandbox. *)

\* The keys an approval covers: the command line, or each path of a patch.
Keys(r) ==
  IF r.tool = "patch" THEN {[tool |-> "patch", path |-> p] : p \in r.paths} ELSE {r}

Bypassed(t) == t.sandbox = "full"

\* An allow rule of the exec policy, configured or by amendment.
Allowed(r) == r.command \in {"trusted"} \union rules

\* What the exec policy and, without a rule, the heuristics decide.
Verdict(r, t) ==
  IF Allowed(r) THEN "allow"
  ELSE CASE r.command = "forbidden" -> "forbid"
         [] r.command \in {"prompted", "dangerous"} -> "prompt"
         [] r.command = "safe" -> "allow"
         [] OTHER -> IF \/ t.approval = "UnlessTrusted"
                        \/ t.approval = "OnRequest" /\ ~Bypassed(t) /\ r.escalated
                     THEN "prompt" ELSE "allow"

\* assess_patch_safety.
PatchRequirement(r, t) ==
  IF t.approval = "UnlessTrusted" THEN "ask"
  ELSE IF t.approval = "OnFailure" \/ r.paths \subseteq Writable \/ Bypassed(t) THEN "skip"
  ELSE IF t.approval = "Never" THEN "reject" ELSE "ask"

ShellRequirement(r, t) ==
  IF \/ r.escalated /\ t.approval # "OnRequest"
     \/ Verdict(r, t) = "forbid"
     \/ Verdict(r, t) = "prompt" /\ t.approval = "Never"
  THEN "reject"
  ELSE IF Verdict(r, t) = "prompt" THEN "ask"
  ELSE IF Allowed(r) THEN "bypass" ELSE "skip"

Requirement(c) ==
  LET r == call[c].request t == call[c].turn
  IN  IF r.tool = "patch" THEN PatchRequirement(r, t) ELSE ShellRequirement(r, t)

\* Where the first attempt runs.
FirstAttempt(c, requirement) ==
  LET r == call[c].request
  IN  IF \/ Bypassed(call[c].turn)
         \/ r.tool = "shell" /\ (r.escalated \/ requirement = "bypass")
      THEN "bare" ELSE "sandboxed"

WantsNoSandboxApproval(c) ==
  call[c].turn.approval \notin
    (IF call[c].request.tool = "patch" THEN {"Never"} ELSE {"Never", "OnRequest"})

\* Mutant: one path approved for the session approves the whole patch.
CachedAny(c) == Keys(call[c].request) \intersect store # {}

\* with_cached_approval: every key was approved for the session.
Cached(c) == Keys(call[c].request) \subseteq store

\* A patch that is retried without the sandbox asks past the cache.
UsesCache(c) == call[c].request.tool = "shell" \/ need[c] = "ask"

-----------------------------------------------------------------------------
(* The task of a call. *)

Goto(c, from, to) == pc[c] = from /\ pc' = [pc EXCEPT ![c] = to]

\* An aborted task is not polled again.
Polled(c) == c \notin doomed

Parallel(c) == call[c].request.tool = "read"

\* The lock of the sampling request.
Holding(c) == pc[c] \in {"gate", "asked"} \union Running
\* Mutant: a reader does not wait for the exclusive call, nor it for readers.
LockFreeReaders(c) ==
  \A d \in 1..made \ {c} :
    call[d].round = call[c].round /\ Holding(d) => Parallel(c) \/ Parallel(d)

LockFree(c) ==
  \A d \in 1..made \ {c} :
    call[d].round = call[c].round /\ Holding(d) => Parallel(c) /\ Parallel(d)

AcquireShared(c) ==
  /\ Polled(c) /\ Parallel(c) /\ LockFree(c)
  /\ Goto(c, "spawned", "reading")
  /\ UNCHANGED <<turnVars, need, said, policyVars, call, doomed, answers>>

AcquireAlone(c) ==
  /\ Polled(c) /\ ~Parallel(c) /\ LockFree(c)
  /\ Goto(c, "spawned", "gate")
  /\ UNCHANGED <<turnVars, need, said, policyVars, call, doomed, answers>>

\* Mutant: a forbidden command is only not asked about.
DispatchForbidden(c) ==
  /\ pc[c] = "gate" /\ gate
  /\ LET requirement == Requirement(c)
     IN  /\ Goto(c, "gate", IF requirement = "ask" /\ ~Cached(c) THEN "asked"
                            ELSE FirstAttempt(c, requirement))
         /\ need' = [need EXCEPT ![c] = requirement]
  /\ UNCHANGED <<turnVars, said, policyVars, call, doomed, answers>>

\* Past the gate: the handler, and the orchestrator up to the first attempt or
\* to the question; only a command known to be safe does not wait.
Dispatch(c) ==
  /\ pc[c] = "gate"
  /\ \/ gate
     \/ call[c].request.tool = "shell" /\ call[c].request.command = "safe"
  /\ LET requirement == Requirement(c)
         next == CASE requirement = "reject" -> "done"
                   [] requirement = "ask" /\ ~Cached(c) -> "asked"
                   [] OTHER -> FirstAttempt(c, requirement)
     IN  /\ Goto(c, "gate", next)
         /\ need' = [need EXCEPT ![c] = IF requirement = "reject" THEN "none" ELSE requirement]
  /\ UNCHANGED <<turnVars, said, policyVars, call, doomed, answers>>

\* Op::ExecApproval, Op::PatchApproval; an amendment is in force before the
\* task hears of it.  A request that is dropped counts as denied.
UserDecides(c, d) ==
  /\ pc[c] = "asked" /\ said[c] = "none"
  /\ d = "amendment" =>
       call[c].request.tool = "shell" /\ call[c].request.command # "prompted"
  /\ said' = [said EXCEPT ![c] = d]
  /\ rules' = IF d = "amendment" THEN rules \union {call[c].request.command} ELSE rules
  /\ UNCHANGED <<turnVars, pc, need, store, call, doomed, answers>>

\* The task resumes after its question: before the first attempt, or before
\* the one without the sandbox.
Decided(c) ==
  /\ Polled(c) /\ said[c] # "none"
  /\ Goto(c, "asked", IF said[c] = "denied" THEN "done"
                      ELSE IF need[c] = "ask" THEN FirstAttempt(c, "ask") ELSE "bare")
  /\ store' = IF said[c] = "session" /\ UsesCache(c)
              THEN store \union Keys(call[c].request) ELSE store
  /\ UNCHANGED <<turnVars, need, said, rules, call, doomed, answers>>

\* The command ends, with whatever result.
Finish(c) ==
  /\ Polled(c) /\ pc[c] \in Running
  /\ Goto(c, pc[c], "done")
  /\ UNCHANGED <<turnVars, need, said, policyVars, call, doomed, answers>>

\* The sandbox denied it: try without, asking unless that was done already.
SandboxDenied(c) ==
  /\ Polled(c) /\ WantsNoSandboxApproval(c)
  /\ Goto(c, "sandboxed", IF need[c] = "ask" \/ (UsesCache(c) /\ Cached(c))
                          THEN "bare" ELSE "asked")
  /\ UNCHANGED <<turnVars, need, said, policyVars, call, doomed, answers>>

\* Mutant: the token is heard by commands only, not by the waits before them.
SeesCancelRunning(c) ==
  /\ cancelled /\ Polled(c) /\ pc[c] \in Running
  /\ Goto(c, pc[c], "done")
  /\ UNCHANGED <<turnVars, need, said, policyVars, call, doomed, answers>>

\* The other branch of the select: whatever the call waits for is dropped.
SeesCancel(c) ==
  /\ cancelled /\ Polled(c) /\ pc[c] \in Unfinished
  /\ Goto(c, pc[c], "done")
  /\ UNCHANGED <<turnVars, need, said, policyVars, call, doomed, answers>>

\* tokio drops an aborted task.
Reap(c) ==
  /\ c \in doomed /\ pc[c] \in Unfinished
  /\ Goto(c, pc[c], "gone")
  /\ UNCHANGED <<turnVars, need, said, policyVars, call, doomed, answers>>

-----------------------------------------------------------------------------
(* The turn. *)

InFlight == {c \in 1..made \ doomed : pc[c] # "answered"}
DropHandles == doomed' = doomed \union InFlight

From(p, q) == phase = p /\ phase' = q

BeginRequest ==
  /\ now < MaxRounds /\ now' = now + 1
  /\ From("prompt", "stream")
  /\ UNCHANGED <<turn, cancelled, gate, taskVars, policyVars, call, doomed, answers>>

\* handle_output_item_done with a tool call.
MakeCall(r) ==
  /\ phase = "stream" /\ made < MaxCalls
  /\ call' = Append(call, [request |-> r, turn |-> turn, round |-> now])
  /\ pc' = [pc EXCEPT ![made + 1] = "spawned"]
  /\ UNCHANGED <<turnVars, need, said, policyVars, doomed, answers>>

\* response.completed, the end of the stream before it, or the token.
StreamEnds ==
  /\ \/ From("stream", "drain")
     \/ From("stream", "retry")
     \/ cancelled /\ From("stream", "leave")
  /\ UNCHANGED <<turn, now, cancelled, gate, taskVars, policyVars, call, doomed, answers>>

\* An error of the stream returns at once: the handles are dropped.
StreamFails ==
  /\ \/ From("stream", "prompt")
     \/ From("stream", "over")
  /\ DropHandles
  /\ UNCHANGED <<turn, now, cancelled, gate, taskVars, policyVars, call, answers>>

\* Mutant: whichever call is done first is recorded first.
DrainAny ==
  /\ phase \in Draining
  /\ \E c \in InFlight :
       Goto(c, "done", "answered") /\ answers' = Append(answers, c)
  /\ UNCHANGED <<turnVars, need, said, policyVars, call, doomed>>

\* drain_in_flight: the oldest call first; a fatal error has no output.
DrainOne ==
  /\ phase \in Draining
  /\ \E c \in InFlight :
       /\ \A d \in InFlight : c <= d
       /\ Goto(c, "done", "answered")
       /\ answers' \in {answers, Append(answers, c)}
  /\ UNCHANGED <<turnVars, need, said, policyVars, call, doomed>>

\* Another request follows if there were calls or there is pending input, or
\* the stream is retried.
Drained ==
  /\ InFlight = {}
  /\ \/ From("drain", "prompt")
     \/ (\A c \in 1..made : call[c].round # now) /\ From("drain", "over")
     \/ From("retry", "prompt")
     \/ From("retry", "over")
     \/ From("leave", "over")
  /\ UNCHANGED <<turn, now, cancelled, gate, taskVars, policyVars, call, doomed, answers>>

\* or_cancel on the way to the stream.
NoRequest ==
  /\ cancelled /\ From("prompt", "over")
  /\ UNCHANGED <<turn, now, cancelled, gate, taskVars, policyVars, call, doomed, answers>>

\* abort_all_tasks: the token first, the task itself after the grace period.
Cancel ==
  /\ phase # "over" /\ ~cancelled /\ cancelled' = TRUE
  /\ UNCHANGED <<turn, phase, now, gate, taskVars, policyVars, call, doomed, answers>>

GraceOver ==
  /\ cancelled /\ phase # "over" /\ phase' = "over"
  /\ DropHandles
  /\ UNCHANGED <<turn, now, cancelled, gate, taskVars, policyVars, call, answers>>

GateReady ==
  /\ ~gate /\ phase # "over" /\ gate' = TRUE
  /\ UNCHANGED <<turn, phase, now, cancelled, taskVars, policyVars, call, doomed, answers>>

\* The approvals of the session and its rules outlive the turn.
NewTurn ==
  /\ From("over", "prompt") /\ now < MaxRounds
  /\ turn' \in Contexts /\ cancelled' = FALSE /\ gate' = FALSE
  /\ UNCHANGED <<now, taskVars, policyVars, call, doomed, answers>>

-----------------------------------------------------------------------------
TaskStep(c) ==
  \/ AcquireShared(c) \/ AcquireAlone(c) \/ Dispatch(c) \/ Decided(c)
  \/ Finish(c) \/ SandboxDenied(c) \/ SeesCancel(c) \/ Reap(c)

TurnStep ==
  \/ BeginRequest \/ StreamEnds \/ StreamFails \/ DrainOne \/ Drained
  \/ NoRequest \/ Cancel \/ GraceOver \/ GateReady \/ NewTurn

Next ==
  \/ \E c \in 1..made : TaskStep(c) \/ \E d \in Decisions : UserDecides(c, d)
  \/ \E r \in Requests : MakeCall(r)
  \/ TurnStep

Spec == Init /\ [][Next]_vars

\* What the turn's task does without the model: it hears the token, awaits its
\* calls, and goes on.
TurnRuns == (cancelled /\ phase = "stream" /\ StreamEnds) \/ DrainOne \/ Drained \/ NoRequest

\* The tasks that the token wakes and the turn that awaits them are scheduled;
\* nothing is assumed of the user, the commands, the gate, the stream or the
\* grace period.
FairSpec ==
  /\ Spec
  /\ \A c \in Call : WF_vars(c <= made /\ SeesCancel(c))
  /\ WF_vars(TurnRuns)

-----------------------------------------------------------------------------
(* Properties. *)

\* A tool that is not read-only (a command, a patch, its wait for the gate and
\* for the user included) has the sampling request to itself.
ExclusiveAlone ==
  \A c, d \in 1..made :
    c # d /\ call[c].round = call[d].round /\ Holding(c) /\ Holding(d)
      => Parallel(c) /\ Parallel(d)

\* The user decided for this call, or for the session on each of its keys.
Consent(c) ==
  \/ said[c] \in {"approved", "session", "amendment"}
  \/ \A k \in Keys(call[c].request) :
       \E d \in 1..made : said[d] = "session" /\ k \in Keys(call[d].request)

MayRun(c) ==
  /\ said[c] # "denied"
  /\ \/ Consent(c)
     \/ /\ need[c] # "ask"
        /\ pc[c] = "bare" =>
             \/ Bypassed(call[c].turn)
             \/ need[c] = "bypass"
             \/ call[c].request.command = "safe" /\ call[c].request.escalated

\* What runs was consented to whenever consent was required; outside the
\* sandbox of the workspace, without it, run only commands an allow rule names
\* and known-safe commands that asked for escalation.  A refusal is final.
RunsWithConsent == \A c \in 1..made : pc[c] \in {"sandboxed", "bare"} => MayRun(c)

\* The outputs are recorded once each, in the order of their calls, and the
\* model is never asked again while a call that was not dropped lacks its own.
AnswersInOrder ==
  /\ \A i, j \in DOMAIN answers : i < j => answers[i] < answers[j]
  /\ phase = "prompt" => InFlight = {}

\* A cancelled turn ends by itself: no call holds it up, whatever it waits for.
CancelReleases == cancelled /\ phase # "over" ~> phase = "over"
=============================================================================
