---------------------------- MODULE AgentControl ----------------------------
(* The spawn limit on sub-agents of one user session: agent/guards.rs, the   *)
(* part of agent/control.rs that spawns, prompts and closes agents, and the  *)
(* close_agent tool handler.                                                  *)
(*                                                                            *)
(* A caller is a tool call running in its own tokio task, so any two callers  *)
(* interleave between two steps; a caller that is cancelled is dropped at an  *)
(* .await, never between two synchronous statements.                          *)
EXTENDS Integers, FiniteSets

CONSTANTS
  Callers,      \* tool calls of the user session that use AgentControl
  Threads,      \* thread ids the manager can hand out (each at most once)
  Limits,       \* values of config.agent_max_threads to consider
  NoLimit,      \* stands for Option::None
  NoThread      \* "no thread at hand"

ASSUME LimitsAssumption == Limits \subseteq (Nat \ {0}) \union {NoLimit}
ASSUME NoLimitAssumption == NoLimit \notin Nat
ASSUME ThreadsAssumption == IsFiniteSet(Threads) /\ NoThread \notin Threads
ASSUME CallersAssumption == IsFiniteSet(Callers)

VARIABLES
  max_threads,  \* config.agent_max_threads of this session; never changes
  total_count,  \* Guards::total_count
  threads_set,  \* Guards::threads_set
  registry,     \* sub-agents in ThreadManagerState::threads
  life,         \* life[t]: state of the thread's submission loop
  announced,    \* thread ids a caller can know: spawn returned or notified
  archived,     \* history: removed by the manager itself, not by AgentControl
  pc,           \* pc[c]: where the caller is
  seen,         \* seen[c]: `current` in try_increment_spawned
  tid           \* tid[c]: thread id at hand

vars == <<max_threads, total_count, threads_set, registry, life, announced,
          archived, pc, seen, tid>>

guards == <<max_threads, total_count, threads_set>>
world  == <<registry, life, announced, archived>>

\* A caller holds an active SpawnReservation.
Holding == {"reserved", "spawned", "inserted"}

PCs == {"idle", "cas", "announce", "submit", "close", "remove",
        "release", "decrement"} \union Holding

Lives == {"none", "live", "stopping", "shutdown", "dead"}

TypeOK ==
  /\ max_threads \in Limits
  /\ total_count \in Int
  /\ threads_set \subseteq Threads
  /\ registry \subseteq Threads
  /\ life \in [Threads -> Lives]
  /\ announced \subseteq Threads
  /\ archived \subseteq Threads
  /\ pc \in [Callers -> PCs]
  /\ seen \in [Callers -> Int]
  /\ tid \in [Callers -> Threads \union {NoThread}]

Init ==
  /\ max_threads \in Limits
  /\ total_count = 0
  /\ threads_set = {}
  /\ registry = {}
  /\ life = [t \in Threads |-> "none"]
  /\ announced = {}
  /\ archived = {}
  /\ pc = [c \in Callers |-> "idle"]
  /\ seen = [c \in Callers |-> 0]
  /\ tid = [c \in Callers |-> NoThread]

Goto(c, from, to) == pc[c] = from /\ pc' = [pc EXCEPT ![c] = to]

----------------------------------------------------------------------------
(* reserve_spawn_slot / try_increment_spawned *)

\* No limit configured: one fetch_add.
ReserveUnlimited(c) ==
  /\ max_threads = NoLimit
  /\ Goto(c, "idle", "reserved")
  /\ total_count' = total_count + 1
  /\ UNCHANGED <<max_threads, threads_set, world, seen, tid>>

\* total_count.load(Acquire)
ReserveLoad(c) ==
  /\ max_threads # NoLimit
  /\ Goto(c, "idle", "cas")
  /\ seen' = [seen EXCEPT ![c] = total_count]
  /\ UNCHANGED <<guards, world, tid>>

\* current >= max_threads: Err(AgentLimitReached)
ReserveRefused(c) ==
  /\ Goto(c, "cas", "idle")
  /\ seen[c] >= max_threads
  /\ seen' = [seen EXCEPT ![c] = 0]
  /\ UNCHANGED <<guards, world, tid>>

\* Mutant: load, compare, then an unconditional fetch_add.
ReserveFetchAdd(c) ==
  /\ Goto(c, "cas", "reserved")
  /\ seen[c] < max_threads
  /\ total_count' = total_count + 1
  /\ seen' = [seen EXCEPT ![c] = 0]
  /\ UNCHANGED <<max_threads, threads_set, world, tid>>

\* compare_exchange_weak succeeds
ReserveCas(c) ==
  /\ Goto(c, "cas", "reserved")
  /\ seen[c] < max_threads
  /\ total_count = seen[c]
  /\ total_count' = seen[c] + 1
  /\ seen' = [seen EXCEPT ![c] = 0]
  /\ UNCHANGED <<max_threads, threads_set, world, tid>>

\* It fails, spuriously or not, and hands back the value it found.
ReserveRetry(c) ==
  /\ pc[c] = "cas"
  /\ seen[c] < max_threads
  /\ seen' = [seen EXCEPT ![c] = total_count]
  /\ UNCHANGED <<guards, world, pc, tid>>

----------------------------------------------------------------------------
(* spawn_agent after the reservation *)

\* Codex::spawn created the session and its submission loop.
SpawnSession(c, t) ==
  /\ life[t] = "none"
  /\ Goto(c, "reserved", "spawned")
  /\ life' = [life EXCEPT ![t] = "live"]
  /\ tid' = [tid EXCEPT ![c] = t]
  /\ UNCHANGED <<guards, registry, announced, archived, seen>>

\* Spawning fails (`?`), or the tool call is cancelled at an await: the
\* SpawnReservation is dropped while active.  A session that was created loses
\* its only sender and its loop ends.
SpawnAbandoned(c) ==
  /\ pc[c] \in {"reserved", "spawned"}
  /\ pc' = [pc EXCEPT ![c] = "idle"]
  /\ total_count' = total_count - 1
  /\ life' = IF pc[c] = "spawned" THEN [life EXCEPT ![tid[c]] = "dead"] ELSE life
  /\ tid' = [tid EXCEPT ![c] = NoThread]
  /\ UNCHANGED <<max_threads, threads_set, registry, announced, archived, seen>>

\* finalize_thread_spawn inserts the thread; no await until the commit.
SpawnInsert(c) ==
  /\ Goto(c, "spawned", "inserted")
  /\ registry' = registry \union {tid[c]}
  /\ UNCHANGED <<guards, life, announced, archived, seen, tid>>

\* SpawnReservation::commit
SpawnCommit(c) ==
  /\ Goto(c, "inserted", "announce")
  /\ threads_set' = threads_set \union {tid[c]}
  /\ UNCHANGED <<max_threads, total_count, world, seen, tid>>

\* notify_thread_created, then send_prompt; the id is now known.
SpawnAnnounce(c) ==
  /\ Goto(c, "announce", "submit")
  /\ announced' = announced \union {tid[c]}
  /\ UNCHANGED <<guards, registry, life, archived, seen, tid>>

----------------------------------------------------------------------------
(* send_prompt, shutdown_agent and the close_agent tool *)

\* A send_input tool call on an agent the model was told about.
StartPrompt(c, t) ==
  /\ t \in announced
  /\ Goto(c, "idle", "submit")
  /\ tid' = [tid EXCEPT ![c] = t]
  /\ UNCHANGED <<guards, world, seen>>

\* close_agent: only an agent in the registry whose status is not Shutdown.
StartClose(c, t) ==
  /\ t \in announced \intersect registry
  /\ life[t] \notin {"shutdown", "dead"}
  /\ Goto(c, "idle", "close")
  /\ tid' = [tid EXCEPT ![c] = t]
  /\ UNCHANGED <<guards, world, seen>>

Finish(c) == pc' = [pc EXCEPT ![c] = "idle"] /\ tid' = [tid EXCEPT ![c] = NoThread]

\* send_op looks the thread up and submits to it (a removal or a loop's end
\* between the two is the same as one just after or just before both).  It
\* succeeded, or found no thread in the registry: nothing to release.
PromptSent(c) ==
  /\ pc[c] = "submit"
  /\ life[tid[c]] # "dead" \/ tid[c] \notin registry
  /\ Finish(c)
  /\ UNCHANGED <<guards, world, seen>>

\* The loop is gone: InternalAgentDied.
PromptDied(c) ==
  /\ Goto(c, "submit", "remove")
  /\ life[tid[c]] = "dead" /\ tid[c] \in registry
  /\ UNCHANGED <<guards, world, seen, tid>>

\* shutdown_agent queues Op::Shutdown and goes on whatever the result.
CloseSend(c) ==
  /\ Goto(c, "close", "remove")
  /\ life' = [life EXCEPT ![tid[c]] =
                IF @ = "live" /\ tid[c] \in registry THEN "stopping" ELSE @]
  /\ UNCHANGED <<guards, registry, announced, archived, seen, tid>>

\* Mutant: the thread leaves the registry but its slot is forgotten.
RemoveThreadOnly(c) ==
  /\ pc[c] = "remove"
  /\ registry' = registry \ {tid[c]}
  /\ Finish(c)
  /\ UNCHANGED <<guards, life, announced, archived, seen>>

\* state.remove_thread
RemoveThread(c) ==
  /\ Goto(c, "remove", "release")
  /\ registry' = registry \ {tid[c]}
  /\ UNCHANGED <<guards, life, announced, archived, seen, tid>>

\* Mutant: the decrement no longer depends on the removal.
ReleaseRemoveAlways(c) ==
  /\ Goto(c, "release", "decrement")
  /\ threads_set' = threads_set \ {tid[c]}
  /\ UNCHANGED <<max_threads, total_count, world, seen, tid>>

\* release_spawned_thread: leave the set under the lock ...
ReleaseRemove(c) ==
  /\ pc[c] = "release"
  /\ threads_set' = threads_set \ {tid[c]}
  /\ IF tid[c] \in threads_set
       THEN Goto(c, "release", "decrement") /\ UNCHANGED tid
       ELSE Finish(c)
  /\ UNCHANGED <<max_threads, total_count, world, seen>>

\* ... then give the slot back.
ReleaseDecrement(c) ==
  /\ pc[c] = "decrement"
  /\ total_count' = total_count - 1
  /\ Finish(c)
  /\ UNCHANGED <<max_threads, threads_set, world, seen>>

\* The tool call is cancelled at an await of send_prompt or shutdown_agent.
CancelCall(c) ==
  /\ pc[c] \in {"submit", "close", "remove"}
  /\ Finish(c)
  /\ UNCHANGED <<guards, world, seen>>

----------------------------------------------------------------------------
(* The rest of the program, as it acts on a sub-agent *)

\* A client submits Op::Shutdown to the agent's thread.
ClientShutdown(t) ==
  /\ t \in registry /\ life[t] = "live"
  /\ life' = [life EXCEPT ![t] = "stopping"]
  /\ UNCHANGED <<guards, registry, announced, archived, pc, seen, tid>>

\* The submission loop handles Op::Shutdown (ShutdownComplete sets the
\* status) and then returns, which closes the submission channel.
LoopStops(t) ==
  /\ \/ life[t] = "stopping" /\ life' = [life EXCEPT ![t] = "shutdown"]
     \/ life[t] = "shutdown" /\ life' = [life EXCEPT ![t] = "dead"]
  /\ UNCHANGED <<guards, registry, announced, archived, pc, seen, tid>>

\* The manager drops the thread by itself (archiving, a TUI thread switch).
ManagerRemove(t) ==
  /\ t \in announced \intersect registry
  /\ registry' = registry \ {t}
  /\ archived' = archived \union {t}
  /\ UNCHANGED <<guards, life, announced, pc, seen, tid>>

CallerStep(c) ==
  \/ ReserveUnlimited(c) \/ ReserveLoad(c) \/ ReserveRefused(c)
  \/ ReserveCas(c) \/ ReserveRetry(c)
  \/ SpawnAbandoned(c) \/ SpawnInsert(c) \/ SpawnCommit(c) \/ SpawnAnnounce(c)
  \/ PromptSent(c) \/ PromptDied(c) \/ CloseSend(c) \/ RemoveThread(c)
  \/ ReleaseRemove(c) \/ ReleaseDecrement(c) \/ CancelCall(c)
  \/ \E t \in Threads : SpawnSession(c, t) \/ StartPrompt(c, t) \/ StartClose(c, t)

WorldStep(t) == ClientShutdown(t) \/ LoopStops(t) \/ ManagerRemove(t)

Next == (\E c \in Callers : CallerStep(c)) \/ (\E t \in Threads : WorldStep(t))

Spec == Init /\ [][Next]_vars

----------------------------------------------------------------------------
(* Properties *)

\* The counter is exact at every interleaving: one slot for each thread in the
\* set, for each caller with an active reservation, and for each caller that
\* has taken a thread out of the set and not yet given its slot back.  So no
\* slot is released twice and the counter never wraps below zero
\* (guards.rs, release_spawned_thread and SpawnReservation::drop).
CountExact ==
  total_count = Cardinality(threads_set)
                  + Cardinality({c \in Callers : pc[c] \in Holding})
                  + Cardinality({c \in Callers : pc[c] = "decrement"})

\* At most agent_max_threads agent threads are open at any time, whatever the
\* number of tool calls that spawn, prompt and close at once (the documented
\* meaning of the setting, config/mod.rs).
OpenAgentsBounded ==
  max_threads # NoLimit => Cardinality(registry) <= max_threads

\* When no call is in progress the limiter knows exactly the open agents, but
\* for those the manager removed behind its back: neither a cancelled close
\* nor a died agent leaks a slot (control.rs, send_prompt and shutdown_agent).
LeakOnlyByArchive ==
  (\A c \in Callers : pc[c] = "idle") => threads_set \ archived = registry
=============================================================================
