------------------------- MODULE AgentControl_proofs -------------------------
(* Proofs about AgentControl: who holds a thread id at every point of a call, *)
(* and from it the exactness of the counter and the bound on open agents.     *)
EXTENDS AgentControl, FiniteSetTheorems, TLAPS

\* A thread that does not exist yet is known to nobody.
Unborn ==
  \A t \in Threads : life[t] = "none" =>
    /\ t \notin threads_set \union registry \union announced
    /\ \A c \in Callers : tid[c] # t

\* Until it is announced, a new thread is known to its spawner alone.
Private ==
  \A c \in Callers : pc[c] \in {"spawned", "inserted", "announce"} =>
    /\ tid[c] \in Threads \ announced /\ life[tid[c]] # "none"
    /\ \A d \in Callers \ {c} : tid[d] # tid[c]

\* A spawned thread enters the registry, then the set, each once.
Entering ==
  \A c \in Callers :
    /\ pc[c] \in {"spawned", "inserted"} => tid[c] \notin threads_set
    /\ pc[c] = "spawned" => tid[c] \notin registry
    /\ pc[c] = "inserted" => tid[c] \in registry

\* Calls on an agent name an announced thread; the others name none.
Named ==
  \A c \in Callers :
    /\ pc[c] \in {"submit", "close", "remove", "release", "decrement"} => tid[c] \in announced
    /\ pc[c] \in {"idle", "cas", "reserved"} => tid[c] = NoThread

\* An open agent is in the set or about to enter it.
OpenCounted ==
  \A t \in registry : t \in threads_set \/ \E c \in Callers : pc[c] = "inserted" /\ tid[c] = t

\* A slot is released only after the thread left the registry.
Removed == \A c \in Callers : pc[c] = "release" => tid[c] \notin registry

\* The manager only removes announced threads, and they never come back.
Archived == archived \subseteq announced \ registry

\* A counted thread is open, archived, or about to be released.
Tracked ==
  \A t \in threads_set :
    t \in registry \union archived \/ \E c \in Callers : pc[c] = "release" /\ tid[c] = t

\* The counter never passes the limit.
Limited == max_threads # NoLimit => total_count <= max_threads

\* The part of the invariant that says who holds what.
Control ==
  /\ Unborn /\ Private /\ Entering /\ Named
  /\ OpenCounted /\ Removed /\ Archived /\ Tracked

----------------------------------------------------------------------------
(* Type correctness and control *)

\* Every step preserves the types.
LEMMA TypeStep == TypeOK /\ Control /\ [Next]_vars => TypeOK'
<1> SUFFICES ASSUME TypeOK, Control, [Next]_vars PROVE TypeOK'
  OBVIOUS
<1>0. \A c \in Callers : pc[c] \in {"spawned", "inserted", "announce"} => tid[c] \in Threads
  BY DEF Control, Private
<1> USE <1>0 DEF TypeOK, PCs, Holding, Lives, vars, guards, world
<1>1. ASSUME NEW c \in Callers, ReserveUnlimited(c) PROVE  TypeOK'
  BY <1>1 DEF ReserveUnlimited, Goto
<1>2. ASSUME NEW c \in Callers, ReserveLoad(c) PROVE  TypeOK'
  BY <1>2 DEF ReserveLoad, Goto
<1>3. ASSUME NEW c \in Callers, ReserveRefused(c) PROVE  TypeOK'
  BY <1>3 DEF ReserveRefused, Goto
<1>4. ASSUME NEW c \in Callers, ReserveCas(c) PROVE  TypeOK'
  BY <1>4 DEF ReserveCas, Goto
<1>5. ASSUME NEW c \in Callers, ReserveRetry(c) PROVE  TypeOK'
  BY <1>5 DEF ReserveRetry
<1>6. ASSUME NEW c \in Callers, NEW t \in Threads, SpawnSession(c, t) PROVE  TypeOK'
  BY <1>6 DEF SpawnSession, Goto
<1>7. ASSUME NEW c \in Callers, SpawnAbandoned(c) PROVE  TypeOK'
  BY <1>7 DEF SpawnAbandoned
<1>8. ASSUME NEW c \in Callers, SpawnInsert(c) PROVE  TypeOK'
  BY <1>8 DEF SpawnInsert, Goto
<1>9. ASSUME NEW c \in Callers, SpawnCommit(c) PROVE  TypeOK'
  BY <1>9 DEF SpawnCommit, Goto
<1>10. ASSUME NEW c \in Callers, SpawnAnnounce(c) PROVE  TypeOK'
  BY <1>10 DEF SpawnAnnounce, Goto
<1>11. ASSUME NEW c \in Callers, NEW t \in Threads, StartPrompt(c, t) PROVE  TypeOK'
  BY <1>11 DEF StartPrompt, Goto
<1>12. ASSUME NEW c \in Callers, NEW t \in Threads, StartClose(c, t) PROVE  TypeOK'
  BY <1>12 DEF StartClose, Goto
<1>13. ASSUME NEW c \in Callers, PromptSent(c) PROVE  TypeOK'
  BY <1>13 DEF PromptSent, Finish
<1>14. ASSUME NEW c \in Callers, PromptDied(c) PROVE  TypeOK'
  BY <1>14 DEF PromptDied, Goto
<1>15. ASSUME NEW c \in Callers, CloseSend(c) PROVE  TypeOK'
  BY <1>15 DEF CloseSend, Goto
<1>16. ASSUME NEW c \in Callers, RemoveThread(c) PROVE  TypeOK'
  BY <1>16 DEF RemoveThread, Goto
<1>17. ASSUME NEW c \in Callers, ReleaseRemove(c) PROVE  TypeOK'
  BY <1>17 DEF ReleaseRemove, Goto, Finish
<1>18. ASSUME NEW c \in Callers, ReleaseDecrement(c) PROVE  TypeOK'
  BY <1>18 DEF ReleaseDecrement, Finish
<1>19. ASSUME NEW c \in Callers, CancelCall(c) PROVE  TypeOK'
  BY <1>19 DEF CancelCall, Finish
<1>20. ASSUME NEW t \in Threads, ClientShutdown(t) PROVE  TypeOK'
  BY <1>20 DEF ClientShutdown
<1>21. ASSUME NEW t \in Threads, LoopStops(t) PROVE  TypeOK'
  BY <1>21 DEF LoopStops
<1>22. ASSUME NEW t \in Threads, ManagerRemove(t) PROVE  TypeOK'
  BY <1>22 DEF ManagerRemove
<1>23. CASE UNCHANGED vars
  BY <1>23
<1> HIDE DEF TypeOK
<1> QED
  BY <1>1, <1>2, <1>3, <1>4, <1>5, <1>6, <1>7, <1>8, <1>9, <1>10, <1>11, 
     <1>12, <1>13, <1>14, <1>15, <1>16, <1>17, <1>18, <1>19, <1>20, <1>21, 
     <1>22, <1>23
     DEF Next, CallerStep, WorldStep

\* Every step preserves the control invariant.
LEMMA ControlStep == TypeOK /\ Control /\ [Next]_vars => Control'
<1> SUFFICES ASSUME TypeOK, Control, [Next]_vars PROVE Control'
  OBVIOUS
<1> USE ThreadsAssumption
    DEF TypeOK, Control, Unborn, Private, Entering, Named, OpenCounted, Removed,
        Archived, Tracked, vars, guards, world
<1>1. ASSUME NEW c \in Callers, ReserveUnlimited(c) PROVE  Control'
  BY <1>1 DEF ReserveUnlimited, Goto
<1>2. ASSUME NEW c \in Callers, ReserveLoad(c) PROVE  Control'
  BY <1>2 DEF ReserveLoad, Goto
<1>3. ASSUME NEW c \in Callers, ReserveRefused(c) PROVE  Control'
  BY <1>3 DEF ReserveRefused, Goto
<1>4. ASSUME NEW c \in Callers, ReserveCas(c) PROVE  Control'
  BY <1>4 DEF ReserveCas, Goto
<1>5. ASSUME NEW c \in Callers, ReserveRetry(c) PROVE  Control'
  BY <1>5 DEF ReserveRetry
<1>6. ASSUME NEW c \in Callers, NEW t \in Threads, SpawnSession(c, t) PROVE  Control'
  <2>1. Unborn' /\ Entering' /\ Named'
    BY <1>6 DEF SpawnSession, Goto
  <2>2. Private'
    BY <1>6 DEF SpawnSession, Goto
  <2>3. OpenCounted' /\ Removed' /\ Archived' /\ Tracked'
    BY <1>6 DEF SpawnSession, Goto
  <2> QED
    BY <2>1, <2>2, <2>3
<1>7. ASSUME NEW c \in Callers, SpawnAbandoned(c) PROVE  Control'
  BY <1>7 DEF SpawnAbandoned
<1>8. ASSUME NEW c \in Callers, SpawnInsert(c) PROVE  Control'
  BY <1>8 DEF SpawnInsert, Goto
<1>9. ASSUME NEW c \in Callers, SpawnCommit(c) PROVE  Control'
  <2>1. Unborn' /\ Private' /\ Entering' /\ Named'
    BY <1>9 DEF SpawnCommit, Goto
  <2>2. OpenCounted' /\ Removed' /\ Archived'
    BY <1>9 DEF SpawnCommit, Goto
  <2>3. tid[c] \in registry \union archived
    BY <1>9 DEF SpawnCommit, Goto
  <2>4. Tracked'
    BY <1>9, <2>3 DEF SpawnCommit, Goto
  <2> QED
    BY <2>1, <2>2, <2>4
<1>10. ASSUME NEW c \in Callers, SpawnAnnounce(c) PROVE  Control'
  BY <1>10 DEF SpawnAnnounce, Goto
<1>11. ASSUME NEW c \in Callers, NEW t \in Threads, StartPrompt(c, t) PROVE  Control'
  BY <1>11 DEF StartPrompt, Goto
<1>12. ASSUME NEW c \in Callers, NEW t \in Threads, StartClose(c, t) PROVE  Control'
  BY <1>12 DEF StartClose, Goto
<1>13. ASSUME NEW c \in Callers, PromptSent(c) PROVE  Control'
  BY <1>13 DEF PromptSent, Finish
<1>14. ASSUME NEW c \in Callers, PromptDied(c) PROVE  Control'
  BY <1>14 DEF PromptDied, Goto
<1>15. ASSUME NEW c \in Callers, CloseSend(c) PROVE  Control'
  BY <1>15 DEF CloseSend, Goto
<1>16. ASSUME NEW c \in Callers, RemoveThread(c) PROVE  Control'
  BY <1>16 DEF RemoveThread, Goto
<1>17. ASSUME NEW c \in Callers, ReleaseRemove(c) PROVE  Control'
  BY <1>17 DEF ReleaseRemove, Goto, Finish
<1>18. ASSUME NEW c \in Callers, ReleaseDecrement(c) PROVE  Control'
  BY <1>18 DEF ReleaseDecrement, Finish
<1>19. ASSUME NEW c \in Callers, CancelCall(c) PROVE  Control'
  BY <1>19 DEF CancelCall, Finish
<1>20. ASSUME NEW t \in Threads, ClientShutdown(t) PROVE  Control'
  BY <1>20 DEF ClientShutdown
<1>21. ASSUME NEW t \in Threads, LoopStops(t) PROVE  Control'
  BY <1>21 DEF LoopStops
<1>22. ASSUME NEW t \in Threads, ManagerRemove(t) PROVE  Control'
  BY <1>22 DEF ManagerRemove
<1>23. CASE UNCHANGED vars
  BY <1>23
<1> HIDE DEF Control
<1> QED
  BY <1>1, <1>2, <1>3, <1>4, <1>5, <1>6, <1>7, <1>8, <1>9, <1>10, <1>11, 
     <1>12, <1>13, <1>14, <1>15, <1>16, <1>17, <1>18, <1>19, <1>20, <1>21, 
     <1>22, <1>23
     DEF Next, CallerStep, WorldStep

----------------------------------------------------------------------------
(* Counting *)

\* Callers with a reservation, and callers that owe the counter a decrement.
Held == {c \in Callers : pc[c] \in Holding}
Decr == {c \in Callers : pc[c] = "decrement"}

Count == total_count = Cardinality(threads_set) + Cardinality(Held) + Cardinality(Decr)

\* All the sets that are counted are finite.
LEMMA Finite ==
  TypeOK => /\ IsFiniteSet(threads_set) /\ Cardinality(threads_set) \in Nat
            /\ IsFiniteSet(registry) /\ Cardinality(registry) \in Nat
            /\ IsFiniteSet(Held) /\ Cardinality(Held) \in Nat
            /\ IsFiniteSet(Decr) /\ Cardinality(Decr) \in Nat
BY ThreadsAssumption, CallersAssumption, FS_Subset, FS_CardinalityType DEF TypeOK, Held, Decr

\* Every step keeps the counter exact.
LEMMA CountStep == TypeOK /\ Control /\ Count /\ [Next]_vars => Count'
<1> SUFFICES ASSUME TypeOK, Control, Count, [Next]_vars PROVE Count'
  OBVIOUS
<1>0. pc \in [Callers -> PCs] /\ total_count \in Int
  BY DEF TypeOK
<1>00. /\ IsFiniteSet(threads_set) /\ Cardinality(threads_set) \in Nat
       /\ IsFiniteSet(Held) /\ Cardinality(Held) \in Nat
       /\ IsFiniteSet(Decr) /\ Cardinality(Decr) \in Nat
  BY Finite
<1> USE <1>0, <1>00 DEF Count, vars, guards, world
<1>1. ASSUME NEW c \in Callers, ReserveUnlimited(c) PROVE  Count'
  <2>1. Held' = Held \union {c} /\ c \notin Held /\ Decr' = Decr
    BY <1>1 DEF ReserveUnlimited, Goto, Held, Decr, Holding, PCs
  <2>2. Cardinality(Held') = Cardinality(Held) + 1
    BY <2>1, FS_AddElement
  <2> QED
    BY <1>1, <2>1, <2>2 DEF ReserveUnlimited
<1>2. ASSUME NEW c \in Callers, ReserveLoad(c) PROVE  Count'
  <2>1. Held' = Held /\ Decr' = Decr
    BY <1>2 DEF ReserveLoad, Goto, Held, Decr, Holding, PCs
  <2> QED
    BY <1>2, <2>1 DEF ReserveLoad
<1>3. ASSUME NEW c \in Callers, ReserveRefused(c) PROVE  Count'
  <2>1. Held' = Held /\ Decr' = Decr
    BY <1>3 DEF ReserveRefused, Goto, Held, Decr, Holding, PCs
  <2> QED
    BY <1>3, <2>1 DEF ReserveRefused
<1>4. ASSUME NEW c \in Callers, ReserveCas(c) PROVE  Count'
  <2>1. Held' = Held \union {c} /\ c \notin Held /\ Decr' = Decr
    BY <1>4 DEF ReserveCas, Goto, Held, Decr, Holding, PCs
  <2>2. Cardinality(Held') = Cardinality(Held) + 1
    BY <2>1, FS_AddElement
  <2> QED
    BY <1>4, <2>1, <2>2 DEF ReserveCas
<1>5. ASSUME NEW c \in Callers, ReserveRetry(c) PROVE  Count'
  <2>1. Held' = Held /\ Decr' = Decr
    BY <1>5 DEF ReserveRetry, Held, Decr, Holding, PCs
  <2> QED
    BY <1>5, <2>1 DEF ReserveRetry
<1>6. ASSUME NEW c \in Callers, NEW t \in Threads, SpawnSession(c, t) PROVE  Count'
  <2>1. Held' = Held /\ Decr' = Decr
    BY <1>6 DEF SpawnSession, Goto, Held, Decr, Holding, PCs
  <2> QED
    BY <1>6, <2>1 DEF SpawnSession
<1>7. ASSUME NEW c \in Callers, SpawnAbandoned(c) PROVE  Count'
  <2>1. Held' = Held \ {c} /\ Decr' = Decr /\ c \in Held
    BY <1>7 DEF SpawnAbandoned, Held, Decr, Holding, PCs
  <2>2. Cardinality(Held') = Cardinality(Held) - 1
    BY <2>1, FS_RemoveElement
  <2> QED
    BY <1>7, <2>1, <2>2 DEF SpawnAbandoned
<1>8. ASSUME NEW c \in Callers, SpawnInsert(c) PROVE  Count'
  <2>1. Held' = Held /\ Decr' = Decr
    BY <1>8 DEF SpawnInsert, Goto, Held, Decr, Holding, PCs
  <2> QED
    BY <1>8, <2>1 DEF SpawnInsert
<1>9. ASSUME NEW c \in Callers, SpawnCommit(c) PROVE  Count'
  <2>1. Held' = Held \ {c} /\ c \in Held /\ Decr' = Decr
    BY <1>9 DEF SpawnCommit, Goto, Held, Decr, Holding, PCs
  <2>2. threads_set' = threads_set \union {tid[c]} /\ tid[c] \notin threads_set
    BY <1>9 DEF SpawnCommit, Goto, Control, Entering
  <2>3. Cardinality(threads_set') = Cardinality(threads_set) + 1
    BY <2>2, FS_AddElement
  <2>4. Cardinality(Held') = Cardinality(Held) - 1
    BY <2>1, FS_RemoveElement
  <2> QED
    BY <1>9, <2>1, <2>3, <2>4 DEF SpawnCommit
<1>10. ASSUME NEW c \in Callers, SpawnAnnounce(c) PROVE  Count'
  <2>1. Held' = Held /\ Decr' = Decr
    BY <1>10 DEF SpawnAnnounce, Goto, Held, Decr, Holding, PCs
  <2> QED
    BY <1>10, <2>1 DEF SpawnAnnounce
<1>11. ASSUME NEW c \in Callers, NEW t \in Threads, StartPrompt(c, t) PROVE  Count'
  <2>1. Held' = Held /\ Decr' = Decr
    BY <1>11 DEF StartPrompt, Goto, Held, Decr, Holding, PCs
  <2> QED
    BY <1>11, <2>1 DEF StartPrompt
<1>12. ASSUME NEW c \in Callers, NEW t \in Threads, StartClose(c, t) PROVE  Count'
  <2>1. Held' = Held /\ Decr' = Decr
    BY <1>12 DEF StartClose, Goto, Held, Decr, Holding, PCs
  <2> QED
    BY <1>12, <2>1 DEF StartClose
<1>13. ASSUME NEW c \in Callers, PromptSent(c) PROVE  Count'
  <2>1. Held' = Held /\ Decr' = Decr
    BY <1>13 DEF PromptSent, Finish, Held, Decr, Holding, PCs
  <2> QED
    BY <1>13, <2>1 DEF PromptSent
<1>14. ASSUME NEW c \in Callers, PromptDied(c) PROVE  Count'
  <2>1. Held' = Held /\ Decr' = Decr
    BY <1>14 DEF PromptDied, Goto, Held, Decr, Holding, PCs
  <2> QED
    BY <1>14, <2>1 DEF PromptDied
<1>15. ASSUME NEW c \in Callers, CloseSend(c) PROVE  Count'
  <2>1. Held' = Held /\ Decr' = Decr
    BY <1>15 DEF CloseSend, Goto, Held, Decr, Holding, PCs
  <2> QED
    BY <1>15, <2>1 DEF CloseSend
<1>16. ASSUME NEW c \in Callers, RemoveThread(c) PROVE  Count'
  <2>1. Held' = Held /\ Decr' = Decr
    BY <1>16 DEF RemoveThread, Goto, Held, Decr, Holding, PCs
  <2> QED
    BY <1>16, <2>1 DEF RemoveThread
<1>17. ASSUME NEW c \in Callers, ReleaseRemove(c) PROVE  Count'
  <2>1. CASE tid[c] \in threads_set
    <3>1. Decr' = Decr \union {c} /\ c \notin Decr /\ Held' = Held
      BY <1>17, <2>1 DEF ReleaseRemove, Goto, Held, Decr, Holding, PCs
    <3>2. Cardinality(Decr') = Cardinality(Decr) + 1
      BY <3>1, FS_AddElement
    <3>3. Cardinality(threads_set') = Cardinality(threads_set) - 1
      BY <1>17, <2>1, FS_RemoveElement DEF ReleaseRemove
    <3> QED
      BY <1>17, <3>1, <3>2, <3>3 DEF ReleaseRemove
  <2>2. CASE tid[c] \notin threads_set
    <3>1. Decr' = Decr /\ Held' = Held /\ threads_set' = threads_set
      BY <1>17, <2>2 DEF ReleaseRemove, Finish, Held, Decr, Holding, PCs
    <3> QED
      BY <1>17, <3>1 DEF ReleaseRemove
  <2> QED
    BY <2>1, <2>2
<1>18. ASSUME NEW c \in Callers, ReleaseDecrement(c) PROVE  Count'
  <2>1. Decr' = Decr \ {c} /\ c \in Decr /\ Held' = Held
    BY <1>18 DEF ReleaseDecrement, Finish, Held, Decr, Holding, PCs
  <2>2. Cardinality(Decr') = Cardinality(Decr) - 1
    BY <2>1, FS_RemoveElement
  <2> QED
    BY <1>18, <2>1, <2>2 DEF ReleaseDecrement
<1>19. ASSUME NEW c \in Callers, CancelCall(c) PROVE  Count'
  <2>1. Held' = Held /\ Decr' = Decr
    BY <1>19 DEF CancelCall, Finish, Held, Decr, Holding, PCs
  <2> QED
    BY <1>19, <2>1 DEF CancelCall
<1>20. ASSUME NEW t \in Threads, ClientShutdown(t) PROVE  Count'
  <2>1. Held' = Held /\ Decr' = Decr
    BY <1>20 DEF ClientShutdown, Held, Decr, Holding, PCs
  <2> QED
    BY <1>20, <2>1 DEF ClientShutdown
<1>21. ASSUME NEW t \in Threads, LoopStops(t) PROVE  Count'
  <2>1. Held' = Held /\ Decr' = Decr
    BY <1>21 DEF LoopStops, Held, Decr, Holding, PCs
  <2> QED
    BY <1>21, <2>1 DEF LoopStops
<1>22. ASSUME NEW t \in Threads, ManagerRemove(t) PROVE  Count'
  <2>1. Held' = Held /\ Decr' = Decr
    BY <1>22 DEF ManagerRemove, Held, Decr, Holding, PCs
  <2> QED
    BY <1>22, <2>1 DEF ManagerRemove
<1>23. CASE UNCHANGED vars
  <2>1. Held' = Held /\ Decr' = Decr
    BY <1>23 DEF Held, Decr
  <2> QED
    BY <1>23, <2>1
<1> QED
  BY <1>1, <1>2, <1>3, <1>4, <1>5, <1>6, <1>7, <1>8, <1>9, <1>10, <1>11, 
     <1>12, <1>13, <1>14, <1>15, <1>16, <1>17, <1>18, <1>19, <1>20, <1>21, 
     <1>22, <1>23
     DEF Next, CallerStep, WorldStep

\* Every step keeps the counter within the limit.
LEMMA LimitedStep == TypeOK /\ Limited /\ [Next]_vars => Limited'
<1> SUFFICES ASSUME TypeOK, Limited, [Next]_vars PROVE Limited'
  OBVIOUS
<1>0. /\ pc \in [Callers -> PCs] /\ total_count \in Int /\ seen \in [Callers -> Int]
      /\ max_threads \in Nat \/ max_threads = NoLimit
  BY LimitsAssumption DEF TypeOK
<1> USE <1>0 DEF Limited, vars, guards, world
<1>1. ASSUME NEW c \in Callers, ReserveUnlimited(c) PROVE  Limited'
  BY <1>1 DEF ReserveUnlimited, Goto
<1>2. ASSUME NEW c \in Callers, ReserveLoad(c) PROVE  Limited'
  BY <1>2 DEF ReserveLoad, Goto
<1>3. ASSUME NEW c \in Callers, ReserveRefused(c) PROVE  Limited'
  BY <1>3 DEF ReserveRefused, Goto
<1>4. ASSUME NEW c \in Callers, ReserveCas(c) PROVE  Limited'
  BY <1>4 DEF ReserveCas, Goto
<1>5. ASSUME NEW c \in Callers, ReserveRetry(c) PROVE  Limited'
  BY <1>5 DEF ReserveRetry
<1>6. ASSUME NEW c \in Callers, NEW t \in Threads, SpawnSession(c, t) PROVE  Limited'
  BY <1>6 DEF SpawnSession, Goto
<1>7. ASSUME NEW c \in Callers, SpawnAbandoned(c) PROVE  Limited'
  BY <1>7 DEF SpawnAbandoned
<1>8. ASSUME NEW c \in Callers, SpawnInsert(c) PROVE  Limited'
  BY <1>8 DEF SpawnInsert, Goto
<1>9. ASSUME NEW c \in Callers, SpawnCommit(c) PROVE  Limited'
  BY <1>9 DEF SpawnCommit, Goto
<1>10. ASSUME NEW c \in Callers, SpawnAnnounce(c) PROVE  Limited'
  BY <1>10 DEF SpawnAnnounce, Goto
<1>11. ASSUME NEW c \in Callers, NEW t \in Threads, StartPrompt(c, t) PROVE  Limited'
  BY <1>11 DEF StartPrompt, Goto
<1>12. ASSUME NEW c \in Callers, NEW t \in Threads, StartClose(c, t) PROVE  Limited'
  BY <1>12 DEF StartClose, Goto
<1>13. ASSUME NEW c \in Callers, PromptSent(c) PROVE  Limited'
  BY <1>13 DEF PromptSent, Finish
<1>14. ASSUME NEW c \in Callers, PromptDied(c) PROVE  Limited'
  BY <1>14 DEF PromptDied, Goto
<1>15. ASSUME NEW c \in Callers, CloseSend(c) PROVE  Limited'
  BY <1>15 DEF CloseSend, Goto
<1>16. ASSUME NEW c \in Callers, RemoveThread(c) PROVE  Limited'
  BY <1>16 DEF RemoveThread, Goto
<1>17. ASSUME NEW c \in Callers, ReleaseRemove(c) PROVE  Limited'
  BY <1>17 DEF ReleaseRemove, Goto, Finish
<1>18. ASSUME NEW c \in Callers, ReleaseDecrement(c) PROVE  Limited'
  BY <1>18 DEF ReleaseDecrement, Finish
<1>19. ASSUME NEW c \in Callers, CancelCall(c) PROVE  Limited'
  BY <1>19 DEF CancelCall, Finish
<1>20. ASSUME NEW t \in Threads, ClientShutdown(t) PROVE  Limited'
  BY <1>20 DEF ClientShutdown
<1>21. ASSUME NEW t \in Threads, LoopStops(t) PROVE  Limited'
  BY <1>21 DEF LoopStops
<1>22. ASSUME NEW t \in Threads, ManagerRemove(t) PROVE  Limited'
  BY <1>22 DEF ManagerRemove
<1>23. CASE UNCHANGED vars
  BY <1>23
<1> QED
  BY <1>1, <1>2, <1>3, <1>4, <1>5, <1>6, <1>7, <1>8, <1>9, <1>10, <1>11, 
     <1>12, <1>13, <1>14, <1>15, <1>16, <1>17, <1>18, <1>19, <1>20, <1>21, 
     <1>22, <1>23
     DEF Next, CallerStep, WorldStep

\* The invariant holds initially and always.
LEMMA Invariance == Spec => [](TypeOK /\ Control /\ Count /\ Limited)
<1>1. Init => TypeOK /\ Control /\ Count /\ Limited
  <2> SUFFICES ASSUME Init PROVE TypeOK /\ Control /\ Count /\ Limited
    OBVIOUS
  <2>1. TypeOK /\ Control
    BY ThreadsAssumption DEF Init, TypeOK, PCs, Holding, Lives, Control, Unborn, Private, Entering,
       Named, OpenCounted, Removed, Archived, Tracked
  <2>2. Held = {} /\ Decr = {}
    BY DEF Init, Held, Decr, Holding
  <2>3. Count /\ Limited
    BY <2>2, FS_EmptySet, LimitsAssumption DEF Init, Count, Limited
  <2> QED
    BY <2>1, <2>3
<1>2. TypeOK /\ Control /\ Count /\ Limited /\ [Next]_vars
        => (TypeOK /\ Control /\ Count /\ Limited)'
  BY TypeStep, ControlStep, CountStep, LimitedStep
<1> QED
  BY <1>1, <1>2, PTL DEF Spec

\* Every variable keeps its type.
THEOREM TypeCorrect == Spec => []TypeOK
BY Invariance, PTL

\* The counter is exact at every interleaving of the calls: no slot is released
\* twice, and none is forgotten between the counter and the set.
THEOREM CounterIsExact == Spec => []CountExact
<1>1. Count => CountExact
  BY DEF Count, Held, Decr, CountExact
<1> QED
  BY Invariance, <1>1, PTL

\* Open agents never outnumber the configured limit.
THEOREM OpenAgentsAreBounded == Spec => []OpenAgentsBounded
<1>1. TypeOK /\ Control /\ Count /\ Limited => OpenAgentsBounded
  <2> SUFFICES ASSUME TypeOK, Control, Count, Limited, max_threads # NoLimit
               PROVE  Cardinality(registry) <= max_threads
    BY DEF OpenAgentsBounded
  <2> DEFINE In == {c \in Callers : pc[c] = "inserted"}
             New == {tid[c] : c \in In}
  <2>1. /\ IsFiniteSet(In) /\ Cardinality(In) \in Nat
        /\ Cardinality(In) <= Cardinality(Held)
    BY Finite, FS_Subset, FS_CardinalityType, In \in SUBSET Held DEF Held, Holding
  <2>2. IsFiniteSet(New) /\ Cardinality(New) \in Nat /\ Cardinality(New) <= Cardinality(In)
    <3>1. [c \in In |-> tid[c]] \in Surjection(In, New)
      BY DEF Surjection
    <3> QED
      BY <2>1, <3>1, FS_Surjection, FS_CardinalityType
  <2>3. registry \in SUBSET (threads_set \union New)
    BY DEF Control, OpenCounted
  <2>4. /\ IsFiniteSet(threads_set \union New)
        /\ Cardinality(threads_set \union New) \in Nat
        /\ Cardinality(threads_set \union New) <= Cardinality(threads_set) + Cardinality(New)
    <3>1. IsFiniteSet(threads_set \intersect New) /\ Cardinality(threads_set \intersect New) \in Nat
      BY <2>2, FS_Subset, FS_CardinalityType
    <3>2. /\ IsFiniteSet(threads_set \union New)
          /\ Cardinality(threads_set \union New)
               = Cardinality(threads_set) + Cardinality(New) - Cardinality(threads_set \intersect New)
      BY <2>2, Finite, FS_Union
    <3>3. Cardinality(threads_set) \in Nat
      BY Finite
    <3> HIDE DEF New
    <3>5. Cardinality(threads_set \union New) \in Nat
      BY <3>2, FS_CardinalityType
    <3> QED
      BY <2>2, <3>1, <3>2, <3>3, <3>5
  <2>5. Cardinality(registry) <= Cardinality(threads_set \union New)
    BY <2>3, <2>4, FS_Subset
  <2> QED
    BY <2>1, <2>2, <2>4, <2>5, Finite, LimitsAssumption DEF Count, Limited, TypeOK
<1> QED
  BY Invariance, <1>1, PTL

\* With no call in progress, the limiter counts exactly the agents that are
\* open or that the manager removed by itself.
THEOREM OnlyArchivingLeaks == Spec => []LeakOnlyByArchive
<1>1. TypeOK /\ Control => LeakOnlyByArchive
  BY DEF Control, Tracked, OpenCounted, Archived, LeakOnlyByArchive, TypeOK
<1> QED
  BY Invariance, <1>1, PTL
=============================================================================
