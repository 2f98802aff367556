------------------------ MODULE UnifiedExec_proofs ------------------------
(* For any number of calls, ids and processes: a process has one end event at *)
(* most, its watcher is never left without a notification to come, only a     *)
(* clash of ids loses one, and the store keeps to its limit.                  *)
EXTENDS UnifiedExec, FiniteSetTheorems, WellFoundedInduction, TLAPS

\* The part of the type invariant that the proofs need.
Types ==
  /\ pc \in [Calls -> PCs]
  /\ proc \in [Calls -> {"none", "running", "exited", "killed"}]
  /\ token \in [Calls -> BOOLEAN]
  /\ stream \in [Calls -> {"off", "on", "over"}]
  /\ permit \in [Calls -> BOOLEAN]
  /\ watcher \in [Calls -> {"off", "exit", "drain", "over"}]
  /\ ended \in [Calls -> Nat]

\* The end is reported by the call, which then starts no watcher, or by the
\* watcher, which only a call that did not report starts.
Reports ==
  \A c \in Calls :
    /\ ended[c] <= 1
    /\ watcher[c] # "off" => pc[c] = "done"
    /\ watcher[c] \in {"exit", "drain"} => ended[c] = 0
    /\ pc[c] \in {"idle", "approve", "collect", "store", "warn", "poll"} => ended[c] = 0

\* The streaming task runs before the watcher does and leaves a permit that
\* only the watcher takes.
Drains ==
  \A c \in Calls :
    /\ pc[c] \in {"collect", "store", "warn"} \/ watcher[c] # "off"
         => stream[c] # "off" /\ proc[c] # "none"
    /\ stream[c] = "over" /\ watcher[c] # "over" => permit[c]

\* No process ends without its token.
Signals == \A c \in Calls : proc[c] \in {"exited", "killed"} => token[c]

IInv == Types /\ Reports /\ Drains /\ Signals

LEMMA InitIInv == Init => IInv
  BY DEF Init, IInv, Types, Reports, Drains, Signals, PCs

\* The steps of exec_command before the process is stored.
LEMMA StartKeepsIInv ==
  ASSUME IInv, NEW c \in Calls,
         \/ \E i \in Ids : Allocate(c, i)
         \/ PatchFails(c) \/ Refuse(c) \/ Spawn(c) \/ ReportShort(c) \/ KeepLong(c)
  PROVE  IInv'
<1> USE DEF IInv, Types, Reports, Drains, Signals, PCs, Goto, procVars
<1>1. CASE \E i \in Ids : Allocate(c, i)
  BY <1>1 DEF Allocate
<1>2. CASE PatchFails(c)
  BY <1>2 DEF PatchFails
<1>3. CASE Refuse(c)
  BY <1>3 DEF Refuse
<1>4. CASE Spawn(c)
  BY <1>4 DEF Spawn
<1>5. CASE ReportShort(c)
  BY <1>5 DEF ReportShort
<1>6. CASE KeepLong(c)
  BY <1>6 DEF KeepLong
<1> QED
  BY <1>1, <1>2, <1>3, <1>4, <1>5, <1>6

\* Terminating processes, with nothing else of them changed.
LEMMA TerminateKeeps ==
  ASSUME IInv, NEW S, Terminate(S)
  PROVE  /\ proc' \in [Calls -> {"none", "running", "exited", "killed"}]
         /\ token' \in [Calls -> BOOLEAN]
         /\ Signals'
         /\ \A c \in Calls : proc[c] # "none" => proc'[c] # "none"
  BY DEF IInv, Types, Signals, Terminate

\* The steps that terminate processes: storing, releasing, dropping, closing.
LEMMA TerminateKeepsIInv ==
  ASSUME IInv,
         \/ Close
         \/ \E c \in Calls : StoreProcess(c) \/ Release(c) \/ Dropped(c)
  PROVE  IInv'
<1>1. CASE Close
  <2>1. Terminate(StoredProcs) /\ UNCHANGED <<pc, stream, permit, watcher, ended>>
    BY <1>1 DEF Close, callVars
  <2> QED
    BY <2>1, TerminateKeeps DEF IInv, Types, Reports, Drains
<1>2. ASSUME NEW c \in Calls, StoreProcess(c)  PROVE IInv'
  <2>1. /\ Terminate(Pruned \union OnlyStored(id[c]))
        /\ pc[c] = "store"
        /\ UNCHANGED <<stream, permit, ended>>
    BY <1>2 DEF StoreProcess
  <2>2. CASE pc' = [pc EXCEPT ![c] = "warn"] /\ UNCHANGED watcher
    BY <2>1, <2>2, TerminateKeeps DEF IInv, Types, Reports, Drains, PCs
  <2>3. CASE pc' = [pc EXCEPT ![c] = "done"] /\ watcher' = [watcher EXCEPT ![c] = "exit"]
    BY <2>1, <2>3, TerminateKeeps DEF IInv, Types, Reports, Drains, PCs
  <2> QED
    BY <1>2, <2>2, <2>3 DEF StoreProcess, Goto, Watch
<1>3. ASSUME NEW c \in Calls, Release(c)  PROVE IInv'
  <2>1. /\ Terminate({c} \union OnlyStored(id[c]))
        /\ pc[c] = "release" /\ pc' = [pc EXCEPT ![c] = "done"]
        /\ UNCHANGED <<stream, permit, watcher, ended>>
    BY <1>3 DEF Release, Goto
  <2> QED
    BY <2>1, TerminateKeeps DEF IInv, Types, Reports, Drains, PCs
<1>4. ASSUME NEW c \in Calls, Dropped(c)  PROVE IInv'
  <2>1. /\ Terminate({c} \ StoredProcs)
        /\ pc[c] \notin {"idle", "done", "dropped"} /\ pc' = [pc EXCEPT ![c] = "dropped"]
        /\ UNCHANGED <<stream, permit, watcher, ended>>
    BY <1>4 DEF Dropped, InFlight
  <2> QED
    BY <2>1, TerminateKeeps DEF IInv, Types, Reports, Drains, PCs
<1> QED
  BY <1>1, <1>2, <1>3, <1>4

\* Polling, the turn's abort, and the background tasks.
LEMMA OthersKeepIInv ==
  ASSUME IInv,
         \/ Tell
         \/ \E c \in Calls : \/ Warned(c) \/ WriteStep(c) \/ Exit(c) \/ Background(c)
  PROVE  IInv'
<1> USE DEF IInv, Types, Reports, Drains, Signals, PCs, Goto, procVars, callVars
<1>1. CASE Tell
  BY <1>1 DEF Tell
<1>2. ASSUME NEW c \in Calls, Warned(c)  PROVE IInv'
  BY <1>2 DEF Warned, Watch
<1>3. ASSUME NEW c \in Calls, NEW i \in Ids, Poll(c, i)  PROVE IInv'
  BY <1>3 DEF Poll
<1>4. ASSUME NEW c \in Calls, Polled(c)  PROVE IInv'
  BY <1>4 DEF Polled
<1>5. ASSUME NEW c \in Calls, Exit(c)  PROVE IInv'
  BY <1>5 DEF Exit
<1>6. ASSUME NEW c \in Calls, StreamOver(c)  PROVE IInv'
  BY <1>6 DEF StreamOver
<1>7. ASSUME NEW c \in Calls, WatchExit(c)  PROVE IInv'
  BY <1>7 DEF WatchExit
<1>8. ASSUME NEW c \in Calls, WatchReport(c)  PROVE IInv'
  BY <1>8 DEF WatchReport
<1> QED
  BY <1>1, <1>2, <1>3, <1>4, <1>5, <1>6, <1>7, <1>8 DEF WriteStep, Background

LEMMA NextIInv == IInv /\ [Next]_vars => IInv'
<1> SUFFICES ASSUME IInv, [Next]_vars  PROVE IInv'
  OBVIOUS
<1>1. CASE Next
  BY <1>1, StartKeepsIInv, TerminateKeepsIInv, OthersKeepIInv DEF Next, ExecStep
<1>2. CASE UNCHANGED vars
  BY <1>2 DEF vars, callVars, procVars, IInv, Types, Reports, Drains, Signals
<1> QED
  BY <1>1, <1>2

LEMMA Inductive == Spec => []IInv
  BY InitIInv, NextIInv, PTL DEF Spec

\* ExecCommandEnd is emitted at most once for each process.
THEOREM OneEndEach == Spec => []OneEnd
<1>1. IInv => OneEnd
  BY DEF IInv, Reports, OneEnd
<1> QED
  BY <1>1, Inductive, PTL

\* No watcher waits for a notification that was lost.
THEOREM WatchersAreServed == Spec => []WatcherIsServed
<1>1. IInv => WatcherIsServed
  BY DEF IInv, Types, Drains, Signals, WatcherIsServed
<1> QED
  BY <1>1, Inductive, PTL
----------------------------------------------------------------------------
(* Which processes are lost *)

\* A call keeps its id from the allocation on; a poll has one for a while.
Named ==
  /\ pc \in [Calls -> PCs]
  /\ id \in [Calls -> Ids \union {None}]
  /\ \A c \in Calls :
       /\ pc[c] = "idle" => id[c] = None
       /\ pc[c] \in {"approve", "collect", "store", "warn", "release"} => id[c] \in Ids

\* A process is stored under the id of its call, once the call has stored it.
Entries ==
  /\ store \in [Ids -> Calls \union {None}]
  /\ \A i \in Ids : store[i] # None =>
       id[store[i]] = i /\ pc[store[i]] \in {"warn", "done", "dropped"}

\* Another call was given c's id.
Clash(c) == \E d \in Calls \ {c} : pc[d] # "poll" /\ id[d] = id[c]

\* Every running process is within reach, or the victim of a clash.
Reached ==
  /\ proc \in [Calls -> {"none", "running", "exited", "killed"}]
  /\ \A c \in Calls : proc[c] = "running" =>
       /\ id[c] \in Ids /\ pc[c] \notin {"idle", "approve", "poll"}
       /\ Held(c) \/ Clash(c)

LInv == Named /\ Entries /\ Reached

LEMMA InitLInv == Init => LInv
  BY NoneAssumption DEF Init, LInv, Named, Entries, Reached, PCs

\* A call keeps the id it was given.
LEMMA IdStays ==
  ASSUME LInv, [Next]_vars, NEW d \in Calls, id[d] \in Ids, pc[d] # "poll"
  PROVE  id'[d] = id[d] /\ pc'[d] # "poll"
<1>1. CASE UNCHANGED vars
  BY <1>1 DEF vars, callVars
<1>2. ASSUME NEW e \in Calls, NEW i \in Ids, Allocate(e, i) \/ Poll(e, i)
      PROVE  id'[d] = id[d] /\ pc'[d] # "poll"
  BY <1>2, NoneAssumption DEF LInv, Named, Allocate, Poll, Goto
<1>3. ASSUME NEW e \in Calls, Polled(e) \/ Dropped(e)
      PROVE  id'[d] = id[d] /\ pc'[d] # "poll"
  BY <1>3 DEF LInv, Named, Polled, Dropped, Goto
<1>4. ASSUME NEW e \in Calls,
             \/ PatchFails(e) \/ Refuse(e) \/ Spawn(e) \/ ReportShort(e)
             \/ KeepLong(e) \/ Warned(e) \/ Release(e)
      PROVE  id'[d] = id[d] /\ pc'[d] # "poll"
  BY <1>4
  DEF LInv, Named, Goto, PatchFails, Refuse, Spawn, ReportShort, KeepLong, Warned, Release
<1>5. ASSUME NEW e \in Calls, StoreProcess(e)
      PROVE  id'[d] = id[d] /\ pc'[d] # "poll"
  <2>1. id' = id /\ (pc' = [pc EXCEPT ![e] = "warn"] \/ pc' = [pc EXCEPT ![e] = "done"])
    BY <1>5 DEF StoreProcess, Goto
  <2> QED
    BY <2>1 DEF LInv, Named
<1>6. CASE Tell \/ Close \/ \E e \in Calls : Exit(e) \/ Background(e)
  BY <1>6
  DEF Tell, Close, Exit, Background, StreamOver, WatchExit, WatchReport, callVars
<1> QED
  BY <1>1, <1>2, <1>3, <1>4, <1>5, <1>6 DEF Next, ExecStep, WriteStep

\* Once a call has the id of another, both keep it.
LEMMA ClashStays ==
  ASSUME LInv, [Next]_vars, NEW c \in Calls, id[c] \in Ids, pc[c] # "poll", Clash(c)
  PROVE  Clash(c)'
  BY IdStays DEF Clash

\* The names of calls and the entries of the store.
LEMMA NamedStep == LInv /\ [Next]_vars => Named'
<1> SUFFICES ASSUME LInv, [Next]_vars  PROVE Named'
  OBVIOUS
<1> USE DEF LInv, Named, PCs, Goto
<1>1. ASSUME NEW e \in Calls, NEW i \in Ids, Allocate(e, i) \/ Poll(e, i)  PROVE Named'
  BY <1>1 DEF Allocate, Poll
<1>2. ASSUME NEW e \in Calls, Polled(e)  PROVE Named'
  BY <1>2 DEF Polled
<1>3. ASSUME NEW e \in Calls, Dropped(e)  PROVE Named'
  BY <1>3 DEF Dropped
<1>4. ASSUME NEW e \in Calls,
             \/ PatchFails(e) \/ Refuse(e) \/ Spawn(e) \/ ReportShort(e)
             \/ KeepLong(e) \/ Warned(e) \/ Release(e)
      PROVE  Named'
  BY <1>4 DEF PatchFails, Refuse, Spawn, ReportShort, KeepLong, Warned, Release
<1>5. ASSUME NEW e \in Calls, StoreProcess(e)  PROVE Named'
  <2>1. /\ id' = id /\ pc[e] = "store"
        /\ pc' = [pc EXCEPT ![e] = "warn"] \/ pc' = [pc EXCEPT ![e] = "done"]
    BY <1>5 DEF StoreProcess
  <2> QED
    BY <2>1
<1>6. CASE Tell \/ Close \/ \E e \in Calls : Exit(e) \/ Background(e)
  BY <1>6 DEF Tell, Close, Exit, Background, StreamOver, WatchExit, WatchReport, callVars
<1>7. CASE UNCHANGED vars
  BY <1>7 DEF vars, callVars
<1> QED
  BY <1>1, <1>2, <1>3, <1>4, <1>5, <1>6, <1>7 DEF Next, ExecStep, WriteStep

LEMMA EntriesStep == LInv /\ [Next]_vars => Entries'
<1> SUFFICES ASSUME LInv, [Next]_vars  PROVE Entries'
  OBVIOUS
<1> USE NoneAssumption DEF LInv, Named, Entries, PCs, Goto
<1>1. ASSUME NEW e \in Calls, NEW i \in Ids, Allocate(e, i) \/ Poll(e, i)  PROVE Entries'
  BY <1>1 DEF Allocate, Poll
<1>2. ASSUME NEW e \in Calls, Polled(e)  PROVE Entries'
  BY <1>2 DEF Polled, RemoveId
<1>3. ASSUME NEW e \in Calls, Dropped(e)  PROVE Entries'
  BY <1>3 DEF Dropped, storeVars
<1>4. ASSUME NEW e \in Calls,
             \/ PatchFails(e) \/ Refuse(e) \/ Spawn(e) \/ ReportShort(e)
             \/ KeepLong(e) \/ Warned(e)
      PROVE  Entries'
  BY <1>4 DEF PatchFails, Refuse, Spawn, ReportShort, KeepLong, Warned, storeVars
<1>5. ASSUME NEW e \in Calls, Release(e)  PROVE Entries'
  BY <1>5 DEF Release, RemoveId
<1>6. ASSUME NEW e \in Calls, StoreProcess(e)  PROVE Entries'
  <2>1. /\ id' = id /\ pc[e] = "store"
        /\ store' = [i \in Ids |-> IF i = id[e] THEN e
                                   ELSE IF store[i] \in Pruned THEN None ELSE store[i]]
        /\ pc' = [pc EXCEPT ![e] = "warn"] \/ pc' = [pc EXCEPT ![e] = "done"]
    BY <1>6 DEF StoreProcess
  <2> QED
    BY <2>1
<1>7. CASE Close
  BY <1>7 DEF Close, callVars
<1>9. CASE Tell \/ \E e \in Calls : Exit(e) \/ Background(e)
  BY <1>9
  DEF Tell, Exit, Background, StreamOver, WatchExit, WatchReport, callVars, storeVars
<1>8. CASE UNCHANGED vars
  BY <1>8 DEF vars, callVars, storeVars
<1> QED
  BY <1>1, <1>2, <1>3, <1>4, <1>5, <1>6, <1>7, <1>8, <1>9 DEF Next, ExecStep, WriteStep

\* Processes are started by Spawn alone, and Terminate ends its own.
LEMMA TerminateSpares ==
  ASSUME LInv, NEW S, Terminate(S)
  PROVE  /\ proc' \in [Calls -> {"none", "running", "exited", "killed"}]
         /\ \A c \in Calls : proc'[c] = "running" => proc[c] = "running" /\ c \notin S
  BY DEF LInv, Reached, Terminate

\* A process that is held and runs on stays held, or its entry is taken by a
\* call with the same id.
LEMMA HeldStays ==
  ASSUME LInv, [Next]_vars, NEW c \in Calls, proc'[c] = "running", proc[c] = "running",
         Held(c)
  PROVE  Held(c)' \/ Clash(c)'
<1> USE NoneAssumption DEF LInv, Named, Entries, Reached, Held, StoredProcs, StoredIds, Goto
<1>1. ASSUME NEW e \in Calls, NEW i \in Ids, Allocate(e, i) \/ Poll(e, i)
      PROVE  Held(c)'
  BY <1>1 DEF Allocate, Poll
<1>2. ASSUME NEW e \in Calls, Polled(e)  PROVE Held(c)'
  BY <1>2 DEF Polled, RemoveId, procVars
<1>3. ASSUME NEW e \in Calls, Dropped(e)  PROVE Held(c)'
  <2>1. /\ pc' = [pc EXCEPT ![e] = "dropped"] /\ store' = store
        /\ Terminate({e} \ StoredProcs)
    BY <1>3 DEF Dropped, storeVars
  <2>2. c # e \/ c \in StoredProcs
    BY <2>1, TerminateSpares
  <2> QED
    BY <2>1, <2>2
<1>4. ASSUME NEW e \in Calls,
             \/ PatchFails(e) \/ Refuse(e) \/ Spawn(e) \/ ReportShort(e)
             \/ KeepLong(e) \/ Warned(e)
      PROVE  Held(c)'
  BY <1>4
  DEF PatchFails, Refuse, Spawn, ReportShort, KeepLong, Warned, storeVars, procVars
<1>5. ASSUME NEW e \in Calls, Release(e)  PROVE Held(c)' \/ Clash(c)'
  <2>1. /\ pc[e] = "release" /\ pc' = [pc EXCEPT ![e] = "done"] /\ id' = id
        /\ store' = [store EXCEPT ![id[e]] = None]
        /\ Terminate({e} \union OnlyStored(id[e]))
    BY <1>5 DEF Release, RemoveId
  <2>2. c # e
    BY <2>1, TerminateSpares
  <2>3. CASE id[c] = id[e]
    BY <2>1, <2>2, <2>3 DEF Clash
  <2>4. CASE id[c] # id[e]
    BY <2>1, <2>2, <2>4
  <2> QED
    BY <2>3, <2>4
<1>6. ASSUME NEW e \in Calls, StoreProcess(e)  PROVE Held(c)' \/ Clash(c)'
  <2>1. /\ id' = id /\ pc[e] = "store"
        /\ store' = [i \in Ids |-> IF i = id[e] THEN e
                                   ELSE IF store[i] \in Pruned THEN None ELSE store[i]]
        /\ pc' = [pc EXCEPT ![e] = "warn"] \/ pc' = [pc EXCEPT ![e] = "done"]
        /\ Terminate(Pruned \union OnlyStored(id[e]))
    BY <1>6 DEF StoreProcess
  <2>2. c \notin Pruned
    BY <2>1, TerminateSpares
  <2>3. CASE c = e
    <3>1. id[e] \in Ids /\ store'[id[e]] = e /\ e # None
      BY <2>1
    <3> QED
      BY <2>3, <3>1
  <2>4. CASE c # e /\ id[c] = id[e]
    BY <2>1, <2>4 DEF Clash
  <2>5. CASE c # e /\ id[c] # id[e]
    <3>1. CASE pc[c] \in {"collect", "store", "release"}
      BY <2>1, <2>5, <3>1
    <3>2. CASE c \in StoredProcs
      <4>1. PICK i \in Ids : store[i] = c
        BY <3>2
      <4>2. store'[i] = c
        BY <2>1, <2>2, <2>5, <4>1
      <4> QED
        BY <4>2
    <3> QED
      BY <3>1, <3>2
  <2> QED
    BY <2>3, <2>4, <2>5
<1>7. CASE Close
  <2>1. Terminate(StoredProcs) /\ UNCHANGED pc
    BY <1>7 DEF Close, callVars
  <2>2. c \notin StoredProcs
    BY <2>1, TerminateSpares
  <2> QED
    BY <2>1, <2>2
<1>8. CASE \/ UNCHANGED vars
           \/ Tell
           \/ \E e \in Calls : Exit(e) \/ Background(e)
  BY <1>8
  DEF Tell, Exit, Background, StreamOver, WatchExit, WatchReport, vars, callVars, storeVars
<1> QED
  BY <1>1, <1>2, <1>3, <1>4, <1>5, <1>6, <1>7, <1>8 DEF Next, ExecStep, WriteStep

\* Only Spawn makes a process run; the call of a running process goes on or ends.
LEMMA RunStep ==
  ASSUME LInv, [Next]_vars
  PROVE  /\ proc' \in [Calls -> {"none", "running", "exited", "killed"}]
         /\ \A c \in Calls : proc'[c] = "running" =>
              \/ proc[c] = "running" /\ pc'[c] \notin {"idle", "approve", "poll"}
              \/ pc'[c] = "collect" /\ id'[c] \in Ids
<1> DEFINE Good ==
      /\ proc' \in [Calls -> {"none", "running", "exited", "killed"}]
      /\ \A c \in Calls : proc'[c] = "running" =>
           \/ proc[c] = "running" /\ pc'[c] \notin {"idle", "approve", "poll"}
           \/ pc'[c] = "collect" /\ id'[c] \in Ids
<1> USE DEF LInv, Named, Reached, Goto
<1>1. ASSUME NEW e \in Calls, NEW i \in Ids, Allocate(e, i) \/ Poll(e, i)  PROVE Good
  BY <1>1 DEF Allocate, Poll, procVars
<1>2. ASSUME NEW e \in Calls, Polled(e)  PROVE Good
  BY <1>2 DEF Polled, procVars
<1>3. ASSUME NEW e \in Calls, Dropped(e)  PROVE Good
  BY <1>3, TerminateSpares DEF Dropped
<1>4. ASSUME NEW e \in Calls,
             \/ PatchFails(e) \/ Refuse(e) \/ Spawn(e) \/ ReportShort(e)
             \/ KeepLong(e) \/ Warned(e)
      PROVE  Good
  BY <1>4 DEF PatchFails, Refuse, Spawn, ReportShort, KeepLong, Warned, procVars
<1>5. ASSUME NEW e \in Calls, Release(e)  PROVE Good
  BY <1>5, TerminateSpares DEF Release
<1>6. ASSUME NEW e \in Calls, StoreProcess(e)  PROVE Good
  <2>1. /\ Terminate(Pruned \union OnlyStored(id[e]))
        /\ pc' = [pc EXCEPT ![e] = "warn"] \/ pc' = [pc EXCEPT ![e] = "done"]
    BY <1>6 DEF StoreProcess
  <2> QED
    BY <2>1, TerminateSpares
<1>7. CASE Close
  BY <1>7, TerminateSpares DEF Close, callVars
<1>8. CASE UNCHANGED vars \/ Tell \/ \E e \in Calls : Exit(e) \/ Background(e)
  BY <1>8
  DEF Tell, Exit, Background, StreamOver, WatchExit, WatchReport, vars, callVars, procVars
<1> QED
  BY <1>1, <1>2, <1>3, <1>4, <1>5, <1>6, <1>7, <1>8 DEF Next, ExecStep, WriteStep

LEMMA ReachedStep == LInv /\ [Next]_vars => Reached'
<1> SUFFICES ASSUME LInv, [Next]_vars, NEW c \in Calls, proc'[c] = "running"
    PROVE  /\ id'[c] \in Ids /\ pc'[c] \notin {"idle", "approve", "poll"}
           /\ Held(c)' \/ Clash(c)'
  BY RunStep DEF Reached
<1>1. CASE proc[c] = "running"
  <2>1. /\ id[c] \in Ids /\ pc[c] \notin {"idle", "approve", "poll"}
        /\ Held(c) \/ Clash(c)
    BY <1>1 DEF LInv, Reached
  <2>2. id'[c] = id[c]
    BY <2>1, IdStays
  <2>3. CASE Held(c)
    BY <1>1, <2>1, <2>2, <2>3, HeldStays, RunStep
  <2>4. CASE Clash(c)
    BY <1>1, <2>1, <2>2, <2>4, ClashStays, RunStep
  <2> QED
    BY <2>1, <2>3, <2>4
<1>2. CASE proc[c] # "running"
  BY <1>2, RunStep DEF Held
<1> QED
  BY <1>1, <1>2

LEMMA ReachInductive == Spec => []LInv
<1>1. LInv /\ [Next]_vars => LInv'
  BY NamedStep, EntriesStep, ReachedStep DEF LInv
<1> QED
  BY <1>1, InitLInv, PTL DEF Spec

\* A running process is out of reach only if two calls were given its id.
THEOREM OnlyAClashLoses == Spec => []LostOnlyByClash
<1>1. LInv => LostOnlyByClash
  BY DEF LInv, Reached, Clash, LostOnlyByClash
<1> QED
  BY <1>1, ReachInductive, PTL
----------------------------------------------------------------------------
(* The limit of the store *)

\* The remaining variables have their types.
Rest ==
  /\ reserved \subseteq Ids
  /\ closing \in BOOLEAN
  /\ current \in Calls \union {None}

\* Started processes are ordered by their last use; the others have no place.
Order ==
  /\ newer \in [Calls -> SUBSET Calls]
  /\ \A c, d \in Calls : d \in newer[c] => c # d /\ proc[c] # "none" /\ proc[d] # "none"
  /\ \A c, d \in Calls : c # d /\ proc[c] # "none" /\ proc[d] # "none"
                           => d \in newer[c] \/ c \in newer[d]
  /\ \A c, d, e \in Calls : d \in newer[c] /\ e \in newer[d] => e \in newer[c]

\* Only processes that were started are stored, and few of them.
Few ==
  /\ \A i \in Ids : store[i] # None => proc[store[i]] # "none"
  /\ IsFiniteSet(StoredIds)
  /\ StoreBounded

\* The invariant of the order of use.
BInv == IInv /\ LInv /\ Rest /\ Order

\* Steps keep the types of the remaining variables.
LEMMA RestStep == BInv /\ [Next]_vars => Rest'
<1> SUFFICES ASSUME BInv, [Next]_vars  PROVE Rest'
  OBVIOUS
<1> USE DEF BInv, Rest, LInv, Named, Goto, Start, Over
<1>1. ASSUME NEW e \in Calls, NEW i \in Ids, Allocate(e, i) \/ Poll(e, i)  PROVE Rest'
  BY <1>1 DEF Allocate, Poll
<1>2. ASSUME NEW e \in Calls, Polled(e) \/ Dropped(e) \/ Release(e)  PROVE Rest'
  BY <1>2 DEF Polled, RemoveId, Dropped, Release, storeVars
<1>3. ASSUME NEW e \in Calls,
             \/ PatchFails(e) \/ Refuse(e) \/ Spawn(e) \/ ReportShort(e)
             \/ KeepLong(e) \/ Warned(e)
      PROVE  Rest'
  BY <1>3 DEF PatchFails, Refuse, Spawn, ReportShort, KeepLong, Warned, storeVars
<1>4. ASSUME NEW e \in Calls, StoreProcess(e)  PROVE Rest'
  BY <1>4 DEF StoreProcess
<1>5. CASE Tell \/ Close \/ \E e \in Calls : Exit(e) \/ Background(e)
  BY <1>5
  DEF Tell, Close, Exit, Background, StreamOver, WatchExit, WatchReport, callVars, storeVars
<1>6. CASE UNCHANGED vars
  BY <1>6 DEF vars, callVars, storeVars
<1> QED
  BY <1>1, <1>2, <1>3, <1>4, <1>5, <1>6 DEF Next, ExecStep, WriteStep

\* A use of a started process, or of one that starts, keeps the order.
LEMMA TouchOrders ==
  ASSUME Order, NEW x \in Calls, Touch(x), 
         \A c \in Calls : proc'[c] # "none" <=> proc[c] # "none" \/ c = x
  PROVE  Order'
BY DEF Order, Touch

\* Every step keeps the order: no process goes back to "none".
LEMMA OrderStep == BInv /\ Few /\ [Next]_vars => Order'
<1> SUFFICES ASSUME BInv, Few, [Next]_vars  PROVE Order'
  OBVIOUS
<1>0. ASSUME UNCHANGED newer, 
             \A c \in Calls : proc'[c] # "none" <=> proc[c] # "none"
      PROVE  Order'
  BY <1>0 DEF BInv, Order
<1>1. ASSUME NEW S, Terminate(S), UNCHANGED newer  PROVE Order'
  <2>1. \A c \in Calls : proc'[c] # "none" <=> proc[c] # "none"
    BY <1>1 DEF Terminate
  <2> QED BY <1>0, <1>1, <2>1
<1>2. ASSUME NEW e \in Calls, Spawn(e)  PROVE Order'
  <2>1. \A c \in Calls : proc'[c] # "none" <=> proc[c] # "none" \/ c = e
    BY <1>2 DEF Spawn, BInv, IInv, Types
  <2> QED BY <1>2, <2>1, TouchOrders DEF Spawn, BInv
<1>3. ASSUME NEW e \in Calls, NEW i \in Ids, Poll(e, i)  PROVE Order'
  <2>1. store[i] \in Calls /\ proc[store[i]] # "none"
    BY <1>3 DEF Poll, BInv, LInv, Entries, Few
  <2> QED BY <1>3, <2>1, TouchOrders DEF Poll, procVars, BInv
<1>4. ASSUME NEW e \in Calls, StoreProcess(e) \/ Release(e) \/ Dropped(e)  PROVE Order'
  BY <1>1, <1>4 DEF StoreProcess, Release, Dropped, storeVars
<1>5. CASE Close
  BY <1>1, <1>5 DEF Close
<1>6. ASSUME NEW e \in Calls, Exit(e)  PROVE Order'
  <2>1. \A c \in Calls : proc'[c] # "none" <=> proc[c] # "none"
    BY <1>6 DEF Exit, BInv, IInv, Types
  <2> QED BY <1>0, <1>6, <2>1 DEF Exit, storeVars
<1>7. CASE \/ UNCHANGED vars \/ Tell
           \/ \E e \in Calls :
                \/ \E i \in Ids : Allocate(e, i)
                \/ Polled(e) \/ PatchFails(e) \/ Refuse(e) \/ ReportShort(e)
                \/ KeepLong(e) \/ Warned(e) \/ Background(e)
  <2>1. UNCHANGED <<newer, proc>>
    BY <1>7 DEF vars, storeVars, procVars, Tell, Allocate, Polled, PatchFails, Refuse,
       ReportShort, KeepLong, Warned, Background, StreamOver, WatchExit, WatchReport
  <2> QED BY <1>0, <2>1
<1> QED
  BY <1>2, <1>3, <1>4, <1>5, <1>6, <1>7 DEF Next, ExecStep, WriteStep

\* Of finitely many started processes one was used before all others.
LEMMA LeastUsed ==
  ASSUME Order, NEW T, T \subseteq Calls, IsFiniteSet(T), T # {},
         \A c \in T : proc[c] # "none"
  PROVE  \E c \in T : T \ {c} \subseteq newer[c]
<1> DEFINE Before(c) == T \ newer[c]
           Befores == {Before(c) : c \in T}
<1>1. IsWellFoundedOn(StrictSubsetOrdering(T), FiniteSubsetsOf(T))
  BY FS_StrictSubsetOrderingWellFounded
<1>2. FiniteSubsetsOf(T) = SUBSET T
  BY FS_FiniteSubsetsOfFinite
<1>3. Befores \subseteq SUBSET T /\ Befores # {}
  OBVIOUS
<1>4. PICK b \in Befores : \A a \in Befores : <<a, b>> \notin StrictSubsetOrdering(T)
  <2> HIDE DEF Befores
  <2>1. IsWellFoundedOn(StrictSubsetOrdering(T), SUBSET T)
    BY <1>1, <1>2
  <2> QED BY <1>3, <2>1, WFMin
<1>5. PICK c \in T : b = Before(c)
  BY <1>4
<1>6. ASSUME NEW d \in T, d # c, d \notin newer[c]  PROVE FALSE
  <2>1. c \in newer[d]
    BY <1>6 DEF Order
  <2>2. newer[c] \subseteq newer[d] /\ c \notin newer[c]
    BY <2>1 DEF Order
  <2>3. Before(d) \subseteq Before(c) /\ Before(d) # Before(c)
    BY <2>1, <2>2
  <2>4. <<Before(d), Before(c)>> \in StrictSubsetOrdering(T)
    BY <2>3 DEF StrictSubsetOrdering
  <2> QED BY <1>4, <1>5, <2>4
<1> QED BY <1>6

\* A full store has a process to prune.
LEMMA VictimExists ==
  ASSUME BInv, Few, Cardinality(StoredIds) = MaxProcesses
  PROVE  Victims # {} /\ Victims \subseteq StoredProcs
<1>1. /\ StoredProcs \subseteq Calls
      /\ \A c \in StoredProcs : proc[c] # "none"
      /\ \A i, j \in StoredIds : store[i] = store[j] => i = j
  BY DEF StoredProcs, StoredIds, BInv, LInv, Entries, Few
<1>2. IsFiniteSet(StoredProcs) /\ Cardinality(StoredProcs) = MaxProcesses
  <2> DEFINE f == [i \in StoredIds |-> store[i]]
  <2>1. f \in Bijection(StoredIds, StoredProcs)
    BY <1>1 DEF StoredProcs, Bijection, Injection, Surjection, IsInjective
  <2>2. ExistsBijection(StoredIds, StoredProcs)
    BY <2>1 DEF ExistsBijection
  <2> QED BY <2>2, FS_Bijection DEF Few
<1>3. StoredProcs # {}
  BY <1>2, FS_EmptySet, LimitAssumption
<1>4. ASSUME NEW T, T \subseteq StoredProcs, T # {}
      PROVE  \E c \in T : T \ {c} \subseteq UsedAfter(c)
  <2>1. IsFiniteSet(T)
    BY <1>2, <1>4, FS_Subset
  <2>2. PICK c \in T : T \ {c} \subseteq newer[c]
    BY <1>1, <1>4, <2>1, LeastUsed DEF BInv
  <2> QED BY <1>4, <2>2 DEF UsedAfter
<1>5. Prunable # {}
  <2>1. PICK c \in StoredProcs : StoredProcs \ {c} \subseteq UsedAfter(c)
    BY <1>3, <1>4
  <2>2. IsFiniteSet(UsedAfter(c))
    BY <1>2, FS_Subset DEF UsedAfter
  <2>3. Cardinality(StoredProcs \ {c}) = MaxProcesses - 1
    BY <1>2, FS_RemoveElement
  <2>4. Cardinality(StoredProcs \ {c}) <= Cardinality(UsedAfter(c))
    BY <2>1, <2>2, FS_Subset
  <2>5. Cardinality(UsedAfter(c)) >= Spared
    BY <2>2, <2>3, <2>4, FS_CardinalityType, LimitAssumption
  <2> QED BY <2>5 DEF Prunable
<1>6. Victims # {}
  <2> DEFINE exited == {c \in Prunable : proc[c] = "exited"}
             pool   == IF exited # {} THEN exited ELSE Prunable
  <2>1. pool \subseteq StoredProcs /\ pool # {}
    BY <1>5 DEF Prunable
  <2>2. Victims = {c \in pool : pool \ {c} \subseteq UsedAfter(c)}
    BY DEF Victims
  <2> HIDE DEF pool
  <2> QED BY <1>4, <2>1, <2>2
<1>7. Victims \subseteq StoredProcs
  BY DEF Victims, Prunable
<1> QED BY <1>6, <1>7

\* A store that loses an entry for each one it gains past the limit.
LEMMA StoreKeepsFew ==
  ASSUME BInv, Few, NEW c \in Calls, StoreProcess(c)
  PROVE  IsFiniteSet(StoredIds') /\ Cardinality(StoredIds') <= MaxProcesses
<1>1. /\ id[c] \in Ids /\ c # None
      /\ store' = [i \in Ids |-> IF i = id[c] THEN c
                                 ELSE IF store[i] \in Pruned THEN None ELSE store[i]]
  BY NoneAssumption DEF StoreProcess, Goto, BInv, LInv, Named
<1>2. StoredIds' \subseteq StoredIds \union {id[c]}
  BY <1>1 DEF StoredIds
<1>3. /\ IsFiniteSet(StoredIds) /\ Cardinality(StoredIds) \in Nat
      /\ Cardinality(StoredIds) <= MaxProcesses
  BY FS_CardinalityType DEF Few, StoreBounded
<1>4. CASE Cardinality(StoredIds) < MaxProcesses
  <2>1. /\ IsFiniteSet(StoredIds \union {id[c]})
        /\ Cardinality(StoredIds \union {id[c]}) <= Cardinality(StoredIds) + 1
    BY <1>3, FS_AddElement
  <2>2. /\ IsFiniteSet(StoredIds')
        /\ Cardinality(StoredIds') <= Cardinality(StoredIds \union {id[c]})
    BY <1>2, <2>1, FS_Subset
  <2> QED
    BY <1>3, <1>4, <2>1, <2>2, FS_CardinalityType, LimitAssumption
<1>5. CASE Cardinality(StoredIds) = MaxProcesses
  <2>1. PICK v \in Victims : v \in StoredProcs
    BY <1>5, VictimExists
  <2>2. PICK i \in StoredIds : store[i] = v
    BY <2>1 DEF StoredProcs
  <2>3. Pruned = Victims
    BY <1>5, LimitAssumption DEF Pruned
  <2>4. StoredIds' \subseteq (StoredIds \ {i}) \union {id[c]}
    BY <1>1, <2>1, <2>2, <2>3 DEF StoredIds
  <2>5. IsFiniteSet(StoredIds \ {i}) /\ Cardinality(StoredIds \ {i}) = MaxProcesses - 1
    BY <1>3, <1>5, <2>2, FS_RemoveElement
  <2>6. /\ IsFiniteSet((StoredIds \ {i}) \union {id[c]})
        /\ Cardinality((StoredIds \ {i}) \union {id[c]}) <= MaxProcesses
    BY <2>5, FS_AddElement, LimitAssumption
  <2>7. /\ IsFiniteSet(StoredIds')
        /\ Cardinality(StoredIds') <= Cardinality((StoredIds \ {i}) \union {id[c]})
    BY <2>4, <2>6, FS_Subset
  <2> QED
    BY <2>6, <2>7, FS_CardinalityType, LimitAssumption
<1> QED BY <1>3, <1>4, <1>5, LimitAssumption

\* Every step keeps the store within its limit.
LEMMA FewStep == BInv /\ Few /\ [Next]_vars => Few'
<1> SUFFICES ASSUME BInv, Few, [Next]_vars  PROVE Few'
  OBVIOUS
<1> DEFINE Started == \A i \in Ids : store[i] # None => proc[store[i]] # "none"
<1>0. Started /\ store \in [Ids -> Calls \union {None}]
  BY DEF Few, BInv, LInv, Entries
<1>1. \A c \in Calls : proc[c] # "none" => proc'[c] # "none"
  <2> USE DEF BInv, IInv, Types, Terminate
  <2>1. ASSUME NEW e \in Calls, 
               StoreProcess(e) \/ Release(e) \/ Dropped(e) \/ Spawn(e) \/ Exit(e)
        PROVE  \A c \in Calls : proc[c] # "none" => proc'[c] # "none"
    <3>1. CASE Spawn(e)
      BY <3>1 DEF Spawn
    <3>2. CASE Exit(e)
      BY <3>2 DEF Exit
    <3>3. CASE StoreProcess(e) \/ Release(e) \/ Dropped(e)
      <4>1. \E S : Terminate(S)
        BY <3>3 DEF StoreProcess, Release, Dropped
      <4> QED BY <4>1
    <3> QED BY <2>1, <3>1, <3>2, <3>3
  <2>2. CASE Close
    BY <2>2 DEF Close
  <2>3. CASE \/ UNCHANGED vars \/ Tell
             \/ \E e \in Calls :
                  \/ \E i \in Ids : Allocate(e, i)
                  \/ WriteStep(e) \/ PatchFails(e) \/ Refuse(e) \/ ReportShort(e)
                  \/ KeepLong(e) \/ Warned(e) \/ Background(e)
    <3>1. UNCHANGED proc
      BY <2>3 DEF vars, procVars, Tell, Allocate, WriteStep, Poll, Polled, PatchFails, Refuse,
         ReportShort, KeepLong, Warned, Background, StreamOver, WatchExit, WatchReport
    <3> QED BY <3>1
  <2> QED BY <2>1, <2>2, <2>3 DEF Next, ExecStep
<1>2. ASSUME \A i \in Ids : store'[i] = store[i] \/ store'[i] = None
      PROVE  Few'
  <2>1. Started'
    BY <1>0, <1>1, <1>2
  <2>2. StoredIds' \subseteq StoredIds
    BY <1>2 DEF StoredIds
  <2>3. IsFiniteSet(StoredIds') /\ Cardinality(StoredIds') <= Cardinality(StoredIds)
    BY <2>2, FS_Subset DEF Few
  <2>4. Cardinality(StoredIds') <= MaxProcesses
    BY <2>3, FS_CardinalityType, LimitAssumption DEF Few, StoreBounded
  <2> QED BY <2>1, <2>3, <2>4 DEF Few, StoreBounded
<1>3. ASSUME NEW c \in Calls, StoreProcess(c)  PROVE Few'
  <2>1. proc'[c] # "none"
    BY <1>1, <1>3 DEF StoreProcess, Goto, BInv, IInv, Drains
  <2>2. store' = [i \in Ids |-> IF i = id[c] THEN c
                                ELSE IF store[i] \in Pruned THEN None ELSE store[i]]
    BY <1>3 DEF StoreProcess
  <2>3. Started'
    BY <1>0, <1>1, <2>1, <2>2
  <2> QED BY <1>3, <2>3, StoreKeepsFew DEF Few, StoreBounded
<1>4. ASSUME NEW e \in Calls, Release(e) \/ Polled(e)  PROVE Few'
  <2>1. UNCHANGED store \/ \E i \in Ids \union {None} : store' = [store EXCEPT ![i] = None]
    BY <1>4 DEF Release, Polled, RemoveId, BInv, LInv, Named
  <2> QED BY <1>0, <1>2, <2>1
<1>5. CASE Close
  BY <1>2, <1>5 DEF Close
<1>6. CASE \/ UNCHANGED vars \/ Tell
           \/ \E e \in Calls :
                \/ \E i \in Ids : Allocate(e, i) \/ Poll(e, i)
                \/ PatchFails(e) \/ Refuse(e) \/ Spawn(e) \/ ReportShort(e)
                \/ KeepLong(e) \/ Warned(e) \/ Dropped(e) \/ Exit(e) \/ Background(e)
  <2>1. UNCHANGED store
    BY <1>6 DEF vars, storeVars, Tell, Allocate, Poll, PatchFails, Refuse, Spawn, ReportShort,
       KeepLong, Warned, Dropped, Exit, Background, StreamOver, WatchExit, WatchReport
  <2> QED BY <1>2, <2>1
<1> QED
  BY <1>3, <1>4, <1>5, <1>6 DEF Next, ExecStep, WriteStep

\* The invariant of the limit.
LEMMA LimitInductive == Spec => [](BInv /\ Few)
<1>1. Init => BInv /\ Few
  <2>1. Init => StoredIds = {}
    BY DEF Init, StoredIds
  <2>2. Init => Few
    BY <2>1, FS_EmptySet, LimitAssumption DEF Init, Few, StoreBounded
  <2>3. Init => Rest /\ Order
    BY DEF Init, Rest, Order
  <2> QED BY <2>2, <2>3, InitIInv, InitLInv DEF BInv
<1>2. BInv /\ Few /\ [Next]_vars => (BInv /\ Few)'
  BY NextIInv, NamedStep, EntriesStep, ReachedStep, RestStep, OrderStep, FewStep DEF BInv, LInv
<1> QED BY <1>1, <1>2, PTL DEF Spec

\* Every variable keeps to its type; the order of use is irreflexive.
THEOREM TypeCorrect == Spec => []TypeOK
<1>1. BInv => TypeOK
  BY DEF BInv, IInv, Types, LInv, Named, Entries, Rest, Order, TypeOK
<1> QED BY <1>1, LimitInductive, PTL

\* The store keeps to its limit: when it is full, pruning finds a process.
THEOREM StoreIsBounded == Spec => []StoreBounded
<1>1. Few => StoreBounded
  BY DEF Few
<1> QED BY <1>1, LimitInductive, PTL
=============================================================================
