------------------------------ MODULE Rollout ------------------------------
(* core/src/rollout/recorder.rs and the calls the session makes to it: one    *)
(* writer task owns the file of a thread, callers hand it commands through a  *)
(* bounded channel, and a later run of the program appends to the same file.  *)
(*                                                                            *)
(* Records are numbered in the order the channel takes them; 0 is the session *)
(* meta.  The file is the sequence of its records, with the bytes that are    *)
(* missing: a record may be cut, and the record after a missing newline is on *)
(* the line of the one before.                                                *)
EXTENDS Integers, Sequences, FiniteSets

CONSTANTS
  Callers,   \* tasks of the session that record, flush or shut down
  Capacity,  \* of the channel (256)
  MaxBatch,  \* bound: records of one AddItems
  MaxSent,   \* bound: no caller starts to record when so many were sent
  MaxRuns    \* bound: runs of the program on this file

ASSUME BoundAssumption ==
  /\ Capacity \in Nat \ {0} /\ MaxBatch \in Nat \ {0}
  /\ MaxSent \in Nat /\ MaxRuns \in Nat

VARIABLES
  file,      \* the records on the disk
  newline,   \* the file is empty or ends in a newline
  \* a run of the program
  runs,      \* runs so far
  up,        \* the run is alive
  recorder,  \* SessionServices::rollout is Some
  \* the writer task
  writer,    \* what it does
  batch,     \* records of its command still to write, as <<first, last>>
  chan,      \* the commands in the channel
  \* the callers
  pc,        \* where the caller is
  marker,    \* the record of the event it is to deliver
  \* history
  sent,      \* the last record taken by the channel
  base,      \* the last one taken in the runs before this one
  acked      \* records covered by an acknowledged flush or shutdown

diskVars == <<file, newline>>
runVars == <<runs, up, recorder, base>>
writerVars == <<writer, batch>>
callerVars == <<pc, marker>>
histVars == <<sent, acked>>
vars == <<diskVars, runVars, writerVars, chan, callerVars, histVars>>

Meta == 0
Unsent == -1   \* the marker of an event that was not recorded
NoEvent == -2  \* a flush without an event

Add(from, to) == [kind |-> "add", from |-> from, to |-> to]
Ask(kind, c) == [kind |-> kind, by |-> c, covers |-> sent]

PCs == {"idle", "record", "event", "flush", "shutdown", "wait", "answered"}

TypeOK ==
  /\ file \in Seq([item : Nat, cut : BOOLEAN, joined : BOOLEAN])
  /\ newline \in BOOLEAN
  /\ runs \in Nat /\ up \in BOOLEAN /\ recorder \in BOOLEAN
  /\ writer \in {"recv", "line", "json", "end", "gone"}
  /\ batch \in Nat \X Nat
  /\ chan \in Seq([kind : {"add"}, from : Nat, to : Nat] \union
                  [kind : {"flush", "shutdown"}, by : Callers, covers : Nat])
  /\ pc \in [Callers -> PCs]
  /\ marker \in [Callers -> Nat \union {Unsent, NoEvent}]
  /\ sent \in Nat /\ base \in Nat
  /\ acked \subseteq Nat

\* A new thread: the writer's first record is the session meta.
Init ==
  /\ file = <<>> /\ newline = TRUE
  /\ runs = 1 /\ up = TRUE /\ recorder = TRUE
  /\ writer = "line" /\ batch = <<Meta, Meta>> /\ chan = <<>>
  /\ pc = [c \in Callers |-> "idle"] /\ marker = [c \in Callers |-> NoEvent]
  /\ sent = 0 /\ base = 0 /\ acked = {}

-----------------------------------------------------------------------------
(* The file. *)

\* The lines load_rollout_items can parse hold one whole record.
Readable(i) ==
  /\ ~file[i].cut /\ ~file[i].joined
  /\ i < Len(file) => ~file[i + 1].joined

\* What load_rollout_items returns.
Loaded == {file[i].item : i \in {j \in DOMAIN file : Readable(j)}}

\* The records whose bytes are all there.
Stored == {file[i].item : i \in {j \in DOMAIN file : ~file[j].cut}}

-----------------------------------------------------------------------------
(* The session.  persist_rollout_items clones the recorder, then sends.       *)

Goto(c, from, to) == up /\ pc[c] = from /\ pc' = [pc EXCEPT ![c] = to]

\* A send waits for room.
Send(cmd) ==
  /\ writer # "gone" /\ Len(chan) < Capacity
  /\ chan' = Append(chan, cmd)

RecordItems(c) ==
  /\ recorder /\ sent < MaxSent /\ Goto(c, "idle", "record")
  /\ UNCHANGED <<diskVars, runVars, writerVars, chan, marker, histVars>>

SendItems(c) ==
  /\ Goto(c, "record", "idle")
  /\ \E n \in 1..MaxBatch : Send(Add(sent + 1, sent + n)) /\ sent' = sent + n
  /\ UNCHANGED <<diskVars, runVars, writerVars, marker, acked>>

\* An error is logged and the items are gone.
SendItemsFails(c) ==
  /\ writer = "gone" /\ Goto(c, "record", "idle")
  /\ UNCHANGED <<diskVars, runVars, writerVars, chan, marker, histVars>>

\* send_event_raw_flushed: the event is recorded and flushed, then delivered.
RecordEvent(c) ==
  /\ sent < MaxSent
  /\ Goto(c, "idle", IF recorder THEN "event" ELSE "flush")
  /\ marker' = [marker EXCEPT ![c] = Unsent]
  /\ UNCHANGED <<diskVars, runVars, writerVars, chan, histVars>>

SendEvent(c) ==
  /\ Goto(c, "event", "flush")
  /\ Send(Add(sent + 1, sent + 1)) /\ sent' = sent + 1
  /\ marker' = [marker EXCEPT ![c] = sent + 1]
  /\ UNCHANGED <<diskVars, runVars, writerVars, acked>>

SendEventFails(c) ==
  /\ writer = "gone" /\ Goto(c, "event", "flush")
  /\ UNCHANGED <<diskVars, runVars, writerVars, chan, marker, histVars>>

\* flush_rollout on its own.
FlushRollout(c) ==
  /\ Goto(c, "idle", "flush")
  /\ UNCHANGED <<diskVars, runVars, writerVars, chan, marker, histVars>>

\* Session shutdown takes the recorder, then tells the writer.
TakeRecorder(c) ==
  /\ recorder /\ Goto(c, "idle", "shutdown") /\ recorder' = FALSE
  /\ UNCHANGED <<diskVars, runs, up, base, writerVars, chan, marker, histVars>>

SendAsk(c) ==
  /\ pc[c] \in {"flush", "shutdown"} /\ Goto(c, pc[c], "wait")
  /\ Send(Ask(pc[c], c))
  /\ UNCHANGED <<diskVars, runVars, writerVars, marker, histVars>>

\* There is no recorder to ask, or its writer has gone.
NotAsked(c) ==
  /\ \/ ~recorder /\ Goto(c, "flush", "answered")
     \/ writer = "gone" /\ pc[c] \in {"flush", "shutdown"}
                        /\ Goto(c, pc[c], "answered")
  /\ UNCHANGED <<diskVars, runVars, writerVars, chan, marker, histVars>>

\* Whatever the answer was, the caller goes on and delivers its event.
Deliver(c) ==
  /\ Goto(c, "answered", "idle") /\ marker' = [marker EXCEPT ![c] = NoEvent]
  /\ UNCHANGED <<diskVars, runVars, writerVars, chan, histVars>>

-----------------------------------------------------------------------------
(* rollout_writer. *)

Answer(cs) == pc' = [c \in Callers |-> IF c \in cs THEN "answered" ELSE pc[c]]

\* Mutant: the callers of a writer that goes are forgotten.
WriterGoesSilently == writer' = "gone" /\ chan' = <<>> /\ UNCHANGED pc

\* The commands left in a channel that is dropped take their answers with them.
WriterGoes ==
  /\ writer' = "gone" /\ chan' = <<>>
  /\ Answer({c \in Callers : pc[c] = "wait"})

ReceiveItems ==
  /\ up /\ writer = "recv" /\ chan # <<>> /\ Head(chan).kind = "add"
  /\ batch' = <<Head(chan).from, Head(chan).to>>
  /\ writer' = "line" /\ chan' = Tail(chan)
  /\ UNCHANGED <<diskVars, runVars, callerVars, histVars>>

\* write_line: the bytes of the record, then its newline, reach the file.
BeginLine ==
  /\ up /\ writer = "line" /\ writer' = "json"
  /\ file' = Append(file, [item |-> batch[1], cut |-> TRUE, joined |-> ~newline])
  /\ newline' = FALSE
  /\ UNCHANGED <<batch, runVars, chan, callerVars, histVars>>

EndJson ==
  /\ up /\ writer = "json" /\ writer' = "end"
  /\ file' = [file EXCEPT ![Len(file)].cut = FALSE]
  /\ UNCHANGED <<newline, batch, runVars, chan, callerVars, histVars>>

\* Mutant: the newline is not written.
EndLineNoNewline ==
  /\ up /\ writer = "end" /\ newline' = FALSE
  /\ batch' = <<batch[1] + 1, batch[2]>>
  /\ writer' = IF batch[1] < batch[2] THEN "line" ELSE "recv"
  /\ UNCHANGED <<file, runVars, chan, callerVars, histVars>>

EndLine ==
  /\ up /\ writer = "end" /\ newline' = TRUE
  /\ batch' = <<batch[1] + 1, batch[2]>>
  /\ writer' = IF batch[1] < batch[2] THEN "line" ELSE "recv"
  /\ UNCHANGED <<file, runVars, chan, callerVars, histVars>>

\* A write error ends the task.
WriteFails ==
  /\ up /\ writer \in {"line", "json", "end"} /\ WriterGoes
  /\ UNCHANGED <<diskVars, batch, runVars, marker, histVars>>

\* Flush and Shutdown find what was sent before them written.
Acknowledged(cmd) ==
  acked' = acked \union {n \in 1..cmd.covers : n > base}

\* Mutant: a flush is acknowledged while a batch is being written.
AcknowledgeEarly ==
  /\ up /\ writer # "gone" /\ chan # <<>> /\ Head(chan).kind # "add"
  /\ chan' = Tail(chan) /\ Answer({Head(chan).by})
  /\ Acknowledged(Head(chan))
  /\ UNCHANGED <<diskVars, runVars, writerVars, marker, sent>>

Acknowledge ==
  /\ up /\ writer = "recv" /\ chan # <<>> /\ Head(chan).kind # "add"
  /\ chan' = Tail(chan) /\ Answer({Head(chan).by})
  /\ Acknowledged(Head(chan))
  /\ UNCHANGED <<diskVars, runVars, writerVars, marker, sent>>

\* A flush that fails is acknowledged as well, then the task ends.
FlushFails ==
  /\ up /\ writer = "recv" /\ chan # <<>> /\ Head(chan).kind = "flush"
  /\ WriterGoes /\ Acknowledged(Head(chan))
  /\ UNCHANGED <<diskVars, batch, runVars, marker, sent>>

\* The loop ends with the last sender.
WriterReturns ==
  /\ up /\ writer = "recv" /\ chan = <<>> /\ ~recorder
  /\ \A c \in Callers : pc[c] \in {"idle", "flush", "answered"}
  /\ WriterGoes
  /\ UNCHANGED <<diskVars, batch, runVars, marker, histVars>>

-----------------------------------------------------------------------------
(* The program. *)

\* The process ends at any point, a shutdown or not.
Exit ==
  /\ up /\ up' = FALSE /\ recorder' = FALSE /\ writer' = "gone" /\ chan' = <<>>
  /\ pc' = [c \in Callers |-> "idle"]
  /\ marker' = [c \in Callers |-> NoEvent]
  /\ UNCHANGED <<diskVars, runs, base, batch, histVars>>

\* get_rollout_history needs the meta for the thread id; RolloutRecorder::new
\* opens the file to append and writes no meta.
Resume ==
  /\ ~up /\ runs < MaxRuns /\ Meta \in Loaded
  /\ up' = TRUE /\ recorder' = TRUE /\ writer' = "recv"
  /\ runs' = runs + 1 /\ base' = sent
  /\ UNCHANGED <<diskVars, batch, chan, callerVars, histVars>>

WriterStep ==
  \/ ReceiveItems \/ BeginLine \/ EndJson \/ EndLine
  \/ Acknowledge \/ WriterReturns

CallerStep(c) ==
  \/ SendItems(c) \/ SendItemsFails(c) \/ SendEvent(c) \/ SendEventFails(c)
  \/ SendAsk(c) \/ NotAsked(c) \/ Deliver(c)

Next ==
  \/ \E c \in Callers :
       RecordItems(c) \/ RecordEvent(c) \/ FlushRollout(c) \/ TakeRecorder(c)
       \/ CallerStep(c)
  \/ WriterStep \/ WriteFails \/ FlushFails
  \/ Exit \/ Resume

\* The runtime runs the writer, and the channel serves its senders in turn.
Fairness == WF_vars(WriterStep) /\ \A c \in Callers : SF_vars(CallerStep(c))

Spec == Init /\ [][Next]_vars /\ Fairness

-----------------------------------------------------------------------------
(* Properties. *)

\* The rollout is a log that only grows: records reach the disk once each and
\* in the order they were sent, over all the runs that append to the file, and
\* every record that an acknowledged flush or shutdown covers is among them
\* (rollout_writer answers in the order of its channel; a write error ends it).
Log == INSTANCE DurableLog WITH stored <- Stored
AckedIsStored == Log!Spec

\* What a reader of the file can lose: at most one acknowledged record for
\* each restart, the first one a run wrote behind a line that the run before
\* left without its newline (load_rollout_items skips lines that do not parse).
OneLostPerRestart ==
  /\ \A i \in DOMAIN file :
       file[i].item \in acked => Readable(i) \/ file[i].joined
  /\ Cardinality({i \in DOMAIN file : file[i].joined}) < runs

\* Whoever waits for a flush or a shutdown has one command in the channel, whose
\* writer is alive: no write error, exit or last sender leaves a caller behind
\* or answers it twice.
Asks(c) == {k \in DOMAIN chan : chan[k].kind # "add" /\ chan[k].by = c}

WaitersAreInLine == \A c \in Callers :
  IF pc[c] = "wait"
    THEN up /\ writer # "gone" /\ \E k \in DOMAIN chan : Asks(c) = {k}
    ELSE Asks(c) = {}

\* A caller that asked for a flush or a shutdown is answered, if by an error:
\* also when the writer dies, and when the channel is full.
Served == \A c \in Callers :
  pc[c] \in {"record", "event", "flush", "shutdown", "wait"} ~> pc[c] \in {"answered", "idle"}
=============================================================================
