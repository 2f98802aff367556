-------------------------- MODULE Rollout_proofs --------------------------
(* For any number of callers, channel capacity, batches and runs: the rollout *)
(* implements the log that only grows.                                        *)
EXTENDS Rollout, FiniteSetTheorems, TLAPS

Line == [item : Nat, cut : BOOLEAN, joined : BOOLEAN]
AddCommand == [kind : {"add"}, from : Nat, to : Nat]
AskCommand == [kind : {"flush", "shutdown"}, by : Callers, covers : Nat]
Busy == writer \in {"line", "json", "end"}

IsAdd(k) == chan[k].kind = "add"

\* The commands in the channel are in the order of the records they carry or
\* cover, behind the command at hand.
ChanOrder ==
  /\ base <= sent
  /\ \A k \in DOMAIN chan : IF IsAdd(k)
       THEN base < chan[k].from /\ chan[k].from <= chan[k].to /\ chan[k].to <= sent
       ELSE chan[k].covers <= sent
  /\ \A j, k \in DOMAIN chan : j < k /\ IsAdd(k) =>
       IF IsAdd(j) THEN chan[j].to < chan[k].from ELSE chan[j].covers < chan[k].from
  /\ Busy =>
       /\ batch[1] <= batch[2] /\ batch[2] <= sent
       /\ \A k \in DOMAIN chan : IsAdd(k) => batch[2] < chan[k].from

\* The records of the file are in order, those to come are behind them.
FileOrder ==
  /\ \A i, j \in DOMAIN file : i < j => file[i].item < file[j].item
  /\ \A i \in DOMAIN file : file[i].item <= sent
  /\ \A i \in DOMAIN file, k \in DOMAIN chan : IsAdd(k) => file[i].item < chan[k].from
  /\ writer = "line" => \A i \in DOMAIN file : file[i].item < batch[1]
  /\ writer \in {"json", "end"} =>
       /\ file # <<>> /\ file[Len(file)].item = batch[1]
       /\ (file[Len(file)].cut <=> writer = "json")

\* While there is a writer, what the channel took in this run is stored, at
\* hand, or in the channel.
Complete == writer # "gone" => \A n \in Nat :
  base < n /\ n <= sent =>
    \/ n \in Stored
    \/ Busy /\ batch[1] <= n /\ n <= batch[2]
    \/ \E k \in DOMAIN chan : IsAdd(k) /\ chan[k].from <= n /\ n <= chan[k].to

IInv ==
  /\ TypeOK /\ ChanOrder /\ FileOrder /\ Complete
  /\ ~up => chan = <<>> /\ writer = "gone"
  /\ acked \subseteq Stored

LEMMA InitIInv == Init => IInv
<1> SUFFICES ASSUME Init PROVE IInv
  OBVIOUS
<1>1. TypeOK
  BY DEF Init, TypeOK, PCs, Meta
<1>2. ChanOrder /\ FileOrder
  BY DEF Init, ChanOrder, FileOrder, IsAdd, Busy, Meta
<1>3. Complete
  BY DEF Init, Complete
<1> QED
  BY <1>1, <1>2, <1>3 DEF Init, IInv

-----------------------------------------------------------------------------
(* What each step does to the file. *)

LEMMA SameFile == ASSUME file' = file PROVE Stored' = Stored
  BY DEF Stored

LEMMA BeginLineStores ==
  ASSUME IInv, BeginLine
  PROVE  /\ Stored' = Stored
         /\ file' \in Seq(Line) /\ Len(file') = Len(file) + 1
         /\ \A i \in DOMAIN file : file'[i] = file[i]
         /\ file'[Len(file')] = [item |-> batch[1], cut |-> TRUE, joined |-> ~newline]
         /\ file'[Len(file')].joined <=> ~newline
<1> DEFINE r == [item |-> batch[1], cut |-> TRUE, joined |-> ~newline]
<1>1. file \in Seq(Line) /\ r \in Line /\ file' = Append(file, r)
  BY DEF IInv, TypeOK, Line, BeginLine
<1> HIDE DEF r
<1>2. /\ file' \in Seq(Line) /\ Len(file') = Len(file) + 1
      /\ \A i \in DOMAIN file : file'[i] = file[i]
      /\ file'[Len(file')] = r
  BY <1>1
<1>3. DOMAIN file = 1..Len(file) /\ DOMAIN file' = 1..Len(file)+1 /\ Len(file) \in Nat
  BY <1>1, <1>2
<1>4. r.cut /\ (r.joined <=> ~newline)
  BY DEF r
<1>5. Stored' = Stored
  BY <1>2, <1>3, <1>4 DEF Stored
<1> QED
  BY <1>2, <1>4, <1>5 DEF r

LEMMA EndJsonStores ==
  ASSUME IInv, EndJson
  PROVE  /\ Stored' = Stored \union {batch[1]}
         /\ \A m \in Stored : m < batch[1]
         /\ file' \in Seq(Line) /\ DOMAIN file' = DOMAIN file /\ Len(file') = Len(file)
         /\ \A i \in DOMAIN file : file'[i].item = file[i].item
                                   /\ file'[i].joined = file[i].joined
         /\ ~file'[Len(file')].cut
<1>1. file \in Seq(Line) /\ file' = [file EXCEPT ![Len(file)].cut = FALSE]
  BY DEF IInv, TypeOK, Line, EndJson
<1>2. /\ file # <<>> /\ file[Len(file)].item = batch[1] /\ file[Len(file)].cut
      /\ \A i, j \in DOMAIN file : i < j => file[i].item < file[j].item
  BY DEF IInv, FileOrder, EndJson
<1>3. DOMAIN file = 1..Len(file) /\ Len(file) \in DOMAIN file
  BY <1>1, <1>2
<1>4. \A i \in DOMAIN file : file[i] \in Line
  BY <1>1
<1> DEFINE last == [file[Len(file)] EXCEPT !.cut = FALSE]
<1>a. last \in Line /\ file' = [file EXCEPT ![Len(file)] = last]
  BY <1>1, <1>3, <1>4 DEF Line
<1>5. /\ file' \in Seq(Line) /\ DOMAIN file' = DOMAIN file /\ Len(file') = Len(file)
      /\ \A i \in DOMAIN file : i # Len(file) => file'[i] = file[i]
      /\ file'[Len(file)] = last
  <2> HIDE DEF last
  <2>1. file \in [1..Len(file) -> Line] /\ Len(file) \in Nat
    BY <1>1
  <2>2. file' \in [1..Len(file) -> Line]
    BY <1>a, <2>1
  <2>3. file' \in Seq(Line) /\ Len(file') = Len(file)
    BY <2>1, <2>2
  <2> QED
    BY <1>3, <1>a, <2>1, <2>2, <2>3
<1>6. \A i \in DOMAIN file : file'[i].item = file[i].item
                             /\ file'[i].joined = file[i].joined
  BY <1>3, <1>4, <1>5 DEF Line
<1>7. ~file'[Len(file')].cut
  BY <1>3, <1>4, <1>5 DEF Line
<1>8. Stored' = Stored \union {batch[1]}
  <2>1. \A i \in DOMAIN file : i # Len(file) => file'[i].cut = file[i].cut
    BY <1>5
  <2>2. \A m : m \in Stored' <=> \E i \in DOMAIN file : ~file'[i].cut /\ m = file[i].item
    BY <1>5, <1>6 DEF Stored
  <2>3. \A m : m \in Stored <=> \E i \in DOMAIN file : ~file[i].cut /\ m = file[i].item
    BY DEF Stored
  <2> HIDE DEF last
  <2>4. ASSUME NEW m \in Stored' PROVE m \in Stored \union {batch[1]}
    BY <1>2, <2>1, <2>2, <2>3
  <2>5. ASSUME NEW m \in Stored PROVE m \in Stored'
    BY <1>2, <2>1, <2>2, <2>3
  <2>6. batch[1] \in Stored'
    BY <1>2, <1>3, <1>5, <1>7, <2>2
  <2> QED
    BY <2>4, <2>5, <2>6
<1>9. \A m \in Stored : m < batch[1]
  BY <1>2, <1>3 DEF Stored
<1> QED
  BY <1>5, <1>6, <1>7, <1>8, <1>9

-----------------------------------------------------------------------------
(* Sending. *)

\* A command at the end of the channel.
LEMMA SendAppends ==
  ASSUME IInv, NEW cmd \in AddCommand \union AskCommand, Send(cmd)
  PROVE  /\ chan' \in Seq(AddCommand \union AskCommand)
         /\ Len(chan') = Len(chan) + 1 /\ chan'[Len(chan')] = cmd
         /\ DOMAIN chan = 1..Len(chan) /\ DOMAIN chan' = 1..Len(chan')
         /\ \A k \in DOMAIN chan : chan'[k] = chan[k]
  BY DEF IInv, TypeOK, AddCommand, AskCommand, Send

LEMMA SendRecordsKeepsIInv ==
  ASSUME IInv, NEW n \in Nat \ {0}, Send(Add(sent + 1, sent + n)), sent' = sent + n,
         UNCHANGED <<diskVars, runVars, writerVars, acked>>,
         pc' \in [Callers -> PCs], marker' \in [Callers -> Nat \union {Unsent, NoEvent}], up
  PROVE  IInv'
<1> DEFINE cmd == Add(sent + 1, sent + n)
<1>1. sent \in Nat /\ base \in Nat
  BY DEF IInv, TypeOK
<1>2. cmd \in AddCommand
  BY <1>1 DEF Add, AddCommand
<1>3. /\ chan' \in Seq(AddCommand \union AskCommand)
      /\ Len(chan') = Len(chan) + 1 /\ chan'[Len(chan')] = cmd
      /\ DOMAIN chan = 1..Len(chan) /\ DOMAIN chan' = 1..Len(chan')
      /\ \A k \in DOMAIN chan : chan'[k] = chan[k]
  BY <1>2, SendAppends
<1>4. Len(chan) \in Nat
  BY DEF IInv, TypeOK
<1>5. chan'[Len(chan')].kind = "add" /\ chan'[Len(chan')].from = sent + 1
      /\ chan'[Len(chan')].to = sent + n
  BY <1>3 DEF Add
<1>6. TypeOK'
  BY <1>1, <1>3 DEF IInv, TypeOK, diskVars, runVars, writerVars, AddCommand, AskCommand
<1>7. \A k \in DOMAIN chan : IsAdd(k)' = IsAdd(k)
  BY <1>3 DEF IsAdd
<1>8. \A k \in DOMAIN chan' : k \in DOMAIN chan \/ k = Len(chan')
  BY <1>3, <1>4
<1>9. \A k \in DOMAIN chan : IF IsAdd(k) THEN chan[k].from \in Nat /\ chan[k].to \in Nat
                             ELSE chan[k].covers \in Nat
  <2>1. \A k \in DOMAIN chan : chan[k] \in AddCommand \union AskCommand
    BY DEF IInv, TypeOK, AddCommand, AskCommand
  <2> QED
    BY <2>1 DEF AddCommand, AskCommand, IsAdd
<1>10. ChanOrder'
  <2>1. base' <= sent'
    BY <1>1 DEF IInv, ChanOrder, runVars
  <2>2. \A k \in DOMAIN chan' : IF IsAdd(k)'
          THEN base' < chan'[k].from /\ chan'[k].from <= chan'[k].to /\ chan'[k].to <= sent'
          ELSE chan'[k].covers <= sent'
    BY <1>1, <1>3, <1>5, <1>7, <1>8, <1>9 DEF IInv, ChanOrder, IsAdd, runVars
  <2>3. \A j, k \in DOMAIN chan' : j < k /\ IsAdd(k)' =>
          IF IsAdd(j)' THEN chan'[j].to < chan'[k].from ELSE chan'[j].covers < chan'[k].from
    <3> SUFFICES ASSUME NEW j \in DOMAIN chan', NEW k \in DOMAIN chan', j < k, IsAdd(k)'
                 PROVE IF IsAdd(j)' THEN chan'[j].to < chan'[k].from
                                    ELSE chan'[j].covers < chan'[k].from
      OBVIOUS
    <3>1. j \in DOMAIN chan
      BY <1>3, <1>4
    <3>2. CASE k \in DOMAIN chan
      BY <3>1, <3>2, <1>3, <1>7 DEF IInv, ChanOrder
    <3>3. CASE k = Len(chan')
      BY <3>1, <3>3, <1>1, <1>3, <1>5, <1>7, <1>9 DEF IInv, ChanOrder
    <3> QED
      BY <3>2, <3>3, <1>8
  <2>4. Busy' =>
          /\ batch'[1] <= batch'[2] /\ batch'[2] <= sent'
          /\ \A k \in DOMAIN chan' : IsAdd(k)' => batch'[2] < chan'[k].from
    <3> SUFFICES ASSUME Busy'
                 PROVE  /\ batch'[1] <= batch'[2] /\ batch'[2] <= sent'
                        /\ \A k \in DOMAIN chan' : IsAdd(k)' => batch'[2] < chan'[k].from
      OBVIOUS
    <3>1. Busy /\ batch' = batch /\ batch \in Nat \X Nat
      BY DEF Busy, writerVars, IInv, TypeOK
    <3> QED
      BY <3>1, <1>1, <1>3, <1>5, <1>7, <1>8 DEF IInv, ChanOrder
  <2> QED
    BY <2>1, <2>2, <2>3, <2>4 DEF ChanOrder
<1>11. FileOrder'
  <2>1. file' = file /\ \A i \in DOMAIN file : file[i].item \in Nat
    <3>1. file \in Seq(Line) /\ file' = file
      BY DEF diskVars, IInv, TypeOK, Line
    <3>2. \A i \in DOMAIN file : file[i] \in Line
      BY <3>1
    <3> QED
      BY <3>1, <3>2 DEF Line
  <2>2. \A i \in DOMAIN file' : file'[i].item <= sent'
    BY <2>1, <1>1 DEF IInv, FileOrder
  <2>3. \A i \in DOMAIN file', k \in DOMAIN chan' : IsAdd(k)' => file'[i].item < chan'[k].from
    BY <2>1, <1>1, <1>3, <1>5, <1>7, <1>8 DEF IInv, FileOrder
  <2> QED
    BY <2>1, <2>2, <2>3 DEF IInv, FileOrder, diskVars, writerVars
<1>12. Complete'
  <2> SUFFICES ASSUME writer # "gone", NEW m \in Nat, base < m, m <= sent + n
               PROVE  \/ m \in Stored
                      \/ Busy /\ batch[1] <= m /\ m <= batch[2]
                      \/ \E k \in DOMAIN chan' : chan'[k].kind = "add" /\ chan'[k].from <= m /\ m <= chan'[k].to
    BY SameFile DEF Complete, diskVars, runVars, writerVars, Busy, IsAdd
  <2>1. CASE m <= sent
    BY <2>1, <1>3, <1>7, <1>4 DEF IInv, Complete, IsAdd
  <2>2. CASE m > sent
    <3>1. Len(chan') \in DOMAIN chan' /\ chan'[Len(chan')].kind = "add"
      BY <1>3, <1>4, <1>5
    <3>2. chan'[Len(chan')].from <= m /\ m <= chan'[Len(chan')].to
      BY <1>5, <1>1, <2>2
    <3> QED
      BY <3>1, <3>2
  <2> QED
    BY <1>1, <2>1, <2>2
<1>13. acked' \subseteq Stored'
  BY SameFile DEF IInv, diskVars
<1> QED
  BY <1>6, <1>10, <1>11, <1>12, <1>13 DEF IInv, runVars

\* A flush or a shutdown covers what was sent before it.
LEMMA SendAskKeepsIInv ==
  ASSUME IInv, NEW c \in Callers, SendAsk(c)
  PROVE  IInv'
<1> DEFINE cmd == Ask(pc[c], c)
<1>1. cmd \in AskCommand /\ cmd.covers = sent /\ cmd.kind # "add"
  BY DEF IInv, TypeOK, SendAsk, Ask, AskCommand
<1>2. Send(cmd) /\ UNCHANGED <<diskVars, runVars, writerVars, marker, histVars>> /\ up
  BY DEF SendAsk, Goto
<1> HIDE DEF cmd
<1>3. /\ chan' \in Seq(AddCommand \union AskCommand)
      /\ Len(chan') = Len(chan) + 1 /\ chan'[Len(chan')] = cmd
      /\ DOMAIN chan = 1..Len(chan) /\ DOMAIN chan' = 1..Len(chan')
      /\ \A k \in DOMAIN chan : chan'[k] = chan[k]
  BY <1>1, <1>2, SendAppends
<1>4. Len(chan) \in Nat
  BY DEF IInv, TypeOK
<1>5. pc' \in [Callers -> PCs]
  BY DEF IInv, TypeOK, SendAsk, Goto, PCs
<1>6. TypeOK'
  BY <1>2, <1>3, <1>5 DEF IInv, TypeOK, diskVars, runVars, writerVars, histVars,
     AddCommand, AskCommand
<1>7. \A k \in DOMAIN chan' : IsAdd(k)' => k \in DOMAIN chan /\ IsAdd(k)
  BY <1>1, <1>3, <1>4 DEF IsAdd
<1>8. \A k \in DOMAIN chan : k \in DOMAIN chan' /\ IsAdd(k)' = IsAdd(k)
  BY <1>3, <1>4 DEF IsAdd
<1>9. \A k \in DOMAIN chan' : k \in DOMAIN chan \/ k = Len(chan')
  BY <1>3, <1>4
<1>10. sent \in Nat
  BY DEF IInv, TypeOK
<1>11. ChanOrder'
  <2>1. base' = base /\ sent' = sent /\ batch' = batch /\ Busy' = Busy
    BY <1>2 DEF runVars, histVars, writerVars, Busy
  <2>2. \A k \in DOMAIN chan' : IF IsAdd(k)'
          THEN base < chan'[k].from /\ chan'[k].from <= chan'[k].to /\ chan'[k].to <= sent
          ELSE chan'[k].covers <= sent
    BY <1>1, <1>3, <1>7, <1>8, <1>9, <1>10 DEF IInv, ChanOrder
  <2>3. \A j, k \in DOMAIN chan' : j < k /\ IsAdd(k)' =>
          IF IsAdd(j)' THEN chan'[j].to < chan'[k].from ELSE chan'[j].covers < chan'[k].from
    <3> SUFFICES ASSUME NEW j \in DOMAIN chan', NEW k \in DOMAIN chan', j < k, IsAdd(k)'
                 PROVE IF IsAdd(j)' THEN chan'[j].to < chan'[k].from
                                    ELSE chan'[j].covers < chan'[k].from
      OBVIOUS
    <3>1. k \in DOMAIN chan /\ IsAdd(k) /\ j \in DOMAIN chan
      BY <1>3, <1>4, <1>7
    <3> QED
      BY <3>1, <1>3, <1>8 DEF IInv, ChanOrder
  <2>4. Busy => \A k \in DOMAIN chan' : IsAdd(k)' => batch[2] < chan'[k].from
    BY <1>3, <1>7 DEF IInv, ChanOrder
  <2> QED
    BY <2>1, <2>2, <2>3, <2>4 DEF IInv, ChanOrder
<1>12. FileOrder'
  <2>1. file' = file /\ writer' = writer /\ batch' = batch /\ sent' = sent
    BY <1>2 DEF diskVars, writerVars, histVars
  <2>2. \A i \in DOMAIN file', k \in DOMAIN chan' : IsAdd(k)' => file'[i].item < chan'[k].from
    BY <2>1, <1>3, <1>7 DEF IInv, FileOrder
  <2> QED
    BY <2>1, <2>2 DEF IInv, FileOrder
<1>13. Complete'
  <2>1. /\ Stored' = Stored /\ base' = base /\ sent' = sent /\ batch' = batch
        /\ Busy' = Busy /\ writer' = writer
    BY <1>2, SameFile DEF diskVars, runVars, histVars, writerVars, Busy
  <2>2. \A n \in Nat :
          (\E k \in DOMAIN chan : IsAdd(k) /\ chan[k].from <= n /\ n <= chan[k].to) =>
          (\E k \in DOMAIN chan' : IsAdd(k)' /\ chan'[k].from <= n /\ n <= chan'[k].to)
    BY <1>3, <1>8
  <2> QED
    BY <2>1, <2>2 DEF IInv, Complete
<1>14. acked' \subseteq Stored'
  BY <1>2, SameFile DEF IInv, diskVars, histVars
<1> QED
  BY <1>2, <1>6, <1>11, <1>12, <1>13, <1>14 DEF IInv, runVars

-----------------------------------------------------------------------------
(* The writer. *)

\* Taking the first command out of the channel leaves the others in order.
LEMMA TakeKeepsOrder ==
  ASSUME IInv, chan # <<>>, chan' = Tail(chan)
  PROVE  /\ chan' \in Seq(AddCommand \union AskCommand)
         /\ Head(chan) = chan[1] /\ 1 \in DOMAIN chan
         /\ chan[1] \in AddCommand \union AskCommand
         /\ \A k \in DOMAIN chan' : k \in Nat /\ k + 1 \in DOMAIN chan /\ chan'[k] = chan[k + 1]
         /\ \A k \in DOMAIN chan : k # 1 => k - 1 \in DOMAIN chan' /\ chan'[k - 1] = chan[k]
<1>1. chan \in Seq(AddCommand \union AskCommand)
  BY DEF IInv, TypeOK, AddCommand, AskCommand
<1>2. /\ chan' \in Seq(AddCommand \union AskCommand)
      /\ Len(chan) \in Nat \ {0} /\ Len(chan') = Len(chan) - 1
      /\ \A k \in 1..Len(chan) - 1 : chan'[k] = chan[k + 1]
      /\ Head(chan) = chan[1]
      /\ DOMAIN chan = 1..Len(chan) /\ DOMAIN chan' = 1..Len(chan')
  BY <1>1
<1>3. 1 \in DOMAIN chan /\ chan[1] \in AddCommand \union AskCommand
  BY <1>1, <1>2
<1>4. \A k \in DOMAIN chan' : k \in Nat /\ k + 1 \in DOMAIN chan /\ chan'[k] = chan[k + 1]
  BY <1>2
<1>5. \A k \in DOMAIN chan : k # 1 => k - 1 \in DOMAIN chan' /\ chan'[k - 1] = chan[k]
  BY <1>2
<1> QED
  BY <1>2, <1>3, <1>4, <1>5

LEMMA ReceiveItemsKeepsIInv ==
  ASSUME IInv, ReceiveItems
  PROVE  IInv'
<1>1. /\ up /\ writer = "recv" /\ chan # <<>> /\ chan' = Tail(chan)
      /\ Head(chan).kind = "add" /\ batch' = <<Head(chan).from, Head(chan).to>>
      /\ writer' = "line" /\ UNCHANGED <<diskVars, runVars, callerVars, histVars>>
  BY DEF ReceiveItems
<1>2. /\ chan' \in Seq(AddCommand \union AskCommand)
      /\ Head(chan) = chan[1] /\ 1 \in DOMAIN chan
      /\ chan[1] \in AddCommand \union AskCommand
      /\ \A k \in DOMAIN chan' : k \in Nat /\ k + 1 \in DOMAIN chan /\ chan'[k] = chan[k + 1]
      /\ \A k \in DOMAIN chan : k # 1 => k - 1 \in DOMAIN chan' /\ chan'[k - 1] = chan[k]
  BY <1>1, TakeKeepsOrder
<1>3. /\ chan[1].from \in Nat /\ chan[1].to \in Nat /\ IsAdd(1)
      /\ batch' = <<chan[1].from, chan[1].to>>
  BY <1>1, <1>2 DEF AddCommand, AskCommand, IsAdd
<1>4. TypeOK'
  BY <1>1, <1>2, <1>3 DEF IInv, TypeOK, diskVars, runVars, callerVars, histVars, AddCommand, AskCommand
<1>5. \A k \in DOMAIN chan' : IsAdd(k)' = IsAdd(k + 1) /\ 1 < k + 1
  <2>1. \A k \in DOMAIN chan' : k \in Nat /\ k # 0
    BY <1>2
  <2> QED
    BY <1>2, <2>1 DEF IsAdd
<1>6. /\ base < chan[1].from /\ chan[1].from <= chan[1].to /\ chan[1].to <= sent
      /\ \A k \in DOMAIN chan : 1 < k /\ IsAdd(k) => chan[1].to < chan[k].from
  BY <1>2, <1>3 DEF IInv, ChanOrder
<1>7. ChanOrder'
  <2>1. base' = base /\ sent' = sent
    BY <1>1 DEF runVars, histVars
  <2>2. \A k \in DOMAIN chan' : IF IsAdd(k)'
          THEN base < chan'[k].from /\ chan'[k].from <= chan'[k].to /\ chan'[k].to <= sent
          ELSE chan'[k].covers <= sent
    BY <1>2, <1>5 DEF IInv, ChanOrder
  <2>3. \A j, k \in DOMAIN chan' : j < k /\ IsAdd(k)' =>
          IF IsAdd(j)' THEN chan'[j].to < chan'[k].from ELSE chan'[j].covers < chan'[k].from
    <3> SUFFICES ASSUME NEW j \in DOMAIN chan', NEW k \in DOMAIN chan', j < k, IsAdd(k)'
                 PROVE IF IsAdd(j)' THEN chan'[j].to < chan'[k].from
                                    ELSE chan'[j].covers < chan'[k].from
      OBVIOUS
    <3>1. j + 1 < k + 1 /\ j + 1 \in DOMAIN chan /\ k + 1 \in DOMAIN chan
      BY <1>2
    <3> QED
      BY <3>1, <1>2, <1>5 DEF IInv, ChanOrder
  <2>4. /\ batch'[1] <= batch'[2] /\ batch'[2] <= sent
        /\ \A k \in DOMAIN chan' : IsAdd(k)' => batch'[2] < chan'[k].from
    BY <1>2, <1>3, <1>5, <1>6
  <2> QED
    BY <2>1, <2>2, <2>3, <2>4 DEF IInv, ChanOrder
<1>8. FileOrder'
  <2>1. file' = file /\ sent' = sent /\ writer' = "line"
    BY <1>1 DEF diskVars, histVars
  <2>2. \A i \in DOMAIN file : file[i].item < batch'[1]
    BY <1>2, <1>3 DEF IInv, FileOrder
  <2>3. \A i \in DOMAIN file', k \in DOMAIN chan' : IsAdd(k)' => file'[i].item < chan'[k].from
    BY <2>1, <1>2, <1>5 DEF IInv, FileOrder
  <2> QED
    BY <2>1, <2>2, <2>3 DEF IInv, FileOrder
<1>9. Complete'
  <2> SUFFICES ASSUME NEW n \in Nat, base < n, n <= sent
               PROVE  \/ n \in Stored
                      \/ batch'[1] <= n /\ n <= batch'[2]
                      \/ \E k \in DOMAIN chan' : IsAdd(k)' /\ chan'[k].from <= n /\ n <= chan'[k].to
    BY <1>1, SameFile DEF Complete, Busy, diskVars, runVars, histVars
  <2>1. n \in Stored \/ \E k \in DOMAIN chan : IsAdd(k) /\ chan[k].from <= n /\ n <= chan[k].to
    BY <1>1 DEF IInv, Complete, Busy
  <2>2. ASSUME NEW k \in DOMAIN chan, IsAdd(k), chan[k].from <= n, n <= chan[k].to, k # 1
        PROVE  \E l \in DOMAIN chan' : IsAdd(l)' /\ chan'[l].from <= n /\ n <= chan'[l].to
    <3>1. k - 1 \in DOMAIN chan' /\ chan'[k - 1] = chan[k]
      BY <2>2, <1>2
    <3>2. IsAdd(k - 1)'
      BY <3>1, <2>2 DEF IsAdd
    <3> QED
      BY <3>1, <3>2, <2>2
  <2> QED
    BY <1>3, <2>1, <2>2
<1>10. acked' \subseteq Stored'
  BY <1>1, SameFile DEF IInv, diskVars, histVars
<1> QED
  BY <1>1, <1>4, <1>7, <1>8, <1>9, <1>10 DEF IInv, runVars

\* What a flush or a shutdown at the head of the channel covers is stored.
LEMMA AcknowledgedIsStored ==
  ASSUME IInv, writer = "recv", chan # <<>>, Head(chan).kind # "add", Acknowledged(Head(chan))
  PROVE  acked \subseteq acked' /\ acked' \subseteq Stored /\ acked' \subseteq Nat
<1>1. chan \in Seq(AddCommand \union AskCommand) /\ \A k \in DOMAIN chan : k \in Nat \ {0}
  BY DEF IInv, TypeOK, AddCommand, AskCommand
<1>2. Head(chan) = chan[1] /\ 1 \in DOMAIN chan /\ chan[1] \in AddCommand \union AskCommand
  BY <1>1
<1>3. chan[1].covers \in Nat /\ ~IsAdd(1)
  BY <1>2 DEF AddCommand, AskCommand, IsAdd
<1>4. \A n \in 1..chan[1].covers : base < n => n \in Stored
  <2> SUFFICES ASSUME NEW n \in 1..chan[1].covers, base < n, n \notin Stored PROVE FALSE
    OBVIOUS
  <2>1. n \in Nat /\ n <= chan[1].covers /\ chan[1].covers <= sent
    BY <1>2, <1>3 DEF IInv, ChanOrder
  <2>2. sent \in Nat
    BY DEF IInv, TypeOK
  <2>3. PICK k \in DOMAIN chan : IsAdd(k) /\ chan[k].from <= n /\ n <= chan[k].to
    <3>1. Complete /\ ~Busy /\ writer # "gone" /\ n <= sent /\ n \in Nat
      BY <1>3, <2>1, <2>2 DEF IInv, Busy
    <3> QED
      BY <3>1 DEF Complete
  <2>4. 1 < k /\ chan[k].from \in Nat
    <3>1. chan[k] \in AddCommand \union AskCommand /\ k # 1
      BY <1>1, <1>3, <2>3
    <3> QED
      BY <1>1, <2>3, <3>1 DEF AddCommand, AskCommand, IsAdd
  <2>5. chan[1].covers < chan[k].from
    BY <1>2, <1>3, <2>3, <2>4 DEF IInv, ChanOrder
  <2> QED
    BY <1>3, <2>1, <2>3, <2>4, <2>5
<1>5. acked' = acked \union {n \in 1..chan[1].covers : n > base}
  BY <1>2 DEF Acknowledged
<1>6. acked \subseteq acked' /\ acked' \subseteq Stored /\ acked' \subseteq Nat
  <2>1. \A n \in 1..chan[1].covers : n \in Nat
    BY <1>3
  <2>2. acked \subseteq Stored /\ acked \subseteq Nat
    BY DEF IInv, TypeOK
  <2>3. \A n \in acked' : n \in acked \/ (n \in 1..chan[1].covers /\ base < n)
    BY <1>5
  <2> HIDE DEF Stored
  <2> QED
    BY <1>4, <1>5, <2>1, <2>2, <2>3
<1> QED
  BY <1>6

LEMMA AcknowledgeKeepsIInv ==
  ASSUME IInv, Acknowledge
  PROVE  IInv' /\ acked \subseteq acked' /\ acked' \subseteq Stored
<1>1. /\ up /\ writer = "recv" /\ chan # <<>> /\ chan' = Tail(chan)
      /\ Head(chan).kind # "add" /\ Acknowledged(Head(chan)) /\ Answer({Head(chan).by})
      /\ UNCHANGED <<diskVars, runVars, writerVars, marker, sent>>
  BY DEF Acknowledge
<1>2. /\ chan' \in Seq(AddCommand \union AskCommand)
      /\ Head(chan) = chan[1] /\ 1 \in DOMAIN chan
      /\ chan[1] \in AddCommand \union AskCommand
      /\ \A k \in DOMAIN chan' : k \in Nat /\ k + 1 \in DOMAIN chan /\ chan'[k] = chan[k + 1]
      /\ \A k \in DOMAIN chan : k # 1 => k - 1 \in DOMAIN chan' /\ chan'[k - 1] = chan[k]
  BY <1>1, TakeKeepsOrder
<1>3. ~IsAdd(1)
  BY <1>1, <1>2 DEF IsAdd
<1>6. acked \subseteq acked' /\ acked' \subseteq Stored /\ acked' \subseteq Nat
  BY <1>1, AcknowledgedIsStored
<1>7. TypeOK'
  <2>1. pc' \in [Callers -> PCs]
    BY <1>1 DEF IInv, TypeOK, Answer, PCs
  <2> QED
    BY <1>1, <1>2, <1>6, <2>1 DEF IInv, TypeOK, diskVars, runVars, writerVars, AddCommand, AskCommand
<1>8. \A k \in DOMAIN chan' : IsAdd(k)' = IsAdd(k + 1)
  BY <1>2 DEF IsAdd
<1>9. ChanOrder'
  <2>1. base' = base /\ sent' = sent /\ writer' = "recv"
    BY <1>1 DEF runVars, writerVars
  <2>2. \A k \in DOMAIN chan' : IF IsAdd(k)'
          THEN base < chan'[k].from /\ chan'[k].from <= chan'[k].to /\ chan'[k].to <= sent
          ELSE chan'[k].covers <= sent
    BY <1>2, <1>8 DEF IInv, ChanOrder
  <2>3. \A j, k \in DOMAIN chan' : j < k /\ IsAdd(k)' =>
          IF IsAdd(j)' THEN chan'[j].to < chan'[k].from ELSE chan'[j].covers < chan'[k].from
    <3> SUFFICES ASSUME NEW j \in DOMAIN chan', NEW k \in DOMAIN chan', j < k, IsAdd(k)'
                 PROVE IF IsAdd(j)' THEN chan'[j].to < chan'[k].from
                                    ELSE chan'[j].covers < chan'[k].from
      OBVIOUS
    <3>1. j + 1 < k + 1 /\ j + 1 \in DOMAIN chan /\ k + 1 \in DOMAIN chan
      BY <1>2
    <3> QED
      BY <3>1, <1>2, <1>8 DEF IInv, ChanOrder
  <2> QED
    BY <2>1, <2>2, <2>3 DEF IInv, ChanOrder, Busy
<1>10. FileOrder'
  <2>1. file' = file /\ sent' = sent /\ writer' = "recv"
    BY <1>1 DEF diskVars, writerVars
  <2>2. \A i \in DOMAIN file', k \in DOMAIN chan' : IsAdd(k)' => file'[i].item < chan'[k].from
    BY <2>1, <1>2, <1>8 DEF IInv, FileOrder
  <2> QED
    BY <2>1, <2>2 DEF IInv, FileOrder
<1>11. Complete'
  <2> SUFFICES ASSUME NEW n \in Nat, base < n, n <= sent
               PROVE  \/ n \in Stored
                      \/ \E k \in DOMAIN chan' : IsAdd(k)' /\ chan'[k].from <= n /\ n <= chan'[k].to
    BY <1>1, SameFile DEF Complete, diskVars, runVars
  <2>1. n \in Stored \/ \E k \in DOMAIN chan : IsAdd(k) /\ chan[k].from <= n /\ n <= chan[k].to
    BY <1>1 DEF IInv, Complete, Busy
  <2>2. ASSUME NEW k \in DOMAIN chan, IsAdd(k), chan[k].from <= n, n <= chan[k].to
        PROVE  \E l \in DOMAIN chan' : IsAdd(l)' /\ chan'[l].from <= n /\ n <= chan'[l].to
    <3>1. k - 1 \in DOMAIN chan' /\ chan'[k - 1] = chan[k]
      BY <2>2, <1>2, <1>3
    <3>2. IsAdd(k - 1)'
      BY <3>1, <2>2 DEF IsAdd
    <3> QED
      BY <3>1, <3>2, <2>2
  <2> QED
    BY <2>1, <2>2
<1> QED
  BY <1>1, <1>6, <1>7, <1>9, <1>10, <1>11, SameFile DEF IInv, runVars, diskVars

\* The writer has gone: with its channel, and never to come back in this run.
LEMMA GoneKeepsIInv ==
  ASSUME IInv, chan' = <<>>, writer' = "gone", pc' \in [Callers -> PCs],
         marker' \in [Callers -> Nat \union {Unsent, NoEvent}],
         up' \in BOOLEAN, recorder' \in BOOLEAN,
         acked' \subseteq Stored, acked' \subseteq Nat,
         UNCHANGED <<diskVars, batch, runs, base, sent>>
  PROVE  IInv'
<1>1. TypeOK'
  BY DEF IInv, TypeOK, diskVars
<1>2. ChanOrder' /\ FileOrder' /\ Complete'
  BY DEF IInv, ChanOrder, FileOrder, Complete, Busy, diskVars
<1> QED
  BY <1>1, <1>2, SameFile DEF IInv, diskVars

\* A flush that fails covers no more than one that does not.
LEMMA FlushFailsKeepsIInv ==
  ASSUME IInv, FlushFails
  PROVE  IInv' /\ acked \subseteq acked' /\ acked' \subseteq Stored
<1>1. /\ chan # <<>> /\ Head(chan).kind # "add" /\ writer = "recv" /\ WriterGoes
      /\ Acknowledged(Head(chan)) /\ UNCHANGED <<diskVars, batch, runVars, marker, sent>>
  BY DEF FlushFails
<1>2. acked \subseteq acked' /\ acked' \subseteq Stored /\ acked' \subseteq Nat
  BY <1>1, AcknowledgedIsStored
<1>3. pc' \in [Callers -> PCs]
  BY <1>1 DEF IInv, TypeOK, WriterGoes, Answer, PCs
<1> QED
  BY <1>1, <1>2, <1>3, GoneKeepsIInv DEF WriterGoes, IInv, TypeOK, runVars

LEMMA BeginLineKeepsIInv ==
  ASSUME IInv, BeginLine
  PROVE  IInv'
<1>1. /\ Stored' = Stored
      /\ file' \in Seq(Line) /\ Len(file') = Len(file) + 1
      /\ \A i \in DOMAIN file : file'[i] = file[i]
      /\ file'[Len(file')] = [item |-> batch[1], cut |-> TRUE, joined |-> ~newline]
  BY BeginLineStores
<1>2. /\ up /\ writer = "line" /\ writer' = "json" /\ newline' = FALSE
      /\ UNCHANGED <<batch, runVars, chan, callerVars, histVars>>
  BY DEF BeginLine
<1>3. Len(file) \in Nat /\ DOMAIN file = 1..Len(file) /\ DOMAIN file' = 1..Len(file) + 1
  BY <1>1 DEF IInv, TypeOK
<1>4. TypeOK'
  BY <1>1, <1>2 DEF IInv, TypeOK, Line, runVars, callerVars, histVars
<1>5. ChanOrder'
  BY <1>2 DEF IInv, ChanOrder, IsAdd, Busy, runVars, histVars
<1>6. Complete'
  BY <1>1, <1>2 DEF IInv, Complete, IsAdd, Busy, runVars, histVars
<1>7. FileOrder'
  <2>1. \A i \in DOMAIN file' : i \in DOMAIN file \/ i = Len(file')
    BY <1>1, <1>3
  <2>2. \A i \in DOMAIN file : file[i].item < batch[1]
    BY <1>2 DEF IInv, FileOrder
  <2>3. /\ batch[1] \in Nat /\ batch[1] <= batch[2] /\ batch[2] <= sent /\ batch[2] \in Nat
        /\ sent \in Nat /\ \A k \in DOMAIN chan : IsAdd(k) => batch[2] < chan[k].from
    BY <1>2 DEF IInv, TypeOK, ChanOrder, Busy
  <2>4. \A i, j \in DOMAIN file' : i < j => file'[i].item < file'[j].item
    <3> SUFFICES ASSUME NEW i \in DOMAIN file', NEW j \in DOMAIN file', i < j
                 PROVE file'[i].item < file'[j].item
      OBVIOUS
    <3>1. i \in DOMAIN file
      BY <1>1, <1>3
    <3> QED
      BY <3>1, <1>1, <2>1, <2>2 DEF IInv, FileOrder
  <2>5. \A i \in DOMAIN file' : file'[i].item <= sent
    BY <1>1, <2>1, <2>3 DEF IInv, FileOrder
  <2>6. \A k \in DOMAIN chan : IsAdd(k) => batch[1] < chan[k].from
    <3>1. chan \in Seq(AddCommand \union AskCommand)
      BY DEF IInv, TypeOK, AddCommand, AskCommand
    <3>2. \A k \in DOMAIN chan : IsAdd(k) => chan[k].from \in Nat
      BY <3>1 DEF AddCommand, AskCommand, IsAdd
    <3> QED
      BY <3>2, <2>3
  <2>7. \A i \in DOMAIN file', k \in DOMAIN chan' : IsAdd(k)' => file'[i].item < chan'[k].from
    BY <1>1, <1>2, <2>1, <2>6 DEF IInv, FileOrder, IsAdd
  <2>8. file' # <<>> /\ file'[Len(file')].item = batch[1] /\ file'[Len(file')].cut
    BY <1>1, <1>3
  <2> QED
    BY <1>2, <2>4, <2>5, <2>7, <2>8 DEF FileOrder, histVars
<1> QED
  BY <1>1, <1>2, <1>4, <1>5, <1>6, <1>7 DEF IInv, runVars, histVars

LEMMA EndJsonKeepsIInv ==
  ASSUME IInv, EndJson
  PROVE  IInv'
<1>1. /\ Stored' = Stored \union {batch[1]}
      /\ file' \in Seq(Line) /\ DOMAIN file' = DOMAIN file /\ Len(file') = Len(file)
      /\ \A i \in DOMAIN file : file'[i].item = file[i].item
      /\ ~file'[Len(file')].cut
  BY EndJsonStores
<1>2. /\ up /\ writer = "json" /\ writer' = "end"
      /\ UNCHANGED <<newline, batch, runVars, chan, callerVars, histVars>>
  BY DEF EndJson
<1>3. TypeOK'
  BY <1>1, <1>2 DEF IInv, TypeOK, Line, runVars, callerVars, histVars
<1>4. ChanOrder'
  BY <1>2 DEF IInv, ChanOrder, IsAdd, Busy, runVars, histVars
<1>5. Complete'
  BY <1>1, <1>2 DEF IInv, Complete, IsAdd, Busy, runVars, histVars
<1>6. FileOrder'
  <2>1. file # <<>> /\ file[Len(file)].item = batch[1] /\ Len(file) \in DOMAIN file
    BY <1>2 DEF IInv, TypeOK, FileOrder
  <2>2. file' # <<>>
    BY <1>1, <2>1
  <2>3. sent' = sent /\ chan' = chan /\ batch' = batch
    BY <1>2 DEF histVars
  <2>4. /\ \A i, j \in DOMAIN file' : i < j => file'[i].item < file'[j].item
        /\ \A i \in DOMAIN file' : file'[i].item <= sent'
    BY <1>1, <2>3 DEF IInv, FileOrder
  <2>5. \A i \in DOMAIN file', k \in DOMAIN chan' : IsAdd(k)' => file'[i].item < chan'[k].from
    BY <1>1, <2>3 DEF IInv, FileOrder, IsAdd
  <2>6. file'[Len(file')].item = batch'[1]
    BY <1>1, <2>1, <2>3
  <2> QED
    BY <1>1, <1>2, <2>2, <2>4, <2>5, <2>6 DEF FileOrder
<1> QED
  BY <1>1, <1>2, <1>3, <1>4, <1>5, <1>6 DEF IInv, runVars, histVars

LEMMA EndLineKeepsIInv ==
  ASSUME IInv, EndLine
  PROVE  IInv'
<1>1. /\ up /\ writer = "end" /\ newline' = TRUE /\ file' = file
      /\ batch' = <<batch[1] + 1, batch[2]>>
      /\ writer' = IF batch[1] < batch[2] THEN "line" ELSE "recv"
      /\ UNCHANGED <<runVars, chan, callerVars, histVars>>
  BY DEF EndLine
<1>2. batch[1] \in Nat /\ batch[2] \in Nat /\ batch[1] <= batch[2]
  BY <1>1 DEF IInv, TypeOK, ChanOrder, Busy
<1>3. TypeOK'
  BY <1>1, <1>2 DEF IInv, TypeOK, runVars, callerVars, histVars
<1>4. ChanOrder'
  BY <1>1, <1>2 DEF IInv, ChanOrder, IsAdd, Busy, runVars, histVars
<1>5. /\ file # <<>> /\ file[Len(file)].item = batch[1] /\ ~file[Len(file)].cut
      /\ Len(file) \in DOMAIN file /\ \A i \in DOMAIN file : i <= Len(file)
      /\ \A i \in DOMAIN file : file[i].item \in Nat
  <2>1. file \in Seq(Line) /\ file # <<>>
    BY <1>1 DEF IInv, TypeOK, FileOrder, Line
  <2>2. /\ Len(file) \in DOMAIN file /\ \A i \in DOMAIN file : i <= Len(file)
        /\ \A i \in DOMAIN file : file[i] \in Line
    BY <2>1
  <2> QED
    BY <1>1, <2>1, <2>2 DEF IInv, FileOrder, Line
<1>6. batch[1] \in Stored
  BY <1>5 DEF Stored
<1>7. Complete'
  <2> SUFFICES ASSUME NEW n \in Nat, base < n, n <= sent
               PROVE  \/ n \in Stored
                      \/ Busy' /\ batch'[1] <= n /\ n <= batch'[2]
                      \/ \E k \in DOMAIN chan : IsAdd(k) /\ chan[k].from <= n /\ n <= chan[k].to
    BY <1>1, SameFile DEF Complete, IsAdd, runVars, histVars
  <2>1. \/ n \in Stored
        \/ batch[1] <= n /\ n <= batch[2]
        \/ \E k \in DOMAIN chan : IsAdd(k) /\ chan[k].from <= n /\ n <= chan[k].to
    BY <1>1 DEF IInv, Complete
  <2> QED
    BY <1>1, <1>2, <1>6, <2>1 DEF Busy
<1>8. FileOrder'
  <2>1. \A i \in DOMAIN file : file[i].item <= batch[1]
    <3> SUFFICES ASSUME NEW i \in DOMAIN file PROVE file[i].item <= batch[1]
      OBVIOUS
    <3>1. i = Len(file) \/ i < Len(file)
      BY <1>5 DEF IInv, TypeOK
    <3> QED
      BY <3>1, <1>2, <1>5 DEF IInv, FileOrder
  <2>2. writer' = "line" => \A i \in DOMAIN file : file[i].item < batch'[1]
    BY <1>1, <1>2, <1>5, <2>1
  <2> QED
    BY <1>1, <2>2 DEF IInv, FileOrder, IsAdd, histVars
<1> QED
  BY <1>1, <1>3, <1>4, <1>7, <1>8, SameFile DEF IInv, runVars, histVars

LEMMA ResumeKeepsIInv ==
  ASSUME IInv, Resume
  PROVE  IInv'
<1>1. /\ ~up /\ chan = <<>> /\ chan' = <<>> /\ writer' = "recv" /\ up'
      /\ base' = sent /\ UNCHANGED <<diskVars, batch, callerVars, histVars>>
  BY DEF Resume, IInv
<1>2. TypeOK'
  BY <1>1 DEF IInv, TypeOK, Resume, diskVars, callerVars, histVars
<1>3. sent \in Nat
  BY DEF IInv, TypeOK
<1>4. ChanOrder' /\ FileOrder' /\ Complete'
  BY <1>1, <1>3 DEF IInv, ChanOrder, FileOrder, Complete, Busy, diskVars, histVars
<1> QED
  BY <1>1, <1>2, <1>4, SameFile DEF IInv, diskVars, histVars

\* Steps of a caller that only move it, or take the recorder.
LEMMA QuietKeepsIInv ==
  ASSUME IInv, pc' \in [Callers -> PCs], recorder' \in BOOLEAN,
         marker' \in [Callers -> Nat \union {Unsent, NoEvent}],
         UNCHANGED <<diskVars, runs, up, base, writerVars, chan, histVars>>
  PROVE  IInv'
<1> USE DEF diskVars, writerVars, histVars
<1>1. TypeOK'
  BY DEF IInv, TypeOK
<1>2. ChanOrder' /\ FileOrder'
  BY DEF IInv, ChanOrder, FileOrder, Busy, IsAdd
<1>3. Complete'
  BY SameFile DEF IInv, Complete, Busy, IsAdd
<1> QED
  BY <1>1, <1>2, <1>3, SameFile DEF IInv

LEMMA CallerKeepsIInv ==
  ASSUME IInv, NEW c \in Callers,
         RecordItems(c) \/ RecordEvent(c) \/ FlushRollout(c) \/ TakeRecorder(c) \/ CallerStep(c)
  PROVE  IInv' /\ acked' = acked /\ Stored' = Stored
<1> USE DEF IInv, TypeOK, Goto, PCs, runVars, callerVars
<1>1. ASSUME NEW x, Goto(c, x, "record") \/ Goto(c, x, "idle") \/ Goto(c, x, "event")
             \/ Goto(c, x, "flush") \/ Goto(c, x, "shutdown") \/ Goto(c, x, "wait")
             \/ Goto(c, x, "answered")
      PROVE  pc' \in [Callers -> PCs] /\ up
  BY <1>1
<1>2. CASE RecordItems(c) \/ SendItemsFails(c) \/ SendEventFails(c) \/ FlushRollout(c)
           \/ NotAsked(c) \/ TakeRecorder(c) \/ RecordEvent(c) \/ Deliver(c)
  <2>1. pc' \in [Callers -> PCs] /\ recorder' \in BOOLEAN
    BY <1>1, <1>2 DEF RecordItems, SendItemsFails, SendEventFails, FlushRollout, NotAsked,
       TakeRecorder, RecordEvent, Deliver
  <2>2. marker' \in [Callers -> Nat \union {Unsent, NoEvent}]
    BY <1>2 DEF RecordItems, SendItemsFails, SendEventFails, FlushRollout, NotAsked,
       TakeRecorder, RecordEvent, Deliver
  <2>3. UNCHANGED <<diskVars, runs, up, base, writerVars, chan, histVars>>
    BY <1>2 DEF RecordItems, SendItemsFails, SendEventFails, FlushRollout, NotAsked,
       TakeRecorder, RecordEvent, Deliver
  <2> QED
    BY <2>1, <2>2, <2>3, QuietKeepsIInv, SameFile DEF diskVars, histVars
<1>3. CASE SendItems(c)
  <2>1. PICK n \in 1..MaxBatch : Send(Add(sent + 1, sent + n)) /\ sent' = sent + n
    BY <1>3 DEF SendItems
  <2>2. n \in Nat \ {0}
    BY BoundAssumption
  <2>3. pc' \in [Callers -> PCs] /\ up
    BY <1>1, <1>3 DEF SendItems
  <2>4. UNCHANGED <<diskVars, runVars, writerVars, acked, marker>>
    BY <1>3 DEF SendItems
  <2> QED
    BY <2>1, <2>2, <2>3, <2>4, SendRecordsKeepsIInv, SameFile DEF diskVars
<1>4. CASE SendEvent(c)
  <2>1. pc' \in [Callers -> PCs] /\ up
    BY <1>1, <1>4 DEF SendEvent
  <2>2. /\ UNCHANGED <<diskVars, runVars, writerVars, acked>>
        /\ Send(Add(sent + 1, sent + 1)) /\ sent' = sent + 1
        /\ marker' \in [Callers -> Nat \union {Unsent, NoEvent}]
    BY <1>4 DEF SendEvent
  <2>3. IInv'
    BY <2>1, <2>2, SendRecordsKeepsIInv
  <2> QED
    BY <2>2, <2>3, SameFile DEF diskVars
<1>5. CASE SendAsk(c)
  BY <1>5, SendAskKeepsIInv, SameFile DEF SendAsk, diskVars, histVars
<1> QED
  BY <1>2, <1>3, <1>4, <1>5 DEF CallerStep

LEMMA ExitKeepsIInv ==
  ASSUME IInv, Exit
  PROVE  IInv' /\ UNCHANGED <<file, acked>>
<1>1. /\ chan' = <<>> /\ writer' = "gone" /\ pc' \in [Callers -> PCs] /\ acked' = acked
      /\ marker' \in [Callers -> Nat \union {Unsent, NoEvent}]
      /\ up' \in BOOLEAN /\ recorder' \in BOOLEAN
      /\ UNCHANGED <<diskVars, batch, runs, base, sent>>
  BY DEF Exit, PCs, histVars
<1>2. acked' \subseteq Stored /\ acked' \subseteq Nat
  BY <1>1 DEF IInv, TypeOK
<1> QED
  BY <1>1, <1>2, GoneKeepsIInv DEF diskVars

\* The writer ends by an error, or with its senders.
LEMMA WriterEndsKeepsIInv ==
  ASSUME IInv, WriteFails \/ WriterReturns
  PROVE  IInv' /\ UNCHANGED <<file, acked>>
<1>1. WriterGoes /\ up /\ UNCHANGED <<diskVars, batch, runVars, marker, histVars>>
  BY DEF WriteFails, WriterReturns
<1>2. /\ chan' = <<>> /\ writer' = "gone" /\ pc' \in [Callers -> PCs] /\ acked' = acked
      /\ marker' \in [Callers -> Nat \union {Unsent, NoEvent}]
      /\ up' \in BOOLEAN /\ recorder' \in BOOLEAN
      /\ UNCHANGED <<diskVars, batch, runs, base, sent>>
  BY <1>1 DEF WriterGoes, Answer, runVars, histVars, IInv, TypeOK, PCs
<1>3. acked' \subseteq Stored /\ acked' \subseteq Nat
  BY <1>2 DEF IInv, TypeOK
<1> QED
  BY <1>2, <1>3, GoneKeepsIInv DEF diskVars

LEMMA NextKeepsIInv == IInv /\ [Next]_vars => IInv'
<1> SUFFICES ASSUME IInv, [Next]_vars PROVE IInv'
  OBVIOUS
<1>1. CASE UNCHANGED vars
  BY <1>1, QuietKeepsIInv DEF vars, runVars, callerVars, IInv, TypeOK
<1>2. CASE \E c \in Callers : RecordItems(c) \/ RecordEvent(c) \/ FlushRollout(c)
             \/ TakeRecorder(c) \/ CallerStep(c)
  BY <1>2, CallerKeepsIInv
<1>3. CASE WriterStep
  BY <1>3, ReceiveItemsKeepsIInv, BeginLineKeepsIInv, EndJsonKeepsIInv, EndLineKeepsIInv,
     AcknowledgeKeepsIInv, WriterEndsKeepsIInv DEF WriterStep
<1>4. CASE WriteFails \/ FlushFails \/ Exit \/ Resume
  BY <1>4, WriterEndsKeepsIInv, FlushFailsKeepsIInv, ExitKeepsIInv, ResumeKeepsIInv
<1> QED
  BY <1>1, <1>2, <1>3, <1>4 DEF Next

\* The writer's channel, file and answers have their types in every state.
THEOREM RolloutTypes == Spec => []TypeOK
<1>1. IInv => TypeOK
  BY DEF IInv
<1> QED
  BY <1>1, InitIInv, NextKeepsIInv, PTL DEF Spec

-----------------------------------------------------------------------------
(* The refinement. *)

LEMMA InitRefines == Init => Log!Init
  BY DEF Init, Log!Init, Stored

LEMMA NextRefines ==
  ASSUME IInv, IInv', [Next]_vars
  PROVE  [Log!Store \/ Log!Acknowledge]_<<Stored, acked>>
<1>1. CASE UNCHANGED vars
  BY <1>1, SameFile DEF vars, diskVars, histVars
<1>2. CASE \E c \in Callers : RecordItems(c) \/ RecordEvent(c) \/ FlushRollout(c)
             \/ TakeRecorder(c) \/ CallerStep(c)
  BY <1>2, CallerKeepsIInv
<1>3. CASE BeginLine
  BY <1>3, BeginLineStores DEF BeginLine, histVars
<1>4. CASE EndJson
  <2>1. /\ Stored' = Stored \union {batch[1]} /\ \A m \in Stored : m < batch[1]
        /\ acked' = acked
    BY <1>4, EndJsonStores DEF EndJson, histVars
  <2>2. Log!Store
    BY <2>1 DEF Log!Store
  <2> QED
    BY <2>2
<1>5. CASE Acknowledge \/ FlushFails
  <2>1. acked \subseteq acked' /\ acked' \subseteq Stored /\ Stored' = Stored
    BY <1>5, AcknowledgeKeepsIInv, FlushFailsKeepsIInv, SameFile
       DEF Acknowledge, FlushFails, diskVars
  <2> QED
    BY <2>1 DEF Log!Acknowledge
<1>6. CASE ReceiveItems \/ EndLine \/ Resume
  BY <1>6, SameFile DEF ReceiveItems, EndLine, Resume, diskVars, histVars
<1>7. CASE WriterReturns \/ WriteFails \/ Exit
  BY <1>7, WriterEndsKeepsIInv, ExitKeepsIInv, SameFile
<1> QED
  BY <1>1, <1>2, <1>3, <1>4, <1>5, <1>6, <1>7 DEF Next, WriterStep

\* The rollout of a thread is a log that only grows: each record once and in
\* order over all runs, and everything acknowledged is in it, whatever write
\* errors and crashes happen.
THEOREM RolloutImplementsLog == Spec => AckedIsStored
<1>1. Init => IInv /\ Log!Init
  BY InitIInv, InitRefines
<1>2. IInv /\ [Next]_vars => IInv'
  BY NextKeepsIInv
<1>3. IInv /\ IInv' /\ [Next]_vars => [Log!Store \/ Log!Acknowledge]_<<Stored, acked>>
  BY NextRefines
<1> QED
  BY <1>1, <1>2, <1>3, PTL DEF Spec, AckedIsStored, Log!Spec

-----------------------------------------------------------------------------
(* What a reader can lose. *)

Joined == {i \in DOMAIN file : file[i].joined}

\* A record without its newline is not acknowledged: not while it is written,
\* and not later, for it belongs to a run that has ended.
Unended ==
  /\ \A i, j \in DOMAIN file : j = i + 1 /\ file[j].joined =>
       file[i].item \notin acked /\ file[i].item <= base
  /\ ~newline =>
       /\ file # <<>> /\ file[Len(file)].item \notin acked
       /\ writer \in {"recv", "line"} => file[Len(file)].item <= base
  /\ writer \in {"json", "end"} => ~newline

\* Each run joins one record to such a line at most, its first.
Joins ==
  /\ IsFiniteSet(Joined) /\ runs \in Nat /\ Cardinality(Joined) < runs
  /\ ~newline /\ writer \in {"recv", "line"} => Cardinality(Joined) + 1 < runs

Lost == Unended /\ Joins

LEMMA FileTypes ==
  ASSUME IInv
  PROVE  /\ DOMAIN file = 1..Len(file) /\ Len(file) \in Nat
         /\ file # <<>> => Len(file) \in DOMAIN file
         /\ \A i \in DOMAIN file : file[i].item \in Nat
<1>1. file \in Seq(Line)
  BY DEF IInv, TypeOK, Line
<1>2. \A i \in DOMAIN file : file[i] \in Line
  BY <1>1
<1> QED
  BY <1>1, <1>2 DEF Line

LEMMA InitLost == Init => Lost
  BY FS_EmptySet DEF Init, Lost, Unended, Joins, Joined

\* Steps that leave the file and need no more of it than before.
LEMMA SameFileKeepsLost ==
  ASSUME Lost, UNCHANGED <<file, acked, base, runs>>, newline \/ ~newline',
         newline' => writer' \notin {"json", "end"},
         ~newline' => ~newline /\ (writer' \in {"recv", "line"} => writer \in {"recv", "line"})
  PROVE  Lost'
  BY DEF Lost, Unended, Joins, Joined

LEMMA BeginLineKeepsLost ==
  ASSUME IInv, Lost, BeginLine
  PROVE  Lost'
<1>1. /\ file' \in Seq(Line) /\ Len(file') = Len(file) + 1
      /\ \A i \in DOMAIN file : file'[i] = file[i]
      /\ file'[Len(file')] = [item |-> batch[1], cut |-> TRUE, joined |-> ~newline]
  BY BeginLineStores
<1>2. /\ writer = "line" /\ writer' = "json" /\ newline' = FALSE /\ newline \in BOOLEAN
      /\ UNCHANGED <<runs, base, acked>>
  BY DEF BeginLine, IInv, TypeOK, runVars, histVars
<1>3. Len(file) \in Nat /\ DOMAIN file = 1..Len(file) /\ DOMAIN file' = 1..Len(file) + 1
  BY <1>1 DEF IInv, TypeOK
<1>a. file'[Len(file')].joined <=> ~newline
  BY BeginLineStores
<1>4. batch[1] \notin acked
  <2>1. \A m \in Stored : m < batch[1] /\ m \in Nat
    <3>1. \A i \in DOMAIN file : file[i].item < batch[1] /\ file[i].item \in Nat
      BY <1>2, FileTypes DEF IInv, FileOrder
    <3> QED
      BY <3>1 DEF Stored
  <2> QED
    BY <2>1 DEF IInv, TypeOK
<1>5. Unended'
  <2>1. \A i, j \in DOMAIN file' : j = i + 1 /\ file'[j].joined =>
          file'[i].item \notin acked /\ file'[i].item <= base
    <3> SUFFICES ASSUME NEW i \in DOMAIN file', NEW j \in DOMAIN file', j = i + 1,
                        file'[j].joined
                 PROVE file'[i].item \notin acked /\ file'[i].item <= base
      OBVIOUS
    <3>1. i \in DOMAIN file /\ file'[i] = file[i]
      BY <1>1, <1>3
    <3>2. CASE j \in DOMAIN file
      BY <3>1, <3>2, <1>1 DEF Lost, Unended
    <3>3. CASE j = Len(file')
      <4>1. i = Len(file) /\ ~newline
        BY <3>3, <1>1, <1>3, <1>a
      <4> QED
        BY <4>1, <3>1, <1>2 DEF Lost, Unended
    <3> QED
      BY <3>2, <3>3, <1>1, <1>3
  <2>2. file' # <<>> /\ file'[Len(file')].item = batch[1]
    BY <1>1, <1>3
  <2> QED
    BY <1>2, <1>4, <2>1, <2>2 DEF Unended
<1>6. Joins'
  <2>1. CASE newline
    <3>1. \A i \in DOMAIN file' : file'[i].joined => i \in DOMAIN file /\ file[i].joined
      BY <2>1, <1>1, <1>3, <1>a
    <3>2. Joined' = Joined
      BY <3>1, <1>1, <1>3 DEF Joined
    <3> QED
      BY <3>2, <1>2 DEF Lost, Joins
  <2>2. CASE ~newline
    <3>1. Len(file') \in DOMAIN file' /\ file'[Len(file')].joined /\ Len(file') \notin DOMAIN file
      BY <2>2, <1>1, <1>3, <1>a
    <3>2. Joined' = Joined \union {Len(file')} /\ Len(file') \notin Joined
      BY <3>1, <1>1, <1>3 DEF Joined
    <3>3. IsFiniteSet(Joined') /\ Cardinality(Joined') = Cardinality(Joined) + 1
      BY <3>2, FS_AddElement DEF Lost, Joins
    <3> QED
      BY <3>3, <2>2, <1>2 DEF Lost, Joins
  <2> QED
    BY <2>1, <2>2, <1>2
<1> QED
  BY <1>5, <1>6 DEF Lost

LEMMA EndJsonKeepsLost ==
  ASSUME IInv, Lost, EndJson
  PROVE  Lost'
<1>1. /\ file' \in Seq(Line) /\ DOMAIN file' = DOMAIN file /\ Len(file') = Len(file)
      /\ \A i \in DOMAIN file : file'[i].item = file[i].item
                               /\ file'[i].joined = file[i].joined
  BY EndJsonStores
<1>2. /\ writer = "json" /\ writer' = "end" /\ UNCHANGED <<newline, runs, base, acked>>
  BY DEF EndJson, runVars, histVars
<1>3. Joined' = Joined
  BY <1>1 DEF Joined
<1>4. file # <<>> /\ Len(file) \in DOMAIN file /\ file' # <<>>
  BY <1>1, <1>2 DEF IInv, TypeOK, FileOrder
<1> QED
  BY <1>1, <1>2, <1>3, <1>4 DEF Lost, Unended, Joins

\* What is acknowledged belongs to this run.
LEMMA AcknowledgedKeepsLost ==
  ASSUME IInv, Lost, Acknowledged(Head(chan)), writer = "recv",
         UNCHANGED <<file, newline, base, runs>>, writer' \in {"recv", "gone"}
  PROVE  Lost'
<1>1. \A n \in acked' : n \in acked \/ base < n
  BY DEF Acknowledged
<1>2. /\ base \in Nat /\ \A i \in DOMAIN file : file[i].item \in Nat
      /\ file # <<>> => Len(file) \in DOMAIN file
  BY FileTypes DEF IInv, TypeOK
<1>3. \A i \in DOMAIN file : file[i].item <= base /\ file[i].item \notin acked =>
        file[i].item \notin acked'
  BY <1>1, <1>2
<1>4. Unended'
  BY <1>2, <1>3 DEF Lost, Unended
<1> QED
  BY <1>4 DEF Lost, Joins, Joined

LEMMA ResumeKeepsLost ==
  ASSUME IInv, Lost, Resume
  PROVE  Lost'
<1>1. /\ writer' = "recv" /\ runs' = runs + 1 /\ base' = sent /\ writer = "gone"
      /\ UNCHANGED <<file, newline, acked>>
  BY DEF Resume, IInv, diskVars, histVars
<1>2. /\ \A i \in DOMAIN file : file[i].item <= sent
      /\ file # <<>> => Len(file) \in DOMAIN file
  BY DEF IInv, FileOrder, TypeOK
<1>3. Unended'
  BY <1>1, <1>2 DEF Lost, Unended
<1>4. Joined' = Joined /\ Cardinality(Joined) \in Nat
  BY <1>1, FS_CardinalityType DEF Joined, Lost, Joins
<1> QED
  BY <1>1, <1>3, <1>4 DEF Lost, Joins

LEMMA NextKeepsLost == IInv /\ Lost /\ [Next]_vars => Lost'
<1> SUFFICES ASSUME IInv, Lost, [Next]_vars PROVE Lost'
  OBVIOUS
<1> USE DEF diskVars, runVars, writerVars, histVars
<1>1. newline \in BOOLEAN /\ (writer \in {"json", "end"} => ~newline)
  BY DEF IInv, TypeOK, Lost, Unended
<1>2. CASE UNCHANGED vars
  BY <1>1, <1>2, SameFileKeepsLost DEF vars
<1>3. CASE \E c \in Callers : RecordItems(c) \/ RecordEvent(c) \/ FlushRollout(c)
             \/ TakeRecorder(c) \/ CallerStep(c)
  <2>1. UNCHANGED <<file, newline, writer, acked, base, runs>>
    BY <1>3 DEF CallerStep, RecordItems, RecordEvent, FlushRollout, TakeRecorder, SendItems,
       SendItemsFails, SendEvent, SendEventFails, SendAsk, NotAsked, Deliver
  <2> QED
    BY <1>1, <2>1, SameFileKeepsLost
<1>4. CASE ReceiveItems
  BY <1>1, <1>4, SameFileKeepsLost DEF ReceiveItems
<1>5. CASE EndLine
  BY <1>5 DEF EndLine, Lost, Unended, Joins, Joined
<1>6. CASE WriteFails \/ WriterReturns \/ Exit
  BY <1>1, <1>6, SameFileKeepsLost DEF WriteFails, WriterReturns, Exit, WriterGoes
<1>7. CASE Acknowledge
  BY <1>7, AcknowledgedKeepsLost DEF Acknowledge
<1>8. CASE FlushFails
  BY <1>8, AcknowledgedKeepsLost DEF FlushFails, WriterGoes
<1> QED
  BY <1>2, <1>3, <1>4, <1>5, <1>6, <1>7, <1>8, BeginLineKeepsLost, EndJsonKeepsLost,
     ResumeKeepsLost DEF Next, WriterStep

LEMMA LostBounds == IInv /\ Lost => OneLostPerRestart
<1> SUFFICES ASSUME IInv, Lost PROVE OneLostPerRestart
  OBVIOUS
<1>1. \A i, j \in DOMAIN file : i < j => file[i].item < file[j].item
  BY DEF IInv, FileOrder
<1>2. DOMAIN file = 1..Len(file) /\ Len(file) \in Nat /\ \A i \in DOMAIN file : file[i].item \in Nat
  BY FileTypes
<1>3. ASSUME NEW i \in DOMAIN file, file[i].item \in acked
      PROVE  Readable(i) \/ file[i].joined
  <2>1. PICK j \in DOMAIN file : ~file[j].cut /\ file[j].item = file[i].item
    BY <1>3 DEF IInv, Stored
  <2>2. i = j
    BY <2>1, <1>1, <1>2
  <2>3. i < Len(file) => i + 1 \in DOMAIN file
    BY <1>2
  <2> QED
    BY <1>3, <2>1, <2>2, <2>3 DEF Readable, Lost, Unended
<1> QED
  BY <1>3 DEF OneLostPerRestart, Lost, Joins, Joined

\* A reader of the file misses at most one acknowledged record for each restart,
\* the one that was joined to an unended line.
THEOREM AtMostOneLostPerRestart == Spec => []OneLostPerRestart
  BY InitIInv, InitLost, NextKeepsIInv, NextKeepsLost, LostBounds, PTL DEF Spec
-----------------------------------------------------------------------------
(* Those who wait are in line. *)

LEMMA ChanTypes ==
  ASSUME TypeOK
  PROVE  /\ chan \in Seq(AddCommand \union AskCommand)
         /\ Len(chan) \in Nat /\ DOMAIN chan = 1..Len(chan)
         /\ \A k \in DOMAIN chan : ~IsAdd(k) => chan[k].by \in Callers
<1>1. chan \in Seq(AddCommand \union AskCommand)
  BY DEF TypeOK, AddCommand, AskCommand
<1>2. \A k \in DOMAIN chan : chan[k] \in AddCommand \union AskCommand
  BY <1>1
<1> QED
  BY <1>1, <1>2 DEF AddCommand, AskCommand, IsAdd

\* Nobody starts or ends to wait, and the channel is as it was.
LEMMA QuietKeepsLine ==
  ASSUME WaitersAreInLine, chan' = chan, up => up', writer' = "gone" => writer = "gone",
         \A c \in Callers : pc'[c] = "wait" <=> pc[c] = "wait"
  PROVE  WaitersAreInLine'
  BY DEF WaitersAreInLine, Asks

\* Records in the channel answer nobody.
LEMMA RecordsKeepLine ==
  ASSUME IInv, WaitersAreInLine, NEW m \in Nat, NEW n \in Nat, Send(Add(m, n)),
         up' = up, writer' = writer, \A c \in Callers : pc'[c] = "wait" <=> pc[c] = "wait"
  PROVE  WaitersAreInLine'
<1>1. Add(m, n) \in AddCommand
  BY DEF Add, AddCommand
<1>2. /\ Len(chan') = Len(chan) + 1 /\ chan'[Len(chan')] = Add(m, n)
      /\ DOMAIN chan = 1..Len(chan) /\ DOMAIN chan' = 1..Len(chan')
      /\ \A k \in DOMAIN chan : chan'[k] = chan[k]
  BY <1>1, SendAppends
<1>3. chan'[Len(chan')].kind = "add"
  BY <1>2 DEF Add
<1>4. Len(chan) \in Nat
  BY ChanTypes DEF IInv
<1>5. DOMAIN chan \subseteq DOMAIN chan'
      /\ \A k \in DOMAIN chan' : k \in DOMAIN chan \/ k = Len(chan')
  BY <1>2, <1>4
<1>6. \A c \in Callers : Asks(c)' = Asks(c)
  BY <1>2, <1>3, <1>5 DEF Asks
<1> QED
  BY <1>5, <1>6 DEF WaitersAreInLine

LEMMA SendAskKeepsLine ==
  ASSUME IInv, WaitersAreInLine, NEW c \in Callers, SendAsk(c)
  PROVE  WaitersAreInLine'
<1> DEFINE cmd == Ask(pc[c], c)
<1>1. /\ pc[c] \in {"flush", "shutdown"} /\ pc' = [pc EXCEPT ![c] = "wait"] /\ up /\ up' = up
      /\ Send(cmd) /\ writer' = writer /\ writer # "gone"
  BY DEF SendAsk, Goto, Send, runVars, writerVars
<1>2. cmd \in AskCommand /\ cmd.kind # "add" /\ cmd.by = c
  BY <1>1 DEF Ask, AskCommand, IInv, TypeOK
<1> HIDE DEF cmd
<1>3. /\ Len(chan') = Len(chan) + 1 /\ chan'[Len(chan')] = cmd
      /\ DOMAIN chan = 1..Len(chan) /\ DOMAIN chan' = 1..Len(chan')
      /\ \A k \in DOMAIN chan : chan'[k] = chan[k]
  BY <1>1, <1>2, SendAppends
<1>4. Len(chan) \in Nat /\ pc \in [Callers -> PCs]
  BY ChanTypes DEF IInv, TypeOK
<1>5. DOMAIN chan \subseteq DOMAIN chan' /\ Len(chan') \in DOMAIN chan'
      /\ \A k \in DOMAIN chan' : k \in DOMAIN chan \/ k = Len(chan')
  BY <1>3, <1>4
<1>6. Asks(c) = {} /\ Asks(c)' = {Len(chan')}
  <2>1. Asks(c) = {}
    BY <1>1 DEF WaitersAreInLine
  <2> QED
    BY <2>1, <1>2, <1>3, <1>5 DEF Asks
<1>7. \A d \in Callers : d # c => Asks(d)' = Asks(d)
  BY <1>2, <1>3, <1>5 DEF Asks
<1>8. pc'[c] = "wait" /\ \A d \in Callers : d # c => pc'[d] = pc[d]
  BY <1>1, <1>4
<1> QED
  BY <1>1, <1>5, <1>6, <1>7, <1>8 DEF WaitersAreInLine

\* Every command moves up by one place.
LEMMA TakeMovesUp ==
  ASSUME IInv, chan # <<>>, chan' = Tail(chan)
  PROVE  /\ 1 \in DOMAIN chan /\ Head(chan) = chan[1]
         /\ \A c, k : k \in Asks(c)' <=> k \in Nat /\ k + 1 \in Asks(c) /\ k # 0
         /\ \A k \in DOMAIN chan : k # 1 => k - 1 \in DOMAIN chan'
<1>1. /\ chan \in Seq(AddCommand \union AskCommand)
      /\ Len(chan) \in Nat /\ DOMAIN chan = 1..Len(chan)
  BY ChanTypes DEF IInv
<1>2. /\ Len(chan') = Len(chan) - 1 /\ DOMAIN chan' = 1..(Len(chan) - 1) /\ Len(chan) # 0
      /\ \A k \in 1..(Len(chan) - 1) : chan'[k] = chan[k + 1]
  BY <1>1
<1>3. 1 \in DOMAIN chan /\ Head(chan) = chan[1]
  BY <1>1, <1>2
<1>4. \A k : k \in DOMAIN chan' <=> k \in Nat /\ k # 0 /\ k + 1 \in DOMAIN chan
  BY <1>1, <1>2
<1>5. ASSUME NEW c, NEW k
      PROVE  k \in Asks(c)' <=> k \in Nat /\ k + 1 \in Asks(c) /\ k # 0
  BY <1>2, <1>4 DEF Asks
<1> QED
  BY <1>1, <1>2, <1>3, <1>5

\* A caller that asks, further back than the head, still does.
LEMMA TakeKeepsAsk ==
  ASSUME IInv, chan # <<>>, chan' = Tail(chan), NEW c \in Callers, 1 \notin Asks(c)
  PROVE  /\ Asks(c) = {} => Asks(c)' = {}
         /\ (\E k \in DOMAIN chan : Asks(c) = {k}) => \E k \in DOMAIN chan' : Asks(c)' = {k}
<1>1. /\ \A k : k \in Asks(c)' <=> k \in Nat /\ k + 1 \in Asks(c) /\ k # 0
      /\ \A k \in DOMAIN chan : k # 1 => k - 1 \in DOMAIN chan'
  BY TakeMovesUp
<1>2. DOMAIN chan = 1..Len(chan) /\ Len(chan) \in Nat
  BY ChanTypes DEF IInv
<1>3. ASSUME NEW k \in DOMAIN chan, Asks(c) = {k}
      PROVE  k - 1 \in DOMAIN chan' /\ Asks(c)' = {k - 1}
  <2>1. k # 1 /\ k \in Nat /\ k # 0
    BY <1>2, <1>3
  <2>2. \A j : j \in Asks(c)' <=> j = k - 1
    BY <1>1, <1>3, <2>1
  <2> QED
    BY <1>1, <2>1, <2>2
<1> QED
  BY <1>1, <1>3

LEMMA ReceiveItemsKeepsLine ==
  ASSUME IInv, WaitersAreInLine, ReceiveItems
  PROVE  WaitersAreInLine'
<1>1. /\ chan # <<>> /\ Head(chan).kind = "add" /\ chan' = Tail(chan)
      /\ writer' = "line" /\ UNCHANGED <<up, pc>>
  BY DEF ReceiveItems, runVars, callerVars
<1>2. \A c \in Callers : 1 \notin Asks(c)
  BY <1>1, TakeMovesUp DEF Asks
<1> QED
  BY <1>1, <1>2, TakeKeepsAsk DEF WaitersAreInLine

LEMMA AcknowledgeKeepsLine ==
  ASSUME IInv, WaitersAreInLine, Acknowledge
  PROVE  WaitersAreInLine'
<1>1. /\ chan # <<>> /\ Head(chan).kind # "add" /\ chan' = Tail(chan) /\ Answer({Head(chan).by})
      /\ up /\ UNCHANGED <<up, writer>>
  BY DEF Acknowledge, runVars, writerVars
<1>2. 1 \in DOMAIN chan /\ Head(chan) = chan[1]
  BY <1>1, TakeMovesUp
<1>3. \A c \in Callers : IF c = Head(chan).by THEN pc'[c] = "answered" ELSE pc'[c] = pc[c]
  BY <1>1 DEF Answer
<1>4. ASSUME NEW c \in Callers, c = Head(chan).by
      PROVE  Asks(c)' = {}
  <2>1. 1 \in Asks(c)
    BY <1>1, <1>2, <1>4 DEF Asks
  <2>2. Asks(c) = {1}
    BY <2>1 DEF WaitersAreInLine
  <2> QED
    BY <2>2, <1>1, TakeMovesUp
<1>5. \A c \in Callers : c # Head(chan).by => 1 \notin Asks(c)
  BY <1>2 DEF Asks
<1> QED
  BY <1>1, <1>3, <1>4, <1>5, TakeKeepsAsk DEF WaitersAreInLine

\* A writer that goes answers all who wait.
LEMMA GoneKeepsLine ==
  ASSUME chan' = <<>>, \A c \in Callers : pc'[c] # "wait"
  PROVE  WaitersAreInLine'
  BY DEF WaitersAreInLine, Asks

LEMMA WriterGoesKeepsLine ==
  ASSUME WriterGoes
  PROVE  WaitersAreInLine'
<1>1. chan' = <<>> /\ \A c \in Callers : pc'[c] # "wait"
  BY DEF WriterGoes, Answer
<1> QED
  BY <1>1, GoneKeepsLine

LEMMA CallerKeepsLine ==
  ASSUME IInv, WaitersAreInLine, NEW c \in Callers,
         RecordItems(c) \/ RecordEvent(c) \/ FlushRollout(c) \/ TakeRecorder(c) \/ CallerStep(c)
  PROVE  WaitersAreInLine'
<1> USE DEF runVars, writerVars, callerVars
<1>1. pc \in [Callers -> PCs] /\ sent \in Nat
  BY DEF IInv, TypeOK
<1>2. CASE RecordItems(c) \/ RecordEvent(c) \/ FlushRollout(c) \/ TakeRecorder(c)
           \/ SendItemsFails(c) \/ SendEventFails(c) \/ NotAsked(c) \/ Deliver(c)
  <2>1. /\ chan' = chan /\ up' = up /\ writer' = writer
        /\ \E to \in {"record", "event", "flush", "shutdown", "answered", "idle"} :
             pc' = [pc EXCEPT ![c] = to]
        /\ pc[c] # "wait"
    BY <1>2 DEF RecordItems, RecordEvent, FlushRollout, TakeRecorder, SendItemsFails,
       SendEventFails, NotAsked, Deliver, Goto
  <2>2. \A d \in Callers : pc'[d] = "wait" <=> pc[d] = "wait"
    BY <1>1, <2>1
  <2> QED
    BY <2>1, <2>2, QuietKeepsLine
<1>3. CASE SendItems(c)
  <2>1. PICK n \in 1..MaxBatch : Send(Add(sent + 1, sent + n))
    BY <1>3 DEF SendItems
  <2>2. \A d \in Callers : pc'[d] = "wait" <=> pc[d] = "wait"
    BY <1>1, <1>3 DEF SendItems, Goto
  <2>3. n \in Nat
    BY <2>1, BoundAssumption
  <2> QED
    BY <1>1, <1>3, <2>1, <2>2, <2>3, RecordsKeepLine DEF SendItems
<1>4. CASE SendEvent(c)
  <2>1. \A d \in Callers : pc'[d] = "wait" <=> pc[d] = "wait"
    BY <1>1, <1>4 DEF SendEvent, Goto
  <2> QED
    BY <1>1, <1>4, <2>1, RecordsKeepLine DEF SendEvent
<1>5. CASE SendAsk(c)
  BY <1>5, SendAskKeepsLine
<1> QED
  BY <1>2, <1>3, <1>4, <1>5 DEF CallerStep

LEMMA NextKeepsLine == IInv /\ WaitersAreInLine /\ [Next]_vars => WaitersAreInLine'
<1> SUFFICES ASSUME IInv, WaitersAreInLine, [Next]_vars PROVE WaitersAreInLine'
  OBVIOUS
<1> USE DEF runVars, writerVars, callerVars
<1>1. CASE UNCHANGED vars
  BY <1>1, QuietKeepsLine DEF vars
<1>2. CASE BeginLine \/ EndJson \/ EndLine
  BY <1>2, QuietKeepsLine DEF BeginLine, EndJson, EndLine
<1>3. CASE WriterReturns \/ WriteFails \/ FlushFails
  BY <1>3, WriterGoesKeepsLine DEF WriterReturns, WriteFails, FlushFails
<1>4. CASE Exit
  BY <1>4, GoneKeepsLine DEF Exit
<1>5. CASE Resume
  BY <1>5, QuietKeepsLine DEF Resume
<1> QED
  BY <1>1, <1>2, <1>3, <1>4, <1>5, CallerKeepsLine, ReceiveItemsKeepsLine,
     AcknowledgeKeepsLine DEF Next, WriterStep

\* For any number of callers, channel capacity, batches and runs: whoever waits
\* for the writer has one command in its channel.
THEOREM CallersAreInLine == Spec => []WaitersAreInLine
<1>1. Init => WaitersAreInLine
  BY DEF Init, WaitersAreInLine, Asks
<1> QED
  BY <1>1, InitIInv, NextKeepsIInv, NextKeepsLine, PTL DEF Spec
=============================================================================
