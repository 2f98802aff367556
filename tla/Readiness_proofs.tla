-------------------------- MODULE Readiness_proofs --------------------------
(* Proofs about Readiness: which tokens are valid, before and after the flag  *)
(* becomes ready.                                                             *)
EXTENDS Readiness, TLAPS

\* A ready flag has no valid token, one mark made it ready at most, and before
\* that every token handed out is valid.
Tokens ==
  /\ ready => tokens = {}
  /\ marked > 0 => ready
  /\ marked <= 1
  /\ marked = 0 => \A o \in Owners : token[o] # 0 => token[o] \in tokens

\* Every step preserves the types.
LEMMA TypeStep == TypeOK /\ [Next]_vars => TypeOK'
<1> SUFFICES ASSUME TypeOK, [Next]_vars PROVE TypeOK'
  OBVIOUS
<1> USE ActorsAssumption
    DEF TypeOK, Actors, OwnerPCs, WaiterPCs, vars, channel, flag
<1>1. ASSUME NEW o \in Owners, SubscribeLoad(o) PROVE  TypeOK'
  BY <1>1 DEF SubscribeLoad, Goto
<1>2. ASSUME NEW o \in Owners, MarkLoad(o) PROVE  TypeOK'
  BY <1>2 DEF MarkLoad, Goto
<1>3. ASSUME NEW o \in Owners, SubscribeLock(o) PROVE  TypeOK'
  BY <1>3 DEF SubscribeLock, Goto, Lock
<1>4. ASSUME NEW o \in Owners, LockTimesOut(o) PROVE  TypeOK'
  BY <1>4 DEF LockTimesOut
<1>5. ASSUME NEW o \in Owners, Issue(o) PROVE  TypeOK'
  <2>1. CASE ready
    BY <1>5, <2>1 DEF Issue, Goto, Unlock
  <2>2. CASE ~(ready)
    <3>1. /\ Goto(o, "sub_locked", "held") /\ tokens' = tokens \union {next_id}
          /\ token' = [token EXCEPT ![o] = next_id] /\ next_id' = next_id + 1
          /\ Unlock(o) /\ UNCHANGED <<ready, marked, value, receivers>>
      BY <1>5, <2>2, Zenon DEF Issue, channel
    <3>2. ready' \in BOOLEAN /\ value' \in BOOLEAN
      BY <3>1, Zenon
    <3>3. tokens' \subseteq 1 .. (next_id' - 1)
      BY <3>1
    <3> QED
      BY <3>1, <3>2, <3>3 DEF Goto, Unlock
  <2> QED
    BY <2>1, <2>2
<1>6. ASSUME NEW o \in Owners, MarkLock(o) PROVE  TypeOK'
  BY <1>6 DEF MarkLock, Goto, Lock
<1>7. ASSUME NEW o \in Owners, Authorise(o) PROVE  TypeOK'
  <2>1. CASE token[o] \in tokens
    BY <1>7, <2>1 DEF Authorise, Goto, Unlock
  <2>2. CASE ~(token[o] \in tokens)
    BY <1>7, <2>2 DEF Authorise, Goto, Unlock
  <2> QED
    BY <2>1, <2>2
<1>8. ASSUME NEW o \in Owners, MarkSend(o) PROVE  TypeOK'
  BY <1>8 DEF MarkSend, Goto, Send
<1>9. ASSUME NEW w \in Waiters, WaitLoad(w) PROVE  TypeOK'
  BY <1>9 DEF WaitLoad, Goto
<1>10. ASSUME NEW w \in Waiters, WaitTryLock(w) PROVE  TypeOK'
  BY <1>10 DEF WaitTryLock, Goto, Lock
<1>11. ASSUME NEW w \in Waiters, WaitSwap(w) PROVE  TypeOK'
  BY <1>11 DEF WaitSwap, Goto, Unlock
<1>12. ASSUME NEW w \in Waiters, WaitSwapSend(w) PROVE  TypeOK'
  BY <1>12 DEF WaitSwapSend, Goto, Send
<1>13. ASSUME NEW w \in Waiters, WaitReload(w) PROVE  TypeOK'
  BY <1>13 DEF WaitReload, Goto
<1>14. ASSUME NEW w \in Waiters, WaitSubscribe(w) PROVE  TypeOK'
  BY <1>14 DEF WaitSubscribe, Goto
<1>15. ASSUME NEW w \in Waiters, WaitBorrow(w) PROVE  TypeOK'
  BY <1>15 DEF WaitBorrow, Goto
<1>16. ASSUME NEW w \in Waiters, WaitChanged(w) PROVE  TypeOK'
  BY <1>16 DEF WaitChanged, Goto
<1>17. ASSUME NEW w \in Waiters, WaitDropped(w) PROVE  TypeOK'
  BY <1>17 DEF WaitDropped, Goto
<1>18. CASE UNCHANGED vars
  BY <1>18
<1> HIDE DEF TypeOK
<1> QED
  BY <1>1, <1>2, <1>3, <1>4, <1>5, <1>6, <1>7, <1>8, <1>9, <1>10, <1>11, 
     <1>12, <1>13, <1>14, <1>15, <1>16, <1>17, <1>18
     DEF Next, OwnerStep, WaiterStep

\* Every step keeps the tokens in order.
LEMMA TokensStep == TypeOK /\ Tokens /\ [Next]_vars => Tokens'
<1> SUFFICES ASSUME TypeOK, Tokens, [Next]_vars PROVE Tokens'
  OBVIOUS
<1>0. /\ ready \in BOOLEAN /\ next_id \in Nat /\ tokens \subseteq 1 .. (next_id - 1)
      /\ marked \in Nat /\ token \in [Owners -> Nat]
      /\ next_id > 0
  BY DEF TypeOK
<1> USE <1>0 DEF Tokens, vars, channel, flag
<1>1. ASSUME NEW o \in Owners, SubscribeLoad(o) PROVE  Tokens'
  BY <1>1 DEF SubscribeLoad, Goto
<1>2. ASSUME NEW o \in Owners, MarkLoad(o) PROVE  Tokens'
  BY <1>2 DEF MarkLoad, Goto
<1>3. ASSUME NEW o \in Owners, SubscribeLock(o) PROVE  Tokens'
  BY <1>3 DEF SubscribeLock, Goto, Lock
<1>4. ASSUME NEW o \in Owners, LockTimesOut(o) PROVE  Tokens'
  BY <1>4 DEF LockTimesOut
<1>5. ASSUME NEW o \in Owners, Issue(o) PROVE  Tokens'
  BY <1>5 DEF Issue, Goto, Unlock
<1>6. ASSUME NEW o \in Owners, MarkLock(o) PROVE  Tokens'
  BY <1>6 DEF MarkLock, Goto, Lock
<1>7. ASSUME NEW o \in Owners, Authorise(o) PROVE  Tokens'
  <2>1. CASE token[o] \in tokens
    BY <1>7, <2>1 DEF Authorise, Goto, Unlock
  <2>2. CASE ~(token[o] \in tokens)
    <3>1. UNCHANGED <<ready, tokens, marked, token>>
      BY <1>7, <2>2, Zenon DEF Authorise
    <3> QED
      BY <3>1
  <2> QED
    BY <2>1, <2>2
<1>8. ASSUME NEW o \in Owners, MarkSend(o) PROVE  Tokens'
  BY <1>8 DEF MarkSend, Goto, Send
<1>9. ASSUME NEW w \in Waiters, WaitLoad(w) PROVE  Tokens'
  BY <1>9 DEF WaitLoad, Goto
<1>10. ASSUME NEW w \in Waiters, WaitTryLock(w) PROVE  Tokens'
  BY <1>10 DEF WaitTryLock, Goto, Lock
<1>11. ASSUME NEW w \in Waiters, WaitSwap(w) PROVE  Tokens'
  BY <1>11 DEF WaitSwap, Goto, Unlock
<1>12. ASSUME NEW w \in Waiters, WaitSwapSend(w) PROVE  Tokens'
  BY <1>12 DEF WaitSwapSend, Goto, Send
<1>13. ASSUME NEW w \in Waiters, WaitReload(w) PROVE  Tokens'
  BY <1>13 DEF WaitReload, Goto
<1>14. ASSUME NEW w \in Waiters, WaitSubscribe(w) PROVE  Tokens'
  BY <1>14 DEF WaitSubscribe, Goto
<1>15. ASSUME NEW w \in Waiters, WaitBorrow(w) PROVE  Tokens'
  BY <1>15 DEF WaitBorrow, Goto
<1>16. ASSUME NEW w \in Waiters, WaitChanged(w) PROVE  Tokens'
  BY <1>16 DEF WaitChanged, Goto
<1>17. ASSUME NEW w \in Waiters, WaitDropped(w) PROVE  Tokens'
  BY <1>17 DEF WaitDropped, Goto
<1>18. CASE UNCHANGED vars
  BY <1>18
<1> HIDE DEF Tokens
<1> QED
  BY <1>1, <1>2, <1>3, <1>4, <1>5, <1>6, <1>7, <1>8, <1>9, <1>10, <1>11, 
     <1>12, <1>13, <1>14, <1>15, <1>16, <1>17, <1>18
     DEF Next, OwnerStep, WaiterStep

\* The invariant holds initially and always.
LEMMA Invariance == Spec => [](TypeOK /\ Tokens)
<1>1. Init => TypeOK /\ Tokens
  <2> SUFFICES ASSUME Init PROVE TypeOK /\ Tokens
    OBVIOUS
  <2>1. Tokens
    BY DEF Init, Tokens
  <2>2. pc \in [Actors -> OwnerPCs \union WaiterPCs] /\ token \in [Owners -> Nat]
    BY DEF Init, OwnerPCs, WaiterPCs
  <2>3. ready \in BOOLEAN /\ value \in BOOLEAN
    BY Zenon DEF Init
  <2>4. lock \in Actors \union {NoOne} /\ receivers \subseteq Waiters /\ tokens \subseteq 1 .. (next_id - 1)
    BY DEF Init
  <2>5. next_id \in Nat \ {0} /\ marked \in Nat
    BY DEF Init
  <2> QED
    BY <2>1, <2>2, <2>3, <2>4, <2>5, Zenon DEF TypeOK
<1>2. TypeOK /\ Tokens /\ [Next]_vars => (TypeOK /\ Tokens)'
  BY TypeStep, TokensStep
<1> QED
  BY <1>1, <1>2, PTL DEF Spec

\* Every variable keeps its type.
THEOREM TypeCorrect == Spec => []TypeOK
BY Invariance, PTL

\* Of all the mark_ready calls that race, one succeeds at most.
THEOREM OneCallMarksTheFlag == Spec => []OneCallMarks
<1>1. Tokens => OneCallMarks
  BY DEF Tokens, OneCallMarks
<1> QED
  BY Invariance, <1>1, PTL

\* A flag never makes itself ready while a token is outstanding.
THEOREM TokensHoldTheFlag == Spec => []TokenHoldsTheFlag
<1>1. Tokens => TokenHoldsTheFlag
  BY DEF Tokens, TokenHoldsTheFlag
<1> QED
  BY Invariance, <1>1, PTL
=============================================================================
