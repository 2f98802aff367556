----------------------------- MODULE Readiness -----------------------------
(* utils/readiness: the flag a turn's mutating tool calls wait on until the   *)
(* ghost snapshot of that turn is taken (core's tool_call_gate).              *)
(*                                                                            *)
(* A step is what happens between two points where another thread can get in: *)
(* an atomic access, a lock operation, a call on the watch channel.  What is  *)
(* done under the token lock is one step, with the release of the lock: but   *)
(* for `ready`, which it writes once, nothing of it shows outside.            *)
EXTENDS Integers, FiniteSets

CONSTANTS
  Owners,   \* tasks that subscribe and then mark the flag ready
  Waiters,  \* tasks that call wait_ready
  NoOne     \* the lock is free

ASSUME ActorsAssumption ==
  Owners \intersect Waiters = {} /\ NoOne \notin Owners \union Waiters

Actors == Owners \union Waiters

VARIABLES
  ready,      \* ReadinessFlag::ready
  next_id,    \* ReadinessFlag::next_id (a flag lives for one turn: no wrap)
  tokens,     \* ReadinessFlag::tokens
  lock,       \* who holds the mutex around the tokens
  value,      \* the value in the watch channel `tx`
  receivers,  \* waiters that hold a receiver of it
  pc,         \* where each actor is
  token,      \* token[o]: what subscribe returned; 0 is no token
  marked      \* mark_ready calls that have authorised the change

vars == <<ready, next_id, tokens, lock, value, receivers, pc, token, marked>>
channel == <<value, receivers>>
flag == <<ready, next_id, tokens, marked>>

OwnerPCs == {"idle", "sub_lock", "sub_locked", "held", "mark_lock", "mark_locked",
             "mark_send", "refused"}
WaiterPCs == {"idle", "try", "locked", "swap_send", "reload", "subscribe", "borrow",
              "await", "through", "dropped"}

TypeOK ==
  /\ ready \in BOOLEAN /\ value \in BOOLEAN
  /\ next_id \in Nat \ {0}
  /\ tokens \subseteq 1 .. (next_id - 1)
  /\ lock \in Actors \union {NoOne}
  /\ receivers \subseteq Waiters
  /\ pc \in [Actors -> OwnerPCs \union WaiterPCs]
  /\ token \in [Owners -> Nat]
  /\ marked \in Nat

Init ==
  /\ ready = FALSE /\ value = FALSE
  /\ next_id = 1
  /\ tokens = {} /\ lock = NoOne /\ receivers = {}
  /\ pc = [a \in Actors |-> "idle"]
  /\ token = [o \in Owners |-> 0]
  /\ marked = 0

Goto(a, from, to) == pc[a] = from /\ pc' = [pc EXCEPT ![a] = to]

Lock(a) == lock = NoOne /\ lock' = a
Unlock(a) == lock = a /\ lock' = NoOne

\* watch::Sender::send: without a receiver it fails and stores nothing.
Send == value' = (value \/ receivers # {})

----------------------------------------------------------------------------
(* subscribe *)

\* load_ready
SubscribeLoad(o) ==
  /\ Goto(o, "idle", IF ready THEN "refused" ELSE "sub_lock")
  /\ UNCHANGED <<flag, lock, channel, token>>

\* with_tokens gets the lock ...
SubscribeLock(o) ==
  /\ Goto(o, "sub_lock", "sub_locked") /\ Lock(o)
  /\ UNCHANGED <<flag, channel, token>>

\* ... or gives up after LOCK_TIMEOUT: TokenLockFailed, and the caller only
\* logs it.
LockTimesOut(o) ==
  /\ lock # NoOne
  /\ pc[o] \in {"sub_lock", "mark_lock"}
  /\ pc' = [pc EXCEPT ![o] = "refused"]
  /\ UNCHANGED <<flag, lock, channel, token>>

\* Mutant: no second look at the flag once the lock is held.
IssueUnchecked(o) ==
  /\ Unlock(o)
  /\ Goto(o, "sub_locked", "held")
  /\ tokens' = tokens \union {next_id}
  /\ token' = [token EXCEPT ![o] = next_id]
  /\ next_id' = next_id + 1
  /\ UNCHANGED <<ready, marked, channel>>

\* Under the lock: recheck, then insert a fresh token.
Issue(o) ==
  /\ Unlock(o)
  /\ IF ready
       THEN Goto(o, "sub_locked", "refused") /\ UNCHANGED <<tokens, token, next_id>>
       ELSE /\ Goto(o, "sub_locked", "held")
            /\ tokens' = tokens \union {next_id}
            /\ token' = [token EXCEPT ![o] = next_id]
            /\ next_id' = next_id + 1
  /\ UNCHANGED <<ready, marked, channel>>

----------------------------------------------------------------------------
(* mark_ready; it can be called again with the same token *)

\* load_ready: already ready, Ok(false).
MarkLoad(o) ==
  /\ Goto(o, "held", IF ready THEN "held" ELSE "mark_lock")
  /\ UNCHANGED <<flag, lock, channel, token>>

MarkLock(o) ==
  /\ Goto(o, "mark_lock", "mark_locked") /\ Lock(o)
  /\ UNCHANGED <<flag, channel, token>>

\* Mutant: the other tokens stay valid.
AuthoriseKeepsTokens(o) ==
  /\ Unlock(o)
  /\ IF token[o] \notin tokens
       THEN Goto(o, "mark_locked", "held") /\ UNCHANGED <<ready, tokens, marked>>
       ELSE /\ Goto(o, "mark_locked", "mark_send")
            /\ ready' = TRUE /\ tokens' = tokens \ {token[o]} /\ marked' = marked + 1
  /\ UNCHANGED <<next_id, token, channel>>

\* Under the lock: an unknown or used token is refused; a valid one makes the
\* flag ready and voids all the others.
Authorise(o) ==
  /\ Unlock(o)
  /\ IF token[o] \notin tokens
       THEN Goto(o, "mark_locked", "held") /\ UNCHANGED <<ready, tokens, marked>>
       ELSE /\ Goto(o, "mark_locked", "mark_send")
            /\ ready' = TRUE /\ tokens' = {} /\ marked' = marked + 1
  /\ UNCHANGED <<next_id, token, channel>>

\* Mutant: the waiters are not told.
MarkSilent(o) ==
  /\ Goto(o, "mark_send", "held")
  /\ UNCHANGED <<flag, lock, channel, token>>

\* The broadcast; Ok(true).
MarkSend(o) ==
  /\ Goto(o, "mark_send", "held") /\ Send
  /\ UNCHANGED <<flag, lock, receivers, token>>

----------------------------------------------------------------------------
(* wait_ready, with the call of is_ready inlined *)

\* is_ready: load_ready
WaitLoad(w) ==
  /\ Goto(w, "idle", IF ready THEN "through" ELSE "try")
  /\ UNCHANGED <<flag, lock, channel, token>>

\* try_lock; busy: look at the flag once more.
WaitTryLock(w) ==
  /\ \/ Goto(w, "try", "locked") /\ Lock(w)
     \/ lock # NoOne /\ Goto(w, "try", "reload") /\ UNCHANGED lock
  /\ UNCHANGED <<flag, channel, token>>

\* Nobody subscribed: the flag makes itself ready.
WaitSwap(w) ==
  /\ Unlock(w)
  /\ IF tokens = {}
       THEN /\ Goto(w, "locked", IF ready THEN "through" ELSE "swap_send")
            /\ ready' = TRUE
       ELSE Goto(w, "locked", "reload") /\ UNCHANGED ready
  /\ UNCHANGED <<next_id, tokens, marked, channel, token>>

WaitSwapSend(w) ==
  /\ Goto(w, "swap_send", "through") /\ Send
  /\ UNCHANGED <<flag, lock, receivers, token>>

WaitReload(w) ==
  /\ Goto(w, "reload", IF ready THEN "through" ELSE "subscribe")
  /\ UNCHANGED <<flag, lock, channel, token>>

\* tx.subscribe()
WaitSubscribe(w) ==
  /\ Goto(w, "subscribe", "borrow")
  /\ receivers' = receivers \union {w}
  /\ UNCHANGED <<flag, lock, value, token>>

\* The fast path.
WaitBorrow(w) ==
  /\ Goto(w, "borrow", IF value THEN "through" ELSE "await")
  /\ receivers' = IF value THEN receivers \ {w} ELSE receivers
  /\ UNCHANGED <<flag, lock, value, token>>

\* rx.changed(): the value only ever changes to true.
WaitChanged(w) ==
  /\ value
  /\ Goto(w, "await", "through")
  /\ receivers' = receivers \ {w}
  /\ UNCHANGED <<flag, lock, value, token>>

\* The tool call is cancelled while it waits; its receiver is dropped.
WaitDropped(w) ==
  /\ Goto(w, "await", "dropped")
  /\ receivers' = receivers \ {w}
  /\ UNCHANGED <<flag, lock, value, token>>

OwnerStep(o) ==
  \/ SubscribeLock(o) \/ LockTimesOut(o) \/ Issue(o)
  \/ MarkLock(o) \/ Authorise(o) \/ MarkSend(o)

WaiterStep(w) ==
  \/ WaitTryLock(w) \/ WaitSwap(w) \/ WaitSwapSend(w) \/ WaitReload(w)
  \/ WaitSubscribe(w) \/ WaitBorrow(w) \/ WaitChanged(w)

Next ==
  \/ \E o \in Owners : SubscribeLoad(o) \/ MarkLoad(o) \/ OwnerStep(o)
  \/ \E w \in Waiters : WaitLoad(w) \/ WaiterStep(w) \/ WaitDropped(w)

\* A call that was made goes on; nobody has to make one.
Fairness ==
  /\ \A o \in Owners : WF_vars(OwnerStep(o))
  /\ \A w \in Waiters : WF_vars(WaiterStep(w))

Spec == Init /\ [][Next]_vars

FairSpec == Spec /\ Fairness

----------------------------------------------------------------------------
(* Properties *)

\* mark_ready returns true "iff token is currently subscribed, and the flag was
\* not already ready": of all the calls that race, one succeeds at most.
OneCallMarks == marked <= 1

\* As long as a token is outstanding the flag waits for it: subscribe never
\* returns a token of a flag that made itself ready, and is_ready never makes
\* the flag ready under a token (the two race for the lock).
TokenHoldsTheFlag ==
  ready /\ marked = 0 => \A o \in Owners : token[o] = 0

\* A waiter that had its receiver before the flag became ready gets through,
\* or is dropped.
ReceiverIsWoken ==
  \A w \in Waiters :
    [](w \in receivers /\ ~ready => [](ready => <>(pc[w] \in {"through", "dropped"})))

=============================================================================
