------------------------------ MODULE TaskSlot ------------------------------
(* What docs/protocol_v1.md promises of a session: "Session has at most one  *)
(* Task running at a time".  A slot that is empty or holds the running task;  *)
(* a task that left it never comes back.                                      *)
CONSTANTS Tasks, None

VARIABLES slot, over

Init == slot = None /\ over = {}

Begin(t) ==
  /\ slot = None /\ t \notin over
  /\ slot' = t
  /\ UNCHANGED over

End ==
  /\ slot # None
  /\ slot' = None
  /\ over' = over \union {slot}

Next == End \/ \E t \in Tasks : Begin(t)

Spec == Init /\ [][Next]_<<slot, over>>
=============================================================================
