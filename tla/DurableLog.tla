---------------------------- MODULE DurableLog ----------------------------
(* What a thread expects of its rollout: records are numbered in the order    *)
(* they were handed over, are stored once each in that order and never leave; *)
(* what was acknowledged is a part of what is stored.                         *)
EXTENDS Naturals

VARIABLES
  stored,  \* records whose bytes are on the disk
  acked    \* records a caller was told about

Init == stored = {} /\ acked = {}

\* One more record, behind all the others.
Store == \E n \in stored' :
  /\ \A m \in stored : m < n
  /\ stored' = stored \union {n}
  /\ UNCHANGED acked

\* More of what is stored is acknowledged.
Acknowledge ==
  /\ acked \subseteq acked' /\ acked' \subseteq stored
  /\ UNCHANGED stored

Spec == Init /\ [][Store \/ Acknowledge]_<<stored, acked>>
=============================================================================
