----------------------------- MODULE AtLeastOnce -----------------------------
(***************************************************************************)
(* What the audit consumer promises, without replicas, goroutines or       *)
(* deliveries: rows of published messages get stored, in any order and any *)
(* number of times, storing is never undone, and a message is settled only *)
(* once everything it holds is stored, and stays settled.                  *)
(***************************************************************************)
CONSTANTS
  Msg,     \* the messages
  Item,    \* what they hold
  Holds    \* Msg -> SUBSET Item

VARIABLES
  status,  \* where each message stands
  stored   \* the items found in the tables

vars == <<status, stored>>

Init ==
  /\ status = [m \in Msg |-> "absent"]
  /\ stored = {}

Publish(m) ==
  /\ status[m] = "absent"
  /\ status' = [status EXCEPT ![m] = "pending"]
  /\ UNCHANGED stored

\* Any part of what published messages hold is stored; a copy of a settled or
\* dropped message may still be written.
Store ==
  /\ stored \subseteq stored'
  /\ \A i \in stored' \ stored : \E m \in Msg : status[m] # "absent" /\ i \in Holds[m]
  /\ UNCHANGED status

\* The messages of S are settled together.
Settle(S) ==
  /\ \A m \in S : status[m] = "pending" /\ Holds[m] \subseteq stored
  /\ status' = [m \in Msg |-> IF m \in S THEN "done" ELSE status[m]]
  /\ UNCHANGED stored

\* The stream drops the message at its limits.
Drop(m) ==
  /\ status[m] = "pending"
  /\ status' = [status EXCEPT ![m] = "gone"]
  /\ UNCHANGED stored

Next ==
  \/ \E m \in Msg : Publish(m) \/ Drop(m)
  \/ \E S \in SUBSET Msg : Settle(S)
  \/ Store

Spec == Init /\ [][Next]_vars
=============================================================================
