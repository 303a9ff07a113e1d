---------------------------- MODULE MCLogConsumer ----------------------------
(* Instances of LogConsumer for TLC. *)
EXTENDS LogConsumer, TLC

CONSTANTS m1, m2, m3

MCLine == {"l1", "l2", "l3"}

\* m1: one line; m2: a batch of two lines; m3: nothing to store.
MCLines == [m \in Msg |-> CASE m = m1 -> {"l1"} [] m = m2 -> {"l2", "l3"} [] OTHER -> {}]

ReplicaSymmetry == Permutations(Replica)
=============================================================================
