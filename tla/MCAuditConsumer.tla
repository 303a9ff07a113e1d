--------------------------- MODULE MCAuditConsumer ---------------------------
(***************************************************************************)
(* Instances of AuditConsumer for TLC: the messages of a run are the model *)
(* values m1..m4 its Msg keeps; what each holds is fixed here.             *)
(***************************************************************************)
EXTENDS AuditConsumer, TLC

CONSTANTS m1, m2, m3, m4

MCItem == {"a1", "a1b", "a2", "f1", "f3"}

\* m1: a batch payload with a request row and a finding; m2: a request row;
\* m3: an inspector payload; m4: a payload parse finds nothing in.
MCAnchors == [m \in Msg |-> CASE m = m1 -> {"a1"} [] m = m2 -> {"a2"} [] OTHER -> {}]
MCFindings == [m \in Msg |-> CASE m = m1 -> {"f1"} [] m = m3 -> {"f3"} [] OTHER -> {}]
NoItems == {}

\* m1 with two audit rows and no finding of its own.
MCTwoAnchors == [m \in Msg |-> CASE m = m1 -> {"a1", "a1b"} [] m = m2 -> {"a2"} [] OTHER -> {}]

\* m1's request carries no usable ts.
MCUnstamped == {"a1"}

\* Every message is one row: messages are interchangeable.
OneRowItem == Msg
OneRowAnchors == [m \in Msg |-> {m}]
OneRowFindings == [m \in Msg |-> {}]

ReplicaSymmetry == Permutations(Replica)
MessageSymmetry == Permutations(Msg)
=============================================================================
