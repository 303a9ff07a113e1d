--------------------------- MODULE DurableConsumer ---------------------------
(***************************************************************************)
(* A JetStream durable pull consumer with explicit acknowledgement, as     *)
(* internal/consume uses it: PullSubscribe on a bound stream with          *)
(* ManualAck and AckWait, then Fetch, Ack and Nak.  The server is not part *)
(* of the repository: the module is the external half of the two           *)
(* consumers, AuditConsumer and LogConsumer, which extend it.              *)
(*                                                                         *)
(* A message is published once and numbered by its deliveries; a delivery  *)
(* is the copy of a message some process was handed.  The order in which   *)
(* the server hands messages out is left free.                             *)
(***************************************************************************)
EXTENDS Naturals, FiniteSets

CONSTANTS
  Msg,            \* the messages a run may publish
  MaxAckPending   \* delivered and unsettled messages the server allows

ASSUME ConsumerAssumption ==
  /\ IsFiniteSet(Msg)
  /\ MaxAckPending \in Nat \ {0}

VARIABLES
  mstate,   \* the server's view of each message
  dcount    \* how many times each message was handed out

consumerVars == <<mstate, dcount>>

\* "unborn": not published; "waiting": may be handed out; "inflight": handed
\* out, AckWait running; "acked": settled; "gone": dropped by stream limits.
MsgState == {"unborn", "waiting", "inflight", "acked", "gone"}

Delivery == [msg : Msg, num : Nat \ {0}]

ConsumerTypeOK ==
  /\ mstate \in [Msg -> MsgState]
  /\ dcount \in [Msg -> Nat]

ConsumerInit ==
  /\ mstate = [m \in Msg |-> "unborn"]
  /\ dcount = [m \in Msg |-> 0]

Waiting == {m \in Msg : mstate[m] = "waiting"}

\* Messages delivered at least once and not settled: what MaxAckPending bounds.
Pending == {m \in Msg : dcount[m] > 0 /\ mstate[m] \in {"waiting", "inflight"}}

\* The messages of M that were never delivered count against MaxAckPending;
\* a redelivery does not.
MayDeliver(M) ==
  /\ M \subseteq Waiting
  /\ \/ M \subseteq Pending
     \/ Cardinality(Pending \cup M) <= MaxAckPending

CopyOf(m) == [msg |-> m, num |-> dcount[m] + 1]

\* The server hands out the messages of M and, in the same step, the
\* acknowledgements of the messages of A reach it.
Deliver(M, A) ==
  /\ mstate' = [m \in Msg |-> IF m \in A THEN "acked"
                              ELSE IF m \in M THEN "inflight" ELSE mstate[m]]
  /\ dcount' = [m \in Msg |-> IF m \in M THEN dcount[m] + 1 ELSE dcount[m]]

\* An acknowledgement settles the message whichever delivery it answers; one
\* of a message the stream already dropped changes nothing.
AckEffect(m) ==
  /\ mstate' = [mstate EXCEPT ![m] = IF @ \in {"waiting", "inflight"} THEN "acked" ELSE @]
  /\ UNCHANGED dcount

\* A negative acknowledgement makes an in-flight message available at once.
NakEffect(m) ==
  /\ mstate' = [mstate EXCEPT ![m] = IF @ = "inflight" THEN "waiting" ELSE @]
  /\ UNCHANGED dcount

Publish(m) ==
  /\ mstate[m] = "unborn"
  /\ mstate' = [mstate EXCEPT ![m] = "waiting"]
  /\ UNCHANGED dcount

\* AckWait passed without an answer.
ExpireEffect(m) ==
  /\ mstate[m] = "inflight"
  /\ mstate' = [mstate EXCEPT ![m] = "waiting"]
  /\ UNCHANGED dcount

\* The stream is at its limit and drops an old message (Discard Old).
DiscardEffect(m) ==
  /\ mstate[m] \in {"waiting", "inflight"}
  /\ mstate' = [mstate EXCEPT ![m] = "gone"]
  /\ UNCHANGED dcount
=============================================================================
