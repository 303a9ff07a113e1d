------------------------- MODULE AuditConsumerProofs -------------------------
(***************************************************************************)
(* Theorems about AuditConsumer, for every set of replicas and messages    *)
(* and every size of batch, channel and threshold.  The last part takes a  *)
(* replica as a conveyor: the batch that was fetched, the slots of the     *)
(* channel, the accumulator.  Deliveries only move forward on it, so that  *)
(* none is in two places, and while nothing is disturbed none falls off    *)
(* before it is answered: Conserved.  What a place takes up is bounded,    *)
(* and so is the whole: MemoryBounded.                                     *)
(***************************************************************************)
EXTENDS AuditConsumer, FiniteFacts, FiniteSetTheorems, TLAPS

-----------------------------------------------------------------------------
(* Types *)

\* What FetchMessages hands to the fetching goroutine are deliveries, and its
\* cost in disturbances is a number.
LEMMA FetchTypes ==
  ASSUME ConsumerTypeOK, NEW M \in SUBSET Waiting, NEW A \in SUBSET M
  PROVE  /\ {CopyOf(m) : m \in M \ {n \in M : Empty(n)}} \in SUBSET Delivery
         /\ Cardinality({n \in M : Empty(n)} \ A) \in Nat
PROOF
  <1>1. M \subseteq Msg
    BY DEF Waiting
  <1>2. \A m \in M : CopyOf(m) \in Delivery
    BY <1>1 DEF ConsumerTypeOK, CopyOf, Delivery
  <1>3. IsFiniteSet({n \in M : Empty(n)} \ A)
    BY <1>1, ConsumerAssumption, FS_Subset
  <1> QED
    BY <1>2, <1>3, FS_CardinalityType

LEMMA DeliverTypes ==
  ASSUME ConsumerTypeOK, NEW M, NEW A, Deliver(M, A)
  PROVE  ConsumerTypeOK'
PROOF
  BY DEF ConsumerTypeOK, Deliver, MsgState

LEMMA FaultTypes ==
  ASSUME faults \in 0..MaxFaults, NEW n \in Nat, Fault(n)
  PROVE  faults' \in 0..MaxFaults
PROOF
  BY SizesAssumption DEF Fault

LEMMA TypeInit == Init => TypeOK
PROOF
  BY SizesAssumption DEF Init, ConsumerInit, TypeOK, ConsumerTypeOK, MsgState, Key

\* The fetching goroutine keeps the types.
LEMMA TypeFetching ==
  ASSUME TypeOK, NEW r \in Replica, Fetching(r)
  PROVE  TypeOK'
PROOF
  <1>1. CASE FetchLoop(r)
    BY <1>1 DEF TypeOK, FetchLoop, CloseChannel, ConsumerTypeOK, consumerVars, tableVars
  <1>2. ASSUME NEW M \in SUBSET Waiting, NEW A \in SUBSET M, FetchMessages(r, M, A)
        PROVE  TypeOK'
    <2> DEFINE empties == {m \in M : Empty(m)}
               batch == {CopyOf(m) : m \in M \ empties}
    <2>1. /\ batch \in SUBSET Delivery
          /\ Cardinality(empties \ A) \in Nat
      BY FetchTypes DEF TypeOK
    <2>2. /\ Deliver(M, A) /\ Fault(Cardinality(empties \ A))
          /\ fbatch' = [fbatch EXCEPT ![r] = batch]
          /\ fpc' = [fpc EXCEPT ![r] = IF batch = {} THEN "top" ELSE "send"]
          /\ UNCHANGED <<life, chan, ipc, acc, tableVars>>
      BY <1>2 DEF FetchMessages
    <2> HIDE DEF empties, batch
    <2>3. ConsumerTypeOK'
      BY <2>2, DeliverTypes DEF TypeOK
    <2>4. faults' \in 0..MaxFaults
      BY <2>1, <2>2, FaultTypes DEF TypeOK
    <2> QED
      BY <2>1, <2>2, <2>3, <2>4 DEF TypeOK, tableVars
  <1>3. CASE FetchTimeout(r)
    BY <1>3 DEF TypeOK, FetchTimeout, ConsumerTypeOK, consumerVars, tableVars
  <1>4. CASE FetchError(r)
    BY <1>4, FaultTypes DEF TypeOK, FetchError, CloseChannel, ConsumerTypeOK, consumerVars, tableVars
  <1>5. CASE SendBatch(r)
    <2>1. /\ chan[r] \in Seq(SUBSET Delivery) /\ Len(chan[r]) < Pipeline
          /\ fbatch[r] \in SUBSET Delivery
      BY <1>5 DEF TypeOK, SendBatch, HasRoom
    <2>2. /\ Append(chan[r], fbatch[r]) \in Seq(SUBSET Delivery)
          /\ Len(Append(chan[r], fbatch[r])) <= Pipeline
      BY <2>1, SizesAssumption
    <2> QED
      BY <1>5, <2>2 DEF TypeOK, SendBatch, ConsumerTypeOK, consumerVars, tableVars
  <1>6. CASE SendAborted(r)
    BY <1>6 DEF TypeOK, SendAborted, CloseChannel, ConsumerTypeOK, consumerVars, tableVars
  <1> QED
    BY <1>1, <1>2, <1>3, <1>4, <1>5, <1>6 DEF Fetching

\* What the two inserts store are keys.
LEMMA KeysAreKeys ==
  ASSUME NEW D \in SUBSET Delivery
  PROVE  AnchorKeys(D) \subseteq Key /\ FindingKeys(D) \subseteq Key
PROOF
  <1>1. \A d \in D : d.msg \in Msg /\ d.num \in Nat
    BY DEF Delivery
  <1>2. \A m \in Msg : Anchors[m] \subseteq Item /\ Findings[m] \subseteq Item
    BY ContentAssumption
  <1>3. \A d \in D : \A i \in Item : KeyOf(i, d) \in Key
    BY <1>1 DEF KeyOf, Key
  <1> QED
    BY <1>1, <1>2, <1>3 DEF AnchorKeys, FindingKeys

\* The inserting goroutine keeps the types.
LEMMA TypeInserting ==
  ASSUME TypeOK, NEW r \in Replica, Inserting(r)
  PROVE  TypeOK'
PROOF
  <1> USE DEF tableVars, consumerVars
  <1>0. acc[r] \in SUBSET Delivery
    BY DEF TypeOK
  <1>k. AnchorKeys(acc[r]) \subseteq Key /\ FindingKeys(acc[r]) \subseteq Key
    BY <1>0, KeysAreKeys
  <1>1. CASE ReceiveBatch(r)
    <2>1. chan[r] \in Seq(SUBSET Delivery) /\ chan[r] # <<>> /\ Len(chan[r]) <= Pipeline
      BY <1>1 DEF TypeOK, ReceiveBatch
    <2>2. /\ Head(chan[r]) \in SUBSET Delivery
          /\ Tail(chan[r]) \in Seq(SUBSET Delivery)
          /\ Len(Tail(chan[r])) <= Pipeline
      BY <2>1, SizesAssumption
    <2>3. Accumulate(acc[r], Head(chan[r])) \in SUBSET Delivery
      BY <1>0, <2>2 DEF Accumulate
    <2> QED
      BY <1>1, <2>2, <2>3 DEF TypeOK, ReceiveBatch, StartFlush, ConsumerTypeOK
  <1>2. CASE Tick(r)
    BY <1>2 DEF TypeOK, Tick, StartFlush, ConsumerTypeOK
  <1>3. CASE ChannelClosed(r)
    BY <1>3 DEF TypeOK, ChannelClosed, StartFlush, ConsumerTypeOK
  <1>4. CASE InsertAnchors(r)
    BY <1>4, <1>k DEF TypeOK, InsertAnchors, AfterRows, ConsumerTypeOK
  <1>5. ASSUME NEW K \in SUBSET AnchorKeys(acc[r]), InsertAnchorsFails(r, K)
        PROVE  TypeOK'
    BY <1>5, <1>k, FaultTypes DEF TypeOK, InsertAnchorsFails, AfterRowsError, ConsumerTypeOK
  <1>6. CASE InsertFindings(r)
    BY <1>6, <1>k DEF TypeOK, InsertFindings, AfterFindings, ConsumerTypeOK
  <1>7. ASSUME NEW K \in SUBSET FindingKeys(acc[r]), InsertFindingsFails(r, K)
        PROVE  TypeOK'
    BY <1>7, <1>k, FaultTypes DEF TypeOK, InsertFindingsFails, ConsumerTypeOK
  <1>8. ASSUME NEW d \in acc[r], Ack(r, d) \/ Nak(r, d) \/ AnswerLost(r, d)
        PROVE  TypeOK'
    <2>1. ConsumerTypeOK'
      BY <1>8 DEF TypeOK, ConsumerTypeOK, Ack, Nak, AnswerLost, AckEffect, NakEffect, MsgState
    <2>2. faults' \in 0..MaxFaults
      BY <1>8, FaultTypes DEF TypeOK, Ack, Nak, AnswerLost
    <2>3. Answered(r, d)
      BY <1>8 DEF Ack, Nak, AnswerLost
    <2> QED
      BY <2>1, <2>2, <2>3 DEF TypeOK, Answered
  <1> QED
    BY <1>1, <1>2, <1>3, <1>4, <1>5, <1>6, <1>7, <1>8 DEF Inserting

LEMMA FreshTypes ==
  ASSUME TypeOK, NEW r \in Replica, Fresh(r)
  PROVE  /\ fpc' \in [Replica -> {"top", "fetch", "send", "closed"}]
         /\ fbatch' \in [Replica -> SUBSET Delivery]
         /\ chan' \in [Replica -> Seq(SUBSET Delivery)]
         /\ \A q \in Replica : Len(chan'[q]) <= Pipeline
         /\ ipc' \in [Replica -> {"select", "rows", "findings", "ack", "nak", "done"}]
         /\ acc' \in [Replica -> SUBSET Delivery]
PROOF
  BY SizesAssumption DEF TypeOK, Fresh

LEMMA TypeProcess ==
  ASSUME TypeOK, NEW r \in Replica, Process(r)
  PROVE  TypeOK'
PROOF
  <1> USE DEF tableVars, consumerVars
  <1>1. CASE Stop(r)
    BY <1>1, FaultTypes DEF TypeOK, Stop, ConsumerTypeOK
  <1>2. CASE Exit(r)
    BY <1>2, FreshTypes DEF TypeOK, Exit, ConsumerTypeOK
  <1>3. CASE Crash(r)
    BY <1>3, FreshTypes, FaultTypes DEF TypeOK, Crash, ConsumerTypeOK
  <1>4. CASE Restart(r)
    BY <1>4 DEF TypeOK, Restart, ConsumerTypeOK
  <1> QED
    BY <1>1, <1>2, <1>3, <1>4 DEF Process

LEMMA TypeServer ==
  ASSUME TypeOK, NEW m \in Msg, Server(m)
  PROVE  TypeOK'
PROOF
  <1> USE DEF tableVars, replicaVars
  <1>1. CASE PublishMessage(m)
    BY <1>1 DEF TypeOK, PublishMessage, Publish, ConsumerTypeOK, MsgState
  <1>2. CASE Expire(m)
    BY <1>2, FaultTypes DEF TypeOK, Expire, ExpireEffect, ConsumerTypeOK, MsgState
  <1>3. CASE DeliveryLost(m)
    BY <1>3, FaultTypes, DeliverTypes DEF TypeOK, DeliveryLost
  <1>4. CASE Discard(m)
    BY <1>4, FaultTypes DEF TypeOK, Discard, DiscardEffect, ConsumerTypeOK, MsgState
  <1> QED
    BY <1>1, <1>2, <1>3, <1>4 DEF Server

LEMMA TypeNext == TypeOK /\ [Next]_vars => TypeOK'
PROOF
  <1>1. ASSUME TypeOK, UNCHANGED vars PROVE TypeOK'
    BY <1>1 DEF TypeOK, ConsumerTypeOK, vars, consumerVars, replicaVars, tableVars
  <1> QED
    BY <1>1, TypeFetching, TypeInserting, TypeProcess, TypeServer DEF Next

\* Every reachable state is well typed: in particular the channel never holds
\* more than Pipeline batches.
THEOREM TypeCorrect == Spec => []TypeOK
PROOF
  BY TypeInit, TypeNext, PTL DEF Spec

-----------------------------------------------------------------------------
(* What a step may never do to the tables and to the server's record *)

LEMMA TablesGrow ==
  [Next]_vars => audit \subseteq audit' /\ findings \subseteq findings'
PROOF
  <1> SUFFICES ASSUME [Next]_vars PROVE audit \subseteq audit' /\ findings \subseteq findings'
    OBVIOUS
  <1> USE DEF tableVars, replicaVars
  <1>1. CASE UNCHANGED vars
    BY <1>1 DEF vars
  <1>2. ASSUME NEW r \in Replica, Fetching(r) PROVE audit \subseteq audit' /\ findings \subseteq findings'
    BY <1>2 DEF Fetching, FetchLoop, FetchMessages, FetchTimeout, FetchError, SendBatch, SendAborted
  <1>3. ASSUME NEW r \in Replica, Inserting(r) PROVE audit \subseteq audit' /\ findings \subseteq findings'
    BY <1>3 DEF Inserting, ReceiveBatch, Tick, ChannelClosed, InsertAnchors, InsertAnchorsFails,
                InsertFindings, InsertFindingsFails, Ack, Nak, AnswerLost, Answered
  <1>4. ASSUME NEW r \in Replica, Process(r) PROVE audit \subseteq audit' /\ findings \subseteq findings'
    BY <1>4 DEF Process, Stop, Exit, Crash, Restart
  <1>5. ASSUME NEW m \in Msg, Server(m) PROVE audit \subseteq audit' /\ findings \subseteq findings'
    BY <1>5 DEF Server, PublishMessage, Expire, DeliveryLost, Discard
  <1> QED
    BY <1>1, <1>2, <1>3, <1>4, <1>5 DEF Next

\* Stored rows stay stored.
LEMMA StoredStays ==
  ASSUME [Next]_vars, NEW m \in Msg
  PROVE  /\ AnchorsStored(m) => AnchorsStored(m)'
         /\ FindingsStored(m) => FindingsStored(m)'
PROOF
  BY TablesGrow DEF AnchorsStored, FindingsStored, StoredIn

\* A published message is never unpublished.
LEMMA PublishedStays ==
  ASSUME TypeOK, [Next]_vars
  PROVE  \A m \in Msg : mstate[m] # "unborn" => mstate'[m] # "unborn"
PROOF
  <1> DEFINE Stays == \A m \in Msg : mstate[m] # "unborn" => mstate'[m] # "unborn"
  <1> USE DEF consumerVars, TypeOK, ConsumerTypeOK
  <1>1. CASE UNCHANGED vars
    BY <1>1 DEF vars
  <1>2. ASSUME NEW r \in Replica, Fetching(r) PROVE Stays
    <2>1. ASSUME NEW M \in SUBSET Waiting, NEW A \in SUBSET M, FetchMessages(r, M, A)
          PROVE  Stays
      <3>1. Deliver(M, A)
        BY <2>1 DEF FetchMessages
      <3> QED
        BY <3>1 DEF Deliver
    <2> QED
      BY <1>2, <2>1 DEF Fetching, FetchLoop, FetchTimeout, FetchError, SendBatch, SendAborted
  <1>3. ASSUME NEW r \in Replica, Inserting(r) PROVE Stays
    BY <1>3 DEF Inserting, ReceiveBatch, Tick, ChannelClosed, InsertAnchors, InsertAnchorsFails,
                InsertFindings, InsertFindingsFails, Ack, Nak, AnswerLost, AckEffect, NakEffect
  <1>4. ASSUME NEW r \in Replica, Process(r) PROVE Stays
    BY <1>4 DEF Process, Stop, Exit, Crash, Restart
  <1>5. ASSUME NEW m \in Msg, Server(m) PROVE Stays
    BY <1>5 DEF Server, PublishMessage, Publish, Expire, ExpireEffect, DeliveryLost, Deliver,
                Discard, DiscardEffect
  <1> QED
    BY <1>1, <1>2, <1>3, <1>4, <1>5 DEF Next

-----------------------------------------------------------------------------
(* Only published messages travel *)

\* Publication of a set of deliveries outlives a step.
LEMMA PublishedKept ==
  ASSUME TypeOK, [Next]_vars, NEW D \in SUBSET Delivery, Published(D)
  PROVE  Published(D)'
PROOF
  BY PublishedStays DEF Published, Delivery

\* The parts of a replica a step leaves alone stay published.
LEMMA HeldKept ==
  ASSUME TypeOK, HeldPublished, [Next]_vars, NEW r \in Replica
  PROVE  /\ fbatch'[r] = fbatch[r] => Published(fbatch[r])'
         /\ acc'[r] \subseteq acc[r] => Published(acc[r])'
         /\ chan'[r] = chan[r] => (\A k \in 1..Len(chan[r]) : Published(chan[r][k]))'
PROOF
  <1>1. /\ fbatch[r] \in SUBSET Delivery /\ acc[r] \in SUBSET Delivery
        /\ chan[r] \in Seq(SUBSET Delivery)
    BY DEF TypeOK
  <1>2. /\ Published(fbatch[r]) /\ Published(acc[r])
        /\ \A k \in 1..Len(chan[r]) : Published(chan[r][k])
    BY DEF HeldPublished
  <1>3. \A d \in Delivery : mstate[d.msg] # "unborn" => mstate'[d.msg] # "unborn"
    BY PublishedStays DEF Delivery
  <1>4. \A k \in 1..Len(chan[r]) : chan[r][k] \in SUBSET Delivery
    BY <1>1
  <1> QED
    BY <1>1, <1>2, <1>3, <1>4 DEF Published

\* HeldPublished is kept by every step: a fetched delivery is of a message the
\* step itself moves out of "waiting".
LEMMA HeldNext == TypeOK /\ HeldPublished /\ [Next]_vars => HeldPublished'
PROOF
  <1> SUFFICES ASSUME TypeOK, HeldPublished, [Next]_vars, NEW q \in Replica
               PROVE  /\ Published(fbatch[q])' /\ Published(acc[q])'
                      /\ (\A k \in 1..Len(chan[q]) : Published(chan[q][k]))'
    BY DEF HeldPublished
  <1> DEFINE Goal == /\ Published(fbatch[q])' /\ Published(acc[q])'
                     /\ (\A k \in 1..Len(chan[q]) : Published(chan[q][k]))'
  <1> USE DEF replicaVars
  <1>0. /\ fbatch \in [Replica -> SUBSET Delivery] /\ acc \in [Replica -> SUBSET Delivery]
        /\ chan \in [Replica -> Seq(SUBSET Delivery)]
    BY DEF TypeOK
  <1>h. /\ fbatch'[q] = fbatch[q] => Published(fbatch[q])'
        /\ acc'[q] \subseteq acc[q] => Published(acc[q])'
        /\ chan'[q] = chan[q] => (\A k \in 1..Len(chan[q]) : Published(chan[q][k]))'
    BY HeldKept
  <1>p. \A D \in SUBSET Delivery : Published(D) => Published(D)'
    BY PublishedKept
  <1>b. /\ Published(fbatch[q]) /\ Published(acc[q])
        /\ \A k \in 1..Len(chan[q]) : Published(chan[q][k])
    BY DEF HeldPublished
  <1>e. Published({})'
    BY DEF Published
  <1>1. CASE UNCHANGED vars
    BY <1>1, <1>h DEF vars
  <1>2. ASSUME NEW r \in Replica, Fetching(r) PROVE Goal
    <2>1. ASSUME NEW M \in SUBSET Waiting, NEW A \in SUBSET M, FetchMessages(r, M, A)
          PROVE  Goal
      <3> DEFINE empties == {m \in M : Empty(m)}
                 batch == {CopyOf(m) : m \in M \ empties}
      <3>1. /\ Deliver(M, A)
            /\ fbatch' = [fbatch EXCEPT ![r] = batch]
            /\ UNCHANGED <<life, chan, ipc, acc, tableVars>>
        BY <2>1 DEF FetchMessages
      <3>2. \A d \in batch : d.msg \in M
        BY DEF CopyOf
      <3>3. \A m \in M : mstate'[m] \in {"acked", "inflight"}
        BY <3>1 DEF Deliver, Waiting
      <3>4. \A d \in batch : mstate'[d.msg] # "unborn"
        BY <3>2, <3>3
      <3> HIDE DEF batch
      <3>5. CASE q = r
        BY <1>0, <1>h, <3>1, <3>4, <3>5 DEF Published
      <3>6. CASE q # r
        BY <1>0, <1>h, <3>1, <3>6
      <3> QED
        BY <3>5, <3>6
    <2>2. CASE SendBatch(r)
      <3>1. /\ chan' = [chan EXCEPT ![r] = Append(@, fbatch[r])]
            /\ fbatch' = [fbatch EXCEPT ![r] = {}] /\ UNCHANGED acc
        BY <2>2 DEF SendBatch
      <3>2. Published(fbatch[q])' /\ Published(acc[q])'
        BY <1>0, <1>h, <1>e, <3>1
      <3>3. ASSUME NEW k \in 1..Len(chan'[q]) PROVE Published(chan[q][k])'
        <4>1. CASE q = r
          <5>1. chan'[q] = Append(chan[q], fbatch[q])
            BY <1>0, <3>1, <4>1
          <5>2. /\ chan'[q][k] \in SUBSET Delivery
                /\ Published(chan'[q][k])
            BY <1>0, <1>b, <5>1, <3>3
          <5>3. \A d \in chan'[q][k] : mstate'[d.msg] # "unborn"
            BY <5>2, PublishedStays DEF Published, Delivery
          <5> QED
            BY <5>3 DEF Published
        <4>2. CASE q # r
          BY <1>0, <1>h, <3>1, <3>3, <4>2
        <4> QED
          BY <4>1, <4>2
      <3> QED
        BY <3>2, <3>3
    <2>3. CASE SendAborted(r)
      BY <1>0, <1>h, <1>e, <2>3 DEF SendAborted
    <2>4. CASE FetchLoop(r) \/ FetchTimeout(r) \/ FetchError(r)
      BY <1>h, <2>4 DEF FetchLoop, FetchTimeout, FetchError
    <2> QED
      BY <1>2, <2>1, <2>2, <2>3, <2>4 DEF Fetching
  <1>3. ASSUME NEW r \in Replica, Inserting(r) PROVE Goal
    <2>1. CASE ReceiveBatch(r)
      <3>1. /\ chan[r] # <<>>
            /\ acc' = [acc EXCEPT ![r] = Accumulate(acc[r], Head(chan[r]))]
            /\ chan' = [chan EXCEPT ![r] = Tail(@)] /\ UNCHANGED fbatch
        BY <2>1 DEF ReceiveBatch
      <3>2. CASE q = r
        <4>1. /\ chan'[q] = Tail(chan[q])
              /\ acc'[q] = acc[q] \cup chan[q][1]
              /\ Len(chan[q]) >= 1
          BY <1>0, <3>1, <3>2 DEF Accumulate
        <4>2. \A d \in acc[q] \cup chan[q][1] : mstate'[d.msg] # "unborn"
          <5>1. chan[q][1] \in SUBSET Delivery /\ Published(chan[q][1])
            BY <1>0, <1>b, <4>1
          <5> QED
            BY <1>0, <1>b, <5>1, PublishedStays DEF Published, Delivery
        <4>3. ASSUME NEW k \in 1..Len(chan'[q]) PROVE Published(chan[q][k])'
          <5>1. /\ chan'[q][k] = chan[q][k + 1]
                /\ k + 1 \in 1..Len(chan[q])
            BY <1>0, <4>1, <4>3
          <5>2. chan[q][k + 1] \in SUBSET Delivery /\ Published(chan[q][k + 1])
            BY <1>0, <1>b, <5>1
          <5>3. \A d \in chan'[q][k] : mstate'[d.msg] # "unborn"
            BY <5>1, <5>2, PublishedStays DEF Published, Delivery
          <5> QED
            BY <5>3 DEF Published
        <4> QED
          BY <1>h, <3>1, <4>1, <4>2, <4>3 DEF Published
      <3>3. CASE q # r
        BY <1>0, <1>h, <3>1, <3>3
      <3> QED
        BY <3>2, <3>3
    <2>2. ASSUME NEW d \in acc[r], Ack(r, d) \/ Nak(r, d) \/ AnswerLost(r, d) PROVE Goal
      BY <1>0, <1>h, <2>2 DEF Ack, Nak, AnswerLost, Answered
    <2> QED
      BY <1>3, <1>h, <2>1, <2>2
      DEF Inserting, Tick, ChannelClosed, InsertAnchors, InsertAnchorsFails,
          InsertFindings, InsertFindingsFails
  <1>4. ASSUME NEW r \in Replica, Process(r) PROVE Goal
    <2>1. CASE Fresh(r)
      <3>1. /\ fbatch'[q] = fbatch[q] \/ fbatch'[q] = {}
            /\ acc'[q] \subseteq acc[q]
            /\ chan'[q] = chan[q] \/ chan'[q] = <<>>
        BY <1>0, <2>1 DEF Fresh
      <3>2. Published(fbatch[q])'
        BY <1>h, <3>1 DEF Published
      <3>3. (\A k \in 1..Len(chan[q]) : Published(chan[q][k]))'
        BY <1>h, <3>1
      <3> QED
        BY <1>h, <3>1, <3>2, <3>3
    <2> QED
      BY <1>4, <1>h, <2>1 DEF Process, Stop, Exit, Crash, Restart
  <1>5. ASSUME NEW m \in Msg, Server(m) PROVE Goal
    BY <1>5, <1>h DEF Server, PublishMessage, Expire, DeliveryLost, Discard
  <1> QED
    BY <1>1, <1>2, <1>3, <1>4, <1>5 DEF Next

-----------------------------------------------------------------------------
(* Nothing is answered before it is written *)

\* The keys of a delivery name its items.
LEMMA KeysStore ==
  ASSUME NEW D, NEW d \in D
  PROVE  /\ \A i \in Anchors[d.msg] : \E k \in AnchorKeys(D) : k[1] = i
         /\ \A i \in Findings[d.msg] : \E k \in FindingKeys(D) : k[1] = i
PROOF
  <1>1. \A i : KeyOf(i, d)[1] = i
    BY DEF KeyOf
  <1>2. ASSUME NEW i \in Anchors[d.msg] PROVE KeyOf(i, d) \in AnchorKeys(D)
    BY <1>2 DEF AnchorKeys
  <1>3. ASSUME NEW i \in Findings[d.msg] PROVE KeyOf(i, d) \in FindingKeys(D)
    BY <1>3 DEF FindingKeys
  <1> QED
    BY <1>1, <1>2, <1>3

LEMMA WrittenNext == TypeOK /\ WrittenBeforeAnswer /\ [Next]_vars => WrittenBeforeAnswer'
PROOF
  <1> SUFFICES ASSUME TypeOK, WrittenBeforeAnswer, [Next]_vars,
                      NEW q \in Replica, NEW e \in acc'[q]
               PROVE  /\ ipc'[q] \in {"findings", "ack"} => AnchorsStored(e.msg)'
                      /\ ipc'[q] = "ack" => FindingsStored(e.msg)'
    BY DEF WrittenBeforeAnswer
  <1> DEFINE Goal == /\ ipc'[q] \in {"findings", "ack"} => AnchorsStored(e.msg)'
                     /\ ipc'[q] = "ack" => FindingsStored(e.msg)'
  <1> USE DEF replicaVars, tableVars
  <1>0. /\ ipc \in [Replica -> {"select", "rows", "findings", "ack", "nak", "done"}]
        /\ acc \in [Replica -> SUBSET Delivery]
    BY DEF TypeOK
  <1>k. ASSUME e \in acc[q],
               ipc'[q] = ipc[q] \/ ipc'[q] \in {"select", "rows", "nak", "done"}
        PROVE  Goal
    <2>1. e.msg \in Msg
      BY <1>0, <1>k DEF Delivery
    <2> QED
      BY <1>k, <2>1, StoredStays DEF WrittenBeforeAnswer
  <1>1. CASE UNCHANGED vars
    BY <1>1, <1>k DEF vars
  <1>2. ASSUME NEW r \in Replica, Fetching(r) PROVE Goal
    BY <1>2, <1>k DEF Fetching, FetchLoop, FetchMessages, FetchTimeout, FetchError, SendBatch, SendAborted
  <1>3. ASSUME NEW r \in Replica, Inserting(r) PROVE Goal
    <2>1. CASE ReceiveBatch(r)
      <3>1. /\ ipc[r] = "select"
            /\ acc'[q] = acc[q] \/ q = r
            /\ ipc'[q] = ipc[q] \/ ipc'[q] \in {"select", "rows"}
        BY <1>0, <2>1 DEF ReceiveBatch, StartFlush
      <3> QED
        BY <3>1, <1>k
    <2>2. CASE Tick(r) \/ ChannelClosed(r)
      BY <1>0, <1>k, <2>2 DEF Tick, ChannelClosed, StartFlush
    <2>3. CASE InsertAnchors(r)
      <3>1. /\ acc' = acc /\ AnchorKeys(acc[r]) \subseteq audit'
            /\ ipc' = [ipc EXCEPT ![r] = "findings"]
        BY <2>3 DEF InsertAnchors, AfterRows
      <3>2. CASE q = r
        <4>1. \A i \in Anchors[e.msg] : \E k \in audit' : k[1] = i
          BY <3>1, <3>2, KeysStore
        <4> QED
          BY <1>0, <3>1, <3>2, <4>1 DEF AnchorsStored, StoredIn
      <3>3. CASE q # r
        BY <1>0, <1>k, <3>1, <3>3
      <3> QED
        BY <3>2, <3>3
    <2>4. CASE InsertFindings(r)
      <3>1. /\ acc' = acc /\ FindingKeys(acc[r]) \subseteq findings'
            /\ ipc[r] = "findings" /\ ipc' = [ipc EXCEPT ![r] = "ack"]
        BY <2>4 DEF InsertFindings, AfterFindings
      <3>2. CASE q = r
        <4>1. \A i \in Findings[e.msg] : \E k \in findings' : k[1] = i
          BY <3>1, <3>2, KeysStore
        <4>2. e.msg \in Msg
          BY <1>0, <3>1 DEF Delivery
        <4>3. AnchorsStored(e.msg)'
          BY <3>1, <3>2, <4>2, StoredStays DEF WrittenBeforeAnswer
        <4> QED
          BY <4>1, <4>3 DEF FindingsStored, StoredIn
      <3>3. CASE q # r
        BY <1>0, <1>k, <3>1, <3>3
      <3> QED
        BY <3>2, <3>3
    <2>5. ASSUME NEW K, InsertAnchorsFails(r, K) \/ InsertFindingsFails(r, K) PROVE Goal
      BY <1>0, <1>k, <2>5 DEF InsertAnchorsFails, InsertFindingsFails, AfterRowsError
    <2>6. ASSUME NEW d \in acc[r], Ack(r, d) \/ Nak(r, d) \/ AnswerLost(r, d) PROVE Goal
      <3>1. Answered(r, d)
        BY <2>6 DEF Ack, Nak, AnswerLost
      <3>2. /\ acc'[q] \subseteq acc[q]
            /\ ipc'[q] = ipc[q] \/ ipc'[q] = "select"
        BY <1>0, <3>1 DEF Answered
      <3> QED
        BY <3>2, <1>k
    <2> QED
      BY <1>3, <2>1, <2>2, <2>3, <2>4, <2>5, <2>6 DEF Inserting
  <1>4. ASSUME NEW r \in Replica, Process(r) PROVE Goal
    <2>1. acc'[q] \subseteq acc[q] /\ (ipc'[q] = ipc[q] \/ ipc'[q] = "select")
      BY <1>0, <1>4 DEF Process, Stop, Exit, Crash, Restart, Fresh
    <2> QED
      BY <1>k, <2>1
  <1>5. ASSUME NEW m \in Msg, Server(m) PROVE Goal
    BY <1>5, <1>k DEF Server, PublishMessage, Expire, DeliveryLost, Discard
  <1> QED
    BY <1>1, <1>2, <1>3, <1>4, <1>5 DEF Next

-----------------------------------------------------------------------------
(* At-least-once storage *)

\* A message is settled by a step only if it holds nothing, or by a replica
\* that is answering a written batch.
LEMMA NewlyAcked ==
  ASSUME TypeOK, [Next]_vars, NEW m \in Msg, mstate[m] # "acked", mstate'[m] = "acked"
  PROVE  Empty(m) \/ \E r \in Replica : ipc[r] = "ack" /\ \E d \in acc[r] : d.msg = m
PROOF
  <1> DEFINE Goal == Empty(m) \/ \E r \in Replica : ipc[r] = "ack" /\ \E d \in acc[r] : d.msg = m
  <1> USE DEF consumerVars, TypeOK, ConsumerTypeOK
  <1>1. CASE UNCHANGED vars
    BY <1>1 DEF vars
  <1>2. ASSUME NEW r \in Replica, Fetching(r) PROVE Goal
    <2>1. ASSUME NEW M \in SUBSET Waiting, NEW A \in SUBSET M, FetchMessages(r, M, A)
          PROVE  Goal
      <3>1. Deliver(M, A) /\ A \subseteq {n \in M : Empty(n)}
        BY <2>1 DEF FetchMessages
      <3> QED
        BY <3>1 DEF Deliver
    <2> QED
      BY <1>2, <2>1 DEF Fetching, FetchLoop, FetchTimeout, FetchError, SendBatch, SendAborted
  <1>3. ASSUME NEW r \in Replica, Inserting(r) PROVE Goal
    <2>1. ASSUME NEW d \in acc[r], Ack(r, d) PROVE Goal
      BY <2>1 DEF Ack, AckEffect
    <2> QED
      BY <1>3, <2>1
      DEF Inserting, ReceiveBatch, Tick, ChannelClosed, InsertAnchors, InsertAnchorsFails,
          InsertFindings, InsertFindingsFails, Nak, AnswerLost, NakEffect
  <1>4. ASSUME NEW r \in Replica, Process(r) PROVE Goal
    BY <1>4 DEF Process, Stop, Exit, Crash, Restart
  <1>5. ASSUME NEW n \in Msg, Server(n) PROVE Goal
    BY <1>5 DEF Server, PublishMessage, Publish, Expire, ExpireEffect, DeliveryLost, Deliver,
                Discard, DiscardEffect
  <1> QED
    BY <1>1, <1>2, <1>3, <1>4, <1>5 DEF Next

LEMMA AckedNext ==
  TypeOK /\ WrittenBeforeAnswer /\ AckedStored /\ [Next]_vars => AckedStored'
PROOF
  <1> SUFFICES ASSUME TypeOK, WrittenBeforeAnswer, AckedStored, [Next]_vars,
                      NEW m \in Msg, mstate'[m] = "acked"
               PROVE  AnchorsStored(m)' /\ FindingsStored(m)'
    BY DEF AckedStored
  <1>1. AnchorsStored(m) /\ FindingsStored(m)
    <2>1. CASE mstate[m] = "acked"
      BY <2>1 DEF AckedStored
    <2>2. CASE Empty(m)
      BY <2>2 DEF Empty, AnchorsStored, FindingsStored
    <2>3. CASE \E r \in Replica : ipc[r] = "ack" /\ \E d \in acc[r] : d.msg = m
      BY <2>3 DEF WrittenBeforeAnswer
    <2> QED
      BY <2>1, <2>2, <2>3, NewlyAcked
  <1> QED
    BY <1>1, StoredStays

\* IInv is an inductive invariant of the specification.
THEOREM InductiveInvariant == Spec => []IInv
PROOF
  <1>1. Init => IInv
    <2>1. Init => WrittenBeforeAnswer /\ HeldPublished /\ AckedStored
      BY DEF Init, ConsumerInit, WrittenBeforeAnswer, HeldPublished, Published, AckedStored
    <2> QED
      BY <2>1, TypeInit DEF IInv
  <1>2. IInv /\ [Next]_vars => IInv'
    BY TypeNext, WrittenNext, HeldNext, AckedNext DEF IInv
  <1> QED
    BY <1>1, <1>2, PTL DEF Spec

\* At-least-once storage: whatever fails, restarts or is redelivered, a message
\* is settled only when all its rows and findings are stored.
THEOREM AckedMeansStored == Spec => []AckedStored
PROOF
  BY InductiveInvariant, PTL DEF IInv

-----------------------------------------------------------------------------
(* The replicas implement AtLeastOnce *)

\* A step that touches neither the tables nor the status of a message is a
\* stutter of the promise.
LEMMA Stutters ==
  ASSUME \A m \in Msg : StatusOf(mstate[m])' = StatusOf(mstate[m]), UNCHANGED tableVars
  PROVE  UNCHANGED Promise!vars
PROOF
  <1>1. Status' = Status
    BY DEF Status
  <1>2. StoredItems' = StoredItems
    BY DEF StoredItems, tableVars
  <1> QED
    BY <1>1, <1>2 DEF Promise!vars

\* Keys of held deliveries are rows of published messages.
LEMMA StoresHeld ==
  ASSUME IInv, NEW r \in Replica, UNCHANGED mstate,
         NEW K \in SUBSET (AnchorKeys(acc[r]) \cup FindingKeys(acc[r])),
         audit' \cup findings' = audit \cup findings \cup K
  PROVE  Promise!Store
PROOF
  <1>1. Status' = Status
    BY DEF Status
  <1>2. StoredItems \subseteq StoredItems'
    BY DEF StoredItems
  <1>3. ASSUME NEW i \in StoredItems' \ StoredItems
        PROVE  \E m \in Msg : Status[m] # "absent" /\ i \in HoldsOf[m]
    <2>1. PICK k \in K : i = k[1]
      BY <1>3 DEF StoredItems
    <2>2. PICK d \in acc[r] : i \in Anchors[d.msg] \cup Findings[d.msg]
      BY <2>1 DEF AnchorKeys, FindingKeys, KeyOf
    <2>3. d.msg \in Msg /\ mstate[d.msg] # "unborn"
      BY <2>2 DEF IInv, TypeOK, HeldPublished, Published, Delivery
    <2>4. Status[d.msg] # "absent"
      BY <2>3 DEF Status, StatusOf
    <2> QED
      BY <2>2, <2>3, <2>4 DEF HoldsOf
  <1> QED
    BY <1>1, <1>2, <1>3 DEF Promise!Store

\* Messages that are settled together with everything they hold stored.
LEMMA Settles ==
  ASSUME TypeOK, NEW S \in SUBSET Msg, UNCHANGED tableVars,
         \A m \in S : /\ mstate[m] \in {"waiting", "inflight"} /\ mstate'[m] = "acked"
                      /\ AnchorsStored(m) /\ FindingsStored(m),
         \A m \in Msg \ S : StatusOf(mstate[m])' = StatusOf(mstate[m])
  PROVE  Promise!Settle(S)
PROOF
  <1>1. \A m \in S : Status[m] = "pending" /\ StatusOf(mstate[m])' = "done"
    BY DEF Status, StatusOf
  <1>2. \A m \in S : HoldsOf[m] \subseteq StoredItems
    BY DEF HoldsOf, AnchorsStored, FindingsStored, StoredIn, StoredItems
  <1>3. Status' = [m \in Msg |-> IF m \in S THEN "done" ELSE Status[m]]
    BY <1>1 DEF Status
  <1>4. StoredItems' = StoredItems
    BY DEF StoredItems, tableVars
  <1> QED
    BY <1>1, <1>2, <1>3, <1>4 DEF Promise!Settle

\* Every step of the replicas is a step of the promise or changes nothing in it.
LEMMA StepRefines == IInv /\ [Next]_vars => [Promise!Next]_(Promise!vars)
PROOF
  <1> SUFFICES ASSUME IInv, [Next]_vars
               PROVE  Promise!Next \/ UNCHANGED Promise!vars
    OBVIOUS
  <1> DEFINE Goal == Promise!Next \/ UNCHANGED Promise!vars
  <1> USE DEF tableVars, replicaVars, consumerVars
  <1>0. TypeOK /\ mstate \in [Msg -> MsgState]
    BY DEF IInv, TypeOK, ConsumerTypeOK
  <1>s. ASSUME UNCHANGED <<mstate, audit, findings>> PROVE Goal
    BY <1>s, Stutters
  <1>1. CASE UNCHANGED vars
    BY <1>1, <1>s DEF vars
  <1>2. ASSUME NEW r \in Replica, Fetching(r) PROVE Goal
    <2>1. ASSUME NEW M \in SUBSET Waiting, NEW A \in SUBSET M, FetchMessages(r, M, A)
          PROVE  Goal
      <3>1. /\ Deliver(M, A) /\ UNCHANGED tableVars
            /\ A \subseteq {n \in M : Empty(n)}
        BY <2>1 DEF FetchMessages
      <3>2. \A m \in A : mstate[m] = "waiting" /\ mstate'[m] = "acked"
                         /\ AnchorsStored(m) /\ FindingsStored(m)
        BY <3>1 DEF Deliver, Waiting, Empty, AnchorsStored, FindingsStored
      <3>3. \A m \in Msg \ A : StatusOf(mstate[m])' = StatusOf(mstate[m])
        BY <3>1 DEF Deliver, Waiting, StatusOf
      <3>4. A \in SUBSET Msg
        BY DEF Waiting
      <3>5. Promise!Settle(A)
        BY <1>0, <3>1, <3>2, <3>3, <3>4, Settles
      <3> QED
        BY <3>4, <3>5 DEF Promise!Next
    <2> QED
      BY <1>2, <1>s, <2>1 DEF Fetching, FetchLoop, FetchTimeout, FetchError, SendBatch, SendAborted
  <1>3. ASSUME NEW r \in Replica, Inserting(r) PROVE Goal
    <2>1. CASE InsertAnchors(r)
      <3>1. /\ UNCHANGED mstate
            /\ audit' \cup findings' = audit \cup findings \cup AnchorKeys(acc[r])
        BY <2>1 DEF InsertAnchors
      <3> QED
        BY <3>1, StoresHeld DEF Promise!Next
    <2>2. CASE InsertFindings(r)
      <3>1. /\ UNCHANGED mstate
            /\ audit' \cup findings' = audit \cup findings \cup FindingKeys(acc[r])
        BY <2>2 DEF InsertFindings
      <3> QED
        BY <3>1, StoresHeld DEF Promise!Next
    <2>3. ASSUME NEW K \in SUBSET AnchorKeys(acc[r]), InsertAnchorsFails(r, K) PROVE Goal
      <3>1. UNCHANGED mstate /\ audit' \cup findings' = audit \cup findings \cup K
        BY <2>3 DEF InsertAnchorsFails
      <3> QED
        BY <3>1, StoresHeld DEF Promise!Next
    <2>4. ASSUME NEW K \in SUBSET FindingKeys(acc[r]), InsertFindingsFails(r, K) PROVE Goal
      <3>1. UNCHANGED mstate /\ audit' \cup findings' = audit \cup findings \cup K
        BY <2>4 DEF InsertFindingsFails
      <3> QED
        BY <3>1, StoresHeld DEF Promise!Next
    <2>5. ASSUME NEW d \in acc[r], Ack(r, d) PROVE Goal
      <3>1. /\ AckEffect(d.msg) /\ UNCHANGED tableVars /\ ipc[r] = "ack"
        BY <2>5 DEF Ack, Answered
      <3>2. d.msg \in Msg
        BY <1>0 DEF TypeOK, Delivery
      <3>3. AnchorsStored(d.msg) /\ FindingsStored(d.msg)
        BY <3>1 DEF IInv, WrittenBeforeAnswer
      <3>4. CASE mstate[d.msg] \in {"waiting", "inflight"}
        <4>1. \A m \in Msg \ {d.msg} : StatusOf(mstate[m])' = StatusOf(mstate[m])
          BY <1>0, <3>1, <3>2 DEF AckEffect
        <4>2. mstate'[d.msg] = "acked"
          BY <1>0, <3>1, <3>2, <3>4 DEF AckEffect
        <4>3. Promise!Settle({d.msg})
          BY <1>0, <3>1, <3>2, <3>3, <3>4, <4>1, <4>2, Settles
        <4> QED
          BY <3>2, <4>3 DEF Promise!Next
      <3>5. CASE mstate[d.msg] \notin {"waiting", "inflight"}
        <4>1. mstate' = mstate
          BY <1>0, <3>1, <3>2, <3>5 DEF AckEffect
        <4> QED
          BY <1>s, <3>1, <4>1
      <3> QED
        BY <3>4, <3>5
    <2>6. ASSUME NEW d \in acc[r], Nak(r, d) PROVE Goal
      <3>1. d.msg \in Msg
        BY <1>0 DEF TypeOK, Delivery
      <3>2. UNCHANGED tableVars
            /\ \A m \in Msg : StatusOf(mstate[m])' = StatusOf(mstate[m])
        BY <1>0, <2>6, <3>1 DEF Nak, Answered, NakEffect, StatusOf
      <3> QED
        BY <3>2, Stutters
    <2>7. ASSUME NEW d \in acc[r], AnswerLost(r, d) PROVE Goal
      BY <1>s, <2>7 DEF AnswerLost, Answered
    <2> QED
      BY <1>3, <1>s, <2>1, <2>2, <2>3, <2>4, <2>5, <2>6, <2>7
      DEF Inserting, ReceiveBatch, Tick, ChannelClosed
  <1>4. ASSUME NEW r \in Replica, Process(r) PROVE Goal
    BY <1>4, <1>s DEF Process, Stop, Exit, Crash, Restart
  <1>5. ASSUME NEW n \in Msg, Server(n) PROVE Goal
    <2>1. CASE PublishMessage(n)
      <3>1. Status[n] = "absent" /\ Status' = [Status EXCEPT ![n] = "pending"]
        BY <1>0, <2>1 DEF PublishMessage, Publish, Status, StatusOf
      <3>2. StoredItems' = StoredItems
        BY <2>1 DEF PublishMessage, StoredItems
      <3> QED
        BY <3>1, <3>2 DEF Promise!Next, Promise!Publish
    <2>2. CASE Discard(n)
      <3>1. Status[n] = "pending" /\ Status' = [Status EXCEPT ![n] = "gone"]
        BY <1>0, <2>2 DEF Discard, DiscardEffect, Status, StatusOf
      <3>2. StoredItems' = StoredItems
        BY <2>2 DEF Discard, StoredItems
      <3> QED
        BY <3>1, <3>2 DEF Promise!Next, Promise!Drop
    <2>3. CASE Expire(n)
      <3>1. UNCHANGED tableVars
            /\ \A m \in Msg : StatusOf(mstate[m])' = StatusOf(mstate[m])
        BY <1>0, <2>3 DEF Expire, ExpireEffect, StatusOf
      <3> QED
        BY <3>1, Stutters
    <2>4. CASE DeliveryLost(n)
      <3>1. UNCHANGED tableVars
            /\ \A m \in Msg : StatusOf(mstate[m])' = StatusOf(mstate[m])
        BY <1>0, <2>4 DEF DeliveryLost, Deliver, MayDeliver, Waiting, StatusOf
      <3> QED
        BY <3>1, Stutters
    <2> QED
      BY <1>5, <2>1, <2>2, <2>3, <2>4 DEF Server
  <1> QED
    BY <1>1, <1>2, <1>3, <1>4, <1>5 DEF Next

\* The replicas, their goroutines and the server implement the promise: what
\* is stored is never taken back and settling follows storing.
THEOREM Refinement == Spec => ImplementsPromise
PROOF
  <1>1. Init => Promise!Init
    BY DEF Init, ConsumerInit, Promise!Init, Status, StatusOf, StoredItems
  <1> QED
    BY <1>1, StepRefines, InductiveInvariant, PTL DEF Spec, Promise!Spec, ImplementsPromise

-----------------------------------------------------------------------------
(* Findings follow their rows *)

\* A finding that a step stores is of a message whose rows are all stored.
LEMMA NewFindings ==
  ASSUME IInv, [Next]_vars, NEW k \in findings', k \notin findings
  PROVE  \E m \in Msg : k[1] \in Findings[m] /\ AnchorsStored(m)
PROOF
  <1> DEFINE Goal == \E m \in Msg : k[1] \in Findings[m] /\ AnchorsStored(m)
  <1> USE DEF tableVars, replicaVars
  <1>1. CASE UNCHANGED findings
    BY <1>1
  <1>2. ASSUME NEW r \in Replica, ipc[r] = "findings", k \in FindingKeys(acc[r]) PROVE Goal
    <2>1. PICK d \in acc[r] : \E i \in Findings[d.msg] : k = KeyOf(i, d)
      BY <1>2 DEF FindingKeys
    <2>2. k[1] \in Findings[d.msg]
      BY <2>1 DEF KeyOf
    <2>3. d.msg \in Msg /\ AnchorsStored(d.msg)
      BY <1>2 DEF IInv, TypeOK, Delivery, WrittenBeforeAnswer
    <2> QED
      BY <2>2, <2>3
  <1>3. ASSUME NEW r \in Replica, Inserting(r) PROVE Goal
    <2>1. CASE InsertFindings(r)
      BY <1>2, <2>1 DEF InsertFindings
    <2>2. ASSUME NEW K \in SUBSET FindingKeys(acc[r]), InsertFindingsFails(r, K) PROVE Goal
      BY <1>2, <2>2 DEF InsertFindingsFails
    <2> QED
      BY <1>1, <1>3, <2>1, <2>2 DEF Inserting, ReceiveBatch, Tick, ChannelClosed, InsertAnchors,
           InsertAnchorsFails, Ack, Nak, AnswerLost, Answered
  <1>4. ASSUME NEW r \in Replica, Fetching(r) PROVE Goal
    BY <1>1, <1>4 DEF Fetching, FetchLoop, FetchMessages, FetchTimeout, FetchError, SendBatch,
         SendAborted
  <1>5. ASSUME NEW r \in Replica, Process(r) PROVE Goal
    BY <1>1, <1>5 DEF Process, Stop, Exit, Crash, Restart
  <1>6. ASSUME NEW m \in Msg, Server(m) PROVE Goal
    BY <1>1, <1>6 DEF Server, PublishMessage, Expire, DeliveryLost, Discard
  <1> QED
    BY <1>1, <1>3, <1>4, <1>5, <1>6 DEF Next, vars

\* When no two messages hold one finding, a stored finding is of a message whose
\* audit rows are all stored: write inserts rows first, in every replica and
\* after every failure (consume.go:255-261).
THEOREM FindingsFollowAnchors ==
  ASSUME \A m, n \in Msg : m # n => Findings[m] \cap Findings[n] = {}
  PROVE  Spec => []FindingsAfterAnchors
PROOF
  <1>1. Init => FindingsAfterAnchors
    BY DEF Init, FindingsAfterAnchors, StoredIn
  <1>2. IInv /\ FindingsAfterAnchors /\ [Next]_vars => FindingsAfterAnchors'
    <2> SUFFICES ASSUME IInv, FindingsAfterAnchors, [Next]_vars,
                        NEW m \in Msg, NEW i \in Findings[m], NEW k \in findings', k[1] = i
                 PROVE  AnchorsStored(m)'
      BY DEF FindingsAfterAnchors, StoredIn
    <2>1. CASE k \in findings
      BY <2>1, StoredStays DEF FindingsAfterAnchors, StoredIn
    <2>2. CASE k \notin findings
      <3>1. PICK n \in Msg : k[1] \in Findings[n] /\ AnchorsStored(n)
        BY <2>2, NewFindings
      <3>2. n = m
        BY <3>1
      <3> QED
        BY <3>1, <3>2, StoredStays
    <2> QED
      BY <2>1, <2>2
  <1> QED
    BY <1>1, <1>2, InductiveInvariant, PTL DEF Spec

-----------------------------------------------------------------------------
(* The conveyor *)

\* No delivery is in two places, of one replica or of two.
Unique ==
  \A r, q \in Replica : \A j \in Index(r), k \in Index(q) :
    \A d \in Part(r, j) : d \in Part(q, k) => r = q /\ j = k

\* No delivery is newer than the last one of its message.
Numbered == \A r \in Replica : \A k \in Index(r) : \A d \in Part(r, k) : d.num <= dcount[d.msg]

\* Only a goroutine that is about to send holds a batch.
BatchToSend == \A r \in Replica : fpc[r] # "send" => fbatch[r] = {}

\* Undisturbed, processes run, and nothing is handed back.
Calm ==
  faults = 0 => \A r \in Replica :
    life[r] = "running" /\ fpc[r] # "closed" /\ ipc[r] \notin {"nak", "done"}

\* Undisturbed, what the server waits for is somewhere.
Travelling ==
  faults = 0 => \A m \in Msg : mstate[m] = "inflight" =>
    \E r \in Replica : \E k \in Index(r) : Latest(m) \in Part(r, k)

FlowInv == TypeOK /\ Unique /\ Numbered /\ BatchToSend /\ Calm /\ Travelling

-----------------------------------------------------------------------------
(* How the conveyor of one replica moves in a step *)

Unmoved(r) == acc'[r] = acc[r] /\ chan'[r] = chan[r] /\ fbatch'[r] = fbatch[r]

Shrinks(r) == acc'[r] \subseteq acc[r] /\ chan'[r] = chan[r] /\ fbatch'[r] \subseteq fbatch[r]

Empties(r) == acc'[r] = {} /\ chan'[r] = <<>> /\ fbatch'[r] = {}

Sends(r) == acc'[r] = acc[r] /\ chan'[r] = Append(chan[r], fbatch[r]) /\ fbatch'[r] = {}

Receives(r) ==
  /\ chan[r] # <<>>
  /\ acc'[r] = acc[r] \cup Head(chan[r]) /\ chan'[r] = Tail(chan[r]) /\ fbatch'[r] = fbatch[r]

\* A batch is at most what one Fetch returns.
Fits(D) == IsFiniteSet(D) /\ Cardinality(D) <= Batch

Fetches(r) ==
  /\ acc'[r] = acc[r] /\ chan'[r] = chan[r]
  /\ \A d \in fbatch'[r] : d.num = dcount[d.msg] + 1 /\ dcount'[d.msg] = d.num
  /\ Fits(fbatch'[r])

Moves(r) == Shrinks(r) \/ Empties(r) \/ Sends(r) \/ Receives(r) \/ Fetches(r)

LEMMA FetchedFits ==
  ASSUME NEW M \in SUBSET Msg, Cardinality(M) <= Batch
  PROVE  Fits({CopyOf(m) : m \in M \ {n \in M : Empty(n)}})
PROOF
  <1> DEFINE S == M \ {n \in M : Empty(n)}
             T == {CopyOf(m) : m \in S}
             f == [m \in S |-> CopyOf(m)]
  <1>1. IsFiniteSet(M)
    BY ConsumerAssumption, FS_Subset
  <1>2. IsFiniteSet(S) /\ Cardinality(S) <= Cardinality(M)
    BY <1>1, FS_Subset
  <1>3. f \in Surjection(S, T)
    BY DEF Surjection
  <1> HIDE DEF S, f
  <1>4. IsFiniteSet(T) /\ Cardinality(T) <= Cardinality(S)
    <2> HIDE DEF T
    <2> QED
      BY <1>2, <1>3, FS_Surjection
  <1>5. Cardinality(T) \in Nat /\ Cardinality(S) \in Nat /\ Cardinality(M) \in Nat /\ Batch \in Nat
    BY <1>1, <1>2, <1>4, FS_CardinalityType, SizesAssumption
  <1>6. Fits(T)
    <2> HIDE DEF T
    <2> QED
      BY <1>2, <1>4, <1>5 DEF Fits
  <1> QED
    BY <1>6 DEF S

\* A step moves the conveyor of at most one replica.
LEMMA OneMoves ==
  ASSUME TypeOK, [Next]_vars
  PROVE  \/ \A q \in Replica : Unmoved(q)
         \/ \E r \in Replica : Moves(r) /\ \A q \in Replica \ {r} : Unmoved(q)
PROOF
  <1> DEFINE Goal == \/ \A q \in Replica : Unmoved(q)
                     \/ \E r \in Replica : Moves(r) /\ \A q \in Replica \ {r} : Unmoved(q)
  <1> USE DEF replicaVars, Unmoved
  <1>0. /\ fbatch \in [Replica -> SUBSET Delivery] /\ acc \in [Replica -> SUBSET Delivery]
        /\ chan \in [Replica -> Seq(SUBSET Delivery)]
    BY DEF TypeOK
  <1>1. CASE UNCHANGED vars
    BY <1>1 DEF vars
  <1>2. ASSUME NEW r \in Replica, Fetching(r) PROVE Goal
    <2>1. ASSUME NEW M \in SUBSET Waiting, NEW A \in SUBSET M, FetchMessages(r, M, A)
          PROVE  Goal
      <3> DEFINE batch == {CopyOf(m) : m \in M \ {n \in M : Empty(n)}}
      <3>1. /\ Deliver(M, A) /\ UNCHANGED <<chan, acc>>
            /\ fbatch' = [fbatch EXCEPT ![r] = batch]
        BY <2>1 DEF FetchMessages
      <3>2. \A d \in batch : d.msg \in M /\ d.num = dcount[d.msg] + 1
        BY DEF CopyOf
      <3>3. \A d \in batch : dcount'[d.msg] = d.num
        BY <3>1, <3>2 DEF Deliver, Waiting
      <3>5. Fits(batch)
        <4>1. M \in SUBSET Msg /\ Cardinality(M) <= Batch
          BY <2>1 DEF FetchMessages, Waiting
        <4> QED
          BY <4>1, FetchedFits
      <3> HIDE DEF batch
      <3>4. Fetches(r)
        BY <1>0, <3>1, <3>2, <3>3, <3>5 DEF Fetches
      <3> QED
        BY <1>0, <3>1, <3>4 DEF Moves
    <2>2. CASE SendBatch(r)
      <3>1. Sends(r)
        BY <1>0, <2>2 DEF SendBatch, Sends
      <3> QED
        BY <1>0, <2>2, <3>1 DEF SendBatch, Moves
    <2>3. CASE SendAborted(r)
      <3>1. Shrinks(r)
        BY <1>0, <2>3 DEF SendAborted, Shrinks
      <3> QED
        BY <1>0, <2>3, <3>1 DEF SendAborted, Moves
    <2> QED
      BY <1>2, <2>1, <2>2, <2>3 DEF Fetching, FetchLoop, FetchTimeout, FetchError
  <1>3. ASSUME NEW r \in Replica, Inserting(r) PROVE Goal
    <2>1. CASE ReceiveBatch(r)
      <3>1. Receives(r)
        BY <1>0, <2>1 DEF ReceiveBatch, Receives, Accumulate
      <3> QED
        BY <1>0, <2>1, <3>1 DEF ReceiveBatch, Moves
    <2>2. ASSUME NEW d \in acc[r], Answered(r, d) PROVE Goal
      <3>1. Shrinks(r)
        BY <1>0, <2>2 DEF Answered, Shrinks
      <3> QED
        BY <1>0, <2>2, <3>1 DEF Answered, Moves
    <2> QED
      BY <1>3, <2>1, <2>2 DEF Inserting, Tick, ChannelClosed, InsertAnchors, InsertAnchorsFails,
           InsertFindings, InsertFindingsFails, Ack, Nak, AnswerLost
  <1>4. ASSUME NEW r \in Replica, Process(r) PROVE Goal
    <2>1. CASE Fresh(r)
      <3>1. Empties(r)
        BY <1>0, <2>1 DEF Fresh, Empties
      <3> QED
        BY <1>0, <2>1, <3>1 DEF Fresh, Moves
    <2> QED
      BY <1>4, <2>1 DEF Process, Stop, Exit, Crash, Restart
  <1>5. ASSUME NEW m \in Msg, Server(m) PROVE Goal
    BY <1>5 DEF Server, PublishMessage, Expire, DeliveryLost, Discard
  <1> QED
    BY <1>1, <1>2, <1>3, <1>4, <1>5 DEF Next

\* What a place of a replica holds after a step it held before, there or so many
\* places behind, or it has just been fetched.
Old(r, s, k, d) == \E j \in Index(r) : d \in Part(r, j) /\ k = (IF j = 0 THEN 0 ELSE j - s)

New(r, k, d) == d.num = dcount[d.msg] + 1 /\ dcount'[d.msg] = d.num /\ k = Len(chan[r]) + 1

Traces(r, s) == \A k \in Index(r)' : \A d \in Part(r, k)' : Old(r, s, k, d) \/ New(r, k, d)

LEMMA AppendPlaces ==
  ASSUME NEW S, NEW c \in Seq(S), NEW x \in S
  PROVE  /\ Len(Append(c, x)) = Len(c) + 1 /\ Append(c, x)[Len(c) + 1] = x
         /\ \A k \in 1..Len(c) : Append(c, x)[k] = c[k]
PROOF
  OBVIOUS

LEMMA TailPlaces ==
  ASSUME NEW S, NEW c \in Seq(S), c # <<>>
  PROVE  /\ Len(c) \in Nat \ {0} /\ Head(c) = c[1] /\ Len(Tail(c)) = Len(c) - 1
         /\ \A k \in 1..Len(c) - 1 : Tail(c)[k] = c[k + 1]
PROOF
  OBVIOUS

LEMMA MovesTrace ==
  ASSUME TypeOK, NEW r \in Replica, Moves(r)
  PROVE  \E s \in {0, 1} : Traces(r, s)
PROOF
  <1>0. /\ chan[r] \in Seq(SUBSET Delivery) /\ Len(chan[r]) \in Nat
        /\ fbatch[r] \in SUBSET Delivery
    BY DEF TypeOK
  <1>s. ASSUME NEW k \in Index(r), NEW d \in Part(r, k) PROVE Old(r, 0, k, d)
    BY <1>0, <1>s DEF Old, Index
  <1>1. CASE Shrinks(r)
    <2>1. ASSUME NEW k \in Index(r)', NEW d \in Part(r, k)' PROVE k \in Index(r) /\ d \in Part(r, k)
      BY <1>0, <1>1, <2>1 DEF Shrinks, Index, Part
    <2> QED
      BY <1>s, <2>1 DEF Traces
  <1>2. CASE Empties(r)
    <2>1. ASSUME NEW k \in Index(r)', NEW d \in Part(r, k)' PROVE FALSE
      BY <1>2, <2>1 DEF Empties, Index, Part
    <2> QED
      BY <2>1 DEF Traces
  <1>3. CASE Sends(r)
    <2>1. /\ Len(chan'[r]) = Len(chan[r]) + 1 /\ chan'[r][Len(chan[r]) + 1] = fbatch[r]
          /\ \A k \in 1..Len(chan[r]) : chan'[r][k] = chan[r][k]
      BY <1>0, <1>3, AppendPlaces DEF Sends
    <2>2. ASSUME NEW k \in Index(r)', NEW d \in Part(r, k)' PROVE k \in Index(r) /\ d \in Part(r, k)
      BY <1>0, <1>3, <2>1, <2>2 DEF Sends, Index, Part
    <2> QED
      BY <1>s, <2>2 DEF Traces
  <1>4. CASE Receives(r)
    <2>1. /\ Len(chan[r]) > 0 /\ Head(chan[r]) = chan[r][1]
          /\ Len(chan'[r]) = Len(chan[r]) - 1
          /\ \A k \in 1..Len(chan[r]) - 1 : chan'[r][k] = chan[r][k + 1]
      BY <1>0, <1>4, TailPlaces DEF Receives
    <2>2. ASSUME NEW k \in Index(r)', NEW d \in Part(r, k)' PROVE Old(r, 1, k, d)
      <3>1. CASE k = 0
        <4>1. d \in Part(r, 0) \/ d \in Part(r, 1)
          BY <1>0, <1>4, <2>1, <2>2, <3>1 DEF Receives, Part
        <4> QED
          BY <1>0, <2>1, <3>1, <4>1 DEF Old, Index
      <3>2. CASE k # 0
        <4>1. k + 1 \in Index(r) /\ k \in Nat
          BY <1>0, <2>1, <3>2 DEF Index
        <4>2. d \in Part(r, k + 1)
          BY <1>0, <1>4, <2>1, <2>2, <3>2, <4>1 DEF Receives, Part, Index
        <4> QED
          BY <3>2, <4>1, <4>2 DEF Old
      <3> QED
        BY <3>1, <3>2
    <2> QED
      BY <2>2 DEF Traces
  <1>5. CASE Fetches(r)
    <2>1. ASSUME NEW k \in Index(r)', NEW d \in Part(r, k)'
          PROVE  (k \in Index(r) /\ d \in Part(r, k)) \/ New(r, k, d)
      BY <1>0, <1>5, <2>1 DEF Fetches, New, Index, Part
    <2> QED
      BY <1>s, <2>1 DEF Traces
  <1> QED
    BY <1>1, <1>2, <1>3, <1>4, <1>5 DEF Moves

LEMMA UnmovedTraces ==
  ASSUME TypeOK, NEW r \in Replica, Unmoved(r)
  PROVE  \A k \in Index(r)' : \A d \in Part(r, k)' : Old(r, 0, k, d)
PROOF
  <1>0. Len(chan[r]) \in Nat
    BY DEF TypeOK
  <1>1. ASSUME NEW k \in Index(r)', NEW d \in Part(r, k)' PROVE k \in Index(r) /\ d \in Part(r, k)
    BY <1>1 DEF Unmoved, Index, Part
  <1>2. ASSUME NEW k \in Index(r), NEW d \in Part(r, k) PROVE Old(r, 0, k, d)
    BY <1>0, <1>2 DEF Old, Index
  <1> QED
    BY <1>1, <1>2

-----------------------------------------------------------------------------
(* No delivery is in two places *)

LEMMA CountsGrow ==
  ASSUME TypeOK, [Next]_vars
  PROVE  \A m \in Msg : dcount[m] \in Nat /\ dcount'[m] \in Nat /\ dcount[m] <= dcount'[m]
PROOF
  <1> DEFINE Goal == \A m \in Msg : dcount'[m] \in Nat /\ dcount[m] <= dcount'[m]
  <1> USE DEF consumerVars
  <1>0. dcount \in [Msg -> Nat]
    BY DEF TypeOK, ConsumerTypeOK
  <1>1. CASE UNCHANGED dcount
    BY <1>0, <1>1
  <1>2. ASSUME NEW M, NEW A, Deliver(M, A) PROVE Goal
    BY <1>0, <1>2 DEF Deliver
  <1>3. ASSUME NEW r \in Replica, Fetching(r) PROVE Goal
    <2>1. ASSUME NEW M \in SUBSET Waiting, NEW A \in SUBSET M, FetchMessages(r, M, A)
          PROVE  Goal
      BY <1>2, <2>1 DEF FetchMessages
    <2> QED
      BY <1>1, <1>3, <2>1 DEF Fetching, FetchLoop, FetchTimeout, FetchError, SendBatch, SendAborted
  <1>4. ASSUME NEW r \in Replica, Inserting(r) PROVE Goal
    BY <1>1, <1>4 DEF Inserting, ReceiveBatch, Tick, ChannelClosed, InsertAnchors,
         InsertAnchorsFails, InsertFindings, InsertFindingsFails, Ack, Nak, AnswerLost, AckEffect,
         NakEffect
  <1>5. ASSUME NEW r \in Replica, Process(r) PROVE Goal
    BY <1>1, <1>5 DEF Process, Stop, Exit, Crash, Restart
  <1>6. ASSUME NEW m \in Msg, Server(m) PROVE Goal
    BY <1>1, <1>2, <1>6 DEF Server, PublishMessage, Publish, Expire, ExpireEffect, DeliveryLost,
         Discard, DiscardEffect
  <1>7. Goal
    BY <1>1, <1>3, <1>4, <1>5, <1>6 DEF Next, vars
  <1> QED
    BY <1>0, <1>7

LEMMA PartTypes ==
  ASSUME TypeOK, NEW r \in Replica
  PROVE  Len(chan[r]) \in Nat /\ \A k \in Index(r) : Part(r, k) \subseteq Delivery
PROOF
  <1>1. /\ fbatch[r] \in SUBSET Delivery /\ acc[r] \in SUBSET Delivery
        /\ chan[r] \in Seq(SUBSET Delivery)
    BY DEF TypeOK
  <1> QED
    BY <1>1 DEF Part, Index

\* The origins of what is held after a step, of all replicas.
LEMMA Origins ==
  ASSUME TypeOK, [Next]_vars
  PROVE  \E r : \E g \in [Replica -> {0, 1}] :
           \A q \in Replica : \A k \in Index(q)' : \A d \in Part(q, k)' :
             Old(q, g[q], k, d) \/ (q = r /\ New(q, k, d))
PROOF
  <1>1. CASE \A q \in Replica : Unmoved(q)
    <2> DEFINE g == [q \in Replica |-> 0]
    <2>1. \A q \in Replica : \A k \in Index(q)' : \A d \in Part(q, k)' : Old(q, g[q], k, d)
      BY <1>1, UnmovedTraces
    <2> QED
      BY <2>1
  <1>2. ASSUME NEW r \in Replica, Moves(r), \A q \in Replica \ {r} : Unmoved(q)
        PROVE  \E s : \E g \in [Replica -> {0, 1}] :
           \A q \in Replica : \A k \in Index(q)' : \A d \in Part(q, k)' :
                Old(q, g[q], k, d) \/ (q = s /\ New(q, k, d))
    <2>1. PICK h \in {0, 1} : Traces(r, h)
      BY <1>2, MovesTrace
    <2> DEFINE g == [q \in Replica |-> IF q = r THEN h ELSE 0]
    <2>2. \A q \in Replica : \A k \in Index(q)' : \A d \in Part(q, k)' :
                Old(q, g[q], k, d) \/ (q = r /\ New(q, k, d))
      BY <1>2, <2>1, UnmovedTraces DEF Traces
    <2> QED
      BY <2>2
  <1> QED
    BY <1>1, <1>2, OneMoves

LEMMA UniqueNext ==
  TypeOK /\ Unique /\ Numbered /\ [Next]_vars => Unique' /\ Numbered'
PROOF
  <1> SUFFICES ASSUME TypeOK, Unique, Numbered, [Next]_vars PROVE Unique' /\ Numbered'
    OBVIOUS
  <1>a. PICK s : \E g \in [Replica -> {0, 1}] :
               \A q \in Replica : \A k \in Index(q)' : \A d \in Part(q, k)' :
                 Old(q, g[q], k, d) \/ (q = s /\ New(q, k, d))
    BY Origins
  <1>1. PICK g \in [Replica -> {0, 1}] :
               \A q \in Replica : \A k \in Index(q)' : \A d \in Part(q, k)' :
                 Old(q, g[q], k, d) \/ (q = s /\ New(q, k, d))
    BY <1>a
  <1>2. \A m \in Msg : dcount[m] \in Nat /\ dcount'[m] \in Nat /\ dcount[m] <= dcount'[m]
    BY CountsGrow
  <1>3. \A q \in Replica : \A k \in Index(q) : \A d \in Part(q, k) :
          d.msg \in Msg /\ d.num \in Nat /\ d.num <= dcount[d.msg]
    BY PartTypes DEF Numbered, Delivery
  <1>4. TypeOK'
    BY TypeNext
  <1>5. ASSUME NEW q \in Replica, NEW k \in Index(q)', NEW d \in Part(q, k)' PROVE d \in Delivery
    <2>1. /\ fbatch'[q] \in SUBSET Delivery /\ acc'[q] \in SUBSET Delivery
          /\ chan'[q] \in Seq(SUBSET Delivery)
      BY <1>4 DEF TypeOK
    <2> QED
      BY <1>5, <2>1 DEF Part, Index
  <1>6. ASSUME NEW q \in Replica, NEW k \in Index(q)', NEW d \in Part(q, k)'
        PROVE  d.num <= dcount'[d.msg]
    <2>1. CASE Old(q, g[q], k, d)
      BY <1>2, <1>3, <2>1 DEF Old
    <2>2. CASE New(q, k, d)
      BY <1>2, <1>5, <1>6, <2>2 DEF New, Delivery
    <2> QED
      BY <1>1, <1>6, <2>1, <2>2
  <1>7. ASSUME NEW r \in Replica, NEW q \in Replica, NEW j \in Index(r)', NEW k \in Index(q)',
               NEW d \in Part(r, j)', d \in Part(q, k)'
        PROVE  r = q /\ j = k
    <2>1. \A p, n : ~(New(p, n, d) /\ Old(r, g[r], j, d)) /\ ~(New(p, n, d) /\ Old(q, g[q], k, d))
      BY <1>2, <1>3 DEF New, Old
    <2>2. CASE Old(r, g[r], j, d) /\ Old(q, g[q], k, d)
      BY <2>2 DEF Old, Unique
    <2>3. CASE r = s /\ New(r, j, d) /\ q = s /\ New(q, k, d)
      BY <2>3 DEF New
    <2> QED
      BY <1>1, <1>7, <2>1, <2>2, <2>3
  <1> QED
    BY <1>6, <1>7 DEF Unique, Numbered

-----------------------------------------------------------------------------
(* Without a disturbance *)

\* A replica of which a step is not leaves its goroutines where they are.
LEMMA BatchToSendNext == TypeOK /\ BatchToSend /\ [Next]_vars => BatchToSend'
PROOF
  <1> SUFFICES ASSUME TypeOK, BatchToSend, [Next]_vars, NEW q \in Replica, fpc'[q] # "send"
               PROVE  fbatch'[q] = {}
    BY DEF BatchToSend
  <1> DEFINE Goal == fbatch'[q] = {}
  <1> USE DEF replicaVars
  <1>0. /\ fbatch \in [Replica -> SUBSET Delivery]
        /\ fpc \in [Replica -> {"top", "fetch", "send", "closed"}]
    BY DEF TypeOK
  <1>k. (fbatch'[q] = fbatch[q] /\ fpc[q] # "send") => Goal
    BY DEF BatchToSend
  <1>1. CASE UNCHANGED <<fpc, fbatch>>
    BY <1>1, <1>k
  <1>2. ASSUME NEW r \in Replica, Fetching(r) PROVE Goal
    <2>1. ASSUME NEW M \in SUBSET Waiting, NEW A \in SUBSET M, FetchMessages(r, M, A)
          PROVE  Goal
      <3> DEFINE batch == {CopyOf(m) : m \in M \ {n \in M : Empty(n)}}
      <3>1. /\ fbatch' = [fbatch EXCEPT ![r] = batch]
            /\ fpc' = [fpc EXCEPT ![r] = IF batch = {} THEN "top" ELSE "send"]
        BY <2>1 DEF FetchMessages
      <3> HIDE DEF batch
      <3> QED
        BY <1>0, <1>k, <3>1
    <2> QED
      BY <1>0, <1>k, <1>2, <2>1
      DEF Fetching, FetchLoop, FetchTimeout, FetchError, SendBatch, SendAborted, CloseChannel
  <1>3. ASSUME NEW r \in Replica, Inserting(r) PROVE Goal
    BY <1>1, <1>3 DEF Inserting, ReceiveBatch, Tick, ChannelClosed, InsertAnchors,
         InsertAnchorsFails, InsertFindings, InsertFindingsFails, Ack, Nak, AnswerLost, Answered
  <1>4. ASSUME NEW r \in Replica, Process(r) PROVE Goal
    BY <1>0, <1>k, <1>4 DEF Process, Stop, Exit, Crash, Restart, Fresh
  <1>5. ASSUME NEW m \in Msg, Server(m) PROVE Goal
    BY <1>1, <1>5 DEF Server, PublishMessage, Expire, DeliveryLost, Discard
  <1> QED
    BY <1>1, <1>2, <1>3, <1>4, <1>5 DEF Next, vars

\* Disturbances are counted: a step after which there was none is none itself.
LEMMA StillCalm ==
  ASSUME TypeOK, [Next]_vars, faults' = 0
  PROVE  faults = 0
PROOF
  <1> USE DEF consumerVars
  <1>0. faults \in Nat
    BY DEF TypeOK
  <1>f. ASSUME NEW n \in Nat, Fault(n) PROVE faults = 0 /\ n = 0
    BY <1>0, <1>f DEF Fault
  <1>1. CASE UNCHANGED faults
    BY <1>1
  <1>2. ASSUME NEW r \in Replica, Fetching(r) PROVE faults = 0
    <2>1. ASSUME NEW M \in SUBSET Waiting, NEW A \in SUBSET M, FetchMessages(r, M, A)
          PROVE  faults = 0
      <3>1. Fault(Cardinality({m \in M : Empty(m)} \ A))
        BY <2>1 DEF FetchMessages
      <3>2. Cardinality({m \in M : Empty(m)} \ A) \in Nat
        BY FetchTypes DEF TypeOK
      <3> QED
        BY <1>f, <3>1, <3>2
    <2>2. CASE FetchError(r)
      BY <1>f, <2>2 DEF FetchError
    <2> QED
      BY <1>1, <1>2, <2>1, <2>2 DEF Fetching, FetchLoop, FetchTimeout, SendBatch, SendAborted
  <1>3. ASSUME NEW r \in Replica, Inserting(r) PROVE faults = 0
    BY <1>1, <1>3, <1>f DEF Inserting, ReceiveBatch, Tick, ChannelClosed, InsertAnchors,
         InsertAnchorsFails, InsertFindings, InsertFindingsFails, Ack, Nak, AnswerLost
  <1>4. ASSUME NEW r \in Replica, Process(r) PROVE faults = 0
    BY <1>1, <1>4, <1>f DEF Process, Stop, Exit, Crash, Restart
  <1>5. ASSUME NEW m \in Msg, Server(m) PROVE faults = 0
    BY <1>1, <1>5, <1>f DEF Server, PublishMessage, Expire, DeliveryLost, Discard
  <1> QED
    BY <1>1, <1>2, <1>3, <1>4, <1>5 DEF Next, vars

\* What such a step may be.
LEMMA CalmSteps ==
  ASSUME TypeOK, Calm, [Next]_vars, faults' = 0
  PROVE  \/ UNCHANGED replicaVars
         \/ \E r \in Replica :
              \/ FetchLoop(r) \/ FetchTimeout(r) \/ SendBatch(r)
              \/ \E M \in SUBSET Waiting : \E A \in SUBSET M : FetchMessages(r, M, A)
              \/ ReceiveBatch(r) \/ Tick(r) \/ InsertAnchors(r) \/ InsertFindings(r)
              \/ \E d \in acc[r] : Ack(r, d)
PROOF
  <1> DEFINE Kinds(r) == \/ FetchLoop(r) \/ FetchTimeout(r) \/ SendBatch(r)
                         \/ \E M \in SUBSET Waiting : \E A \in SUBSET M : FetchMessages(r, M, A)
                         \/ ReceiveBatch(r) \/ Tick(r) \/ InsertAnchors(r) \/ InsertFindings(r)
                         \/ \E d \in acc[r] : Ack(r, d)
  <1>0. faults = 0 /\ faults \in Nat
    BY StillCalm DEF TypeOK
  <1>f. ~Fault(1)
    BY <1>0 DEF Fault
  <1>c. \A r \in Replica : life[r] = "running" /\ fpc[r] # "closed" /\ ipc[r] \notin {"nak", "done"}
    BY <1>0 DEF Calm
  <1>1. CASE UNCHANGED vars
    BY <1>1 DEF vars
  <1>2. ASSUME NEW r \in Replica, Fetching(r) PROVE Kinds(r)
    BY <1>c, <1>f, <1>2 DEF Fetching, FetchError, SendAborted, Cancelled
  <1>3. ASSUME NEW r \in Replica, Inserting(r) PROVE Kinds(r)
    BY <1>c, <1>f, <1>3 DEF Inserting, ChannelClosed, InsertAnchorsFails, InsertFindingsFails, Nak,
         AnswerLost, Cancelled
  <1>4. ASSUME NEW r \in Replica, Process(r) PROVE FALSE
    BY <1>c, <1>f, <1>4 DEF Process, Stop, Exit, Crash, Restart
  <1>5. ASSUME NEW m \in Msg, Server(m) PROVE UNCHANGED replicaVars
    BY <1>5 DEF Server, PublishMessage, Expire, DeliveryLost, Discard
  <1> QED
    BY <1>1, <1>2, <1>3, <1>4, <1>5 DEF Next

LEMMA CalmNext == TypeOK /\ Calm /\ [Next]_vars => Calm'
PROOF
  <1> SUFFICES ASSUME TypeOK, Calm, [Next]_vars, faults' = 0, NEW q \in Replica
               PROVE  life'[q] = "running" /\ fpc'[q] # "closed" /\ ipc'[q] \notin {"nak", "done"}
    BY DEF Calm
  <1> DEFINE Goal == life'[q] = "running" /\ fpc'[q] # "closed" /\ ipc'[q] \notin {"nak", "done"}
  <1>0. faults = 0
    BY StillCalm
  <1>c. \A r \in Replica : life[r] = "running" /\ fpc[r] # "closed" /\ ipc[r] \notin {"nak", "done"}
    BY <1>0 DEF Calm
  <1>t. /\ fpc \in [Replica -> {"top", "fetch", "send", "closed"}]
        /\ ipc \in [Replica -> {"select", "rows", "findings", "ack", "nak", "done"}]
    BY DEF TypeOK
  <1>1. CASE UNCHANGED replicaVars
    BY <1>1, <1>c DEF replicaVars
  <1>2. ASSUME NEW r \in Replica,
               FetchLoop(r) \/ FetchTimeout(r) \/ SendBatch(r) PROVE Goal
    BY <1>c, <1>t, <1>2 DEF FetchLoop, FetchTimeout, SendBatch, Cancelled
  <1>3. ASSUME NEW r \in Replica, NEW M \in SUBSET Waiting, NEW A \in SUBSET M,
               FetchMessages(r, M, A)
        PROVE  Goal
    <2>1. \E l \in {"top", "send"} : fpc' = [fpc EXCEPT ![r] = l]
      BY <1>3 DEF FetchMessages
    <2>2. UNCHANGED <<life, ipc>>
      BY <1>3 DEF FetchMessages
    <2> QED
      BY <1>c, <1>t, <2>1, <2>2
  <1>4. ASSUME NEW r \in Replica, ReceiveBatch(r) \/ Tick(r) PROVE Goal
    <2>1. /\ UNCHANGED <<life, fpc>>
          /\ \E l \in {"select", "rows"} : ipc' = [ipc EXCEPT ![r] = l]
      BY <1>t, <1>4 DEF ReceiveBatch, Tick, StartFlush
    <2> QED
      BY <1>c, <1>t, <2>1
  <1>5. ASSUME NEW r \in Replica, InsertAnchors(r) \/ InsertFindings(r) PROVE Goal
    BY <1>c, <1>t, <1>5 DEF InsertAnchors, InsertFindings, AfterRows, AfterFindings
  <1>6. ASSUME NEW r \in Replica, NEW d \in acc[r], Ack(r, d) PROVE Goal
    <2>1. /\ UNCHANGED <<life, fpc>>
          /\ \E l \in {"select", "ack"} : ipc' = [ipc EXCEPT ![r] = l]
      BY <1>t, <1>6 DEF Ack, Answered
    <2> QED
      BY <1>c, <1>t, <2>1
  <1> QED
    BY <1>1, <1>2, <1>3, <1>4, <1>5, <1>6, CalmSteps

-----------------------------------------------------------------------------
(* Undisturbed, what the server waits for is somewhere *)

\* What a place holds is, after the step, still somewhere in that replica,
\* unless its message has been answered.
Kept(r) ==
  \A k \in Index(r) : \A d \in Part(r, k) :
    mstate'[d.msg] = "inflight" => \E j \in Index(r)' : d \in Part(r, j)'

LEMMA UnmovedKept ==
  ASSUME NEW r \in Replica, Unmoved(r)
  PROVE  Kept(r)
PROOF
  BY DEF Kept, Unmoved, Index, Part

LEMMA SentKept ==
  ASSUME TypeOK, NEW r \in Replica, SendBatch(r)
  PROVE  Kept(r)
PROOF
  <1>0. /\ chan[r] \in Seq(SUBSET Delivery) /\ Len(chan[r]) \in Nat
        /\ fbatch[r] \in SUBSET Delivery
    BY DEF TypeOK
  <1>s. acc'[r] = acc[r] /\ chan'[r] = Append(chan[r], fbatch[r])
    BY DEF SendBatch, TypeOK
  <1>1. /\ Len(chan'[r]) = Len(chan[r]) + 1 /\ chan'[r][Len(chan[r]) + 1] = fbatch[r]
        /\ \A k \in 1..Len(chan[r]) : chan'[r][k] = chan[r][k]
    BY <1>0, <1>s, AppendPlaces
  <1>2. ASSUME NEW k \in Index(r), NEW d \in Part(r, k)
        PROVE  k \in Index(r)' /\ d \in Part(r, k)'
    BY <1>0, <1>s, <1>1, <1>2 DEF Index, Part
  <1> QED
    BY <1>2 DEF Kept

LEMMA ReceivedKept ==
  ASSUME TypeOK, NEW r \in Replica, ReceiveBatch(r)
  PROVE  Kept(r)
PROOF
  <1>0. /\ chan[r] \in Seq(SUBSET Delivery) /\ Len(chan[r]) \in Nat /\ chan[r] # <<>>
        /\ fbatch[r] \in SUBSET Delivery
    BY DEF TypeOK, ReceiveBatch
  <1>s. /\ acc'[r] = acc[r] \cup Head(chan[r]) /\ chan'[r] = Tail(chan[r])
        /\ fbatch'[r] = fbatch[r]
    BY DEF ReceiveBatch, Accumulate, TypeOK
  <1>1. /\ Len(chan[r]) \in Nat \ {0} /\ Head(chan[r]) = chan[r][1]
        /\ Len(chan'[r]) = Len(chan[r]) - 1
        /\ \A k \in 1..Len(chan[r]) - 1 : chan'[r][k] = chan[r][k + 1]
    BY <1>0, <1>s, TailPlaces
  <1>2. ASSUME NEW k \in Index(r), NEW d \in Part(r, k)
        PROVE  \E j \in Index(r)' : d \in Part(r, j)'
    <2>1. CASE k = 0 \/ k = 1
      <3>1. d \in acc'[r]
        BY <1>0, <1>s, <1>1, <1>2, <2>1 DEF Part
      <3>2. 0 \in Index(r)' /\ d \in Part(r, 0)'
        BY <1>0, <1>1, <3>1 DEF Part, Index
      <3> QED
        BY <3>2
    <2>2. CASE k \notin {0, 1}
      <3>1. k \in Nat /\ k - 1 \in Nat /\ k - 1 # 0 /\ k <= Len(chan[r]) + 1
        BY <1>0, <2>2 DEF Index
      <3>2. k - 1 \in Index(r)'
        BY <1>0, <1>1, <3>1 DEF Index
      <3>3. d \in Part(r, k - 1)'
        <4>1. CASE k <= Len(chan[r])
          BY <1>0, <1>1, <1>2, <2>2, <3>1, <4>1 DEF Part
        <4>2. CASE ~(k <= Len(chan[r]))
          BY <1>0, <1>1, <1>s, <1>2, <2>2, <3>1, <4>2 DEF Part
        <4> QED
          BY <4>1, <4>2
      <3> QED
        BY <3>2, <3>3
    <2> QED
      BY <2>1, <2>2
  <1> QED
    BY <1>2 DEF Kept

LEMMA FetchedKept ==
  ASSUME TypeOK, BatchToSend, NEW r \in Replica,
         fpc[r] = "fetch", acc'[r] = acc[r], chan'[r] = chan[r]
  PROVE  Kept(r)
PROOF
  <1>0. Len(chan[r]) \in Nat /\ fbatch[r] = {}
    BY DEF TypeOK, BatchToSend
  <1>1. ASSUME NEW k \in Index(r), NEW d \in Part(r, k)
        PROVE  k \in Index(r)' /\ d \in Part(r, k)'
    BY <1>0, <1>1 DEF Index, Part
  <1> QED
    BY <1>1 DEF Kept

LEMMA AckedKept ==
  ASSUME TypeOK, NEW r \in Replica, NEW d \in acc[r], Ack(r, d)
  PROVE  Kept(r)
PROOF
  <1>0. d.msg \in Msg /\ mstate \in [Msg -> MsgState] /\ Len(chan[r]) \in Nat
    BY DEF TypeOK, ConsumerTypeOK, Delivery
  <1>1. mstate'[d.msg] # "inflight"
    BY <1>0 DEF Ack, AckEffect
  <1>2. acc'[r] = acc[r] \ {d} /\ chan'[r] = chan[r] /\ fbatch'[r] = fbatch[r]
    BY DEF Ack, Answered, TypeOK
  <1>3. ASSUME NEW k \in Index(r), NEW e \in Part(r, k), mstate'[e.msg] = "inflight"
        PROVE  k \in Index(r)' /\ e \in Part(r, k)'
    <2>1. e # d
      BY <1>1, <1>3
    <2> QED
      BY <1>0, <1>2, <1>3, <2>1 DEF Index, Part
  <1> QED
    BY <1>3 DEF Kept

LEMMA AllKept ==
  ASSUME TypeOK, BatchToSend, Calm, [Next]_vars, faults' = 0, NEW q \in Replica
  PROVE  Kept(q)
PROOF
  <1> USE DEF TypeOK
  <1>1. CASE UNCHANGED replicaVars
    BY <1>1, UnmovedKept DEF replicaVars, Unmoved
  <1>2. ASSUME NEW r \in Replica,
               \/ FetchLoop(r) \/ FetchTimeout(r) \/ Tick(r)
               \/ InsertAnchors(r) \/ InsertFindings(r)
        PROVE  Kept(q)
    <2>1. Unmoved(q)
      BY <1>2 DEF FetchLoop, FetchTimeout, Tick, InsertAnchors, InsertFindings, Unmoved
    <2> QED
      BY <2>1, UnmovedKept
  <1>3. ASSUME NEW r \in Replica, SendBatch(r) PROVE Kept(q)
    <2>1. q # r => Unmoved(q)
      BY <1>3 DEF SendBatch, Unmoved
    <2> QED
      BY <1>3, <2>1, UnmovedKept, SentKept
  <1>4. ASSUME NEW r \in Replica, ReceiveBatch(r) PROVE Kept(q)
    <2>1. q # r => Unmoved(q)
      BY <1>4 DEF ReceiveBatch, Unmoved
    <2> QED
      BY <1>4, <2>1, UnmovedKept, ReceivedKept
  <1>5. ASSUME NEW r \in Replica, NEW M \in SUBSET Waiting, NEW A \in SUBSET M,
               FetchMessages(r, M, A)
        PROVE  Kept(q)
    <2>1. /\ fpc[r] = "fetch" /\ UNCHANGED <<chan, acc>>
          /\ \E B : fbatch' = [fbatch EXCEPT ![r] = B]
      BY <1>5 DEF FetchMessages
    <2>2. q # r => Unmoved(q)
      BY <2>1 DEF Unmoved
    <2> QED
      BY <2>1, <2>2, UnmovedKept, FetchedKept
  <1>6. ASSUME NEW r \in Replica, NEW d \in acc[r], Ack(r, d) PROVE Kept(q)
    <2>1. q # r => Unmoved(q)
      BY <1>6 DEF Ack, Answered, Unmoved
    <2> QED
      BY <1>6, <2>1, UnmovedKept, AckedKept
  <1> QED
    BY <1>1, <1>2, <1>3, <1>4, <1>5, <1>6, CalmSteps

\* A message is waited for because it was already, or because a replica has
\* just been handed its delivery.
Awaited(m) ==
  mstate'[m] = "inflight" =>
    \/ mstate[m] = "inflight" /\ dcount'[m] = dcount[m]
    \/ \E r \in Replica : [msg |-> m, num |-> dcount'[m]] \in fbatch'[r]

LEMMA FetchedAwaited ==
  ASSUME TypeOK, NEW r \in Replica, NEW M \in SUBSET Waiting, NEW A \in SUBSET M,
         FetchMessages(r, M, A), faults = 0, faults' = 0, NEW m \in Msg
  PROVE  Awaited(m)
PROOF
  <1> DEFINE empties == {n \in M : Empty(n)}
             batch == {CopyOf(n) : n \in M \ empties}
  <1>1. /\ Deliver(M, A) /\ Fault(Cardinality(empties \ A))
        /\ fbatch' = [fbatch EXCEPT ![r] = batch]
    BY DEF FetchMessages
  <1>2. IsFiniteSet(empties \ A)
    BY ConsumerAssumption, FS_Subset DEF Waiting
  <1>3. Cardinality(empties \ A) \in Nat
    BY <1>2, FS_CardinalityType
  <1>4. empties \ A = {}
    <2>1. Cardinality(empties \ A) = 0
      BY <1>1, <1>3 DEF Fault
    <2> QED
      BY <1>2, <2>1, FS_EmptySet
  <1>5. batch = fbatch'[r]
    BY <1>1 DEF TypeOK
  <1>6. ASSUME m \notin M PROVE Awaited(m)
    BY <1>1, <1>6 DEF Deliver, Awaited
  <1>7. ASSUME m \in M, mstate'[m] = "inflight"
        PROVE  [msg |-> m, num |-> dcount'[m]] \in batch
    <2>1. m \notin A
      BY <1>1, <1>7 DEF Deliver
    <2>2. m \in M \ empties
      BY <1>4, <1>7, <2>1
    <2>3. [msg |-> m, num |-> dcount'[m]] = CopyOf(m)
      BY <1>1, <1>7 DEF Deliver, CopyOf
    <2> QED
      BY <2>2, <2>3
  <1> HIDE DEF empties, batch
  <1> QED
    BY <1>5, <1>6, <1>7 DEF Awaited

LEMMA AllAwaited ==
  ASSUME TypeOK, Calm, [Next]_vars, faults' = 0, NEW m \in Msg
  PROVE  Awaited(m)
PROOF
  <1> USE DEF consumerVars
  <1>0. faults = 0 /\ ~Fault(1) /\ mstate \in [Msg -> MsgState]
    BY StillCalm DEF Fault, TypeOK, ConsumerTypeOK
  <1>1. CASE UNCHANGED consumerVars
    BY <1>1 DEF Awaited
  <1>2. ASSUME NEW r \in Replica, Fetching(r) PROVE Awaited(m)
    BY <1>0, <1>1, <1>2, FetchedAwaited
       DEF Fetching, FetchLoop, FetchTimeout, FetchError, SendBatch, SendAborted
  <1>3. ASSUME NEW r \in Replica, Inserting(r) PROVE Awaited(m)
    <2>1. ASSUME NEW d \in acc[r], Ack(r, d) \/ Nak(r, d) PROVE Awaited(m)
      BY <1>0, <2>1 DEF Ack, Nak, AckEffect, NakEffect, Awaited
    <2> QED
      BY <1>1, <1>3, <2>1 DEF Inserting, ReceiveBatch, Tick, ChannelClosed, InsertAnchors,
           InsertAnchorsFails, InsertFindings, InsertFindingsFails, AnswerLost
  <1>4. ASSUME NEW r \in Replica, Process(r) PROVE Awaited(m)
    BY <1>1, <1>4 DEF Process, Stop, Exit, Crash, Restart
  <1>5. ASSUME NEW n \in Msg, Server(n) PROVE Awaited(m)
    BY <1>0, <1>5 DEF Server, PublishMessage, Publish, Expire, ExpireEffect, DeliveryLost,
         Discard, Awaited
  <1> QED
    BY <1>1, <1>2, <1>3, <1>4, <1>5 DEF Next, vars

LEMMA TravellingNext == FlowInv /\ [Next]_vars => Travelling'
PROOF
  <1> SUFFICES ASSUME FlowInv, [Next]_vars, faults' = 0,
                      NEW m \in Msg, mstate'[m] = "inflight"
               PROVE  \E r \in Replica : \E k \in Index(r)' : Latest(m)' \in Part(r, k)'
    BY DEF Travelling
  <1>0. TypeOK /\ BatchToSend /\ Calm /\ Travelling /\ faults = 0
    BY StillCalm DEF FlowInv
  <1>1. CASE mstate[m] = "inflight" /\ dcount'[m] = dcount[m]
    <2>1. PICK r \in Replica : \E k \in Index(r) : Latest(m) \in Part(r, k)
      BY <1>0, <1>1 DEF Travelling
    <2>2. PICK k \in Index(r) : Latest(m) \in Part(r, k)
      BY <2>1
    <2>3. Latest(m).msg = m /\ Latest(m)' = Latest(m)
      BY <1>1 DEF Latest
    <2>4. Kept(r)
      BY <1>0, AllKept
    <2> QED
      BY <2>2, <2>3, <2>4 DEF Kept
  <1>2. ASSUME NEW r \in Replica, [msg |-> m, num |-> dcount'[m]] \in fbatch'[r]
        PROVE  \E k \in Index(r)' : Latest(m)' \in Part(r, k)'
    <2>1. Len(chan'[r]) \in Nat
      <3>1. TypeOK'
        BY <1>0, TypeNext
      <3> QED
        BY <3>1 DEF TypeOK
    <2>2. Len(chan'[r]) + 1 \in Index(r)' /\ Part(r, Len(chan[r]) + 1)' = fbatch'[r]
      BY <2>1 DEF Index, Part
    <2> QED
      BY <1>2, <2>2 DEF Latest
  <1> QED
    BY <1>0, <1>1, <1>2, AllAwaited DEF Awaited

LEMMA FlowInit == Init => FlowInv
PROOF
  <1> SUFFICES ASSUME Init PROVE FlowInv
    OBVIOUS
  <1>1. TypeOK
    BY TypeInit
  <1>2. \A r \in Replica : Index(r) = 0..1 /\ Part(r, 0) = {} /\ Part(r, 1) = {}
    BY DEF Init, Index, Part
  <1>3. Unique /\ Numbered
    BY <1>2 DEF Unique, Numbered
  <1>4. BatchToSend /\ Calm /\ Travelling
    BY DEF Init, ConsumerInit, BatchToSend, Calm, Travelling
  <1> QED
    BY <1>1, <1>3, <1>4 DEF FlowInv

LEMMA FlowNext == FlowInv /\ [Next]_vars => FlowInv'
PROOF
  BY TypeNext, UniqueNext, BatchToSendNext, CalmNext, TravellingNext DEF FlowInv

\* The conveyor keeps its deliveries apart and in order of age, and in calm
\* loses none (the goroutines and the channel of Run, consume.go:31-69).
THEOREM FlowInvariant == Spec => []FlowInv
PROOF
  <1>1. FlowInv /\ UNCHANGED vars => FlowInv'
    BY FlowNext
  <1> QED
    BY FlowInit, FlowNext, <1>1, PTL DEF Spec

-----------------------------------------------------------------------------
(* Conserved *)

LEMMA FlowConserves == FlowInv => Conserved
PROOF
  <1> SUFFICES ASSUME FlowInv, NEW m \in Msg, faults = 0, mstate[m] = "inflight"
               PROVE  Cardinality(Places(m)) = 1
    BY DEF Conserved
  <1>0. TypeOK /\ Unique /\ Travelling
    BY DEF FlowInv
  <1>1. PICK r \in Replica : \E k \in Index(r) : Latest(m) \in Part(r, k)
    BY <1>0 DEF Travelling
  <1>2. PICK k \in Index(r) : Latest(m) \in Part(r, k)
    BY <1>1
  <1>3. \A q \in Replica : \A j \in Index(q) : Latest(m) \in Part(q, j) => q = r /\ j = k
    BY <1>0, <1>2 DEF Unique
  <1>4. Places(m) = {<<r, k>>}
    BY <1>2, <1>3 DEF Places
  <1> QED
    BY <1>4, FS_Singleton

\* Between Fetch and the answer the two goroutines neither lose nor duplicate
\* a delivery: undisturbed, each message the server waits for is in exactly
\* one place of one replica.
THEOREM NothingIsLost == Spec => []Conserved
PROOF
  BY FlowInvariant, FlowConserves, PTL
-----------------------------------------------------------------------------
(* What a replica holds takes a bounded number of rows *)

LEMMA MessageRows ==
  /\ MaxMessageRows \in Nat
  /\ \A m \in Msg : Cardinality(Anchors[m]) + Cardinality(Findings[m]) <= MaxMessageRows
PROOF
  <1> DEFINE f == [m \in Msg |-> Cardinality(Anchors[m]) + Cardinality(Findings[m])]
             T == {Cardinality(Anchors[m]) + Cardinality(Findings[m]) : m \in Msg}
  <1>1. \A m \in Msg : Cardinality(Anchors[m]) \in Nat /\ Cardinality(Findings[m]) \in Nat
    BY ContentAssumption, FS_CardinalityType
  <1>2. f \in Surjection(Msg, T)
    BY DEF Surjection
  <1>3. T \in SUBSET Nat
    BY <1>1
  <1>4. MaxMessageRows = Max(T \cup {0})
    BY DEF MaxMessageRows
  <1>5. \A m \in Msg : Cardinality(Anchors[m]) + Cardinality(Findings[m]) \in T
    OBVIOUS
  <1> HIDE DEF f, T
  <1>6. IsFiniteSet(T)
    BY <1>2, ConsumerAssumption, FS_Surjection
  <1>7. IsFiniteSet(T \cup {0})
    BY <1>6, FS_AddElement
  <1>8. \E x \in T \cup {0} : \A y \in T \cup {0} : y <= x
    BY <1>3, <1>7, LargestExists
  <1>9. \E x \in T \cup {0} : \A y \in T \cup {0} : x >= y
    BY <1>3, <1>8
  <1>10. MaxMessageRows \in T \cup {0} /\ \A y \in T \cup {0} : MaxMessageRows >= y
    BY <1>4, <1>9 DEF Max
  <1>11. MaxMessageRows \in Nat
    BY <1>3, <1>10
  <1>12. ASSUME NEW m \in Msg
         PROVE  Cardinality(Anchors[m]) + Cardinality(Findings[m]) <= MaxMessageRows
    <2> DEFINE y == Cardinality(Anchors[m]) + Cardinality(Findings[m])
    <2>1. y \in T
      BY <1>5
    <2> HIDE DEF y
    <2>2. y <= MaxMessageRows
      BY <1>3, <1>10, <1>11, <2>1
    <2> QED
      BY <2>2 DEF y
  <1> QED
    BY <1>11, <1>12

LEMMA Tagged ==
  ASSUME NEW x, NEW S, IsFiniteSet(S)
  PROVE  IsFiniteSet({x} \X S) /\ Cardinality({x} \X S) = Cardinality(S)
PROOF
  <1> DEFINE one == {x}
  <1>1. IsFiniteSet(one) /\ Cardinality(one) = 1
    BY FS_Singleton
  <1> HIDE DEF one
  <1>2. IsFiniteSet(one \X S) /\ Cardinality(one \X S) = Cardinality(one) * Cardinality(S)
    BY <1>1, FS_Product
  <1>3. Cardinality(one \X S) = Cardinality(S)
    BY <1>1, <1>2, FS_CardinalityType
  <1> QED
    BY <1>2, <1>3 DEF one

LEMMA ItemsOf ==
  ASSUME NEW d, d.msg \in Msg
  PROVE  LET W == {d} \X (({"row"} \X Anchors[d.msg]) \cup ({"finding"} \X Findings[d.msg]))
         IN  IsFiniteSet(W) /\ Cardinality(W) <= MaxMessageRows
PROOF
  <1> DEFINE R == {"row"} \X Anchors[d.msg]
             F == {"finding"} \X Findings[d.msg]
             W == {d} \X (R \cup F)
  <1>1. /\ IsFiniteSet(Anchors[d.msg]) /\ IsFiniteSet(Findings[d.msg])
        /\ Cardinality(Anchors[d.msg]) \in Nat /\ Cardinality(Findings[d.msg]) \in Nat
    BY ContentAssumption, FS_CardinalityType
  <1>2. /\ IsFiniteSet(R) /\ Cardinality(R) = Cardinality(Anchors[d.msg])
        /\ IsFiniteSet(F) /\ Cardinality(F) = Cardinality(Findings[d.msg])
    BY <1>1, Tagged
  <1> HIDE DEF R, F
  <1>3. /\ IsFiniteSet(R \cup F) /\ IsFiniteSet(R \cap F)
        /\ Cardinality(R \cup F) = Cardinality(R) + Cardinality(F) - Cardinality(R \cap F)
    BY <1>2, FS_Union, FS_Intersection
  <1>4. Cardinality(R \cup F) \in Nat /\ Cardinality(R \cap F) \in Nat
    BY <1>3, FS_CardinalityType
  <1>5. IsFiniteSet(W) /\ Cardinality(W) = Cardinality(R \cup F)
    BY <1>3, Tagged
  <1> HIDE DEF W
  <1>6. Cardinality(Anchors[d.msg]) + Cardinality(Findings[d.msg]) <= MaxMessageRows
    BY MessageRows
  <1>7. IsFiniteSet(W) /\ Cardinality(W) <= MaxMessageRows
    BY <1>1, <1>2, <1>3, <1>4, <1>5, <1>6, MessageRows
  <1> QED
    BY <1>7 DEF W, R, F

LEMMA RowsOf ==
  ASSUME NEW D \in SUBSET Delivery, IsFiniteSet(D)
  PROVE  /\ IsFiniteSet(RowsIn(D)) /\ RowCount(D) \in Nat
         /\ RowCount(D) <= Cardinality(D) * MaxMessageRows
PROOF
  <1> DEFINE F == [d \in D |-> {d} \X (({"row"} \X Anchors[d.msg]) \cup ({"finding"} \X Findings[d.msg]))]
  <1>1. \A d \in D : IsFiniteSet(F[d]) /\ Cardinality(F[d]) <= MaxMessageRows
    BY ItemsOf DEF Delivery
  <1>2. RowsIn(D) = UNION {F[d] : d \in D}
    BY DEF RowsIn
  <1> HIDE DEF F
  <1>3. /\ IsFiniteSet(UNION {F[d] : d \in D})
        /\ Cardinality(UNION {F[d] : d \in D}) <= Cardinality(D) * MaxMessageRows
    BY <1>1, MessageRows, UnionBound
  <1> QED
    BY <1>2, <1>3, FS_CardinalityType DEF RowCount

LEMMA TimesMonotone ==
  ASSUME NEW a \in Nat, NEW b \in Nat, NEW c \in Nat, a <= b
  PROVE  a * c \in Nat /\ a * c <= b * c
PROOF
  <1>1. b - a \in Nat /\ a * c \in Nat /\ (b - a) * c \in Nat
    OBVIOUS
  <1>2. b * c = a * c + (b - a) * c
    OBVIOUS
  <1> QED
    BY <1>1, <1>2

LEMMA BatchRows ==
  ASSUME NEW D \in SUBSET Delivery, Fits(D)
  PROVE  IsFiniteSet(RowsIn(D)) /\ RowCount(D) \in Nat /\ RowCount(D) <= Batch * MaxMessageRows
PROOF
  <1>1. IsFiniteSet(D) /\ Cardinality(D) \in Nat /\ Cardinality(D) <= Batch /\ Batch \in Nat
    BY FS_CardinalityType, SizesAssumption DEF Fits
  <1>2. Cardinality(D) * MaxMessageRows \in Nat
        /\ Cardinality(D) * MaxMessageRows <= Batch * MaxMessageRows
    BY <1>1, MessageRows, TimesMonotone
  <1>3. Batch * MaxMessageRows \in Nat
    BY <1>1, MessageRows, TimesMonotone
  <1> QED
    BY <1>1, <1>2, <1>3, RowsOf

-----------------------------------------------------------------------------
(* Memory *)

\* The accumulator is below the threshold while more may come, and never more
\* than one batch beyond it; every batch is at most what one Fetch returns.
Limit == InsertRows - 1 + Batch * MaxMessageRows

Sized ==
  \A r \in Replica :
    /\ IsFiniteSet(acc[r]) /\ RowCount(acc[r]) <= Limit
    /\ ipc[r] = "select" => RowCount(acc[r]) < InsertRows
    /\ Fits(fbatch[r])
    /\ \A k \in 1..Len(chan[r]) : Fits(chan[r][k])

LEMMA NoRows == IsFiniteSet({}) /\ RowCount({}) = 0 /\ Fits({})
PROOF
  <1>1. RowsIn({}) = {}
    BY DEF RowsIn
  <1> QED
    BY <1>1, FS_EmptySet, SizesAssumption DEF RowCount, Fits

LEMMA LimitTypes == Limit \in Nat /\ InsertRows - 1 <= Limit /\ InsertRows \in Nat \ {0}
PROOF
  <1>1. Batch * MaxMessageRows \in Nat
    BY MessageRows, SizesAssumption, TimesMonotone
  <1>2. InsertRows \in Nat \ {0}
    BY SizesAssumption
  <1> HIDE DEF Limit
  <1> QED
    BY <1>1, <1>2 DEF Limit

LEMMA FewerRows ==
  ASSUME NEW D \in SUBSET Delivery, IsFiniteSet(D), NEW E \in SUBSET D
  PROVE  IsFiniteSet(E) /\ RowCount(E) \in Nat /\ RowCount(E) <= RowCount(D)
PROOF
  <1>1. IsFiniteSet(E) /\ E \in SUBSET Delivery
    BY FS_Subset
  <1>2. RowsIn(E) \in SUBSET RowsIn(D)
    BY DEF RowsIn
  <1> QED
    BY <1>1, <1>2, RowsOf, FS_Subset DEF RowCount

LEMMA JoinedRows ==
  ASSUME NEW D \in SUBSET Delivery, IsFiniteSet(D), NEW B \in SUBSET Delivery, IsFiniteSet(B)
  PROVE  IsFiniteSet(D \cup B) /\ RowCount(D \cup B) <= RowCount(D) + RowCount(B)
PROOF
  <1>1. RowsIn(D \cup B) = RowsIn(D) \cup RowsIn(B)
    BY DEF RowsIn
  <1>2. /\ IsFiniteSet(RowsIn(D)) /\ IsFiniteSet(RowsIn(B))
        /\ RowCount(D) \in Nat /\ RowCount(B) \in Nat
    BY RowsOf
  <1>3. /\ Cardinality(RowsIn(D) \cup RowsIn(B))
             = RowCount(D) + RowCount(B) - Cardinality(RowsIn(D) \cap RowsIn(B))
        /\ Cardinality(RowsIn(D) \cap RowsIn(B)) \in Nat
    BY <1>2, FS_Union, FS_Intersection, FS_CardinalityType DEF RowCount
  <1>4. RowCount(D \cup B) = Cardinality(RowsIn(D) \cup RowsIn(B))
    BY <1>1 DEF RowCount
  <1>5. Cardinality(RowsIn(D) \cup RowsIn(B)) \in Nat
    BY <1>2, FS_Union, FS_CardinalityType
  <1> DEFINE both == RowCount(D \cup B)
             x == RowCount(D)
             y == RowCount(B)
             z == Cardinality(RowsIn(D) \cap RowsIn(B))
  <1>6. both = x + y - z /\ x \in Nat /\ y \in Nat /\ z \in Nat
    BY <1>2, <1>3, <1>4
  <1> HIDE DEF both, x, y, z
  <1>7. both <= x + y
    BY <1>6
  <1> QED
    BY <1>7, FS_Union DEF both, x, y

\* What a step does to an accumulator: it only loses deliveries, or one batch is
\* added to it while it is below the threshold.
Loses(r) ==
  /\ acc'[r] \subseteq acc[r]
  /\ ipc'[r] = "select" => ipc[r] = "select" \/ acc'[r] = {}

Takes(r) ==
  /\ ipc[r] = "select" /\ chan[r] # <<>>
  /\ acc'[r] = acc[r] \cup Head(chan[r])
  /\ ipc'[r] = "select" => RowCount(acc'[r]) < InsertRows \/ acc'[r] = {}

LEMMA Accumulates ==
  ASSUME TypeOK, [Next]_vars, NEW q \in Replica,
         \A r \in Replica : chan[r] # <<>> => RowCount(acc[r] \cup Head(chan[r])) \in Nat
  PROVE  Loses(q) \/ Takes(q)
PROOF
  <1> DEFINE Goal == Loses(q) \/ Takes(q)
  <1> USE DEF replicaVars
  <1>0. /\ acc \in [Replica -> SUBSET Delivery] /\ InsertRows \in Nat
        /\ ipc \in [Replica -> {"select", "rows", "findings", "ack", "nak", "done"}]
    BY SizesAssumption DEF TypeOK
  <1>1. CASE UNCHANGED <<acc, ipc>>
    BY <1>1 DEF Loses
  <1>2. ASSUME NEW r \in Replica, Fetching(r) PROVE Goal
    BY <1>1, <1>2 DEF Fetching, FetchLoop, FetchMessages, FetchTimeout, FetchError, SendBatch,
         SendAborted
  <1>3. ASSUME NEW r \in Replica, Inserting(r) PROVE Goal
    <2>1. CASE ReceiveBatch(r)
      <3> DEFINE D == acc[r] \cup Head(chan[r])
      <3>1. /\ ipc[r] = "select" /\ chan[r] # <<>> /\ acc' = [acc EXCEPT ![r] = D]
            /\ ipc' = [ipc EXCEPT ![r] = IF Full(D) THEN StartFlush(D) ELSE @]
        BY <2>1 DEF ReceiveBatch, Accumulate
      <3>2. RowCount(D) \in Nat
        BY <3>1
      <3> HIDE DEF D
      <3>3. CASE q = r
        <4>1. acc'[r] = D /\ ipc'[r] = IF Full(D) THEN StartFlush(D) ELSE "select"
          BY <1>0, <3>1
        <4>2. ipc'[r] = "select" => RowCount(D) < InsertRows \/ D = {}
          BY <1>0, <3>2, <4>1 DEF Full, StartFlush
        <4> QED
          BY <3>1, <3>3, <4>1, <4>2 DEF Takes, D
      <3>4. CASE q # r
        BY <1>0, <3>1, <3>4 DEF Loses
      <3> QED
        BY <3>3, <3>4
    <2>2. CASE Tick(r) \/ ChannelClosed(r)
      BY <1>0, <2>2 DEF Tick, ChannelClosed, StartFlush, Loses
    <2>3. ASSUME NEW d \in acc[r], Answered(r, d) PROVE Goal
      <3>1. CASE acc[r] = {d}
        BY <1>0, <2>3, <3>1 DEF Answered, Loses
      <3>2. CASE acc[r] # {d}
        BY <1>0, <2>3, <3>2 DEF Answered, Loses
      <3> QED
        BY <3>1, <3>2
    <2>4. ASSUME UNCHANGED acc, NEW l \in {"rows", "findings", "ack", "nak"},
                 ipc' = [ipc EXCEPT ![r] = l]
          PROVE  Goal
      BY <1>0, <2>4 DEF Loses
    <2> QED
      BY <1>3, <2>1, <2>2, <2>3, <2>4 DEF Inserting, InsertAnchors, InsertAnchorsFails, InsertFindings,
           InsertFindingsFails, AfterRows, AfterRowsError, AfterFindings, Ack, Nak, AnswerLost
  <1>4. ASSUME NEW r \in Replica, Process(r) PROVE Goal
    <2>1. CASE Fresh(r)
      BY <1>0, <2>1 DEF Fresh, Loses
    <2> QED
      BY <1>1, <1>4, <2>1 DEF Process, Stop, Exit, Crash, Restart
  <1>5. ASSUME NEW m \in Msg, Server(m) PROVE Goal
    BY <1>1, <1>5 DEF Server, PublishMessage, Expire, DeliveryLost, Discard
  <1> QED
    BY <1>1, <1>2, <1>3, <1>4, <1>5 DEF Next, vars

LEMMA BatchesFit ==
  ASSUME TypeOK, Sized, [Next]_vars, NEW q \in Replica
  PROVE  Fits(fbatch'[q]) /\ \A k \in 1..Len(chan'[q]) : Fits(chan'[q][k])
PROOF
  <1> DEFINE Goal == Fits(fbatch'[q]) /\ \A k \in 1..Len(chan'[q]) : Fits(chan'[q][k])
  <1>0. /\ chan[q] \in Seq(SUBSET Delivery) /\ Len(chan[q]) \in Nat
        /\ fbatch[q] \in SUBSET Delivery
        /\ Fits(fbatch[q]) /\ \A k \in 1..Len(chan[q]) : Fits(chan[q][k])
    BY DEF TypeOK, Sized
  <1>1. CASE Unmoved(q)
    BY <1>0, <1>1 DEF Unmoved
  <1>2. CASE Shrinks(q)
    <2>1. IsFiniteSet(fbatch'[q]) /\ Cardinality(fbatch'[q]) <= Cardinality(fbatch[q])
      BY <1>0, <1>2, FS_Subset DEF Shrinks, Fits
    <2>2. Cardinality(fbatch'[q]) \in Nat /\ Cardinality(fbatch[q]) \in Nat /\ Batch \in Nat
      BY <1>0, <2>1, FS_CardinalityType, SizesAssumption DEF Fits
    <2>3. Fits(fbatch'[q])
      BY <1>0, <2>1, <2>2 DEF Fits
    <2> QED
      BY <1>0, <1>2, <2>3 DEF Shrinks
  <1>3. CASE Empties(q)
    BY <1>3, NoRows DEF Empties
  <1>4. CASE Sends(q)
    <2>1. /\ Len(chan'[q]) = Len(chan[q]) + 1 /\ chan'[q][Len(chan[q]) + 1] = fbatch[q]
          /\ \A k \in 1..Len(chan[q]) : chan'[q][k] = chan[q][k]
      BY <1>0, <1>4, AppendPlaces DEF Sends
    <2> QED
      BY <1>0, <1>4, <2>1, NoRows DEF Sends
  <1>5. CASE Receives(q)
    <2>1. /\ Len(chan'[q]) = Len(chan[q]) - 1
          /\ \A k \in 1..Len(chan[q]) - 1 : chan'[q][k] = chan[q][k + 1]
      BY <1>0, <1>5, TailPlaces DEF Receives
    <2> QED
      BY <1>0, <1>5, <2>1 DEF Receives
  <1>6. CASE Fetches(q)
    BY <1>0, <1>6 DEF Fetches
  <1> QED
    BY <1>1, <1>2, <1>3, <1>4, <1>5, <1>6, OneMoves DEF Moves

LEMMA SizedInit == Init => Sized
PROOF
  <1>1. InsertRows \in Nat \ {0} /\ Limit \in Nat
    BY LimitTypes
  <1> HIDE DEF Limit
  <1> QED
    BY <1>1, NoRows DEF Init, Sized

LEMMA SizedNext == TypeOK /\ Sized /\ [Next]_vars => Sized'
PROOF
  <1> SUFFICES ASSUME TypeOK, Sized, [Next]_vars, NEW q \in Replica
               PROVE  /\ IsFiniteSet(acc'[q]) /\ RowCount(acc'[q]) <= Limit
                      /\ ipc'[q] = "select" => RowCount(acc'[q]) < InsertRows
                      /\ Fits(fbatch'[q])
                      /\ \A k \in 1..Len(chan'[q]) : Fits(chan'[q][k])
    BY DEF Sized, Limit, RowCount, RowsIn
  <1>0. \A r \in Replica : acc[r] \in SUBSET Delivery /\ IsFiniteSet(acc[r]) /\ RowCount(acc[r]) \in Nat
    BY RowsOf DEF TypeOK, Sized
  <1>1. ASSUME NEW r \in Replica, chan[r] # <<>>
        PROVE  /\ Head(chan[r]) \in SUBSET Delivery /\ IsFiniteSet(Head(chan[r]))
               /\ RowCount(Head(chan[r])) \in Nat
               /\ RowCount(Head(chan[r])) <= Batch * MaxMessageRows
    <2>1. chan[r] \in Seq(SUBSET Delivery)
      BY DEF TypeOK
    <2>2. Head(chan[r]) = chan[r][1] /\ Len(chan[r]) \in Nat \ {0}
      BY <1>1, <2>1, TailPlaces
    <2>3. Head(chan[r]) \in SUBSET Delivery /\ Fits(Head(chan[r]))
      BY <2>1, <2>2 DEF Sized
    <2> QED
      BY <2>3, BatchRows DEF Fits
  <1>2. ASSUME NEW r \in Replica, chan[r] # <<>>
        PROVE  /\ IsFiniteSet(acc[r] \cup Head(chan[r])) /\ RowCount(acc[r] \cup Head(chan[r])) \in Nat
               /\ RowCount(acc[r] \cup Head(chan[r])) <= RowCount(acc[r]) + RowCount(Head(chan[r]))
    <2>1. /\ IsFiniteSet(acc[r] \cup Head(chan[r])) /\ acc[r] \cup Head(chan[r]) \in SUBSET Delivery
          /\ RowCount(acc[r] \cup Head(chan[r])) <= RowCount(acc[r]) + RowCount(Head(chan[r]))
      BY <1>0, <1>1, <1>2, JoinedRows
    <2> QED
      BY <2>1, RowsOf
  <1>3. Loses(q) \/ Takes(q)
    BY <1>2, Accumulates
  <1>4. Limit \in Nat /\ InsertRows - 1 <= Limit /\ InsertRows \in Nat \ {0}
    BY LimitTypes
  <1>5. Batch * MaxMessageRows \in Nat /\ Limit = InsertRows - 1 + Batch * MaxMessageRows
    BY MessageRows, SizesAssumption, TimesMonotone DEF Limit
  <1>6. /\ RowCount(acc[q]) <= Limit
        /\ ipc[q] = "select" => RowCount(acc[q]) < InsertRows
    BY DEF Sized
  <1>7. /\ IsFiniteSet(acc'[q]) /\ RowCount(acc'[q]) <= Limit
        /\ ipc'[q] = "select" => RowCount(acc'[q]) < InsertRows
    <2> HIDE DEF Limit
    <2>1. CASE Loses(q)
      <3>1. /\ IsFiniteSet(acc'[q]) /\ RowCount(acc'[q]) \in Nat
            /\ RowCount(acc'[q]) <= RowCount(acc[q])
        BY <1>0, <2>1, FewerRows DEF Loses
      <3>2. RowCount(acc[q]) \in Nat
        BY <1>0
      <3>3. RowCount(acc'[q]) <= Limit
        BY <1>4, <1>6, <3>1, <3>2
      <3>4. ASSUME ipc'[q] = "select" PROVE RowCount(acc'[q]) < InsertRows
        <4>1. CASE ipc[q] = "select"
          BY <1>4, <1>6, <3>1, <3>2, <4>1
        <4>2. CASE acc'[q] = {}
          BY <1>4, <4>2, NoRows
        <4> QED
          BY <2>1, <3>4, <4>1, <4>2 DEF Loses
      <3> QED
        BY <3>1, <3>3, <3>4
    <2>2. CASE Takes(q)
      <3>1. chan[q] # <<>> /\ acc'[q] = acc[q] \cup Head(chan[q]) /\ ipc[q] = "select"
        BY <2>2 DEF Takes
      <3>2. /\ IsFiniteSet(acc'[q]) /\ RowCount(acc'[q]) \in Nat
            /\ RowCount(acc'[q]) <= RowCount(acc[q]) + RowCount(Head(chan[q]))
        BY <1>2, <3>1
      <3>3. /\ RowCount(Head(chan[q])) \in Nat /\ RowCount(Head(chan[q])) <= Batch * MaxMessageRows
            /\ RowCount(acc[q]) \in Nat /\ RowCount(acc[q]) < InsertRows
        BY <1>0, <1>1, <1>6, <3>1
      <3>4. RowCount(acc'[q]) <= Limit
        BY <1>4, <1>5, <3>2, <3>3
      <3>5. ASSUME ipc'[q] = "select" PROVE RowCount(acc'[q]) < InsertRows
        <4>1. CASE acc'[q] = {}
          BY <1>4, <4>1, NoRows
        <4> QED
          BY <2>2, <3>5, <4>1 DEF Takes
      <3> QED
        BY <3>2, <3>4, <3>5
    <2> QED
      BY <1>3, <2>1, <2>2
  <1> QED
    BY <1>7, BatchesFit

LEMMA TimesPlus ==
  ASSUME NEW a \in Nat, NEW b \in Nat, NEW c \in Nat
  PROVE  (a + 2) * b * c = b * c + (a + 1) * (b * c)
PROOF
  <1> DEFINE x == b * c
  <1>1. x \in Nat /\ (a + 2) * x = x + (a + 1) * x
    OBVIOUS
  <1>2. (a + 2) * b * c = (a + 2) * x
    OBVIOUS
  <1> QED
    BY <1>1, <1>2

LEMMA SizedFits == TypeOK /\ Sized => MemoryBounded
PROOF
  <1> SUFFICES ASSUME TypeOK, Sized, NEW r \in Replica
               PROVE  HeldRows(r) <= (InsertRows - 1) + (Pipeline + 2) * Batch * MaxMessageRows
    BY DEF MemoryBounded
  <1> DEFINE n == Batch * MaxMessageRows
             K == 1..Len(chan[r]) + 1
             F == [k \in K |-> {k} \X RowsIn(Part(r, k))]
             U == UNION {F[k] : k \in K}
             Z == {0} \X RowsIn(acc[r])
  <1>0. n \in Nat /\ InsertRows \in Nat \ {0} /\ Pipeline \in Nat /\ Batch \in Nat
    BY MessageRows, SizesAssumption, TimesMonotone
  <1>1. /\ Len(chan[r]) \in Nat /\ Len(chan[r]) <= Pipeline
        /\ acc[r] \in SUBSET Delivery /\ fbatch[r] \in SUBSET Delivery
        /\ chan[r] \in Seq(SUBSET Delivery)
    BY DEF TypeOK
  <1>2. \A k \in K : IsFiniteSet(F[k]) /\ Cardinality(F[k]) <= n
    <2> SUFFICES ASSUME NEW k \in K
                 PROVE  /\ IsFiniteSet({k} \X RowsIn(Part(r, k)))
                        /\ Cardinality({k} \X RowsIn(Part(r, k))) <= n
      OBVIOUS
    <2>1. Part(r, k) \in SUBSET Delivery /\ Fits(Part(r, k))
      BY <1>1 DEF Part, Sized
    <2> QED
      BY <2>1, BatchRows, Tagged DEF RowCount
  <1>3. IsFiniteSet(K) /\ Cardinality(K) = Len(chan[r]) + 1
    BY <1>1, FS_Interval
  <1>4. IsFiniteSet(U) /\ Cardinality(U) <= (Len(chan[r]) + 1) * n
    <2> HIDE DEF F, K, n
    <2> QED
      BY <1>0, <1>2, <1>3, UnionBound
  <1>5. (Len(chan[r]) + 1) * n \in Nat /\ (Len(chan[r]) + 1) * n <= (Pipeline + 1) * n
    <2> HIDE DEF n
    <2> QED
      BY <1>0, <1>1, TimesMonotone
  <1>6. IsFiniteSet(Z) /\ Cardinality(Z) <= InsertRows - 1 + n /\ Cardinality(Z) \in Nat
    <2>1. IsFiniteSet(acc[r]) /\ RowCount(acc[r]) <= InsertRows - 1 + n
      BY DEF Sized, Limit
    <2>2. IsFiniteSet(RowsIn(acc[r])) /\ RowCount(acc[r]) \in Nat
      BY <1>1, <2>1, RowsOf
    <2> QED
      BY <2>1, <2>2, Tagged DEF RowCount
  <1>7. UNION {{k} \X RowsIn(Part(r, k)) : k \in Index(r)} = Z \cup U
    <2>1. Index(r) = {0} \cup K
      BY <1>1 DEF Index
    <2>2. Part(r, 0) = acc[r]
      BY DEF Part
    <2> QED
      BY <2>1, <2>2
  <1> HIDE DEF n, U, Z
  <1>8. /\ Cardinality(Z \cup U) = Cardinality(Z) + Cardinality(U) - Cardinality(Z \cap U)
        /\ Cardinality(U) \in Nat /\ Cardinality(Z \cap U) \in Nat /\ Cardinality(Z \cup U) \in Nat
    BY <1>4, <1>6, FS_Union, FS_Intersection, FS_CardinalityType
  <1>9. (Pipeline + 2) * Batch * MaxMessageRows = n + (Pipeline + 1) * n
    BY <1>0, MessageRows, TimesPlus DEF n
  <1>10. (Pipeline + 1) * n \in Nat
    BY <1>0
  <1>11. Cardinality(Z \cup U) <= (InsertRows - 1) + (n + (Pipeline + 1) * n)
    <2> DEFINE a == Cardinality(Z)
               b == Cardinality(U)
               c == Cardinality(Z \cap U)
               x == (Pipeline + 1) * n
               y == (Len(chan[r]) + 1) * n
    <2>1. a \in Nat /\ b \in Nat /\ c \in Nat /\ x \in Nat /\ y \in Nat
      BY <1>5, <1>6, <1>8, <1>10
    <2>2. a <= InsertRows - 1 + n /\ b <= y /\ y <= x /\ Cardinality(Z \cup U) = a + b - c
      BY <1>4, <1>5, <1>6, <1>8
    <2> HIDE DEF a, b, c, x, y
    <2>3. Cardinality(Z \cup U) <= (InsertRows - 1) + (n + x)
      BY <1>0, <2>1, <2>2
    <2> QED
      BY <2>3 DEF x
  <1> QED
    BY <1>7, <1>9, <1>11 DEF HeldRows

\* Whatever the backlog and however its goroutines interleave, a replica never
\* holds more rows than the threshold, one batch beyond it, the channel and the
\* batch waiting for room allow (the channel of Run, consume.go:31-69).
THEOREM MemoryIsBounded == Spec => []MemoryBounded
PROOF
  <1>1. TypeOK /\ Sized /\ [Next]_vars => (TypeOK /\ Sized)'
    BY TypeNext, SizedNext
  <1>2. Init => TypeOK /\ Sized
    BY TypeInit, SizedInit
  <1> QED
    BY <1>1, <1>2, SizedFits, PTL DEF Spec

=============================================================================
