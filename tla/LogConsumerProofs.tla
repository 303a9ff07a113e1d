--------------------------- MODULE LogConsumerProofs ---------------------------
(***************************************************************************)
(* Theorems about LogConsumer, for every set of replicas, messages and     *)
(* lines, and every batch size and threshold.                              *)
(***************************************************************************)
EXTENDS LogConsumer, FiniteSetTheorems, TLAPS

-----------------------------------------------------------------------------
(* What the operators of the module do *)

\* A finite batch adds a number of rows to each line, and at least one to each
\* line of a delivery it holds.
LEMMA AddedRows ==
  ASSUME NEW D, IsFiniteSet(D), NEW l \in Line
  PROVE  /\ Added(D)[l] \in Nat
         /\ \A d \in D : l \in Lines[d.msg] => Added(D)[l] > 0
PROOF
  <1> DEFINE S == {d \in D : l \in Lines[d.msg]}
  <1>1. IsFiniteSet(S)
    BY FS_Subset
  <1>2. Cardinality(S) \in Nat /\ (Cardinality(S) = 0 <=> S = {})
    BY <1>1, FS_CardinalityType, FS_EmptySet
  <1>3. Added(D)[l] = Cardinality(S)
    BY DEF Added
  <1>4. ASSUME NEW d \in D, l \in Lines[d.msg] PROVE Cardinality(S) # 0
    <2>1. d \in S
      BY <1>4
    <2> QED
      BY <1>2, <2>1
  <1> HIDE DEF S
  <1> QED
    BY <1>2, <1>3, <1>4

\* What a fetch accumulates are finitely many deliveries, and its cost in
\* disturbances is a number.
LEMMA FetchTypes ==
  ASSUME ConsumerTypeOK, NEW M \in SUBSET Waiting, NEW A \in SUBSET M
  PROVE  /\ {CopyOf(m) : m \in M \ {n \in M : Lines[n] = {}}} \in SUBSET Delivery
         /\ IsFiniteSet({CopyOf(m) : m \in M \ {n \in M : Lines[n] = {}}})
         /\ Cardinality({n \in M : Lines[n] = {}} \ A) \in Nat
PROOF
  <1>1. M \subseteq Msg
    BY DEF Waiting
  <1>2. \A m \in M : CopyOf(m) \in Delivery
    BY <1>1 DEF ConsumerTypeOK, CopyOf, Delivery
  <1>3. IsFiniteSet({n \in M : Lines[n] = {}} \ A) /\ IsFiniteSet(M \ {n \in M : Lines[n] = {}})
    BY <1>1, ConsumerAssumption, FS_Subset
  <1>4. IsFiniteSet({CopyOf(m) : m \in M \ {n \in M : Lines[n] = {}}})
    <2> DEFINE S == M \ {n \in M : Lines[n] = {}}
               T == {CopyOf(m) : m \in S}
               f == [m \in S |-> CopyOf(m)]
    <2>1. f \in Surjection(S, T)
      BY DEF Surjection
    <2> QED
      BY <1>3, <2>1, FS_Surjection
  <1> QED
    BY <1>2, <1>3, <1>4, FS_CardinalityType

LEMMA FaultTypes ==
  ASSUME faults \in 0..MaxFaults, NEW n \in Nat, Fault(n)
  PROVE  faults' \in 0..MaxFaults
PROOF
  BY LogAssumption DEF Fault

-----------------------------------------------------------------------------
(* Types, and batches stay finite *)

Typed == TypeOK /\ HeldFinite

LEMMA TypeInit == Init => Typed
PROOF
  BY LogAssumption, FS_EmptySet DEF Init, ConsumerInit, Typed, TypeOK, HeldFinite, ConsumerTypeOK, MsgState

\* The loop up to the flush.
LEMMA TypeLoop ==
  ASSUME Typed, NEW r \in Replica,
         \/ Subscribe(r) \/ AwaitCancelled(r) \/ LoopHead(r) \/ FetchFails(r)
         \/ FlushDue(r) \/ NotDue(r)
  PROVE  Typed'
PROOF
  <1> USE DEF Typed, TypeOK, HeldFinite, ConsumerTypeOK, consumerVars, Goto, FlushAndReturn
  <1>1. CASE Subscribe(r)
    BY <1>1 DEF Subscribe
  <1>2. CASE AwaitCancelled(r)
    BY <1>2 DEF AwaitCancelled
  <1>3. CASE LoopHead(r)
    BY <1>3 DEF LoopHead
  <1>4. CASE FetchFails(r)
    <2>1. faults' \in 0..MaxFaults
      BY <1>4, FaultTypes DEF FetchFails
    <2> QED
      BY <1>4, <2>1 DEF FetchFails
  <1>5. CASE FlushDue(r)
    BY <1>5 DEF FlushDue
  <1>6. CASE NotDue(r)
    BY <1>6 DEF NotDue
  <1> QED
    BY <1>1, <1>2, <1>3, <1>4, <1>5, <1>6

LEMMA TypeFetch ==
  ASSUME Typed, NEW r \in Replica, NEW M \in SUBSET Waiting, NEW A \in SUBSET M,
         FetchLogs(r, M, A)
  PROVE  Typed'
PROOF
  <1> DEFINE empties == {n \in M : Lines[n] = {}}
             new == {CopyOf(m) : m \in M \ empties}
  <1>1. new \in SUBSET Delivery /\ IsFiniteSet(new) /\ Cardinality(empties \ A) \in Nat
    BY FetchTypes DEF Typed, TypeOK
  <1>2. /\ Deliver(M, A) /\ Fault(Cardinality(empties \ A))
        /\ pc[r] = "fetch"
        /\ acc' = [acc EXCEPT ![r] = @ \cup new]
        /\ pc' = [pc EXCEPT ![r] = "due"]
        /\ UNCHANGED <<stream, life, ending, rows>>
    BY DEF FetchLogs, Goto
  <1> HIDE DEF empties, new
  <1>3. ConsumerTypeOK'
    BY <1>2 DEF Typed, TypeOK, ConsumerTypeOK, Deliver, MsgState
  <1>4. faults' \in 0..MaxFaults
    BY <1>1, <1>2, FaultTypes DEF Typed, TypeOK
  <1>5. \A q \in Replica : IsFiniteSet(acc'[q])
    BY <1>1, <1>2, FS_Union DEF Typed, TypeOK, HeldFinite
  <1> QED
    BY <1>1, <1>2, <1>3, <1>4, <1>5 DEF Typed, TypeOK, HeldFinite

\* The flush.
LEMMA TypeFlush ==
  ASSUME Typed, NEW r \in Replica,
         \/ Insert(r) \/ \E D \in SUBSET acc[r] : InsertFails(r, D)
         \/ \E d \in acc[r] : Ack(r, d) \/ Nak(r, d) \/ AnswerLost(r, d)
  PROVE  Typed'
PROOF
  <1> USE DEF Typed
  <1>1. ASSUME NEW D \in SUBSET acc[r], rows' = [l \in Line |-> rows[l] + Added(D)[l]]
        PROVE  rows' \in [Line -> Nat]
    <2>1. IsFiniteSet(D)
      BY FS_Subset DEF HeldFinite
    <2>2. \A l \in Line : Added(D)[l] \in Nat
      BY <2>1, AddedRows
    <2> QED
      BY <1>1, <2>2 DEF TypeOK
  <1>2. CASE Insert(r)
    <2>1. rows' \in [Line -> Nat]
      BY <1>1, <1>2 DEF Insert
    <2> QED
      BY <1>2, <2>1 DEF Insert, TypeOK, HeldFinite, ConsumerTypeOK, consumerVars, Goto
  <1>3. ASSUME NEW D \in SUBSET acc[r], InsertFails(r, D)
        PROVE  Typed'
    <2>1. rows' \in [Line -> Nat]
      BY <1>1, <1>3 DEF InsertFails
    <2>2. faults' \in 0..MaxFaults
      BY <1>3, FaultTypes DEF InsertFails, TypeOK
    <2> QED
      BY <1>3, <2>1, <2>2 DEF InsertFails, AfterInsertError, TypeOK, HeldFinite, ConsumerTypeOK,
                               consumerVars, Goto
  <1>4. ASSUME NEW d \in acc[r], Ack(r, d) \/ Nak(r, d) \/ AnswerLost(r, d)
        PROVE  Typed'
    <2>1. ConsumerTypeOK'
      BY <1>4 DEF TypeOK, ConsumerTypeOK, Ack, Nak, AnswerLost, AckEffect, NakEffect, MsgState,
                  consumerVars
    <2>2. faults' \in 0..MaxFaults
      BY <1>4, FaultTypes DEF TypeOK, Ack, Nak, AnswerLost
    <2>3. Answered(r, d) /\ pc[r] \in {"ack", "nak"}
      BY <1>4 DEF Ack, Nak, AnswerLost
    <2>4. \A q \in Replica : IsFiniteSet(acc'[q])
      BY <2>3, FS_Subset DEF Answered, TypeOK, HeldFinite
    <2> QED
      BY <2>1, <2>2, <2>3, <2>4 DEF TypeOK, HeldFinite, Answered, Goto
  <1> QED
    BY <1>2, <1>3, <1>4

LEMMA TypeProcess ==
  ASSUME Typed, NEW r \in Replica, Stop(r) \/ Exit(r) \/ Crash(r) \/ Restart(r)
  PROVE  Typed'
PROOF
  <1> USE DEF Typed, TypeOK, HeldFinite, ConsumerTypeOK, consumerVars, Goto
  <1>1. CASE Stop(r)
    BY <1>1, FaultTypes DEF Stop
  <1>2. ASSUME Down(r), faults' \in 0..MaxFaults PROVE Typed'
    BY <1>2, FS_EmptySet DEF Down
  <1>3. CASE Exit(r)
    BY <1>2, <1>3 DEF Exit
  <1>4. CASE Crash(r)
    BY <1>2, <1>4, FaultTypes DEF Crash
  <1>5. CASE Restart(r)
    BY <1>5 DEF Restart
  <1> QED
    BY <1>1, <1>3, <1>4, <1>5

LEMMA TypeServer ==
  ASSUME Typed,
         (\E m \in Msg : PublishLog(m) \/ Expire(m)) \/ CreateStream \/ RemoveStream
  PROVE  Typed'
PROOF
  <1> USE DEF Typed, TypeOK, HeldFinite, ConsumerTypeOK, MsgState, consumerVars
  <1>1. ASSUME NEW m \in Msg, PublishLog(m) PROVE Typed'
    BY <1>1 DEF PublishLog, Publish
  <1>2. ASSUME NEW m \in Msg, Expire(m) PROVE Typed'
    <2>1. faults' \in 0..MaxFaults
      BY <1>2, FaultTypes DEF Expire
    <2> QED
      BY <1>2, <2>1 DEF Expire, ExpireEffect
  <1>3. CASE CreateStream
    BY <1>3 DEF CreateStream
  <1>4. CASE RemoveStream
    BY <1>4, FaultTypes DEF RemoveStream
  <1> QED
    BY <1>1, <1>2, <1>3, <1>4

LEMMA TypeNext == Typed /\ [Next]_vars => Typed'
PROOF
  <1>1. ASSUME Typed, UNCHANGED vars PROVE Typed'
    BY <1>1 DEF Typed, TypeOK, HeldFinite, ConsumerTypeOK, vars, consumerVars
  <1>2. ASSUME Typed, NEW r \in Replica, Consuming(r) PROVE Typed'
    BY <1>2, TypeLoop, TypeFetch, TypeFlush DEF Consuming
  <1> QED
    BY <1>1, <1>2, TypeProcess, TypeServer DEF Next

\* Every reachable state is well typed, and batches are finite: rows are counted.
THEOREM TypeCorrect == Spec => []TypeOK
PROOF
  <1>1. Typed => TypeOK
    BY DEF Typed
  <1> QED
    BY <1>1, TypeInit, TypeNext, PTL DEF Spec

-----------------------------------------------------------------------------
(* What a step may do to the table and to the goroutines *)

\* Rows are never taken back.
LEMMA RowsGrow ==
  ASSUME Typed, [Next]_vars, NEW l \in Line, rows[l] > 0
  PROVE  rows'[l] > 0
PROOF
  <1>0. rows[l] \in Nat
    BY DEF Typed, TypeOK
  <1>1. ASSUME NEW r \in Replica, NEW D \in SUBSET acc[r],
               rows' = [k \in Line |-> rows[k] + Added(D)[k]]
        PROVE  rows'[l] > 0
    <2>1. IsFiniteSet(D)
      BY FS_Subset DEF Typed, HeldFinite
    <2>2. Added(D)[l] \in Nat
      BY <2>1, AddedRows
    <2> QED
      BY <1>0, <1>1, <2>2
  <1>2. CASE UNCHANGED rows
    BY <1>2
  <1>3. ASSUME NEW r \in Replica, Consuming(r) PROVE rows'[l] > 0
    <2>1. CASE Insert(r)
      BY <1>1, <2>1 DEF Insert
    <2>2. ASSUME NEW D \in SUBSET acc[r], InsertFails(r, D) PROVE rows'[l] > 0
      BY <1>1, <2>2 DEF InsertFails
    <2> QED
      BY <1>2, <1>3, <2>1, <2>2 DEF Consuming, Subscribe, AwaitCancelled, LoopHead, FetchLogs,
           FetchFails, FlushDue, NotDue, Ack, Nak, AnswerLost, Answered
  <1>4. ASSUME NEW r \in Replica, Stop(r) \/ Exit(r) \/ Crash(r) \/ Restart(r) PROVE rows'[l] > 0
    BY <1>2, <1>4 DEF Stop, Exit, Crash, Down, Restart
  <1>5. ASSUME NEW m \in Msg, PublishLog(m) \/ Expire(m) PROVE rows'[l] > 0
    BY <1>2, <1>5 DEF PublishLog, Expire
  <1> QED
    BY <1>2, <1>3, <1>4, <1>5 DEF Next, vars, CreateStream, RemoveStream

\* A message that becomes acknowledged has no lines, or is in a batch whose
\* goroutine is acknowledging.
LEMMA NewlyAcked ==
  ASSUME Typed, [Next]_vars, NEW m \in Msg, mstate'[m] = "acked", mstate[m] # "acked"
  PROVE  \/ Lines[m] = {}
         \/ \E r \in Replica : pc[r] = "ack" /\ \E d \in acc[r] : d.msg = m
PROOF
  <1> DEFINE Goal == \/ Lines[m] = {}
                     \/ \E r \in Replica : pc[r] = "ack" /\ \E d \in acc[r] : d.msg = m
  <1> USE DEF consumerVars
  <1>0. mstate \in [Msg -> MsgState]
    BY DEF Typed, TypeOK, ConsumerTypeOK
  <1>1. CASE UNCHANGED mstate
    BY <1>1
  <1>2. ASSUME NEW r \in Replica, Consuming(r) PROVE Goal
    <2>1. ASSUME NEW M \in SUBSET Waiting, NEW A \in SUBSET M, FetchLogs(r, M, A) PROVE Goal
      BY <2>1 DEF FetchLogs, Deliver
    <2>2. ASSUME NEW d \in acc[r], Ack(r, d) PROVE Goal
      BY <1>0, <2>2 DEF Ack, AckEffect
    <2>3. ASSUME NEW d \in acc[r], Nak(r, d) PROVE Goal
      BY <1>0, <2>3 DEF Nak, NakEffect
    <2> QED
      BY <1>1, <1>2, <2>1, <2>2, <2>3 DEF Consuming, Subscribe, AwaitCancelled, LoopHead,
           FetchFails, FlushDue, NotDue, Insert, InsertFails, AnswerLost
  <1>3. ASSUME NEW r \in Replica, Stop(r) \/ Exit(r) \/ Crash(r) \/ Restart(r) PROVE Goal
    BY <1>1, <1>3 DEF Stop, Exit, Crash, Down, Restart
  <1>4. ASSUME NEW n \in Msg, PublishLog(n) \/ Expire(n) PROVE Goal
    BY <1>0, <1>4 DEF PublishLog, Publish, Expire, ExpireEffect
  <1>5. CASE RemoveStream
    BY <1>0, <1>5 DEF RemoveStream
  <1> QED
    BY <1>1, <1>2, <1>3, <1>4, <1>5 DEF Next, vars, CreateStream

\* What a step does to the place and the batch of one goroutine.
LEMMA Moves ==
  ASSUME Typed, [Next]_vars, NEW q \in Replica
  PROVE  \/ UNCHANGED <<pc[q], acc[q]>>
         \/ pc'[q] \notin {"await", "ended", "ack"}
         \/ pc'[q] \in {"await", "ended"} /\ acc'[q] = {}
         \/ pc[q] = "await" /\ pc'[q] = "ended" /\ acc'[q] = acc[q]
         \/ pc[q] = "ack" /\ pc'[q] = "ack" /\ acc'[q] \subseteq acc[q]
         \/ pc'[q] = "ack" /\ acc'[q] = acc[q] /\ Insert(q)
PROOF
  <1> DEFINE Goal ==
         \/ UNCHANGED <<pc[q], acc[q]>>
         \/ pc'[q] \notin {"await", "ended", "ack"}
         \/ pc'[q] \in {"await", "ended"} /\ acc'[q] = {}
         \/ pc[q] = "await" /\ pc'[q] = "ended" /\ acc'[q] = acc[q]
         \/ pc[q] = "ack" /\ pc'[q] = "ack" /\ acc'[q] \subseteq acc[q]
         \/ pc'[q] = "ack" /\ acc'[q] = acc[q] /\ Insert(q)
  <1>0. /\ pc \in [Replica -> {"await", "top", "fetch", "due", "insert", "ack", "nak", "ended"}]
        /\ acc \in [Replica -> SUBSET Delivery]
    BY DEF Typed, TypeOK
  <1>1. CASE UNCHANGED <<pc, acc>>
    BY <1>1
  <1>2. ASSUME NEW r \in Replica, Consuming(r) PROVE Goal
    <2>1. CASE Subscribe(r) \/ LoopHead(r) \/ FetchFails(r) \/ FlushDue(r) \/ NotDue(r)
      BY <1>0, <2>1 DEF Subscribe, LoopHead, FetchFails, FlushDue, NotDue, FlushAndReturn, Goto
    <2>2. CASE AwaitCancelled(r)
      BY <1>0, <2>2 DEF AwaitCancelled, Goto
    <2>3. ASSUME NEW M \in SUBSET Waiting, NEW A \in SUBSET M, FetchLogs(r, M, A) PROVE Goal
      BY <1>0, <2>3 DEF FetchLogs, Goto
    <2>4. CASE Insert(r)
      <3>1. CASE q = r
        BY <1>0, <2>4, <3>1 DEF Insert, Goto
      <3>2. CASE q # r
        BY <1>0, <2>4, <3>2 DEF Insert, Goto
      <3> QED
        BY <3>1, <3>2
    <2>5. ASSUME NEW D \in SUBSET acc[r], InsertFails(r, D) PROVE Goal
      BY <1>0, <2>5 DEF InsertFails, AfterInsertError, Goto
    <2>6. ASSUME NEW d \in acc[r], Ack(r, d) \/ Nak(r, d) \/ AnswerLost(r, d) PROVE Goal
      <3>1. Answered(r, d) /\ pc[r] \in {"ack", "nak"}
        BY <2>6 DEF Ack, Nak, AnswerLost
      <3>2. CASE acc[r] = {d}
        BY <1>0, <3>1, <3>2 DEF Answered, Goto
      <3>3. CASE acc[r] # {d}
        BY <1>0, <3>1, <3>3 DEF Answered, Goto
      <3> QED
        BY <3>2, <3>3
    <2> QED
      BY <1>2, <2>1, <2>2, <2>3, <2>4, <2>5, <2>6 DEF Consuming
  <1>3. ASSUME NEW r \in Replica, Stop(r) \/ Restart(r) PROVE Goal
    BY <1>1, <1>3 DEF Stop, Restart
  <1>4. ASSUME NEW r \in Replica, Exit(r) \/ Crash(r) PROVE Goal
    BY <1>0, <1>4 DEF Exit, Crash, Down, Goto
  <1>5. ASSUME NEW m \in Msg, PublishLog(m) \/ Expire(m) PROVE Goal
    BY <1>1, <1>5 DEF PublishLog, Expire
  <1> QED
    BY <1>1, <1>2, <1>3, <1>4, <1>5 DEF Next, vars, CreateStream, RemoveStream

-----------------------------------------------------------------------------
(* The inductive invariant *)

LEMMA IInvInit == Init => IInv
PROOF
  <1> SUFFICES ASSUME Init PROVE IInv
    OBVIOUS
  <1>1. Typed
    BY TypeInit
  <1> QED
    BY <1>1 DEF Init, ConsumerInit, IInv, Typed, IdleHoldsNothing, WrittenBeforeAnswer, AckedLogged

\* After a successful insert every line of the batch has a row.
LEMMA InsertWrites ==
  ASSUME Typed, NEW r \in Replica, Insert(r), NEW d \in acc[r], NEW l \in Lines[d.msg]
  PROVE  rows'[l] > 0
PROOF
  <1>1. d.msg \in Msg /\ IsFiniteSet(acc[r])
    BY DEF Typed, TypeOK, HeldFinite, Delivery
  <1>2. l \in Line
    BY <1>1, LogAssumption
  <1>3. rows[l] \in Nat /\ Added(acc[r])[l] \in Nat /\ Added(acc[r])[l] > 0
    BY <1>1, <1>2, AddedRows DEF Typed, TypeOK
  <1>4. rows'[l] = rows[l] + Added(acc[r])[l]
    BY <1>2 DEF Insert
  <1> QED
    BY <1>3, <1>4

LEMMA IInvNext == IInv /\ [Next]_vars => IInv'
PROOF
  <1> SUFFICES ASSUME IInv, [Next]_vars PROVE IInv'
    OBVIOUS
  <1>1. Typed /\ Typed'
    BY TypeNext DEF IInv, Typed
  <1>2. \A r \in Replica : \A d \in acc[r] : d.msg \in Msg
    BY <1>1 DEF Typed, TypeOK, Delivery
  <1>3. \A m \in Msg : Lines[m] \subseteq Line
    BY LogAssumption
  <1>4. IdleHoldsNothing'
    BY <1>1, Moves DEF IInv, IdleHoldsNothing
  <1>5. WrittenBeforeAnswer'
    <2> SUFFICES ASSUME NEW q \in Replica, pc'[q] = "ack", NEW d \in acc'[q], NEW l \in Lines[d.msg]
                 PROVE  rows'[l] > 0
      BY DEF WrittenBeforeAnswer
    <2>1. CASE pc[q] = "ack" /\ acc'[q] \subseteq acc[q]
      <3>1. d \in acc[q] /\ rows[l] > 0 /\ l \in Line
        BY <1>2, <1>3, <2>1 DEF IInv, WrittenBeforeAnswer
      <3> QED
        BY <1>1, <3>1, RowsGrow
    <2>2. CASE acc'[q] = acc[q] /\ Insert(q)
      BY <1>1, <2>2, InsertWrites
    <2> QED
      BY <1>1, <2>1, <2>2, Moves
  <1>6. AckedLogged'
    <2> SUFFICES ASSUME NEW m \in Msg, mstate'[m] = "acked", NEW l \in Lines[m]
                 PROVE  rows'[l] > 0
      BY DEF AckedLogged
    <2>1. rows[l] > 0
      <3>1. CASE mstate[m] = "acked"
        BY <3>1 DEF IInv, AckedLogged
      <3>2. CASE mstate[m] # "acked"
        BY <1>1, <3>2, NewlyAcked DEF IInv, WrittenBeforeAnswer
      <3> QED
        BY <3>1, <3>2
    <2> QED
      BY <1>1, <1>3, <2>1, RowsGrow
  <1> QED
    BY <1>1, <1>4, <1>5, <1>6 DEF IInv, Typed

\* The strengthened invariant holds in every reachable state: the goroutine holds
\* nothing outside its loop, and acknowledges only what is stored.
THEOREM InductiveInvariant == Spec => []IInv
PROOF
  BY IInvInit, IInvNext, PTL DEF Spec

\* An acknowledged log message has all its lines stored.
THEOREM AckedMeansLogged == Spec => []AckedLogged
PROOF
  <1>1. IInv => AckedLogged
    BY DEF IInv
  <1> QED
    BY <1>1, InductiveInvariant, PTL

\* RunLogs never returns holding messages it has not answered.
THEOREM ReturnsClean == Spec => []EndsClean
PROOF
  <1>1. IInv => EndsClean
    BY DEF IInv, IdleHoldsNothing, EndsClean
  <1> QED
    BY <1>1, InductiveInvariant, PTL
-----------------------------------------------------------------------------
(* A delivery is inserted at most once *)

Loop == {"top", "fetch", "due", "insert"}

\* Accumulated and not inserted yet.
Unwritten == UNION {acc[r] : r \in {q \in Replica : pc[q] \in Loop}}

\* The deliveries of a line that may have been inserted.
Written(l) == Handed(l) \ Unwritten

HeldNumbered == \A r \in Replica : \A d \in acc[r] : d.num \in 1..dcount[d.msg]

HeldOnce == \A r, q \in Replica : \A d \in acc[r] : d \in acc[q] => r = q

Accounted == \A l \in Line : rows[l] <= Cardinality(Written(l))

CountInv == HeldNumbered /\ HeldOnce /\ Accounted

\* The three kinds of step: the goroutines only drop deliveries, one of them is
\* handed new ones, or one of them inserts some of those it holds.
Drops ==
  /\ UNCHANGED <<rows, dcount>>
  /\ \A q \in Replica : /\ acc'[q] \subseteq acc[q]
                        /\ pc'[q] \in Loop => pc[q] \in Loop \/ acc'[q] = {}

Takes(r) ==
  /\ UNCHANGED rows /\ pc[r] \in Loop
  /\ \A q \in Replica \ {r} : pc'[q] = pc[q] /\ acc'[q] = acc[q]
  /\ \A m \in Msg : dcount[m] <= dcount'[m]
  /\ \A d \in acc'[r] : d \in acc[r] \/ (d.num = dcount[d.msg] + 1 /\ dcount'[d.msg] = d.num)

Writes(r, D) ==
  /\ UNCHANGED <<acc, dcount>>
  /\ rows' = [l \in Line |-> rows[l] + Added(D)[l]]
  /\ pc[r] \in Loop /\ pc'[r] \notin Loop
  /\ \A q \in Replica \ {r} : pc'[q] = pc[q]

LEMMA Kinds ==
  ASSUME IInv, [Next]_vars
  PROVE  \/ Drops
         \/ \E r \in Replica : Takes(r)
         \/ \E r \in Replica : \E D \in SUBSET acc[r] : Writes(r, D)
PROOF
  <1> DEFINE Goal == \/ Drops
                     \/ \E r \in Replica : Takes(r)
                     \/ \E r \in Replica : \E D \in SUBSET acc[r] : Writes(r, D)
  <1> USE DEF consumerVars
  <1>0. /\ pc \in [Replica -> {"await", "top", "fetch", "due", "insert", "ack", "nak", "ended"}]
        /\ acc \in [Replica -> SUBSET Delivery]
        /\ dcount \in [Msg -> Nat]
        /\ \A r \in Replica : pc[r] \in {"await", "ended"} => acc[r] = {}
    BY DEF IInv, TypeOK, ConsumerTypeOK, IdleHoldsNothing
  <1>1. CASE UNCHANGED <<rows, dcount, acc, pc>>
    BY <1>1 DEF Drops
  <1>2. ASSUME NEW r \in Replica, UNCHANGED <<rows, dcount, acc>>,
               NEW l, pc' = [pc EXCEPT ![r] = l],
               pc[r] \in Loop \/ acc[r] = {}
        PROVE  Goal
    BY <1>0, <1>2 DEF Drops
  <1>3. ASSUME NEW r \in Replica, Consuming(r) PROVE Goal
    <2>1. CASE Subscribe(r)
      BY <1>0, <1>2, <2>1 DEF Subscribe, Goto
    <2>2. CASE AwaitCancelled(r)
      BY <1>0, <1>2, <2>2 DEF AwaitCancelled, Goto
    <2>3. CASE LoopHead(r)
      BY <1>2, <2>3 DEF LoopHead, FlushAndReturn, Goto, Loop
    <2>4. ASSUME NEW M \in SUBSET Waiting, NEW A \in SUBSET M, FetchLogs(r, M, A) PROVE Goal
      <3> DEFINE new == {CopyOf(m) : m \in M \ {n \in M : Lines[n] = {}}}
      <3>1. /\ Deliver(M, A) /\ acc' = [acc EXCEPT ![r] = @ \cup new]
            /\ pc[r] = "fetch" /\ pc' = [pc EXCEPT ![r] = "due"] /\ UNCHANGED rows
        BY <2>4 DEF FetchLogs, Goto
      <3>2. \A d \in new : d.msg \in M /\ d.num = dcount[d.msg] + 1
        BY DEF CopyOf
      <3>3. \A d \in new : dcount'[d.msg] = d.num
        BY <3>1, <3>2 DEF Deliver, Waiting
      <3>4. \A m \in Msg : dcount[m] <= dcount'[m]
        BY <1>0, <3>1 DEF Deliver
      <3> HIDE DEF new
      <3>5. Takes(r)
        BY <1>0, <3>1, <3>2, <3>3, <3>4 DEF Takes, Loop
      <3> QED
        BY <3>5
    <2>5. CASE FetchFails(r)
      BY <1>2, <2>5 DEF FetchFails, FlushAndReturn, Goto, Loop
    <2>6. CASE FlushDue(r) \/ NotDue(r)
      BY <1>2, <2>6 DEF FlushDue, NotDue, Goto, Loop
    <2>7. ASSUME NEW D \in SUBSET acc[r], pc[r] = "insert", UNCHANGED <<acc, dcount>>,
                 rows' = [l \in Line |-> rows[l] + Added(D)[l]],
                 NEW l \in {"ack", "nak"}, pc' = [pc EXCEPT ![r] = l]
          PROVE  Goal
      <3>1. Writes(r, D)
        BY <1>0, <2>7 DEF Writes, Loop
      <3> QED
        BY <3>1
    <2>8. CASE Insert(r)
      BY <2>7, <2>8 DEF Insert, Goto
    <2>9. ASSUME NEW D \in SUBSET acc[r], InsertFails(r, D) PROVE Goal
      BY <2>7, <2>9 DEF InsertFails, AfterInsertError, Goto
    <2>10. ASSUME NEW d \in acc[r], Ack(r, d) \/ Nak(r, d) \/ AnswerLost(r, d) PROVE Goal
      <3>1. Answered(r, d) /\ pc[r] \in {"ack", "nak"} /\ UNCHANGED dcount
        BY <2>10 DEF Ack, Nak, AnswerLost, AckEffect, NakEffect
      <3>2. CASE acc[r] = {d}
        BY <1>0, <3>1, <3>2 DEF Answered, Goto, Drops
      <3>3. CASE acc[r] # {d}
        BY <1>0, <3>1, <3>3 DEF Answered, Goto, Drops, Loop
      <3> QED
        BY <3>2, <3>3
    <2> QED
      BY <1>3, <2>1, <2>2, <2>3, <2>4, <2>5, <2>6, <2>8, <2>9, <2>10 DEF Consuming
  <1>4. ASSUME NEW r \in Replica, Stop(r) \/ Restart(r) PROVE Goal
    BY <1>1, <1>4 DEF Stop, Restart
  <1>5. ASSUME NEW r \in Replica, Exit(r) \/ Crash(r) PROVE Goal
    BY <1>0, <1>5 DEF Exit, Crash, Down, Goto, Drops
  <1>6. ASSUME NEW m \in Msg, PublishLog(m) \/ Expire(m) PROVE Goal
    BY <1>1, <1>6 DEF PublishLog, Publish, Expire, ExpireEffect
  <1> QED
    BY <1>1, <1>3, <1>4, <1>5, <1>6 DEF Next, vars, CreateStream, RemoveStream

LEMMA HandedMembers ==
  ASSUME dcount \in [Msg -> Nat], NEW l, NEW d
  PROVE  d \in Handed(l) <=> d \in Delivery /\ l \in Lines[d.msg] /\ d.num \in 1..dcount[d.msg]
PROOF
  BY DEF Handed, Delivery

LEMMA HandedFinite ==
  ASSUME NEW c \in [Msg -> Nat], NEW l
  PROVE  IsFiniteSet(UNION {{[msg |-> m, num |-> n] : n \in 1..c[m]} : m \in {m \in Msg : l \in Lines[m]}})
PROOF
  <1> DEFINE C(m) == {[msg |-> m, num |-> n] : n \in 1..c[m]}
             I == {m \in Msg : l \in Lines[m]}
             F == [m \in I |-> C(m)]
             S == {C(m) : m \in I}
  <1>1. IsFiniteSet(I)
    BY ConsumerAssumption, FS_Subset
  <1>2. F \in Surjection(I, S)
    <2> HIDE DEF C, I
    <2>1. F \in [I -> S]
      OBVIOUS
    <2>2. \A y \in S : \E m \in I : F[m] = y
      OBVIOUS
    <2> HIDE DEF F, S
    <2> QED
      BY <2>1, <2>2 DEF Surjection
  <1>3. IsFiniteSet(S)
    <2> HIDE DEF F, I, S
    <2> QED
      BY <1>1, <1>2, FS_Surjection
  <1>4. ASSUME NEW m \in I PROVE IsFiniteSet(C(m))
    <2> DEFINE f == [n \in 1..c[m] |-> [msg |-> m, num |-> n]]
    <2>1. f \in Surjection(1..c[m], C(m))
      BY DEF Surjection
    <2>2. IsFiniteSet(1..c[m])
      BY <1>4, FS_Interval
    <2> HIDE DEF f, C
    <2> QED
      BY <2>1, <2>2, FS_Surjection
  <1>5. \A T \in S : IsFiniteSet(T)
    <2> HIDE DEF C, I
    <2> QED
      BY <1>4
  <1>6. IsFiniteSet(UNION S)
    <2> HIDE DEF S
    <2> QED
      BY <1>3, <1>5, FS_UNION
  <1> QED
    BY <1>6

LEMMA CountInit == Init => CountInv
PROOF
  <1> SUFFICES ASSUME Init PROVE CountInv
    OBVIOUS
  <1>1. HeldNumbered /\ HeldOnce
    BY DEF Init, HeldNumbered, HeldOnce
  <1>2. \A l \in Line : Cardinality(Written(l)) = 0
    <2>1. \A l \in Line : Written(l) = {}
      BY DEF Init, ConsumerInit, Written, Handed
    <2> QED
      BY <2>1, FS_EmptySet
  <1>3. Accounted
    BY <1>2 DEF Init, Accounted
  <1> QED
    BY <1>1, <1>3 DEF CountInv

LEMMA CountNext == IInv /\ CountInv /\ [Next]_vars => CountInv'
PROOF
  <1> SUFFICES ASSUME IInv, CountInv, [Next]_vars PROVE CountInv'
    OBVIOUS
  <1>0. /\ acc \in [Replica -> SUBSET Delivery] /\ dcount \in [Msg -> Nat] /\ rows \in [Line -> Nat]
        /\ \A r \in Replica : IsFiniteSet(acc[r])
    BY DEF IInv, TypeOK, ConsumerTypeOK, HeldFinite
  <1>1. acc' \in [Replica -> SUBSET Delivery] /\ dcount' \in [Msg -> Nat]
    <2>1. IInv'
      BY IInvNext
    <2> QED
      BY <2>1 DEF IInv, TypeOK, ConsumerTypeOK
  <1>2. \A r \in Replica : \A d \in acc[r] : d \in Delivery /\ d.msg \in Msg /\ d.num \in 1..dcount[d.msg]
    BY <1>0 DEF CountInv, HeldNumbered, Delivery
  <1>3. \A l, d : d \in Handed(l) <=> d \in Delivery /\ l \in Lines[d.msg] /\ d.num \in 1..dcount[d.msg]
    BY <1>0, HandedMembers
  <1>4. \A l, d : d \in Handed(l)' <=> d \in Delivery /\ l \in Lines[d.msg] /\ d.num \in 1..dcount'[d.msg]
    BY <1>1 DEF Handed, Delivery
  <1>5. \A l \in Line : IsFiniteSet(Written(l)) /\ IsFiniteSet(Written(l)')
    <2>1. \A l \in Line : IsFiniteSet(Handed(l)) /\ IsFiniteSet(Handed(l)')
      BY <1>0, <1>1, HandedFinite DEF Handed
    <2> QED
      BY <2>1, FS_Subset DEF Written
  <1>6. ASSUME rows' = rows, \A l \in Line : Written(l) \subseteq Written(l)'
        PROVE  Accounted'
    <2> SUFFICES ASSUME NEW l \in Line PROVE rows[l] <= Cardinality(Written(l)')
      BY <1>6 DEF Accounted
    <2>1. rows[l] <= Cardinality(Written(l)) /\ rows[l] \in Nat
      BY <1>0 DEF CountInv, Accounted
    <2>2. Cardinality(Written(l)) <= Cardinality(Written(l)')
      BY <1>5, <1>6, FS_Subset
    <2>3. Cardinality(Written(l)) \in Nat /\ Cardinality(Written(l)') \in Nat
      BY <1>5, FS_CardinalityType
    <2> QED
      BY <2>1, <2>2, <2>3
  <1>7. CASE Drops
    <2>1. HeldNumbered' /\ HeldOnce'
      BY <1>7 DEF Drops, CountInv, HeldNumbered, HeldOnce
    <2>2. Unwritten' \subseteq Unwritten
      BY <1>7 DEF Drops, Unwritten
    <2>3. \A l \in Line : Written(l) \subseteq Written(l)'
      BY <1>3, <1>4, <1>7, <2>2 DEF Written, Drops
    <2> QED
      BY <1>6, <1>7, <2>1, <2>3 DEF CountInv, Drops
  <1>8. ASSUME NEW r \in Replica, Takes(r) PROVE CountInv'
    <2>1. \A m \in Msg : dcount[m] \in Nat /\ dcount'[m] \in Nat /\ dcount[m] <= dcount'[m]
      BY <1>0, <1>1, <1>8 DEF Takes
    <2>2. \A q \in Replica : \A d \in acc'[q] :
            \/ d \in acc[q]
            \/ q = r /\ d.num = dcount[d.msg] + 1 /\ dcount'[d.msg] = d.num
      BY <1>8 DEF Takes
    <2>3. \A q \in Replica : \A d \in acc'[q] : d \in Delivery /\ d.msg \in Msg /\ d.num \in Nat
      BY <1>1 DEF Delivery
    <2>4. HeldNumbered'
      BY <1>2, <2>1, <2>2, <2>3 DEF HeldNumbered
    <2>5. HeldOnce'
      BY <1>2, <2>1, <2>2, <2>3 DEF CountInv, HeldOnce
    <2>6. \A d \in Unwritten' : d \in Unwritten \/ d.num = dcount[d.msg] + 1
      BY <1>8, <2>2 DEF Takes, Unwritten
    <2>7. \A l \in Line : Written(l) \subseteq Written(l)'
      <3> SUFFICES ASSUME NEW l \in Line, NEW d \in Written(l) PROVE d \in Written(l)'
        OBVIOUS
      <3>1. d \in Handed(l) /\ d \notin Unwritten
        BY DEF Written
      <3>2. d \in Delivery /\ d.msg \in Msg /\ l \in Lines[d.msg] /\ d.num \in 1..dcount[d.msg]
        BY <1>3, <3>1 DEF Delivery
      <3>3. d \in Handed(l)'
        BY <1>4, <2>1, <3>2
      <3>4. d \notin Unwritten'
        BY <2>1, <2>6, <3>1, <3>2
      <3> QED
        BY <3>3, <3>4 DEF Written
    <2> QED
      BY <1>6, <1>8, <2>4, <2>5, <2>7 DEF CountInv, Takes
  <1>9. ASSUME NEW r \in Replica, NEW D \in SUBSET acc[r], Writes(r, D) PROVE CountInv'
    <2>1. HeldNumbered' /\ HeldOnce'
      BY <1>9 DEF Writes, CountInv, HeldNumbered, HeldOnce
    <2>2. Accounted'
      <3> SUFFICES ASSUME NEW l \in Line PROVE rows'[l] <= Cardinality(Written(l)')
        BY DEF Accounted
      <3> DEFINE N == {d \in D : l \in Lines[d.msg]}
      <3>1. rows'[l] = rows[l] + Cardinality(N) /\ rows[l] \in Nat
        BY <1>0, <1>9 DEF Writes, Added
      <3>2. IsFiniteSet(N)
        BY <1>0, FS_Subset
      <3>3. N \subseteq Unwritten
        BY <1>9 DEF Writes, Unwritten
      <3>4. Written(l) \cap N = {}
        BY <3>3 DEF Written
      <3>5. Handed(l)' = Handed(l)
        BY <1>9 DEF Writes, Handed
      <3>6. Unwritten' \subseteq Unwritten \ N
        <4> SUFFICES ASSUME NEW q \in Replica, pc'[q] \in Loop, NEW d \in acc'[q]
                     PROVE  d \in Unwritten /\ d \notin N
          BY DEF Unwritten
        <4>1. q # r /\ pc[q] \in Loop /\ d \in acc[q]
          BY <1>9 DEF Writes
        <4>2. d \notin acc[r]
          BY <4>1 DEF CountInv, HeldOnce
        <4> QED
          BY <4>1, <4>2 DEF Unwritten
      <3>7. N \subseteq Handed(l)
        BY <1>2, <1>3
      <3>8. Written(l) \cup N \subseteq Written(l)'
        BY <3>5, <3>6, <3>7 DEF Written
      <3> HIDE DEF N
      <3>9. /\ IsFiniteSet(Written(l) \cup N)
            /\ Cardinality(Written(l) \cup N) = Cardinality(Written(l)) + Cardinality(N)
        <4>1. /\ IsFiniteSet(Written(l) \cup N)
              /\ Cardinality(Written(l) \cup N) = Cardinality(Written(l)) + Cardinality(N) - Cardinality({})
          BY <1>5, <3>2, <3>4, FS_Union
        <4>2. Cardinality(Written(l)) \in Nat /\ Cardinality(N) \in Nat
          BY <1>5, <3>2, FS_CardinalityType
        <4> QED
          BY <4>1, <4>2, FS_EmptySet
      <3>10. Cardinality(Written(l) \cup N) <= Cardinality(Written(l)')
        BY <1>5, <3>8, FS_Subset
      <3>11. /\ Cardinality(Written(l)) \in Nat /\ Cardinality(N) \in Nat
             /\ Cardinality(Written(l)') \in Nat
        BY <1>5, <3>2, FS_CardinalityType
      <3>12. rows[l] <= Cardinality(Written(l))
        BY DEF CountInv, Accounted
      <3> QED
        BY <3>1, <3>9, <3>10, <3>11, <3>12
    <2> QED
      BY <2>1, <2>2 DEF CountInv
  <1> QED
    BY <1>7, <1>8, <1>9, Kinds

LEMMA CountsRows == IInv /\ CountInv => OneRowPerDelivery
PROOF
  <1> SUFFICES ASSUME IInv, CountInv, NEW l \in Line PROVE rows[l] <= Cardinality(Handed(l))
    BY DEF OneRowPerDelivery
  <1>0. dcount \in [Msg -> Nat] /\ rows[l] \in Nat
    BY DEF IInv, TypeOK, ConsumerTypeOK
  <1>1. IsFiniteSet(Handed(l))
    BY <1>0, HandedFinite DEF Handed
  <1>2. Cardinality(Written(l)) <= Cardinality(Handed(l)) /\ IsFiniteSet(Written(l))
    BY <1>1, FS_Subset DEF Written
  <1>3. Cardinality(Written(l)) \in Nat /\ Cardinality(Handed(l)) \in Nat
    BY <1>1, <1>2, FS_CardinalityType
  <1>4. rows[l] <= Cardinality(Written(l))
    BY DEF CountInv, Accounted
  <1> QED
    BY <1>0, <1>2, <1>3, <1>4

\* A line never has more rows than its message had deliveries: a delivery sits
\* in one batch only, and a batch is inserted at most once before it is
\* answered (the loop of RunLogs and flushLogs, logs.go:51-97 and 139-177).
THEOREM DuplicatesNeedRedelivery == Spec => []OneRowPerDelivery
PROOF
  <1>1. IInv /\ CountInv /\ [Next]_vars => (IInv /\ CountInv)'
    BY IInvNext, CountNext
  <1>2. Init => IInv /\ CountInv
    BY IInvInit, CountInit
  <1> QED
    BY <1>1, <1>2, CountsRows, PTL DEF Spec
=============================================================================
