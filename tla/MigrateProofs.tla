---------------------------- MODULE MigrateProofs ----------------------------
(***************************************************************************)
(* Theorems about Migrate: although the lock does not exclude, a schema    *)
(* applied by any number of replicas, racing, failing and restarting, is   *)
(* recorded truthfully, takes effect in order and is complete for whoever  *)
(* starts consuming.                                                       *)
(***************************************************************************)
EXTENDS Migrate, TLAPS

IInv ==
  /\ TypeOK
  /\ Progress
  /\ RecordedImpliesExecuted
  /\ ExecutedInOrder
  /\ UpImpliesComplete

LEMMA InvInit == Init => IInv
PROOF
  BY MigrateAssumption
  DEF Init, IInv, TypeOK, Progress, RecordedImpliesExecuted, ExecutedInOrder, UpImpliesComplete,
      Label, File

\* Progress bounds the file a recording replica is at: it was executed.
LEMMA TypeNext == TypeOK /\ Progress /\ [Next]_vars => TypeOK'
PROOF
  <1> SUFFICES ASSUME TypeOK, Progress, [Next]_vars PROVE TypeOK'
    OBVIOUS
  <1> USE DEF TypeOK, Goto, local
  <1>n. Files \in Nat /\ MaxFaults \in Nat /\ 1 \in 1..(Files + 1)
    BY MigrateAssumption
  <1>f. Fault => faults' \in 0..MaxFaults
    BY <1>n DEF Fault
  <1>v. ASSUME NEW r \in Replica, at[r] <= Files PROVE Visited(at[r]) \in File /\ at[r] + 1 \in 1..(Files + 1)
    BY <1>n, <1>v DEF Visited, File
  <1>1. CASE UNCHANGED vars
    BY <1>1 DEF vars
  <1>2. ASSUME NEW r \in Replica, Step(r) PROVE TypeOK'
    <2>1. CASE Create(r)
      BY <2>1 DEF Create, Label
    <2>2. CASE Judge(r) \/ DropStale(r) \/ Poll(r)
      BY <2>2 DEF Judge, DropStale, Poll, Label
    <2>3. CASE FirstBeat(r)
      BY <2>3, <1>f DEF FirstBeat, Beaten, Label
    <2>4. CASE ReadApplied(r)
      BY <2>4, <1>n DEF ReadApplied, Label
    <2>5. CASE PassOver(r)
      BY <2>5, <1>v DEF PassOver, More
    <2>6. CASE Execute(r)
      BY <2>6, <1>v DEF Execute, More, Label
    <2>7. CASE Record(r)
      <3>1. at[r] <= Files
        BY <2>7, <1>n DEF Record, Progress, File
      <3> QED
        BY <2>7, <3>1, <1>v DEF Record, Recorded, Label
    <2>8. CASE FilesDone(r) \/ Restart(r)
      BY <2>8 DEF FilesDone, Restart, Label
    <2>9. CASE Unlock(r)
      BY <2>9, <1>f DEF Unlock, Label
    <2> QED
      BY <1>2, <2>1, <2>2, <2>3, <2>4, <2>5, <2>6, <2>7, <2>8, <2>9 DEF Step
  <1>3. ASSUME NEW r \in Replica, Beat(r) PROVE TypeOK'
    BY <1>3 DEF Beat, Beaten
  <1>4. ASSUME NEW r \in Replica, Failure(r) PROVE TypeOK'
    <2>1. CASE LockFails(r)
      BY <2>1, <1>f DEF LockFails, Label
    <2>2. CASE ReadFails(r) \/ Crash(r)
      BY <2>2, <1>f DEF ReadFails, Crash, Label
    <2>3. CASE ExecuteFails(r)
      BY <2>3, <1>f, <1>v DEF ExecuteFails, More, AfterError, Label
    <2>4. CASE RecordFails(r)
      <3>1. at[r] <= Files
        BY <2>4, <1>n DEF RecordFails, Progress, File
      <3> QED
        BY <2>4, <3>1, <1>f, <1>v DEF RecordFails, Recorded, Label
    <2> QED
      BY <1>4, <2>1, <2>2, <2>3, <2>4 DEF Failure
  <1>5. CASE Age
    BY <1>5, <1>f DEF Age
  <1> QED
    BY <1>1, <1>2, <1>3, <1>4, <1>5 DEF Next

\* Nothing takes a statement back, and only Execute and ExecuteFails add one:
\* the file their replica has reached.
LEMMA ExecutedGrows ==
  ASSUME TypeOK, [Next]_vars
  PROVE  /\ executed \subseteq executed'
         /\ \A f \in executed' \ executed : \E r \in Replica :
              pc[r] = "file" /\ f = at[r] /\ f <= Files
PROOF
  <1> DEFINE Goal == /\ executed \subseteq executed'
                     /\ \A f \in executed' \ executed : \E r \in Replica :
                          pc[r] = "file" /\ f = at[r] /\ f <= Files
  <1>1. CASE UNCHANGED vars
    BY <1>1 DEF vars
  <1>2. ASSUME NEW r \in Replica, Step(r) PROVE Goal
    BY <1>2 DEF Step, Create, Judge, DropStale, Poll, FirstBeat, ReadApplied, PassOver, FilesDone,
                Execute, More, Visited, Record, Unlock, Restart
  <1>3. ASSUME NEW r \in Replica, Beat(r) \/ Failure(r) PROVE Goal
    BY <1>3 DEF Beat, Failure, LockFails, ReadFails, ExecuteFails, More, Visited, RecordFails, Crash
  <1>4. CASE Age
    BY <1>4 DEF Age
  <1> QED
    BY <1>1, <1>2, <1>3, <1>4 DEF Next

\* A row is added to schema_migrations only for a file that was executed.
LEMMA RecordedNext ==
  TypeOK /\ Progress /\ RecordedImpliesExecuted /\ [Next]_vars => RecordedImpliesExecuted'
PROOF
  <1> SUFFICES ASSUME TypeOK, Progress, RecordedImpliesExecuted, [Next]_vars
               PROVE  RecordedImpliesExecuted'
    OBVIOUS
  <1>0. executed \subseteq executed'
    BY ExecutedGrows
  <1>k. recorded' = recorded => RecordedImpliesExecuted'
    BY <1>0 DEF RecordedImpliesExecuted
  <1>r. ASSUME NEW r \in Replica, pc[r] = "record", recorded' = Recorded(at[r])
        PROVE  RecordedImpliesExecuted'
    <2>1. at[r] \in executed
      BY <1>r DEF Progress
    <2> QED
      BY <1>0, <1>r, <2>1 DEF RecordedImpliesExecuted, Recorded, TypeOK
  <1>1. CASE UNCHANGED vars
    BY <1>1, <1>k DEF vars
  <1>2. ASSUME NEW r \in Replica, Step(r) PROVE RecordedImpliesExecuted'
    <2>1. CASE Record(r)
      BY <1>r, <2>1 DEF Record, Visited
    <2> QED
      BY <1>2, <1>k, <2>1 DEF Step, Create, Judge, DropStale, Poll, FirstBeat, ReadApplied, PassOver,
                              FilesDone, Execute, Unlock, Restart
  <1>3. ASSUME NEW r \in Replica, Beat(r) \/ Failure(r) PROVE RecordedImpliesExecuted'
    <2>1. CASE RecordFails(r)
      BY <1>k, <1>r, <2>1 DEF RecordFails, Visited
    <2> QED
      BY <1>3, <1>k, <2>1 DEF Beat, Failure, LockFails, ReadFails, ExecuteFails, Crash
  <1>4. CASE Age
    BY <1>4, <1>k DEF Age
  <1> QED
    BY <1>1, <1>2, <1>3, <1>4 DEF Next

\* A statement takes effect only behind all the earlier ones.
LEMMA OrderNext ==
  TypeOK /\ Progress /\ ExecutedInOrder /\ [Next]_vars => ExecutedInOrder'
PROOF
  <1> SUFFICES ASSUME TypeOK, Progress, ExecutedInOrder, [Next]_vars,
                      NEW f \in executed', NEW e \in File \ Blank, e < f
               PROVE  e \in executed'
    BY DEF ExecutedInOrder
  <1>1. CASE f \in executed
    BY <1>1, ExecutedGrows DEF ExecutedInOrder
  <1>2. CASE f \notin executed
    BY <1>2, ExecutedGrows DEF Progress
  <1> QED
    BY <1>1, <1>2

LEMMA ProgressNext ==
  TypeOK /\ Progress /\ RecordedImpliesExecuted /\ [Next]_vars => Progress'
PROOF
  <1> SUFFICES ASSUME TypeOK, Progress, RecordedImpliesExecuted, [Next]_vars, NEW q \in Replica
               PROVE  /\ pc'[q] \in {"file", "record"} =>
                           /\ seen'[q] \subseteq executed'
                           /\ \A f \in File \ Blank : f < at'[q] => f \in executed'
                      /\ pc'[q] = "record" => at'[q] \in executed'
                      /\ pc'[q] = "unlock" => File \ Blank \subseteq executed'
    BY DEF Progress
  <1> DEFINE Goal == /\ pc'[q] \in {"file", "record"} =>
                          /\ seen'[q] \subseteq executed'
                          /\ \A f \in File \ Blank : f < at'[q] => f \in executed'
                     /\ pc'[q] = "record" => at'[q] \in executed'
                     /\ pc'[q] = "unlock" => File \ Blank \subseteq executed'
  <1>0. executed \subseteq executed'
    BY ExecutedGrows
  <1>t. /\ pc \in [Replica -> Label]
        /\ at \in [Replica -> 1..(Files + 1)] /\ seen \in [Replica -> SUBSET File]
        /\ Files \in Nat
    BY MigrateAssumption DEF TypeOK
  <1>p. /\ pc[q] \in {"file", "record"} =>
             /\ seen[q] \subseteq executed
             /\ \A f \in File \ Blank : f < at[q] => f \in executed
        /\ pc[q] = "record" => at[q] \in executed
        /\ pc[q] = "unlock" => File \ Blank \subseteq executed
    BY DEF Progress
  <1>k. ASSUME at'[q] = at[q], seen'[q] = seen[q],
               pc'[q] = pc[q] \/ pc'[q] \notin {"file", "record", "unlock"}
        PROVE  Goal
    BY <1>0, <1>k, <1>p
  <1> USE DEF local, Goto
  <1>1. CASE UNCHANGED vars
    BY <1>1, <1>k DEF vars
  <1>2. ASSUME NEW r \in Replica, Step(r) PROVE Goal
    <2>1. CASE ReadApplied(r)
      <3>1. CASE q = r
        <4>1. at'[q] = 1 /\ pc'[q] = "file" /\ seen'[q] = {f \in File : recorded[f] > 0}
          BY <1>t, <2>1, <3>1 DEF ReadApplied
        <4> QED
          BY <1>0, <4>1 DEF RecordedImpliesExecuted, File
      <3>2. CASE q # r
        BY <1>k, <1>t, <2>1, <3>2 DEF ReadApplied
      <3> QED
        BY <3>1, <3>2
    <2>2. CASE PassOver(r)
      <3>1. CASE q = r
        <4>1. /\ at'[q] = at[q] + 1 /\ pc'[q] = "file" /\ seen'[q] = seen[q]
              /\ pc[q] = "file" /\ at[q] \in seen[q] \cup Blank
          BY <1>t, <2>1, <2>2, <3>1 DEF PassOver, PassedOver, Visited
        <4>2. \A f \in File : f < at[q] + 1 => f < at[q] \/ f = at[q]
          BY <1>t DEF File
        <4> QED
          BY <1>0, <1>p, <4>1, <4>2
      <3>2. CASE q # r
        BY <1>k, <1>t, <2>2, <3>2 DEF PassOver
      <3> QED
        BY <3>1, <3>2
    <2>3. CASE Execute(r)
      <3>1. CASE q = r
        <4>1. /\ at'[q] = at[q] /\ pc'[q] = "record" /\ seen'[q] = seen[q]
              /\ pc[q] = "file" /\ at[q] \in executed'
          BY <1>t, <2>3, <3>1 DEF Execute, Visited
        <4> QED
          BY <1>0, <1>p, <4>1
      <3>2. CASE q # r
        BY <1>k, <1>t, <2>3, <3>2 DEF Execute
      <3> QED
        BY <3>1, <3>2
    <2>4. CASE Record(r)
      <3>1. CASE q = r
        <4>1. /\ at'[q] = at[q] + 1 /\ pc'[q] = "file" /\ seen'[q] = seen[q]
              /\ pc[q] = "record"
          BY <1>t, <2>4, <3>1 DEF Record
        <4>2. \A f \in File : f < at[q] + 1 => f < at[q] \/ f = at[q]
          BY <1>t DEF File
        <4> QED
          BY <1>0, <1>p, <4>1, <4>2
      <3>2. CASE q # r
        BY <1>k, <1>t, <2>4, <3>2 DEF Record
      <3> QED
        BY <3>1, <3>2
    <2>5. CASE FilesDone(r)
      <3>1. CASE q = r
        <4>1. /\ pc'[q] = "unlock" /\ pc[q] = "file" /\ at[q] > Files
          BY <1>t, <2>5, <3>1 DEF FilesDone, More
        <4>2. \A f \in File : f < at[q]
          BY <1>t, <4>1 DEF File
        <4> QED
          BY <1>0, <1>p, <4>1, <4>2
      <3>2. CASE q # r
        BY <1>k, <1>t, <2>5, <3>2 DEF FilesDone
      <3> QED
        BY <3>1, <3>2
    <2>6. CASE Create(r) \/ Judge(r) \/ DropStale(r) \/ Poll(r) \/ FirstBeat(r)
      BY <1>k, <1>t, <2>6 DEF Create, Judge, DropStale, Poll, FirstBeat
    <2>7. CASE Unlock(r) \/ Restart(r)
      BY <1>k, <1>t, <2>7 DEF Unlock, Restart
    <2> QED
      BY <1>2, <2>1, <2>2, <2>3, <2>4, <2>5, <2>6, <2>7 DEF Step
  <1>3. ASSUME NEW r \in Replica, Beat(r) \/ Failure(r) PROVE Goal
    BY <1>3, <1>k, <1>t
    DEF Beat, Failure, LockFails, ReadFails, ExecuteFails, AfterError, RecordFails, Crash
  <1>4. CASE Age
    BY <1>4, <1>k DEF Age
  <1> QED
    BY <1>1, <1>2, <1>3, <1>4 DEF Next

\* Only the replica that unlocks after its last file comes up.
LEMMA UpNext ==
  TypeOK /\ Progress /\ UpImpliesComplete /\ [Next]_vars => UpImpliesComplete'
PROOF
  <1> SUFFICES ASSUME TypeOK, Progress, UpImpliesComplete, [Next]_vars,
                      NEW q \in Replica, pc'[q] = "up"
               PROVE  File \ Blank \subseteq executed'
    BY DEF UpImpliesComplete
  <1>0. executed \subseteq executed'
    BY ExecutedGrows
  <1>1. pc[q] \in {"up", "unlock"}
    <2> USE DEF TypeOK, Goto, local
    <2>1. CASE UNCHANGED vars
      BY <2>1 DEF vars
    <2>2. ASSUME NEW r \in Replica, Step(r) PROVE pc[q] \in {"up", "unlock"}
      BY <2>2 DEF Step, Create, Judge, DropStale, Poll, FirstBeat, ReadApplied, PassOver, FilesDone,
                  Execute, Record, Unlock, Restart
    <2>3. ASSUME NEW r \in Replica, Beat(r) \/ Failure(r) PROVE pc[q] \in {"up", "unlock"}
      BY <2>3 DEF Beat, Failure, LockFails, ReadFails, ExecuteFails, AfterError, RecordFails, Crash
    <2>4. CASE Age
      BY <2>4 DEF Age
    <2> QED
      BY <2>1, <2>2, <2>3, <2>4 DEF Next
  <1> QED
    BY <1>0, <1>1 DEF Progress, UpImpliesComplete

THEOREM InductiveInvariant == Spec => []IInv
PROOF
  <1>1. IInv /\ [Next]_vars => IInv'
    BY TypeNext, ProgressNext, RecordedNext, OrderNext, UpNext DEF IInv
  <1> QED
    BY InvInit, <1>1, PTL DEF Spec

\* A recorded file was executed, whatever races and crashes intervene.
THEOREM RecordsAreTrue == Spec => []RecordedImpliesExecuted
PROOF
  BY InductiveInvariant, PTL DEF IInv

\* Files take effect in the order of their names, even with two lock holders.
THEOREM EffectsInOrder == Spec => []ExecutedInOrder
PROOF
  BY InductiveInvariant, PTL DEF IInv

\* Whoever returned from Apply finds the whole schema.
THEOREM UpMeansComplete == Spec => []UpImpliesComplete
PROOF
  BY InductiveInvariant, PTL DEF IInv
=============================================================================
