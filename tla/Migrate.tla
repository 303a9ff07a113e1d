------------------------------- MODULE Migrate -------------------------------
(***************************************************************************)
(* Applying the schema at start (internal/migrate/migrate.go): replicas    *)
(* that start together take a lock, execute the files of the schema        *)
(* directory that are not recorded yet, in the order of their names, and   *)
(* record each.                                                            *)
(*                                                                         *)
(* The lock is a ClickHouse table: to create it is to take it, its rows    *)
(* are the holder's heartbeats, and dropping it is releasing it.  Nothing  *)
(* in the table tells one creation from the next.  The age of the newest   *)
(* heartbeat is abstracted to fresh (up to two minutes) or stale.          *)
(***************************************************************************)
EXTENDS Naturals

CONSTANTS
  Replica,    \* processes that start
  Files,      \* how many files the schema directory holds
  Blank,      \* the files that hold no statement
  MaxFaults   \* bound on the disturbances of one behaviour

ASSUME MigrateAssumption ==
  /\ Files \in Nat
  /\ Blank \subseteq 1..Files
  /\ MaxFaults \in Nat

VARIABLES
  lock,      \* waf.schema_lock: absent, or how old its newest heartbeat is
  executed,  \* files whose statement ClickHouse carried out
  recorded,  \* rows of waf.schema_migrations, per file
  pc,        \* what each replica does next
  at,        \* the file it has reached
  seen,      \* the files it read as recorded
  faults     \* disturbances so far

local == <<pc, at, seen>>
vars == <<lock, executed, recorded, local, faults>>

File == 1..Files

Acquiring == {"create", "judge", "drop", "wait"}

Label == {"create", "judge", "drop", "wait", "beat", "read", "file", "record",
          "unlock", "abort", "up", "down"}

TypeOK ==
  /\ lock \in {"absent", "empty", "fresh", "stale"}
  /\ executed \subseteq File
  /\ recorded \in [File -> Nat]
  /\ pc \in [Replica -> Label]
  /\ at \in [Replica -> 1..(Files + 1)]
  /\ seen \in [Replica -> SUBSET File]
  /\ faults \in 0..MaxFaults

Init ==
  /\ lock = "absent"
  /\ executed = {}
  /\ recorded = [f \in File |-> 0]
  /\ pc = [r \in Replica |-> "create"]
  /\ at = [r \in Replica |-> 1]
  /\ seen = [r \in Replica |-> {}]
  /\ faults = 0

\* A definition named ...Mutant is the one after it with a plausible bug; put in
\* its place, it must break a property (see the README).
Goto(r, label) == pc' = [pc EXCEPT ![r] = label]

Fault == faults < MaxFaults /\ faults' = faults + 1

-----------------------------------------------------------------------------
(* lock *)

\* lockIsStale: no table, a table without a heartbeat, or an old heartbeat.
StaleMutant(l) == l = "stale"
Stale(l) == l \in {"absent", "empty", "stale"}

\* CREATE TABLE succeeds for one replica; the others go on to judge the lock.
Create(r) ==
  /\ pc[r] = "create"
  /\ lock' = IF lock = "absent" THEN "empty" ELSE lock
  /\ Goto(r, IF lock = "absent" THEN "beat" ELSE "judge")
  /\ UNCHANGED <<executed, recorded, at, seen, faults>>

Judge(r) ==
  /\ pc[r] = "judge"
  /\ Goto(r, IF Stale(lock) THEN "drop" ELSE "wait")
  /\ UNCHANGED <<lock, executed, recorded, at, seen, faults>>

\* Drops whatever lock there is by now, not the one that was judged.
DropStale(r) ==
  /\ pc[r] = "drop"
  /\ lock' = "absent"
  /\ Goto(r, "create")
  /\ UNCHANGED <<executed, recorded, at, seen, faults>>

Poll(r) ==
  /\ pc[r] = "wait"
  /\ Goto(r, "create")
  /\ UNCHANGED <<lock, executed, recorded, at, seen, faults>>

\* A statement of lock fails, or the context is cancelled: the process exits
\* without unlocking, though its CREATE may have been carried out.
LockFails(r) ==
  /\ pc[r] \in Acquiring
  /\ Fault
  /\ \/ UNCHANGED lock
     \/ pc[r] = "create" /\ lock = "absent" /\ lock' = "empty"
     \/ pc[r] = "drop" /\ lock' = "absent"
  /\ Goto(r, "down")
  /\ UNCHANGED <<executed, recorded, at, seen>>

-----------------------------------------------------------------------------
(* The heartbeat *)

Beaten == IF lock = "absent" THEN "absent" ELSE "fresh"

\* The first heartbeat, before Apply goes on; its error is ignored.
FirstBeat(r) ==
  /\ pc[r] = "beat"
  /\ \/ lock' = Beaten /\ UNCHANGED faults
     \/ UNCHANGED lock /\ Fault
  /\ Goto(r, "read")
  /\ UNCHANGED <<executed, recorded, at, seen>>

Beating(r) == pc[r] \in {"read", "file", "record"}

\* The heartbeat goroutine inserts into the lock table of that name, whoever
\* created it.
Beat(r) ==
  /\ Beating(r)
  /\ lock' = Beaten
  /\ UNCHANGED <<executed, recorded, local, faults>>

\* Two minutes pass without a heartbeat; with a replica beating, its inserts
\* must have failed all that time.
Age ==
  /\ lock = "fresh"
  /\ lock' = "stale"
  /\ IF \E r \in Replica : Beating(r) THEN Fault ELSE UNCHANGED faults
  /\ UNCHANGED <<executed, recorded, local>>

-----------------------------------------------------------------------------
(* Apply *)

\* The files are visited in the order of their names.
VisitedMutant(k) == Files + 1 - k
Visited(k) == k

\* The loop over the files goes on.
MoreMutant(r) == at[r] < Files
More(r) == at[r] <= Files

\* A file that is recorded or holds no statement is passed over.
PassedOver(r) == Visited(at[r]) \in seen[r] \cup Blank

\* After a statement that failed Apply returns, and its deferred unlock runs.
AfterErrorMutant == "record"
AfterError == "abort"

\* schema_migrations is created if need be, the directory is listed and the
\* recorded files are read.
ReadApplied(r) ==
  /\ pc[r] = "read"
  /\ seen' = [seen EXCEPT ![r] = {f \in File : recorded[f] > 0}]
  /\ at' = [at EXCEPT ![r] = 1]
  /\ Goto(r, "file")
  /\ UNCHANGED <<lock, executed, recorded, faults>>

PassOver(r) ==
  /\ pc[r] = "file" /\ More(r)
  /\ PassedOver(r)
  /\ at' = [at EXCEPT ![r] = @ + 1]
  /\ UNCHANGED <<lock, executed, recorded, pc, seen, faults>>

Execute(r) ==
  /\ pc[r] = "file" /\ More(r)
  /\ ~PassedOver(r)
  /\ executed' = executed \cup {Visited(at[r])}
  /\ Goto(r, "record")
  /\ UNCHANGED <<lock, recorded, at, seen, faults>>

ExecuteFails(r) ==
  /\ pc[r] = "file" /\ More(r)
  /\ ~PassedOver(r)
  /\ Fault
  /\ executed' = executed \/ executed' = executed \cup {Visited(at[r])}
  /\ Goto(r, AfterError)
  /\ UNCHANGED <<lock, recorded, at, seen>>

Recorded(f) == [recorded EXCEPT ![f] = @ + 1]

Record(r) ==
  /\ pc[r] = "record"
  /\ recorded' = Recorded(Visited(at[r]))
  /\ at' = [at EXCEPT ![r] = @ + 1]
  /\ Goto(r, "file")
  /\ UNCHANGED <<lock, executed, seen, faults>>

RecordFails(r) ==
  /\ pc[r] = "record"
  /\ Fault
  /\ recorded' = recorded \/ recorded' = Recorded(Visited(at[r]))
  /\ Goto(r, "abort")
  /\ UNCHANGED <<lock, executed, at, seen>>

ReadFails(r) ==
  /\ pc[r] = "read"
  /\ Fault
  /\ Goto(r, "abort")
  /\ UNCHANGED <<lock, executed, recorded, at, seen>>

FilesDone(r) ==
  /\ pc[r] = "file" /\ ~More(r)
  /\ Goto(r, "unlock")
  /\ UNCHANGED <<lock, executed, recorded, at, seen, faults>>

\* The deferred unlock stops the heartbeat and drops the lock table, whoever
\* created it; its error is ignored.
Unlock(r) ==
  /\ pc[r] \in {"unlock", "abort"}
  /\ \/ lock' = "absent" /\ UNCHANGED faults
     \/ UNCHANGED lock /\ Fault
  /\ Goto(r, IF pc[r] = "unlock" THEN "up" ELSE "down")
  /\ UNCHANGED <<executed, recorded, at, seen>>

-----------------------------------------------------------------------------
(* The process *)

Crash(r) ==
  /\ pc[r] # "down"
  /\ Fault
  /\ Goto(r, "down")
  /\ UNCHANGED <<lock, executed, recorded, at, seen>>

Restart(r) ==
  /\ pc[r] = "down"
  /\ Goto(r, "create")
  /\ UNCHANGED <<lock, executed, recorded, at, seen, faults>>

Step(r) ==
  \/ Create(r) \/ Judge(r) \/ DropStale(r) \/ Poll(r)
  \/ FirstBeat(r) \/ ReadApplied(r) \/ PassOver(r) \/ Execute(r) \/ Record(r)
  \/ FilesDone(r) \/ Unlock(r) \/ Restart(r)

Failure(r) == LockFails(r) \/ ReadFails(r) \/ ExecuteFails(r) \/ RecordFails(r) \/ Crash(r)

Next == \/ \E r \in Replica : Step(r) \/ Beat(r) \/ Failure(r)
        \/ Age

Spec == Init /\ [][Next]_vars

\* Every replica keeps going, a process that is down is started again, and
\* time passes for a lock whose holder no longer beats.
FairSpec ==
  /\ Spec
  /\ \A r \in Replica : WF_vars(Step(r))
  /\ WF_vars(Age /\ ~\E r \in Replica : Beating(r))

-----------------------------------------------------------------------------
(* Properties *)

\* A file is recorded only once its statement was carried out, whatever
\* crashes and races intervene (Apply, migrate.go:85-92): a recorded file is
\* never executed again, so a wrong record would lose a table for good.
RecordedImpliesExecuted == \A f \in File : recorded[f] > 0 => f \in executed

\* No file takes effect before all the earlier ones, even when two replicas
\* both believe to hold the lock (the sort in list, migrate.go:199).
ExecutedInOrder ==
  \A f \in executed : \A e \in File \ Blank : e < f => e \in executed

\* A replica that returned from Apply, and so starts consuming, finds the whole
\* schema, whoever applied it (main.go:60-62).
UpImpliesComplete ==
  \A r \in Replica : pc[r] = "up" => File \ Blank \subseteq executed

\* What the three rest on: a replica in Apply has everything before the file it
\* reached behind it, read only true records, and records what it executed.
Progress ==
  \A r \in Replica :
    /\ pc[r] \in {"file", "record"} =>
         /\ seen[r] \subseteq executed
         /\ \A f \in File \ Blank : f < at[r] => f \in executed
    /\ pc[r] = "record" => at[r] \in executed
    /\ pc[r] = "unlock" => File \ Blank \subseteq executed

\* Every replica comes up in the end, past a lock whose holder died with or
\* without having beaten, once disturbances cease.
EventuallyUp == \A r \in Replica : pc[r] = "create" ~> pc[r] = "up"

\* README.md:57-58: "a lock keeps replicas that start together from racing".
\* Between CREATE TABLE and the first heartbeat the lock counts as stale
\* (migrate.go:132-133, 167), so a second replica drops it and goes on.
MutualExclusion ==
  \A r, s \in Replica :
    pc[r] \in {"read", "file", "record"} /\ pc[s] \in {"read", "file", "record"} => r = s
=============================================================================
