----------------------------- MODULE LogConsumer -----------------------------
(***************************************************************************)
(* The log consumer (internal/consume/logs.go with sink.InsertLogs): one   *)
(* goroutine per replica that waits for the stream, then fetches,          *)
(* accumulates, inserts and acknowledges in turn.  Unlike the audit it may *)
(* start before its stream exists, its table keeps every row it is given   *)
(* (schema/003_log.sql, a plain MergeTree), and when it returns with an    *)
(* error the process goes on without it (cmd/logger/main.go:85-90).        *)
(*                                                                         *)
(* The process exits when the audit consumer returns, without waiting for  *)
(* this goroutine.                                                         *)
(***************************************************************************)
EXTENDS DurableConsumer, FiniteSetsExt

CONSTANTS
  Replica,        \* the logger processes
  Line,           \* log lines
  Lines,          \* Msg -> SUBSET Line: the rows FromLog makes of a message
  LogBatch,       \* messages per Fetch
  LogInsertRows,  \* accumulated rows that trigger a flush
  MaxFaults       \* bound on the disturbances of one behaviour

ASSUME LogAssumption ==
  /\ Lines \in [Msg -> SUBSET Line]
  /\ LogBatch \in Nat \ {0}
  /\ LogInsertRows \in Nat \ {0}
  /\ MaxFaults \in Nat

VARIABLES
  stream,  \* WAF_LOG: absent, present without the durable, or with it
  life,    \* is the process running, told to stop, or down
  pc,      \* where the goroutine is; "ended": RunLogs returned
  acc,     \* the deliveries accumulated and not settled
  ending,  \* the flush under way is the last one
  rows,    \* rows of waf.log, per line
  faults   \* disturbances so far

vars == <<consumerVars, stream, life, pc, acc, ending, rows, faults>>

TypeOK ==
  /\ ConsumerTypeOK
  /\ stream \in {"absent", "unbound", "bound"}
  /\ life \in [Replica -> {"running", "stopping", "down"}]
  /\ pc \in [Replica -> {"await", "top", "fetch", "due", "insert", "ack", "nak", "ended"}]
  /\ acc \in [Replica -> SUBSET Delivery]
  /\ ending \in [Replica -> BOOLEAN]
  /\ \A r \in Replica : ending[r] => pc[r] \in {"insert", "ack", "nak", "ended"}
  /\ rows \in [Line -> Nat]
  /\ faults \in 0..MaxFaults

Init ==
  /\ ConsumerInit
  /\ stream \in {"absent", "unbound"}
  /\ life = [r \in Replica |-> "running"]
  /\ pc = [r \in Replica |-> "await"]
  /\ acc = [r \in Replica |-> {}]
  /\ ending = [r \in Replica |-> FALSE]
  /\ rows = [l \in Line |-> 0]
  /\ faults = 0

Goto(r, label) == pc' = [pc EXCEPT ![r] = label]

Fault(n) == /\ faults + n <= MaxFaults
            /\ faults' = faults + n

Cancelled(r) == life[r] = "stopping"
Alive(r) == life[r] # "down"

LineCount(D) == MapThenSumSet(LAMBDA d : Cardinality(Lines[d.msg]), D)

\* The rows the deliveries of D add to each line.
Added(D) == [l \in Line |-> Cardinality({d \in D : l \in Lines[d.msg]})]

-----------------------------------------------------------------------------
(* awaitStream *)

\* PullSubscribe binds to the stream and creates the durable if it has none.
Subscribe(r) ==
  /\ Alive(r) /\ pc[r] = "await"
  /\ stream # "absent"
  /\ stream' = "bound"
  /\ Goto(r, "top")
  /\ UNCHANGED <<consumerVars, life, acc, ending, rows, faults>>

AwaitCancelled(r) ==
  /\ pc[r] = "await" /\ Cancelled(r)
  /\ Goto(r, "ended")
  /\ UNCHANGED <<consumerVars, stream, life, acc, ending, rows, faults>>

-----------------------------------------------------------------------------
(* RunLogs *)

\* A definition named ...Mutant is the one after it with a plausible bug; put in
\* its place, it must break a property (see the README).
FlushAndReturnMutant(r) ==
  /\ ending' = [ending EXCEPT ![r] = TRUE]
  /\ Goto(r, "ended")

\* The goroutine returns, first flushing what it accumulated.
FlushAndReturn(r) ==
  /\ ending' = [ending EXCEPT ![r] = TRUE]
  /\ Goto(r, IF acc[r] = {} THEN "ended" ELSE "insert")

LoopHead(r) ==
  /\ Alive(r) /\ pc[r] = "top"
  /\ IF Cancelled(r) THEN FlushAndReturn(r)
                     ELSE Goto(r, "fetch") /\ UNCHANGED ending
  /\ UNCHANGED <<consumerVars, stream, life, acc, rows, faults>>

\* Fetch returns the messages of M (none: MaxWait passed); takeLogs
\* acknowledges those without a line, of which the server receives A.
FetchLogs(r, M, A) ==
  LET empties == {m \in M : Lines[m] = {}}
  IN /\ Alive(r) /\ pc[r] = "fetch"
     /\ stream = "bound"
     /\ Cardinality(M) <= LogBatch /\ MayDeliver(M)
     /\ A \subseteq empties
     /\ Deliver(M, A)
     /\ Fault(Cardinality(empties \ A))
     /\ acc' = [acc EXCEPT ![r] = @ \cup {CopyOf(m) : m \in M \ empties}]
     /\ Goto(r, "due")
     /\ UNCHANGED <<stream, life, ending, rows>>

\* Fetch fails when the durable is gone, or for a reason of its own.
FetchFails(r) ==
  /\ Alive(r) /\ pc[r] = "fetch"
  /\ IF stream = "bound" THEN Fault(1) ELSE UNCHANGED faults
  /\ FlushAndReturn(r)
  /\ UNCHANGED <<consumerVars, stream, life, acc, rows>>

Enough(D) == LineCount(D) >= LogInsertRows

FlushDueMutant(r) ==
  /\ Alive(r) /\ pc[r] = "due"
  /\ Enough(acc[r])
  /\ Goto(r, "insert")
  /\ UNCHANGED <<consumerVars, stream, life, acc, ending, rows, faults>>

\* LogInsertEvery has passed since the last flush, or there is enough to
\* insert; flushLogs does nothing with an empty batch.
FlushDue(r) ==
  /\ Alive(r) /\ pc[r] = "due"
  /\ Goto(r, IF acc[r] = {} THEN "top" ELSE "insert")
  /\ UNCHANGED <<consumerVars, stream, life, acc, ending, rows, faults>>

NotDue(r) ==
  /\ Alive(r) /\ pc[r] = "due"
  /\ ~Enough(acc[r])
  /\ Goto(r, "top")
  /\ UNCHANGED <<consumerVars, stream, life, acc, ending, rows, faults>>

-----------------------------------------------------------------------------
(* flushLogs *)

\* A batch whose insert failed is handed back, not written again from here.
AfterInsertErrorMutant == "top"
AfterInsertErrorAckMutant == "ack"
AfterInsertError == "nak"

Insert(r) ==
  /\ pc[r] = "insert"
  /\ rows' = [l \in Line |-> rows[l] + Added(acc[r])[l]]
  /\ Goto(r, "ack")
  /\ UNCHANGED <<consumerVars, stream, life, acc, ending, faults>>

\* A failed insert may have stored any part of its rows: here those of the
\* deliveries of D.
InsertFails(r, D) ==
  /\ pc[r] = "insert"
  /\ D \subseteq acc[r]
  /\ Fault(IF Cancelled(r) THEN 0 ELSE 1)
  /\ rows' = [l \in Line |-> rows[l] + Added(D)[l]]
  /\ Goto(r, AfterInsertError)
  /\ UNCHANGED <<consumerVars, stream, life, acc, ending>>

Answered(r, d) ==
  /\ d \in acc[r]
  /\ acc' = [acc EXCEPT ![r] = @ \ {d}]
  /\ Goto(r, IF acc[r] # {d} THEN pc[r] ELSE IF ending[r] THEN "ended" ELSE "top")
  /\ UNCHANGED <<stream, life, ending, rows>>

Ack(r, d) == pc[r] = "ack" /\ Answered(r, d) /\ AckEffect(d.msg) /\ UNCHANGED faults
Nak(r, d) == pc[r] = "nak" /\ Answered(r, d) /\ NakEffect(d.msg) /\ UNCHANGED faults

AnswerLost(r, d) ==
  /\ pc[r] \in {"ack", "nak"}
  /\ Answered(r, d)
  /\ Fault(1)
  /\ UNCHANGED consumerVars

-----------------------------------------------------------------------------
(* The process and the server *)

Stop(r) ==
  /\ life[r] = "running"
  /\ Fault(1)
  /\ life' = [life EXCEPT ![r] = "stopping"]
  /\ UNCHANGED <<consumerVars, stream, pc, acc, ending, rows>>

Down(r) ==
  /\ life' = [life EXCEPT ![r] = "down"]
  /\ Goto(r, "await")
  /\ acc' = [acc EXCEPT ![r] = {}]
  /\ ending' = [ending EXCEPT ![r] = FALSE]
  /\ UNCHANGED <<consumerVars, stream, rows>>

\* run returns with the audit consumer, wherever this goroutine is.
Exit(r) == Cancelled(r) /\ Down(r) /\ UNCHANGED faults

\* A crash, or the audit consumer returning an error.
Crash(r) == Alive(r) /\ Fault(1) /\ Down(r)

Restart(r) ==
  /\ life[r] = "down"
  /\ life' = [life EXCEPT ![r] = "running"]
  /\ UNCHANGED <<consumerVars, stream, pc, acc, ending, rows, faults>>

PublishLog(m) ==
  /\ stream # "absent"
  /\ Publish(m)
  /\ UNCHANGED <<stream, life, pc, acc, ending, rows, faults>>

LatestHeld(m) == \E r \in Replica : [msg |-> m, num |-> dcount[m]] \in acc[r]

Expire(m) ==
  /\ ExpireEffect(m)
  /\ Fault(IF LatestHeld(m) THEN 1 ELSE 0)
  /\ UNCHANGED <<stream, life, pc, acc, ending, rows>>

CreateStream ==
  /\ stream = "absent"
  /\ stream' = "unbound"
  /\ UNCHANGED <<consumerVars, life, pc, acc, ending, rows, faults>>

\* The stream is removed, and with it its messages and the durable.
RemoveStream ==
  /\ stream # "absent"
  /\ Fault(1)
  /\ stream' = "absent"
  /\ mstate' = [m \in Msg |-> IF mstate[m] \in {"waiting", "inflight"}
                              THEN "gone" ELSE mstate[m]]
  /\ UNCHANGED <<dcount, life, pc, acc, ending, rows>>

-----------------------------------------------------------------------------
Consuming(r) ==
  \/ Subscribe(r) \/ AwaitCancelled(r) \/ LoopHead(r)
  \/ \E M \in SUBSET Waiting : \E A \in SUBSET M : FetchLogs(r, M, A)
  \/ FetchFails(r) \/ FlushDue(r) \/ NotDue(r) \/ Insert(r)
  \/ \E D \in SUBSET acc[r] : InsertFails(r, D)
  \/ \E d \in acc[r] : Ack(r, d) \/ Nak(r, d) \/ AnswerLost(r, d)

Next ==
  \/ \E r \in Replica : Consuming(r) \/ Stop(r) \/ Exit(r) \/ Crash(r) \/ Restart(r)
  \/ \E m \in Msg : PublishLog(m) \/ Expire(m)
  \/ CreateStream \/ RemoveStream

Spec == Init /\ [][Next]_vars

(***************************************************************************)
(* Fairness: the goroutine goes on whenever it can, two seconds do pass    *)
(* between flushes (strong fairness of FlushDue), a pull that is repeated  *)
(* while messages wait is served in the end, the stream is created, and    *)
(* AckWait passes for a delivery nobody holds.                             *)
(***************************************************************************)
Fetched(r) == \E M \in SUBSET Waiting : FetchLogs(r, M, {m \in M : Lines[m] = {}})

Served(r) == Fetched(r) /\ dcount' # dcount

Answering(r) == \E d \in acc[r] : Ack(r, d) \/ Nak(r, d)

Fairness ==
  /\ \A r \in Replica :
       /\ WF_vars(Subscribe(r)) /\ WF_vars(AwaitCancelled(r)) /\ WF_vars(LoopHead(r))
       /\ WF_vars(Fetched(r)) /\ SF_vars(Served(r)) /\ SF_vars(FlushDue(r))
       /\ WF_vars(FetchFails(r) /\ stream # "bound")
       /\ WF_vars(NotDue(r)) /\ WF_vars(Insert(r)) /\ WF_vars(Answering(r))
       /\ WF_vars(Exit(r)) /\ WF_vars(Restart(r))
  /\ \A m \in Msg : WF_vars(PublishLog(m)) /\ WF_vars(~LatestHeld(m) /\ Expire(m))
  /\ WF_vars(CreateStream)

FairSpec == Spec /\ Fairness

-----------------------------------------------------------------------------
(* Properties *)

\* A log message is settled only when all its lines are stored, across failed
\* inserts, lost answers, crashes and the removal of the stream (flushLogs,
\* logs.go:139-177).
AckedLogged == \A m \in Msg : mstate[m] = "acked" => \A l \in Lines[m] : rows[l] > 0

\* A delivery is inserted at most once, so a line has no more rows than its
\* message had deliveries: duplicates come from redelivery only, never from
\* flushing a batch again (acc is reset after each flush, logs.go:70-74).
Handed(l) == UNION {{[msg |-> m, num |-> n] : n \in 1..dcount[m]} : m \in {m \in Msg : l \in Lines[m]}}

OneRowPerDelivery == \A l \in Line : rows[l] <= Cardinality(Handed(l))

\* The goroutine never returns holding messages it has not answered, on
\* whichever path it leaves its loop (logs.go:53-64).
EndsClean == \A r \in Replica : pc[r] = "ended" => acc[r] = {}

(***************************************************************************)
(* What makes AckedLogged and EndsClean inductive: batches are finite, the *)
(* goroutine holds nothing before its loop and after it, and while it      *)
(* acknowledges the lines of its batch are stored.                         *)
(***************************************************************************)
HeldFinite == \A r \in Replica : IsFiniteSet(acc[r])

IdleHoldsNothing == \A r \in Replica : pc[r] \in {"await", "ended"} => acc[r] = {}

WrittenBeforeAnswer ==
  \A r \in Replica : pc[r] = "ack" =>
    \A d \in acc[r] : \A l \in Lines[d.msg] : rows[l] > 0

\* The inductive invariant of the log consumer: types, the parts above, and
\* that acknowledged messages are stored (RunLogs and flushLogs, logs.go:38-177).
IInv == TypeOK /\ HeldFinite /\ IdleHoldsNothing /\ WrittenBeforeAnswer /\ AckedLogged

\* No log message is stuck as long as some replica's log consumer lives: it is
\* acknowledged or lost with the stream, or every consumer has returned.
SettledWhileConsuming ==
  \A m \in Msg :
    mstate[m] = "waiting"
      ~> (mstate[m] \in {"acked", "gone"} \/ \A r \in Replica : pc[r] = "ended")

\* INSTALL.md:37-38: "`WAF_LOG` may be absent: the log subscription then waits
\* for it".  Only until the first subscription: when the stream is removed and
\* created again, Fetch fails, RunLogs returns (logs.go:60-64), main only logs
\* it, and nobody binds to the stream any more.
AbsentStreamAwaited == stream = "unbound" ~> stream = "bound"
=============================================================================
