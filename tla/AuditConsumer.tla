---------------------------- MODULE AuditConsumer ----------------------------
(***************************************************************************)
(* The audit consumer (internal/consume/consume.go with internal/sink):    *)
(* replicas of the logger read the same durable consumer; in each a        *)
(* fetching goroutine takes batches, a channel of capacity Pipeline holds  *)
(* them, and an inserting goroutine accumulates them, writes the rows and  *)
(* then the findings to ClickHouse and only then acknowledges the          *)
(* messages.  Replicas are stopped (SIGTERM), crash and start again;       *)
(* inserts fail having stored any part of their rows; acknowledgements and *)
(* deliveries are lost.                                                    *)
(*                                                                         *)
(* What a message holds is what parse makes of it: Anchors[m] are its      *)
(* audit rows and Findings[m] its finding rows.  A row is identified by    *)
(* its sorting key (schema/001_audit.sql, 002_audit_finding.sql), so a     *)
(* table is the set of keys a FINAL read returns.  A row whose payload     *)
(* carries no usable ts (Unstamped) gets the clock's at each delivery, so  *)
(* its key depends on the delivery.                                        *)
(***************************************************************************)
EXTENDS DurableConsumer, Sequences, FiniteSetsExt

CONSTANTS
  Replica,      \* the logger processes
  Item,         \* identities of audit and finding rows
  Anchors,      \* Msg -> SUBSET Item: the audit rows of a message
  Findings,     \* Msg -> SUBSET Item: the finding rows of a message
  Unstamped,    \* the items without a usable ts
  Batch,        \* messages per Fetch
  Pipeline,     \* capacity of the channel between the goroutines
  InsertRows,   \* accumulated rows that trigger a flush
  MaxFaults     \* bound on the disturbances of one behaviour

ASSUME ContentAssumption ==
  /\ Anchors \in [Msg -> SUBSET Item]
  /\ Findings \in [Msg -> SUBSET Item]
  /\ \A m \in Msg : IsFiniteSet(Anchors[m]) /\ IsFiniteSet(Findings[m])
  /\ Unstamped \subseteq Item

ASSUME SizesAssumption ==
  /\ Batch \in Nat \ {0}
  /\ Pipeline \in Nat \ {0}
  /\ InsertRows \in Nat \ {0}
  /\ MaxFaults \in Nat

VARIABLES
  life,      \* is the process running, told to stop, or down
  fpc,       \* where the fetching goroutine is; "closed": it returned
  fbatch,    \* the batch it took and has not sent
  chan,      \* batches in the channel
  ipc,       \* where the inserting goroutine is
  acc,       \* the deliveries accumulated and not settled
  audit,     \* keys stored in waf.audit
  findings,  \* keys stored in waf.audit_finding
  faults     \* disturbances so far

replicaVars == <<life, fpc, fbatch, chan, ipc, acc>>
tableVars == <<audit, findings>>
vars == <<consumerVars, replicaVars, tableVars, faults>>

Key == Item \X Nat

TypeOK ==
  /\ ConsumerTypeOK
  /\ life \in [Replica -> {"running", "stopping", "down"}]
  /\ fpc \in [Replica -> {"top", "fetch", "send", "closed"}]
  /\ fbatch \in [Replica -> SUBSET Delivery]
  /\ chan \in [Replica -> Seq(SUBSET Delivery)]
  /\ \A r \in Replica : Len(chan[r]) <= Pipeline
  /\ ipc \in [Replica -> {"select", "rows", "findings", "ack", "nak", "done"}]
  /\ acc \in [Replica -> SUBSET Delivery]
  /\ audit \subseteq Key
  /\ findings \subseteq Key
  /\ faults \in 0..MaxFaults

-----------------------------------------------------------------------------
(* Data.  A definition named ...Mutant is the one after it with a plausible  *)
(* bug; put in its place, it must break a property (see the README).         *)

\* parse found nothing to store: no row of any kind.
EmptyMutant(m) == Anchors[m] = {}
Empty(m) == Anchors[m] = {} /\ Findings[m] = {}

KeyOf(i, d) == IF i \in Unstamped THEN <<i, d.num>> ELSE <<i, 0>>

AnchorKeys(D) == UNION {{KeyOf(i, d) : i \in Anchors[d.msg]} : d \in D}
FindingKeys(D) == UNION {{KeyOf(i, d) : i \in Findings[d.msg]} : d \in D}

\* The rows and findings of the deliveries of D, and their number.
RowsIn(D) ==
  UNION {{d} \X (({"row"} \X Anchors[d.msg]) \cup ({"finding"} \X Findings[d.msg])) : d \in D}

RowCount(D) == Cardinality(RowsIn(D))

\* The accumulated rows reach the threshold that triggers a flush.
FullMutant(D) == RowCount(D) > InsertRows
Full(D) == RowCount(D) >= InsertRows

AccumulateMutant(D, B) == B
Accumulate(D, B) == D \cup B

\* Where the inserting goroutine goes when the insert of the rows failed.
AfterRowsErrorMutant == "findings"
AfterRowsError == "nak"

\* ... and when it succeeded, and when the findings are in too.
AfterRowsMutant == "ack"
AfterRows == "findings"
AfterFindings == "ack"

HasRoom(r) == Len(chan[r]) < Pipeline

\* The context of the process is cancelled.
CancelledMutant(r) == life[r] = "down"
Cancelled(r) == life[r] = "stopping"

\* The deliveries a replica holds, in whichever goroutine.
Held(r) == fbatch[r] \cup acc[r] \cup UNION {chan[r][k] : k \in 1..Len(chan[r])}

LatestHeld(m) == \E r \in Replica : [msg |-> m, num |-> dcount[m]] \in Held(r)

Fault(n) == /\ faults + n <= MaxFaults
            /\ faults' = faults + n

Init ==
  /\ ConsumerInit
  /\ life = [r \in Replica |-> "running"]
  /\ fpc = [r \in Replica |-> "top"]
  /\ fbatch = [r \in Replica |-> {}]
  /\ chan = [r \in Replica |-> <<>>]
  /\ ipc = [r \in Replica |-> "select"]
  /\ acc = [r \in Replica |-> {}]
  /\ audit = {}
  /\ findings = {}
  /\ faults = 0

-----------------------------------------------------------------------------
(* The fetching goroutine *)

CloseChannel(r) == fpc' = [fpc EXCEPT ![r] = "closed"]

\* Head of the loop: a cancelled context ends it, otherwise Fetch is called.
FetchLoop(r) ==
  /\ life[r] # "down" /\ fpc[r] = "top"
  /\ IF Cancelled(r) THEN CloseChannel(r) ELSE fpc' = [fpc EXCEPT ![r] = "fetch"]
  /\ UNCHANGED <<consumerVars, life, fbatch, chan, ipc, acc, tableVars, faults>>

\* Fetch returns the messages of M; take acknowledges those that hold nothing,
\* of which the server receives those of A, and the rest are to be sent.
\* Fetch is not given the context, so it returns messages to a cancelled
\* process too.
FetchMessages(r, M, A) ==
  LET empties == {m \in M : Empty(m)}
      batch == {CopyOf(m) : m \in M \ empties}
  IN /\ life[r] # "down" /\ fpc[r] = "fetch"
     /\ M # {} /\ Cardinality(M) <= Batch /\ MayDeliver(M)
     /\ A \subseteq empties
     /\ Deliver(M, A)
     /\ Fault(Cardinality(empties \ A))
     /\ fbatch' = [fbatch EXCEPT ![r] = batch]
     /\ fpc' = [fpc EXCEPT ![r] = IF batch = {} THEN "top" ELSE "send"]
     /\ UNCHANGED <<life, chan, ipc, acc, tableVars>>

\* Fetch returns no message: MaxWait passed.
FetchTimeout(r) ==
  /\ life[r] # "down" /\ fpc[r] = "fetch"
  /\ fpc' = [fpc EXCEPT ![r] = "top"]
  /\ UNCHANGED <<consumerVars, life, fbatch, chan, ipc, acc, tableVars, faults>>

\* Fetch returns another error: the goroutine returns it and Run closes the
\* channel, waits for the inserting goroutine and returns too.
FetchError(r) ==
  /\ life[r] # "down" /\ fpc[r] = "fetch"
  /\ Fault(1)
  /\ CloseChannel(r)
  /\ UNCHANGED <<consumerVars, life, fbatch, chan, ipc, acc, tableVars>>

SendBatch(r) ==
  /\ life[r] # "down" /\ fpc[r] = "send"
  /\ HasRoom(r)
  /\ chan' = [chan EXCEPT ![r] = Append(@, fbatch[r])]
  /\ fbatch' = [fbatch EXCEPT ![r] = {}]
  /\ fpc' = [fpc EXCEPT ![r] = "top"]
  /\ UNCHANGED <<consumerVars, life, ipc, acc, tableVars, faults>>

\* select takes the cancelled context: the batch is dropped without an answer.
SendAborted(r) ==
  /\ fpc[r] = "send" /\ Cancelled(r)
  /\ fbatch' = [fbatch EXCEPT ![r] = {}]
  /\ CloseChannel(r)
  /\ UNCHANGED <<consumerVars, life, chan, ipc, acc, tableVars, faults>>

-----------------------------------------------------------------------------
(* The inserting goroutine *)

\* flush returns at once when there is nothing to write.
StartFlush(D) == IF D = {} THEN "select" ELSE "rows"

ReceiveBatch(r) ==
  LET D == Accumulate(acc[r], Head(chan[r]))
  IN /\ life[r] # "down" /\ ipc[r] = "select"
     /\ chan[r] # <<>>
     /\ acc' = [acc EXCEPT ![r] = D]
     /\ chan' = [chan EXCEPT ![r] = Tail(@)]
     /\ ipc' = [ipc EXCEPT ![r] = IF Full(D) THEN StartFlush(D) ELSE @]
     /\ UNCHANGED <<consumerVars, life, fpc, fbatch, tableVars, faults>>

\* The ticker flushes what is accumulated, however little it is.
DueMutant(D) == Full(D)
Due(D) == D # {}

Tick(r) ==
  /\ life[r] # "down" /\ ipc[r] = "select"
  /\ Due(acc[r])
  /\ ipc' = [ipc EXCEPT ![r] = StartFlush(acc[r])]
  /\ UNCHANGED <<consumerVars, life, fpc, fbatch, chan, acc, tableVars, faults>>

\* The channel is closed and empty: one last flush, then the goroutine returns.
ChannelClosed(r) ==
  /\ life[r] # "down" /\ ipc[r] = "select"
  /\ fpc[r] = "closed" /\ chan[r] = <<>>
  /\ ipc' = [ipc EXCEPT ![r] = IF acc[r] = {} THEN "done" ELSE StartFlush(acc[r])]
  /\ UNCHANGED <<consumerVars, life, fpc, fbatch, chan, acc, tableVars, faults>>

InsertAnchors(r) ==
  /\ ipc[r] = "rows"
  /\ audit' = audit \cup AnchorKeys(acc[r])
  /\ ipc' = [ipc EXCEPT ![r] = AfterRows]
  /\ UNCHANGED <<consumerVars, life, fpc, fbatch, chan, acc, findings, faults>>

\* A failed insert may have stored any part of its rows; one of a cancelled
\* process fails by itself.
InsertAnchorsFails(r, K) ==
  /\ ipc[r] = "rows"
  /\ AnchorKeys(acc[r]) # {} /\ K \subseteq AnchorKeys(acc[r])
  /\ Fault(IF Cancelled(r) THEN 0 ELSE 1)
  /\ audit' = audit \cup K
  /\ ipc' = [ipc EXCEPT ![r] = AfterRowsError]
  /\ UNCHANGED <<consumerVars, life, fpc, fbatch, chan, acc, findings>>

InsertFindings(r) ==
  /\ ipc[r] = "findings"
  /\ findings' = findings \cup FindingKeys(acc[r])
  /\ ipc' = [ipc EXCEPT ![r] = AfterFindings]
  /\ UNCHANGED <<consumerVars, life, fpc, fbatch, chan, acc, audit, faults>>

InsertFindingsFails(r, K) ==
  /\ ipc[r] = "findings"
  /\ FindingKeys(acc[r]) # {} /\ K \subseteq FindingKeys(acc[r])
  /\ Fault(IF Cancelled(r) THEN 0 ELSE 1)
  /\ findings' = findings \cup K
  /\ ipc' = [ipc EXCEPT ![r] = "nak"]
  /\ UNCHANGED <<consumerVars, life, fpc, fbatch, chan, acc, audit>>

\* One message of the batch is answered; with the last one the batch is reset
\* and the goroutine is back in its select.
Answered(r, d) ==
  /\ d \in acc[r]
  /\ acc' = [acc EXCEPT ![r] = @ \ {d}]
  /\ ipc' = [ipc EXCEPT ![r] = IF acc[r] = {d} THEN "select" ELSE @]
  /\ UNCHANGED <<life, fpc, fbatch, chan, tableVars>>

Ack(r, d) == ipc[r] = "ack" /\ Answered(r, d) /\ AckEffect(d.msg) /\ UNCHANGED faults
Nak(r, d) == ipc[r] = "nak" /\ Answered(r, d) /\ NakEffect(d.msg) /\ UNCHANGED faults

\* The answer never reaches the server: Ack and Nak errors are only logged.
AnswerLost(r, d) ==
  /\ ipc[r] \in {"ack", "nak"}
  /\ Answered(r, d)
  /\ Fault(1)
  /\ UNCHANGED consumerVars

-----------------------------------------------------------------------------
(* The process *)

Fresh(r) ==
  /\ fpc' = [fpc EXCEPT ![r] = "top"]
  /\ fbatch' = [fbatch EXCEPT ![r] = {}]
  /\ chan' = [chan EXCEPT ![r] = <<>>]
  /\ ipc' = [ipc EXCEPT ![r] = "select"]
  /\ acc' = [acc EXCEPT ![r] = {}]

\* SIGTERM or SIGINT cancels the context.
Stop(r) ==
  /\ life[r] = "running"
  /\ Fault(1)
  /\ life' = [life EXCEPT ![r] = "stopping"]
  /\ UNCHANGED <<consumerVars, fpc, fbatch, chan, ipc, acc, tableVars>>

\* Run waits for both goroutines, then the process exits.
Exit(r) ==
  /\ life[r] # "down" /\ fpc[r] = "closed" /\ ipc[r] = "done"
  /\ life' = [life EXCEPT ![r] = "down"]
  /\ Fresh(r)
  /\ UNCHANGED <<consumerVars, tableVars, faults>>

Crash(r) ==
  /\ life[r] # "down"
  /\ Fault(1)
  /\ life' = [life EXCEPT ![r] = "down"]
  /\ Fresh(r)
  /\ UNCHANGED <<consumerVars, tableVars>>

Restart(r) ==
  /\ life[r] = "down"
  /\ life' = [life EXCEPT ![r] = "running"]
  /\ UNCHANGED <<consumerVars, fpc, fbatch, chan, ipc, acc, tableVars, faults>>

-----------------------------------------------------------------------------
(* The server and the network *)

PublishMessage(m) == Publish(m) /\ UNCHANGED <<replicaVars, tableVars, faults>>

\* AckWait passes: expected for a delivery nobody holds any more, a
\* disturbance when its holder is merely slow.
Expire(m) ==
  /\ ExpireEffect(m)
  /\ Fault(IF LatestHeld(m) THEN 1 ELSE 0)
  /\ UNCHANGED <<replicaVars, tableVars>>

\* The server hands out a message and the connection drops it.
DeliveryLost(m) ==
  /\ MayDeliver({m})
  /\ Deliver({m}, {})
  /\ Fault(1)
  /\ UNCHANGED <<replicaVars, tableVars>>

Discard(m) ==
  /\ DiscardEffect(m)
  /\ Fault(1)
  /\ UNCHANGED <<replicaVars, tableVars>>

-----------------------------------------------------------------------------
Fetching(r) ==
  \/ FetchLoop(r)
  \/ \E M \in SUBSET Waiting : \E A \in SUBSET M : FetchMessages(r, M, A)
  \/ FetchTimeout(r)
  \/ FetchError(r)
  \/ SendBatch(r)
  \/ SendAborted(r)

Inserting(r) ==
  \/ ReceiveBatch(r)
  \/ Tick(r)
  \/ ChannelClosed(r)
  \/ InsertAnchors(r)
  \/ \E K \in SUBSET AnchorKeys(acc[r]) : InsertAnchorsFails(r, K)
  \/ InsertFindings(r)
  \/ \E K \in SUBSET FindingKeys(acc[r]) : InsertFindingsFails(r, K)
  \/ \E d \in acc[r] : Ack(r, d) \/ Nak(r, d) \/ AnswerLost(r, d)

Process(r) == Stop(r) \/ Exit(r) \/ Crash(r) \/ Restart(r)

Server(m) == PublishMessage(m) \/ Expire(m) \/ DeliveryLost(m) \/ Discard(m)

Next ==
  \/ \E r \in Replica : Fetching(r) \/ Inserting(r) \/ Process(r)
  \/ \E m \in Msg : Server(m)

Spec == Init /\ [][Next]_vars

(***************************************************************************)
(* Fairness: a goroutine that can proceed does, the ticker ticks, the      *)
(* process is started again, and AckWait passes for a delivery nobody      *)
(* holds.  A pull request may time out as often as it likes, but one that  *)
(* is made again and again while messages wait is served in the end        *)
(* (strong fairness of FetchMessages).                                     *)
(***************************************************************************)
Served(r) == \E M \in SUBSET Waiting : FetchMessages(r, M, {m \in M : Empty(m)})

Answering(r) == \E d \in acc[r] : Ack(r, d) \/ Nak(r, d)

Fairness ==
  /\ \A r \in Replica :
       /\ WF_vars(FetchLoop(r)) /\ WF_vars(FetchTimeout(r)) /\ SF_vars(Served(r))
       /\ WF_vars(SendBatch(r)) /\ WF_vars(SendAborted(r))
       /\ WF_vars(ReceiveBatch(r)) /\ WF_vars(Tick(r)) /\ WF_vars(ChannelClosed(r))
       /\ WF_vars(InsertAnchors(r)) /\ WF_vars(InsertFindings(r)) /\ WF_vars(Answering(r))
       /\ WF_vars(Exit(r)) /\ WF_vars(Restart(r))
  /\ \A m \in Msg : WF_vars(PublishMessage(m)) /\ WF_vars(~LatestHeld(m) /\ Expire(m))

FairSpec == Spec /\ Fairness

-----------------------------------------------------------------------------
(* Properties *)

StoredIn(table, i) == \E k \in table : k[1] = i

AnchorsStored(m) == \A i \in Anchors[m] : StoredIn(audit, i)
FindingsStored(m) == \A i \in Findings[m] : StoredIn(findings, i)

\* At-least-once storage, across replicas, partial writes, crashes and
\* redeliveries: a message is settled only when every row and every finding it
\* holds is in its table (flush acknowledges after write, consume.go:213-253).
AckedStored ==
  \A m \in Msg : mstate[m] = "acked" => AnchorsStored(m) /\ FindingsStored(m)

\* The invariant behind AckedStored.  While a batch is being answered, or its
\* findings written, what must be stored already is; and only published
\* messages travel through a replica.
WrittenBeforeAnswer ==
  \A r \in Replica : \A d \in acc[r] :
    /\ ipc[r] \in {"findings", "ack"} => AnchorsStored(d.msg)
    /\ ipc[r] = "ack" => FindingsStored(d.msg)

Published(D) == \A d \in D : mstate[d.msg] # "unborn"

HeldPublished ==
  \A r \in Replica :
    /\ Published(fbatch[r]) /\ Published(acc[r])
    /\ \A k \in 1..Len(chan[r]) : Published(chan[r][k])

\* Inductive: each step keeps it, and it implies AckedStored (consume.go:213-261).
IInv == TypeOK /\ WrittenBeforeAnswer /\ HeldPublished /\ AckedStored

\* write stores rows before findings (consume.go:255-261): a finding never
\* shows up for a message whose audit rows are not all there.
FindingsAfterAnchors ==
  \A m \in Msg : (\E i \in Findings[m] : StoredIn(findings, i)) => AnchorsStored(m)

\* The places of a replica: the accumulator, the slots of the channel, the batch.
Index(r) == 0..Len(chan[r]) + 1

Part(r, k) == IF k = 0 THEN acc[r] ELSE IF k <= Len(chan[r]) THEN chan[r][k] ELSE fbatch[r]

Latest(m) == [msg |-> m, num |-> dcount[m]]

\* The two goroutines neither lose nor duplicate a delivery between Fetch and
\* the answer: without a disturbance, each in-flight message is in exactly
\* one place of one replica (Run, consume.go:31-69).
Places(m) == UNION {{<<r, k>> : k \in {j \in Index(r) : Latest(m) \in Part(r, j)}} : r \in Replica}

Conserved ==
  \A m \in Msg : (faults = 0 /\ mstate[m] = "inflight") => Cardinality(Places(m)) = 1

\* The memory of a replica is bounded whatever the backlog: the threshold, one
\* batch beyond it, the channel and the batch waiting for room.
MaxMessageRows == Max({Cardinality(Anchors[m]) + Cardinality(Findings[m]) : m \in Msg} \cup {0})

HeldRows(r) == Cardinality(UNION {{k} \X RowsIn(Part(r, k)) : k \in Index(r)})

MemoryBounded ==
  \A r \in Replica :
    HeldRows(r) <= (InsertRows - 1) + (Pipeline + 2) * Batch * MaxMessageRows

\* The replicas together implement AtLeastOnce.
StoredItems == {k[1] : k \in audit \cup findings}

StatusOf(s) == CASE s = "unborn" -> "absent"
                 [] s = "acked" -> "done"
                 [] s = "gone" -> "gone"
                 [] OTHER -> "pending"

Status == [m \in Msg |-> StatusOf(mstate[m])]

HoldsOf == [m \in Msg |-> Anchors[m] \cup Findings[m]]

Promise == INSTANCE AtLeastOnce
  WITH Holds <- HoldsOf, status <- Status, stored <- StoredItems

\* What the audit consumer promises, whatever its replicas and goroutines do:
\* storing is never undone and settling follows storing.
ImplementsPromise == Promise!Spec

\* No message is stuck: when disturbances cease each published message ends
\* acknowledged or dropped by the stream, although MaxAckPending may stop new
\* deliveries below InsertRows and only the ticker then makes progress.
Settled == \A m \in Msg : (mstate[m] = "waiting") ~> (mstate[m] \in {"acked", "gone"})

\* A cancelled process, or one whose Fetch failed, always ends: neither
\* goroutine waits for the other for ever (Run, consume.go:56-69).
ShutdownCompletes ==
  \A r \in Replica : (life[r] = "stopping" \/ fpc[r] = "closed") ~> (life[r] = "down")
=============================================================================
