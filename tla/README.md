# placitum-logger in TLA+

A formal model of the logger and of the core of the audit search: what each part promises, the
TLC runs that check it on small instances, and the theorems the TLA+ proof system proves for every
instance. The repository's source is the reference; every definition that models code is listed with
its lines in `PROJECT.json` (`map`). Paths below are relative to the repository.

## 1. The system

`waf-logger` (`cmd/logger`) applies the ClickHouse schema, then moves records from two JetStream
streams into ClickHouse. `audit-search` (`cmd/search`) answers the panel's questions from the same
tables and from an S3 archive. Replicas of either do not talk to each other; they meet in the durable
consumer of the stream, in the tables, and in the schema lock.

| Component | State it keeps | Operations | What makes it correct |
| --- | --- | --- | --- |
| Audit consumer, `internal/consume/consume.go` | batch in hand, channel of 2 batches, accumulator | fetch, take, send, receive, tick, flush, final flush | a message is acknowledged only when all it holds is stored; no delivery is lost between the goroutines; memory is bounded; it stops when told |
| Sink, `internal/sink` | none | insert rows, findings, lines | all-or-error towards the caller, though a failed insert may have stored a part |
| Log consumer, `internal/consume/logs.go` | accumulator, time of the last flush | await the stream, fetch, flush, return | as above; every way out of the loop answers what it holds; it outlives an absent stream |
| Schema migration, `internal/migrate` | lock table, heartbeats, `schema_migrations` | lock, beat, judge stale, drop, execute, record, unlock | true records, order of effect, complete schema before consuming, progress past dead holders, exclusion |
| Process, `cmd/logger/main.go` | context, counters | start, signal, heartbeat, exit | see the two consumers; the log consumer may be gone while the process reports ready |
| Payload model, `internal/model` | none (pure) | parse of requests, inspector events, batches, log lines | every payload yields rows whose key is stable, or nothing and is skipped |
| Schema, `schema/` | sorting keys, engines | | replacing tables merge redelivered rows, `waf.log` does not |
| Search queries, `internal/query` | none | normalise, list, count, one, groups, facets, findings, logs | pages agree with the count, a ray's request is found, filters mean what they say |
| Card, `internal/query/card.go` | none (pure) | card of a ray from its rows and findings | every action and inspector of a ray shows once |
| Search API, `internal/httpapi` | none | routes, two queries at once | one error does not hide another, no answer to a gone client |
| Content windows, `internal/httpapi/content*.go` | none (pure) | window of a body, UTF-8 cut, header and argument fragments | windows tile the content, no half characters |
| Archive store, `internal/store` | configuration | read it, fetch a window from the right bucket | offsets and totals agree with the object, a broken configuration fails the start |
| Search process, `cmd/search/main.go` | configuration | start, serve, end | it starts only with an archive it can read from; requests it is answering may end with it |

How they interact: the audit consumer's goroutines share a channel and a context; `Run` closes the
channel and waits; the server redelivers what is not answered within `AckWait`; the main goroutine
exits with the audit consumer and does not wait for the log consumer; the migration finishes before
either consumer starts.

What is hard here, and hence what the properties aim at (the complete list with lines is under
`hazards` in `PROJECT.json`): a partial write followed by a negative acknowledgement, lost or late
acknowledgements, copies of one message in two replicas or twice in one batch, a batch dropped at
shutdown, `MaxAckPending` below the flush threshold, the lock that looks stale while it is being
taken, a statement executed and not recorded, the log consumer that ends while its process lives;
and for the search: pages cut before duplicates are dropped, two queries of which one cancels the
other, records and findings that are stored while they are read, windows cut inside a character or an
escape, parallel arrays, defaults that two parsers choose on their own, filters that must find what a
group or a facet counted.
The repository has no tests of its own.

## 2. The modules

| Module | What it is |
| --- | --- |
| `DurableConsumer` | the JetStream durable consumer as the code uses it; external, extended by the two consumers |
| `AuditConsumer` | the audit consumer: replicas of two goroutines each, the tables, crashes and stops |
| `AtLeastOnce` | the abstract promise of the audit consumer |
| `AuditConsumerProofs` | theorems about `AuditConsumer`: its refinement of `AtLeastOnce`, the way of a delivery through a replica and the room it takes |
| `Migrate` | the schema migration and its lock |
| `MigrateProofs` | theorems about `Migrate` |
| `LogConsumer`, `LogConsumerProofs` | the log consumer, its stream and its plain table; theorems about it |
| `FiniteFacts` | lemmas on finite sets, sequences, and what folds and recursive functions compute |
| `Payload` | what a payload is stored as: `parse` and the parsers of `internal/model` |
| `Ingest`, `IngestProofs` | messages delivered and delivered again, stored as `Payload` says, and shown; theorems about both |
| `Filters` | which rows a search asks for: normalisation, networks, `where`, groups; pure |
| `Search` | a reader who pages through a listing while rows are stored and merged |
| `Paging`, `SearchProofs` | the invariants of such a reader, stated about any table; theorems about `Search` |
| `Incident`, `IncidentProofs` | the record of a ray and the card made of it and its findings |
| `Fragments` | headers and query strings decoded from a part of them; pure |
| `ArchiveConfig` | the archive as the environment describes it; pure |
| `Content`, `ContentProofs` | an archived body, headers or query string, read window by window |
| `MCAuditConsumer`, `MCMigrate`, `MCLogConsumer`, `MCIngest`, `MCSearch`, `MCIncident`, `MCContent` | values for the constants of the runs |

How they compose: `AuditConsumer` and `LogConsumer` extend `DurableConsumer`; `Ingest` extends
`Payload`, `Search` extends `Filters` and `Paging` `Search`, `Content` extends `Fragments` and `ArchiveConfig`;
`AuditConsumer` implements `AtLeastOnce` (`Promise == INSTANCE ... WITH`). The consumers take what a
message holds as a constant; `Ingest` says what that is and takes delivery for granted. So the two
halves meet at the message: `AckedStored` says that a settled message is stored, `NeighboursKept` and
`RowPerTime` what being stored, perhaps again, means.

### DurableConsumer

A message is `unborn`, `waiting`, `inflight`, `acked` or `gone` (dropped at the stream's limits) and
carries the number of its deliveries; a *delivery* is a message with such a number. An
acknowledgement settles a message whichever delivery it answers, as in JetStream, which does not
compare delivery numbers. `MaxAckPending` stops messages that were never delivered, not redeliveries.
The order in which the server hands messages out is left free, which covers every real order.

### AuditConsumer

Per replica: `life` (running, told to stop, down), the fetching goroutine (`fpc`, `fbatch`), the
channel `chan` (batches are sets of deliveries), the inserting goroutine (`ipc`, `acc`). The tables
`audit` and `findings` are sets of sorting keys, which is what a `FINAL` read of a
`ReplacingMergeTree` returns.

`Fetch` and `take` are one action, `FetchMessages`: messages that hold nothing are acknowledged in
it, each acknowledgement possibly lost. `flush` is a sequence of actions - insert the rows, insert
the findings, answer the messages one by one - because a crash, a stop, an expiry or another replica
may come between any two. The last flush of a closed channel is the same sequence. A select with
several ready cases is a choice between actions. A failed insert stores any subset of its keys. A
delivered batch is a set and its answers come in any order; the source's order is one of them.

Left out: what the rows contain beyond identity and sorting key, logging, and the telemetry counters
(`Stats`, flow counters), which nothing in the consumers reads.

### Migrate

The lock table is `absent`, `empty`, `fresh` or `stale`; time is the action `Age`, free when no
replica beats and a disturbance otherwise. `Beat` writes into whatever lock table exists, and
`DropStale` and `Unlock` drop whatever exists, as the statements do: the table has no owner. A
statement that fails may have taken effect. A cancelled context is a failing statement. `expand`
(environment variables in the SQL) does not change control and is left out; a blank file is a file
of `Blank`.

### LogConsumer

One goroutine: `pc`, `acc`, and `ending` for the flush on the way out. `rows` counts the rows of each
line, since `waf.log` keeps duplicates. The stream is absent, present without the durable, or bound;
removing it removes its messages and the durable. The two seconds between flushes are a choice in
`due`, forced by nothing but fairness and the threshold. The audit consumer ending the process is
`Exit` or `Crash`.

### Payload and Ingest

A payload is a record with a kind; `Parse` goes through batches within batches and skips what is not
JSON, is of another kind, or lacks what a key needs. `FromRequest`, `FromInspector` and `FromLog` keep
the fields whose handling can go wrong: the defaults of phase and time, the columns of the inspectors
(Go ranges over a map, so `order` is any), rewrites folded into one object, sessions spread over
parallel arrays, markers, headers, the findings that are kept of an event and the row of an event
without any, the names and the length of log lines. `IsRequest`, `IsEvent` and `IsLogBatch` say what the
fields decode to. `parse` calls itself for the items of a batch: `Parse` is a function on `Payloads` of
which `ParseWith` is the body. A payload holds its items as bytes, so there are no more than `MaxDepth`
batches around any of them (`Nested`); `encoding/json` refuses a nest of more than 10,000. `Sorted` is
`sortStrings`, the insertion sort that takes the order of a map out of the row.

`Ingest` delivers these payloads any number of times up to `MaxDeliveries` while the clock goes on, and
has what the search makes of the columns: `Sessions` and `FrameOf` are `scan`, `RewritesOf` the card's,
`LogFacets` and `Found` the facets of the lines and the search by their names. Rows of the two replacing
tables that are equal are one; since `rev` is always 0, of rows that differ under one key any may survive,
and `RowPerTime` says that there are none.

### Filters and Search

`Filters` has what every listing shares: `Normalize` (values that are not known are dropped, lists split
and cut by `ParseList`, users trimmed and dropped by `SessionText` when too long or not printable),
`ParseCIDR` and `IpRange` on addresses of `V6Bits` bits of which IPv4 has the last `V4Bits`, `Where`, and
the keys of groups. One field stands for each way a value is compared, and one dimension of the groups
for each way its values are searched for: `verdict` for known values, `host` for equal ones, `uri` for a
text that is searched, `route` for lists, `marker` and `user` for arrays, `ip`, and `by` for what has no
parameter. The other fields of the same kind differ in their names only. A text that the code takes apart
is a sequence: a user of letters with colons and blanks among them, a route of what stands between its
separators. `SearchFor` is the search a reader of a group makes of its keys.

In `Search` the table is `copies`, how many unmerged copies each row has; a row is its sorting key, `ts`
and the rest as one number, and `Attr` is what the filters look at. A request is `Ask` (the window of
time is fixed once, by `Normalize`, for both queries), then, for incidents, `List` and `Count` in any
order (`ListReturns`, `CountReturns`), each reading the table as it is at that moment, or failing, or
ending because their context was cancelled, and `Answer`. Findings, lines and the count of groups past
the last page run one after the other (`CountStarts`). `Orders` are the results ClickHouse may return
for the ORDER BY: one where the order is total, any of several for lines of one time and for equal
groups. `ListFails` cancels the context, `CountFails` does not, as in `both`. `Dedup` works on the
address without the time, as `keyOf` does. The reader (external) asks for page after page until one is
empty, repeats a failed one, or leaves. `Insert`, `Merge` and `Tick` are what happens to the table and
the clock in between, `Exit` is the end of the search process, which does not wait for its requests.

### Incident

Rows of one node and ray. `StoreRow` and `StoreFindings` are the logger: rows and events arrive in any
order, events in parts, as a failed insert leaves them; `FindingRows` is `FromInspector`, with its cut
and the row without a code for an event without findings. The handler is `Ask`, `One`, `FindingsFor`:
two reads with other steps in between. `CardOf` joins by inspector; an inspector with findings that the
record does not name is an orphan. `ActionsOf` joins the actions of the record with the outcomes in the
findings. A phase asked for that `Normalize` does not know is dropped from the search (`Searched`), and
`One` still compares with it. `FindingsFor` reads at most `CardLimit` findings of the ray, in an order that puts frames
before requests; `CutOff` says which findings that hides. `known` remembers what was stored when the
record was read, for the properties. A frame's direction and number are one number.

Left out: geo, scores, latencies, profiles, the entry of the module itself.

### Fragments, ArchiveConfig and Content

`Fragments` decodes a part of a JSON list of headers (`ScanHeaders`, `ReadPair`, `ReadString`) or of a
query string (`ParseArgs`, `ParseArgsFragment`). A byte is a letter, and letters tell apart what the
parsers tell apart: a quote, a backslash, a digit of an escape. What writes the headers (`Json`, which
escapes quotes, backslashes, line feeds and what it writes as `\u`) is external. A part may begin inside a
string, and `ScanHeaders` cannot know it. What `HeadersShown` claims, by where a window begins:

- where a pair does (the beginning, the bracket of a pair or the comma before it): every pair that begins
  in the window is shown, the last as far as the window reaches, and nothing else, but for a bracket at
  the very end of the window;
- inside a name or a value, at its first character or at its closing quote: the rest of that string is
  shown, perhaps without the blanks and commas it begins with;
- between the two strings of a pair, or at the quote that opens one: no rest is shown;
- anywhere, unless an opening bracket is the first byte other than blanks and commas: the pairs that are
  shown are the first of those that begin in the window, in their order, never one glued to another or
  shifted.

What it leaves open is listed under the disagreements below.

`ArchiveConfig` is `FromEnv`: what a start makes of an environment, and what is disabled afterwards.

In `Content` a byte of a body is its part in UTF-8: the leading byte of a character of one to four bytes,
a byte that continues one, or one that is never valid. A reader may give a limit, an offset without a
limit, or neither (`Bare`), which `LimitOf` tells apart. `Reason` has the checks of `FetchWindow` in their
order; `Answers` is what an S3 store may do with the range: honour it and name the total, or not name
it, ignore it and send the object (`FullWindow`), or refuse it. Sums of offsets wrap at `Half`, which
stands for 2^63. `Read` is one request: `windowOf`, `FetchWindow`, `decode`; the reader (external) goes
on where the last window ended, as the answer's `offset`, `returned` and `clipped` tell it. `Disappear`
is the end of the object's time or its removal between two windows.

Left out: the signature of the requests to the store.

## 3. The runs

| Run | Instance | What it shows |
| --- | --- | --- |
| `AuditReplicas` | 2 replicas, 2 messages (row and finding; finding only), batch 2, channel 1, threshold 2, 2 disturbances | `AckedStored`, `FindingsAfterAnchors`, the inductive invariant `IInv`, refinement of `AtLeastOnce` |
| `AuditPipeline` | 1 replica, 5 one-row messages, batch and channel of size 1, threshold 2, 1 disturbance | `Conserved`: each delivery is in one place; `MemoryBounded` |
| `AuditLive` | 1 replica, 3 messages, batches of 1, channel 1, `MaxAckPending` 2 below the threshold 3, 2 disturbances | `Settled`, `ShutdownCompletes` under `FairSpec`, also for a fetch that waits at a full channel when it is told to stop |
| `MigrateReplicas` | 2 replicas, 3 files (one blank), 2 disturbances | `RecordedImpliesExecuted`, `ExecutedInOrder`, `UpImpliesComplete`, `EventuallyUp` |
| `MigrateRace` | 2 replicas, 2 files, no disturbance | violation of `MutualExclusion` |
| `LogReplicas` | 2 replicas, 2 messages (two lines; none), `MaxAckPending` 1 below the threshold 3, 2 disturbances | `AckedLogged`, `OneRowPerDelivery`, `EndsClean`, `IInv`, `SettledWhileConsuming` |
| `LogStreamRemoved` | 1 replica, 1 message, 1 disturbance | violation of `AbsentStreamAwaited` |
| `IngestShown` | 5 messages of requests, events and batches, whole and broken, up to 2 batches deep, 3 log messages, 3 inspectors, 4 deliveries, 3 times | `NeighboursKept`, `RowPerTime`, `ShownAsSent`, `FindingsMeetRecords`, `FacetsDrillDown` |
| `SearchPages` | 4 rows, two of one time and one item stored under two times, up to 2 copies, users and sources with colons, a route with separators, a uri that is part of another, 8 requests of all four listings, pages of 1 and 2, 2 changes of the table or clock | `PagesComplete`, `TotalAgrees`, `FailureTold`, `GroupsDrillDown`, `NetworksKept`, `EndsEarly`; `PagesInv`, the inductive invariants of the listing |
| `ContentWindows` | texts of up to 3 characters of 1 to 4 bytes, cut anywhere, bodies that are not text, 5 lists of headers, with escapes, brackets, blanks and commas, and one cut off, query strings, 6 environments, windows of 1 to 5 bytes, 64-bit integers shrunk to 6 bits | `NoneMissed`, `TextStaysText`, `HeadersShown`, `ParamsShown`, `DisabledOnlyUnnamed`, `ContentInv` with `InBounds` |
| `IncidentCard` | request, frame and session of a ray, up to 2 copies, 4 inspector events, a card of 2 findings | `CardComplete`, `CleanIsClean`, `OutcomesShown`, `OneFinds`, `IInv` |
| `IncidentOne` | a request and 8 frames, limit 8 as in the source | violation of `OneAnswersRequest` |

**Bounds.** `MaxFaults` bounds crashes, stops, failed inserts and fetches, lost answers and
deliveries, late expiries and discards together; two of them give every pair, e.g. a partial insert
followed by a crash, or a late expiry followed by a lost acknowledgement. Two replicas and two
messages are enough for a message to be in two places and for a batch to mix messages. In `AuditLive` the
channel holds one batch, not the two of the source: one batch in it and one at the door are the two
deliveries that may be out, so that the fetch waits at a full channel and a stop, or an expiry before it,
finds it there; a batch is dropped at shutdown and its messages settle all the same. What has no
bound is the number of steps. Where a run has 100,000s of states the size was chosen to stay within a
minute or two; the theorems do not depend on it. In `Search` two changes give an insert or a merge on
each side of a page; three rows within the window make listings of up to six stored rows, more than two
pages; addresses of 4 bits, 2 of them for IPv4, have every relation of two networks of either notation. In
`Content` three characters and windows of one, three and five bytes, with a character of four, put a cut at every place of a character, an escape
and a pair, and readers may begin beyond the end or where sums wrap around. In `Incident` the limits are
shrunk to 3 rows, 2 findings per event and 2 per card, so that each is reached, on both sides. In
`Ingest` four deliveries at three times deliver one message twice at one time and again at another, next to
a second message. The texts, lists and payloads of the instances are finite samples, chosen by what the
code tells apart; nothing is claimed of others by a run.

**Symmetry** is used where no liveness is checked: replicas in `AuditReplicas`, the one-row messages
in `AuditPipeline`.

**Deadlock** is checked for the audit consumer, which never stops for good. The log consumer may
return for good, a replica that finished migrating takes no further step of `Migrate`, a reader of a
body ends, and the deliveries of `Ingest` are bounded; those runs do not check it. Readers of `Search` and `Incident` always may begin anew.

**Fairness.** Goroutines that can proceed do; `Fetch` returns after `MaxWait` at the latest; tickers
tick; a container that is down is started again; `AckWait` runs out for a delivery nobody holds. A
pull repeated for ever while messages wait is served in the end, and two seconds do pass between two
flushes of the log consumer: these two are strong fairness. In `Search` the handler runs and a query
whose context is cancelled ends, and one that waits for another is started; a query whose context is live may hang for ever, so `EndsEarly` rests
on the cancellation. Disturbances are never fair and finite in
number, so liveness says what happens once they cease.

**Mutants.** Definitions called `...Mutant` are variants with a plausible bug (an ignored error, a
lost accumulator, an off-by-one, a reset left out, a flush only when full). Each is put in the place
of the definition it precedes to see that the property named in `PROJECT.json` notices.

### Disagreements with the documentation

- `MigrateRace`: between `CREATE TABLE` and the first heartbeat the lock counts as stale
  (`migrate.go:132-133`, `167`), so a second replica drops it, takes it, and both apply the schema. The
  unconditional `DROP` of `unlock` and of the stale path can also remove a third replica's fresh lock.
  `README.md:57-58` promises that a lock keeps replicas from racing. The theorems of `MigrateProofs`
  say why this is mostly harmless: truth, order and completeness do not need the lock. What it costs
  is statements executed, and files recorded, twice.
- `LogStreamRemoved`: `INSTALL.md:37-38` says the log subscription waits for an absent `WAF_LOG`; it
  does so until the first subscription only. After that a Fetch error ends it while the process, and
  its heartbeat, go on.
- `IncidentOne`: asked for a ray without a phase, `One` looks for the request row among the eight newest
  rows (`query.go:653-686`); eight frames of a WebSocket hide it, and the answer, the card and the
  contents are those of a frame. `README.md:44` says the route answers "one request with its phases".

Stated by the properties themselves, as exceptions that say exactly how far:

- Redelivered log lines are stored again in the plain `MergeTree` of `waf.log` (`OneRowPerDelivery`).
- A request or an event without a parsable `ts` is stamped when it is parsed (`row.go:253-256`,
  `finding.go:104-107`), and `ts` is in the sorting key: redelivered, it is a row for each time it was
  parsed at (`RowPerTime`), where `README.md:30` speaks of one row per phase or frame.
- `INSTALL.md:74`, "A broken archive configuration fails the start", holds but for a kind of content
  whose bucket is not named (`DisabledOnlyUnnamed`).
- A filter whose values cannot be parsed is no filter and widens the search (`NetworksKept`); `var=x=`
  matches rows without `x`.
- The search made of the keys of a group is not always the group (`GroupsDrillDown`, with `Survives` and
  `IsPlain`). It misses rows where a route has separators, since the parameter is a list
  (`query.go:454-474`), where a user has a blank at an end (`query.go:300-308`), and where a source has a
  colon, since it is split at the first one (`query.go:310-316`). It finds more rows where the group has a
  `uri`, a value that is looked for within others and regardless of case (`query.go:760-763`), or a `by`,
  which no parameter names (`audit.go:32-66`); where the value is empty, `::` or a verdict that
  `Normalize` drops; and where a user has no source, is too long or cannot be printed. In all other
  cases it finds exactly what the group counts.
- A window of headers that begins inside a pair shows the rest of that string and then ends: the pairs
  that begin later in it are shown in no window (`content_parse.go:74-75`). A window that begins with the
  closing bracket of a pair shows that bracket as text. A bracket in a string at which a window begins is
  taken for the list's or a pair's, and what follows it for pairs. `HeadersShown` claims nothing for these
  and would hold of a scanner that finds the later pairs. No doc of the repository says what such a window
  shows, hence no violation run.
- A window that is smaller than the character it begins at is shown as binary data, four bytes in the
  longest case (`content_parse.go:44-53`); `TextStaysText` is about windows with room (`RoomyText`).
- A body that ends with bytes which continue no character loses the character before them: `utf8Window`
  takes it for cut off (`content_parse.go:44-50`), and no `clipped` says so (`NoneMissed` is about bodies
  without such bytes).
- The outcome of an action is listed once for each finding of its event (`OutcomesShown`); one odd
  rewrite hides all others of a card (`ShownAsSent`); a service name with blanks around it is stored so
  and cannot be searched for (`FacetsDrillDown`).
- `cmd/search` returns without waiting for `Shutdown` (`main.go:84-99`), so requests under way end with
  the process; a reader who repeats them is served (`PagesComplete`, `TotalAgrees`).

## 4. The proofs

`AuditConsumerProofs`, for any sets of replicas, messages (finite) and items, any content and any
sizes (`ConsumerAssumption`, `ContentAssumption`, `SizesAssumption`):

- `TypeCorrect`: `Spec => []TypeOK`, action by action.
- `InductiveInvariant`: `Spec => []IInv`. `AckedStored` alone is not inductive: an acknowledgement is
  safe only because of where the inserting goroutine is. `IInv` adds `WrittenBeforeAnswer` (whoever is
  at `findings` has stored the rows of its batch, whoever is at `ack` the findings too) and
  `HeldPublished` (only published messages travel). The argument: tables only grow (`TablesGrow`), so
  what is stored stays stored; a message becomes acknowledged only when empty or by a replica at `ack`
  (`NewlyAcked`).
- `AckedMeansStored`: `Spec => []AckedStored`.
- `Refinement`: `Spec => ImplementsPromise`. The status of a message is read off the server's state,
  the stored items off the tables. Inserts, also failed ones, are `Store` (`StoresHeld` needs
  `HeldPublished`), acknowledgements are `Settle` (`Settles` needs `WrittenBeforeAnswer`), redelivery,
  crashes and everything inside a replica are stutters.
- `FindingsFollowAnchors`: `FindingsAfterAnchors`, if no two messages hold
  one finding. The assumption is needed: were a finding shared, one message's rows could be missing
  while the other stored it. A finding is of one event, so messages share one only when the event was
  published twice.

The last part of `AuditConsumerProofs` sees a replica as a conveyor: the batch, the slots of the
channel, the accumulator, numbered by `Index`. `Conserved` is not inductive for three reasons, and
`FlowInv` names them: two places could hold the same delivery (`Unique`, which needs that a new delivery
is newer than any other, `Numbered`); a batch could be overwritten by the next Fetch (`BatchToSend`); and
a message the server waits for could be nowhere (`Travelling`, which needs `Calm`, as every way out of
the conveyor but the acknowledgement is a disturbance). `OneMoves` says how a step moves the conveyor of
at most one replica, `Origins` where what is held came from, `AllKept` and `AllAwaited` that nothing is
lost undisturbed. `FlowInvariant` and `NothingIsLost` (`Spec => []Conserved`) follow.

`MemoryIsBounded` rests on `Sized`: batches are what one Fetch returns, and the accumulator is below the
threshold whenever its goroutine is ready to receive, hence at most one batch beyond it otherwise
(`Accumulates`). How many rows that is follows from the size of a union (`UnionBound` of `FiniteFacts`,
by numbering its members) and the largest message (`MessageRows`).

`MigrateProofs`, for any replicas, number of files and blank files (`MigrateAssumption`): the
invariant is the conjunction of the three properties with `TypeOK` and `Progress` (a replica in `Apply`
has everything before the file it reached behind it, and what it read as recorded was executed).
`RecordsAreTrue`, `EffectsInOrder` and `UpMeansComplete` follow. The lock does not appear in it.

`LogConsumerProofs` (`ConsumerAssumption`, `LogAssumption`): `IInv` adds to the types that batches are
finite (rows are counted), that the goroutine holds nothing before its loop and after it, and that
while it acknowledges, the lines of its batch are stored. `AckedMeansLogged` and `ReturnsClean` follow.
Removing the stream acknowledges nothing, so it does not disturb them.

`DuplicatesNeedRedelivery`, that is `OneRowPerDelivery`, needs an invariant of its own, `CountInv`: what a
goroutine holds has been handed out, no delivery is held twice, and the rows of a line are at most the
deliveries of it that nobody holds before an insert any more (`Written`). Steps are of three kinds
(`Kinds`): deliveries are dropped or answered, which only adds to `Written`; new ones are handed out,
which are counted and held at once; or some are inserted, and leave what is before an insert for good.

`SearchProofs`, for any rows, attributes, requests, limits and numbers of bits (`FiltersAssumption`,
`SearchAssumption`: the rows are finitely many, what is stored of one is finite, addresses and networks
are those of their notation):

- `FailuresAreTold`. `IInv` says where each cancellation comes from: the context is cancelled by the
  reader who left or by a List that failed; a cancelled List means the reader left; a cancelled Count
  means either. Since `both` looks at List's error first, `FailureTold` follows.
- `RowsInvariant` and `PagesInvariant`: `Spec => []PagesInv`. A page is an offset into a result whose
  order ClickHouse may choose and which changes between pages; the invariants say of a place instead
  what an offset says of a result. `Place` is the number of stored copies up to a row's last, in any
  result (`Unmerged` puts the copies of a row in a block that ends there). What is due is listed
  beyond the offset (`RowsListed`): an insert moves places on, never back, a merge moves them back,
  and so does, in ascending order, the window when it goes on, hence `Steady`. When nothing changes
  (`StillListed`), the pages, the groups by their `Rank`, and the number next to them are those of one
  table.
- `PagesAreComplete`: `Spec => []PagesComplete`, at the empty page nothing stands beyond the offset.
- `TotalsAgree`: `Spec => []TotalAgrees`, the lines shown are the offset or the number of them,
  whichever is less, and the items shown are those that were first.
- `NetworksAreKept`: `Spec => []NetworksKept`. An address is between the first and the last of
  `IpRange` exactly when both leave the same quotient by the power of two of the bits that are cleared
  (`InRange`); mapping IPv4 into IPv6 adds a multiple of it (`MappedMultiple`); what `ParseCIDRs` keeps
  of at most `MaxCIDRs` networks are all of them (`AllParsed`).
- `GroupsAreFound`: `Spec => []GroupsDrillDown`. The groups of a row are the choices of one of its values
  for each dimension (`GroupsAreChoices`), of all eight. What `Normalize` leaves of a chosen value
  (`OneListed`, `Trimmed`, `AsksFor`) finds the rows that have it wherever the value survives, and no
  other where it is plain (`OneAddress`, `JoinSplits`, `KeyOfUser`, `UserSplit`, `GroupFound`); and a page
  lists groups of the table (`GroupsListed`).

The folds these definitions are made of (`Taken`, `Dedup`, `GroupsOf`, `Copies`, `Unmerged`) and the
recursive function `Pow2` are reasoned about by lemmas of `FiniteFacts`: an induction over the numbers
for which a *set* is closed, which takes the place of the library's induction over a predicate.

`ContentProofs` (`ContentAssumption`: objects are smaller than the largest integer): `WindowsInv` says
that windows tile the object, and that offsets stay in range. The step is `AnswersFit`: whatever the store
does with the range, the answer is the part of the object at the offset. In `FullWindowFits` a sum of
offset and limit that wraps around is negative, nothing is read, and the offset is past the end of
what was read. With `Half` = 2^63 this is the statement about the program. `NeverOutOfBounds` follows.

`NothingIsMissed` and `TextIsShown` need `StaysBetween` as well: a reader who began in the object stays in
it, and one of a text who began between two characters goes on between two (`EndsBetween`). A window
cuts only what is cut off with the object (`NothingCutOff`): what `utf8Window` drops is one leading byte
with its continuation, and had it been whole, all would have been valid. A window with room for the
first character, however long, has text (`HasText`); `RoomyText` says that windows have it. `AnswersReach` says that the end is told truthfully; it needs
`RoomAssumption`, that no object comes within a window of the largest integer, since an offset near it
gets an empty answer. `InductiveInvariant` (`Spec => []ContentInv`) has all of it.

`ParamsAreShown` needs `GoesOn`: a reader goes on only with something shown, so that no window after the
first begins where the object does. `FragmentParams` says what one window is decoded to: the parameters
that begin in it, each as far as the window reaches (`PartIsCut`, `CutOfPart`), and nothing of what
began before. The windows tile the string (`WindowsFollow`), the first to reach a place is the one it is
in (`ReachedInside`), and what is flattened in pieces that tile a sequence is flattened as a whole
(`FlattenTiled` of `FiniteFacts`).

`WindowsShowHeaders` (`FragmentsAssumption`: names and values are strings of characters) is `HeadersShown`,
for any list of headers and any part of it. The parsers are functions defined downwards from the end of
the part, which exist by `DownRecursionExists` of `FiniteFacts`; the encoding is a flattened sequence of
escapes. What relates them:

- `InsideIs`: where a part goes on with an encoded string and its quote, as far as the part reaches
  (`Holds`), `Inside` returns the characters whose escapes fit (`Fit`) and where it stopped. The induction
  is over the string, with one more character in front (`InsideFront`; `SequenceInduction` of
  `FiniteFacts`), and `CharAtHeld` says what one escape is read as, whole or cut.
- `ReadPairIs`: of a pair that stands in a part, each string is read as far as it reaches, and the value
  belongs to the name.
- `PairHeld`: where the pairs of `Json(l)` stand, one after the other, with a comma between them.
- `ReadsPairs`: from every pair on, what the loop reads is what is to be shown from there on (`Ahead`), by
  going down from the last pair. `ScanPairs` adds how a part may begin: at the bracket of the list, at
  a pair, at the comma before it, or at the end.
- `ScanWhole` and `ParsedPairs`: where the part is a whole document and `json.Unmarshal` decodes it, the
  scan would have read the same pairs.
- `RestIs`: a part that begins inside a string, at an escape, is the rest of that string, but for the
  blanks and commas it begins with; again over the string (`RestFront`).
- `NoPairScanned`: a part whose first byte other than blanks and commas is no opening bracket shows no
  pair, so none that is wrong; `BetweenShown`: one that begins at a quote that opens a string, or at the
  comma before one, shows no rest.

`DisabledOnlyUnnamed` needs no invariant but the types: `ArchiveIsKnown`.

`IncidentProofs` (`IncidentAssumption`): `IInv` says that tables grow, that the findings read concern
the record, and that what was known and is not among them has `CardLimit` findings before it, which it
keeps, since tables grow (`FirstCuts`). With `CardEntries` and `CardShows`, about `CardOf`,
`CardsAreComplete` and `CleanMeansClean` follow, and `OutcomesAreShown` for the actions; all three say
"unless cut off". `OneFindsIt`: what `One` lists matches, something is listed when something matches, and
when the ray has no more rows than are read no phase and frame is missing from the list (`ListedRows`:
the rows newer than a given one are fewer than all of them).

`IngestProofs` (`PayloadAssumption`, `IngestAssumption`: inspectors are finitely many, fields decode to what
they are declared as, no two requests stand under one address), for any messages and any number of
deliveries:

- `ParseIsComplete`: for every payload, however deep, `Parse` returns the rows of all requests and the
  findings of all events within it, and an error exactly when one of them does not decode. Proved over
  the depth: payloads are a forest (`PayloadsEnd`), and a set of payloads that holds each one whose items
  it holds is all of them (`ForestInduction` of `FiniteFacts`). One level is `LeafParsed`, or `BatchParsed`
  with `ItemsJoin`, since `Join` never drops what came before an error.
- `InductiveInvariant`: `Spec => []IInv`. The properties speak of what is stored and are not inductive
  without where it came from; `StoredAsDelivered` says that what is stored is what was made of the
  messages that came, at the times they came, no more and no less. That the order in which Go ranges over
  the inspectors does not matter (`RowForgetsOrder`) makes this a set without an order in it: two sorted
  sequences of the same distinct names are equal (`SortedIs`, `SameOrder`).
- The properties follow from it by way of `RowsForAre`: the rows under the address of a request are those
  of that request. `NothingMissed` is `NeighboursKept`; `RedeliveryAddsNothing` is `RowPerTime`, rows are
  counted by their times; `SentIsShown` is `ShownAsSent`, column by column (`SessionsShown`,
  `InspectorsShown`, `RewritesShown`, `MarkersAre`, `HeadersAreShown`); `CardsFindFindings` is
  `FindingsMeetRecords`; `FacetsFound` is `FacetsDrillDown`, since a line is stored with a trimmed writer
  (`LinesOf`).

Only model-checked, and why:

- liveness under fairness, out of the prover's reach: `Settled`, `ShutdownCompletes`, `EventuallyUp`,
  `SettledWhileConsuming`, `EndsEarly`.

Every invariant that a passing run checks is also stated by a theorem.

## 5. The plan

In order of what matters most to the system, with what is left:

1. Done: `DurableConsumer`, `AuditConsumer`, `AtLeastOnce`, `Migrate`, `LogConsumer`, with theorems.
2. Done: `Search`, the listing against its count; `Incident`, the record of a ray and its card;
   `Content`, the body; with theorems.
3. Done: `Payload` and `Ingest`, from what is sent to what is shown.
4. Done: `Fragments`, the parsers of headers and query strings, and `ArchiveConfig`.
5. Done: groups, findings, lines and filters in `Search`, outcomes and the limit in `Incident`.
6. Done: the proofs of `Conserved`, `MemoryBounded`, `OneRowPerDelivery` and `OneFinds`.
7. Done: the proofs about pages, totals, networks and groups, for which the folds of `Filters` and
   `Search` got lemmas of their own.
8. Done: the proofs about characters in `Content`.
9. Done: the proofs about `Payload` and `Ingest`, with the recursion of `parse` as a function.
10. Done: the proofs about query strings and headers in `Fragments`.
11. Left: a second kind of each filter; the facets of inspectors.

## 6. Not modelled

- The heartbeat and the counters (`internal/pulse`, `internal/consume/stats.go`): nothing in this
  repository reads them, so no step depends on them; what the heartbeat claims while the log consumer is
  gone is said under `LogStreamRemoved`.
- The ClickHouse connection (`internal/ch`): the options of a client.
- Of the search: routing, JSON, the text of the SQL, geo, scores, latencies, profiles and the facets of
  inspectors, which copy or compute a column; a second field of a kind that `Filters` has.
- Of the archive: the signature of its requests.
- Of both processes: environment helpers, listening, logging; start and end are actions where
  something depends on them.

`components` in `PROJECT.json` has each part with its reason.
