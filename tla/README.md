# Verification of fluss-go

TLA+ models of fluss-go, a Go client for Apache Fluss. The modules follow the
code under `src/`; TLC checks them on small instances and TLAPS proves most of
the safety properties for every value of the constants. `PROJECT.json` lists, for
each definition, the source lines it models, the runs, the mutants (plausible
bugs that each property is known to catch), the findings, the hazards and the
theorems.

## The system

A `Client` keeps one connection per server. Everything above it is a client-side
object with goroutines of its own.

| Part | Source | What it does |
| --- | --- | --- |
| transport connection | `internal/transport/connection.go` | concurrent requests on one socket: slots, IDs, framed writes, a read loop, one-time failure |
| coalescer | `pkg/fgo/coalescer.go` | callers of one key share an operation that is canceled when the last of them leaves |
| connection manager | `connection_manager.go` | cached and coalesced connections, removal of failed ones, bounded retry, Close |
| opening a connection | `client.go`, `client_auth.go`, `auth.go` | version negotiation, server type, authentication exchange |
| routing, partitions | `client_routing.go`, `metadata*.go`, `partition.go` | cached bucket leaders, coalesced refresh, reroute, creation of partitions |
| append writer | `log_writer.go`, `append_writer_*.go`, `write_future.go` | batching, one request per bucket, Flush and Close barriers |
| upsert writer | `kv_writer.go`, `upsert_writer_*.go` | the same for keyed rows, with target columns and pressure delay |
| idempotent retry | `writer_retry.go`, `errors.go` | sequences, attempts, duplicate answers, poisoned buckets |
| lookuper | `lookup*.go` | batched point and prefix lookups by a pool of workers |
| log scanner | `log_scanner*.go` | Poll over subscribed buckets, Wakeup, bounds |
| batch scanner | `batch_scanner*.go` | KV scan sessions, limit scans, snapshots |
| security tokens | `security_token.go` | periodic renewal and publication to receivers |
| remote files | `remote_*.go`, `adapters/`, `internal/storageadapter` | bounded concurrent downloads with retries |
| schemas, rows, batches | `model.go`, `logical_type.go`, `row_*.go`, `record_batch.go`, ... | what the bytes mean, also when the schema evolves |
| buckets, predicates | `bucket.go`, `predicate.go` | hash and modulus; filters for the server |
| administration | `pkg/fadm` | one request or a few per operation |
| messages | `pkg/fmsg` | fields, API keys and versions |

A write passes through `AppendWriter` (which batch, when), then the retry loop
(which attempt), `RequestBucket` (which server), the connection manager (which
connection) and the connection (which frame). The modules follow this layering:
each abstracts the layer below it to the outcomes that the module of that layer
establishes.

## Modules

### Writing

`BucketLog` is the abstract promise of a writer for one bucket: batches enter the
log in the order of acceptance, success is reported only for what is in the log,
and after a failure the bucket accepts nothing.

`BucketSequence` is what the code does for one bucket. `submitted`, `taken`,
`sequence` and `poisoned` are the loop's `pending`, `sequences` and `poisoned`
entries; `phase`, `attempt` and `rerouted` are the `executeBatch` goroutine in
`executeWriterAttempts` and `RequestBucket`. The network (`net`) delays, reorders
and loses requests and loses responses; the tablet server is external and
appends a batch only with the sequence it expects. `ImplementsBucketLog` maps it
onto `BucketLog`.

`AppendWriter` is the scheduler. The fields of `appendWriterLoop`, the futures and
the slots are the record `w`, and the loop's methods (`add`, `flushBuckets`,
`dispatch`, `queueAll`, `armTimer`, `handleCompletion`) are operators on it,
composed as in the code. Callers of Append, AppendArrow, Flush and Close are
processes that take the slot, `appendMu` and a place in `commands` one after the
other. Inside `executeBatch` only the outcome is kept; that success means the
batch is in the log is what `BucketSequence` shows. `flushBuckets` handles all
buckets of a `queueAll` at once; `QueueAllInOrder` in `MCAppendWriter` states that
this equals the code's loop.

`UpsertWriter` is the scheduler of the primary-key writer. It differs in what may
share a batch (`compatibleBatch`: mutations with the same target columns), in the
delay that the server's pressure puts before a bucket's next request, and in the
offsets.

### Connections

`Connection`: each `Request` takes a slot, registers, waits for `writeMu`, arms the
hook of its context, writes, finishes, waits and unregisters. `fail` is two steps
(taking the pending requests under `mu`; closing the socket and completing them),
since other goroutines run between them. The wire records whole and torn frames.

`Coalescer`: `Do` (join or start), `Claim`, `GiveUp` (the `ctx.Done` branch with
`releaseLocked`), `Run` (the end of `run`) and `CloseFlights`, for one key.

`ConnectionManager` extends `Coalescer`: the operation of shared call n is
`openManagedConnection`, in the steps at which it takes `m.mu`, and `request` is a
process with `getNode`, use, removal and backoff. Close is three steps, as in the
code. The transport below is abstracted to a connection that works, breaks or is
shut.

`Session` is what `open` does: the versions, the server's type, and the exchange of
tokens and challenges with an authenticator and a server that answer anything
their interfaces allow. `Protocol` and `Messages` hold the API registry and the
messages with the presence of their fields.

`Router`: one bucket of a table or of its partition, whose leader moves; requests
that are routed by the cache and rerouted once, refreshes that callers share,
invalidation, and `ensure`, which creates a partition and waits until it is visible.
A flight here is what `Coalescer` promises: one per key, canceled when its last
waiter leaves, but possibly finishing all the same.

### Reading

`LogScanner`: Poll copies the positions (`BeginPoll`), fetches bucket by bucket
(`BucketFetched`, `BucketEmpty`, `BucketInterrupted`) and looks at `done` after each
(`NextBucket`). The positions of fetched batches (`fetchedBatchOffsets`), the
filtered end offset, the row limit and the stopping offsets are computed as in the
code; rows are the set of their offsets. The history variables `period`, `since`, `returned` and `dropped` say which
record went where.

`Lookuper`: calls enqueue their keys and await them one by one; the scheduler
goroutine groups keys by mode and bucket and hands groups to workers at the size
limit or the timer; workers drop the tasks whose callers left, send, retry and
complete.

`BatchScanner`: goroutines that Poll under `pollMu`, one that calls Close, and the
server with its session, call sequence and lost answers.

`SecurityTokens`: the goroutine that acquires, publishes to receivers, sleeps and
renews, with callers of Start, Stop and Current and receivers that return, fail,
hang or stop the manager from inside the callback. Time is relative: a token is
the time it has left.

`RemoteFiles`: the plan of a read (order, gaps, limits), jobs started in order
within the limits on reads and bytes, retries, the join, and the adapters' reads of
a range with the classification of their errors.

### Data and remote operations

`Schemas`, `RowCodec` and `RecordBatches` hold the data model and its bytes:
validation, the JSON of a schema with its field IDs, Arrow schemas, the compacted,
indexed and nested encodings of every type, log and KV batches. `Codecs` is the
machine that encodes, cuts or extends the bytes and decodes. `TableData` is a
table whose schema evolves, written through Append, AppendArrow, Upsert,
PartialUpsert and Delete and read through scans, lookups and limit scans; it uses
`Bucketing`, the hash on 32-bit words.

`AdminRequests`, `DataRequests` and `Predicates` give for every remote operation the
checks before anything is sent, the message, and what is made of the answer.
`FlussServer` is the external server, written from the message definitions alone,
and `FlussService` the contract: the effect of a call and the value it returns, in
the terms of the Go API. `RemoteCalls` puts a `Session`, the requests and the server
together, over a network that loses requests and answers and next to other
clients, and implements `FlussService`.

### Compositions

The `MC*` modules hold the data of the instances. `MCUpsertWriter`,
`MCConnections`, `MCReads` and `MCWire` put parts that share no state next to each other: `which` names the part
that is in use, the others rest in an initial state, so that the run asks the same
of each part as a run of its own would.

## Runs

| Run | Instance | Shows |
| --- | --- | --- |
| writer_order | 3 sticky rows and an Arrow batch, 2 buckets, 1 request, 2 slots, Flush, timer | no bucket is held up or stranded by another, offsets count rows, each bucket implements `BucketLog` |
| writer_lifecycle | 2 rows, Flush, 2 Closes, 1 slot, cancellations | barriers hold, Close drains, both Closes agree, every call ends |
| upserts_and_retries | upserts: 2 upserts, 1 partial upsert, Flush, 2 Closes, pressure delays, retries; batches: 4 of one bucket, 2 attempts | one set of target columns per request, mutations applied in the order of the calls, Close skips delays; batches are logged in order and once each, every batch completes, `BucketSequence` implements `BucketLog` |
| connections | connection: 2 requests, one cancelable, IDs about to wrap, faults; coalescer and manager: 2 callers, 2 attempts, 4 operations | answers reach their own request, a cancellation harms nobody else, no shared result is lost, a late failure report keeps the replacement, Close ends everything |
| router | 2 requesters, 1 creator, 2 elections, 1 fault, 2 attempts | a request is applied once, an ensured partition exists, stale routes heal |
| reads | log scan: 2 buckets, stopping offsets inside a batch and among filtered records, row limit 4; lookups: 2 calls, 4 keys; batch scan: 5 rows, 2 pollers; tokens: 2 receivers, 2 stoppers; jitters below and above the whole lifetime; files: 9 reads, one of them an empty snapshot, 4 adapters | nothing skipped, nothing twice, own values, exact scans, no session left, receivers agree, renewal in time, all bytes or none; scans, lookups, Stop and reads end |
| wire | every operation, up to 3 calls; 3 schemas, 4 table kinds, 3 records; values at the edges of every type | only authenticated connections are used, every operation implements its contract, reads find the latest value, scans are faithful, rows and schemas survive their encodings, opening ends |

Five runs end in a violation; each states what a document or comment of the
repository says and shows that the code does otherwise.

| Run | Finding |
| --- | --- |
| connection_partial_frame | between a torn frame and `fail`, a request that waits for `writeMu` writes its frame behind the torn one |
| connection_manager_leak | an abandoned open and its replacement both publish a connection; the first is never closed |
| log_scanner_wakeup | a Poll interrupted at its second bucket drops the records of the first, whose position has moved |
| remote_calls_recreate | the schema cache knows a table by its path: a table dropped and created again is loaded with the old columns |
| arrow_required_null | `evolveArrowBatch` does not look at nulls: an Arrow log scan delivers a null in a column that the reader's schema requires, where `docs/schema-evolution.md:17` promises `ErrInvalidSchema` |

## Bounds

The bounds are the smallest at which the interleavings in question occur. Two
buckets and a limit of one request show independence and the limit; a third batch
behind a failed one shows poisoning, a fourth what is submitted afterwards; two
attempts leave a delayed copy on its way. `MaxID` stands for 2^31 - 1 and the IDs
start where they wrap; it is at least the number of requests, as reuse within the
life of a request takes 2^31 others. Two callers of the coalescer give an owner
and a joiner or a successor; `MaxCalls` exceeds what two callers with two attempts
can start. Two elections give a stale route and one that is stale again after it
was refreshed. The row limit of 4 is above the three records within the stopping
offsets, so that scans end by either bound; `MaxChanges` bounds the calls of
Subscribe and Unsubscribe, one during a fetch and one after it. Five rows in
batches of two leave a last batch that is not full. `MaxFailures` is where the
backoff of the token manager reaches its limit. Three calls are one that loads,
one of another client, and one that loads again. `MaxInt32` stands for 2^31 - 1 in
the requests. The theorems below hold without these bounds.

Deadlock checking is off where a system legitimately comes to rest: when all
requests have returned, or a scanner is closed or done.

## Fairness

Goroutines that can run do run: this is Go's scheduler, and where a wait has
several outcomes only one of them is assumed to come. In `BucketSequence` the
loop and its `executeBatch` goroutine go on (`LoopOrAttemptStep`): the request
deadline ends every attempt sequence, so an attempt need not be answered. In `Connection` neither the server nor a blocked write is fair. In
`Coalescer` and `ConnectionManager` an operation ends only once its context is
canceled, and a request fails only once its connection is shut. In `LogScanner` a
fetch returns only when canceled; for `ScanCompletes` fetches that are repeated
for ever also succeed again and again, and Wakeup is not called for ever. In
`Router` the coordinator answers, with any outcome, and a bucket that exists gets a
leader. In `SecurityTokens` a
receiver may hang for ever; only the goroutine itself is fair. In `RemoteFiles`
a read that was canceled returns (`ReadEnds` assumes it of the reader, which gets
the context), and backoffs end. In `Session` every exchange ends, by an answer or by
the context of `open`, but what is answered is free: it is the limit on the steps
that ends an exchange of challenges without end.

## Proofs

Every theorem holds for all values of the constants that satisfy the module's
assumption (`ConfigAssumption`, `ConnectionAssumption`, ...), which says no more than
that limits are positive, sets of processes finite and their members distinct, and
what the code's option checks guarantee. Where a run checks the property as well,
its name is given in parentheses. None of the properties is inductive as it
stands; each section names what had to be added and why.

### BucketSequenceProofs: one bucket

`TypeCorrect`, `OrderedLog` (`LogInOrder`), `AckedBatches`, `Poisoning`, `StableResults`
and `Refinement` (the safety part of `ImplementsBucketLog`), for any number of batches
and attempts. `IInv` adds that every request on its way carries the sequence of its
own batch (`NetInv`), that `sequence` counts the acknowledged batches (`LoopInv`,
`ResultInv`), and that the log is at most one batch ahead of it (`LogInv`). A delayed
copy therefore carries a sequence that is either current or already in the log.

### AppendWriterProofs and AppendDeliveryProofs: scheduling, Flush and Close

`ActiveRequests` and `NothingStranded` (`WorkConserving`) rest on `SchedInv`, which is
about the loop's state alone: each operator of the loop has a lemma that it keeps
it, and `DispatchSched` carries the argument, that dispatch starts idle buckets only
and stops exactly at the limit or when nothing is ready.

`FlushWaits` (`FlushBarrier`) and `Drained` (`CloseDrains`) rest on `DeliveryInv`, which
follows an append from its call to its future: what was accepted and not taken by
the loop is in `commands`, in the order of acceptance (`QueueInv`), and what was taken
and has no result is in an open batch, a pending one or with a running goroutine
(`HeldInv`). While the loop works for a Flush or Close no batch is open (`LoopInv`), so
when nothing is pending or running every earlier append has its result
(`BarrierInv`). `LockInv` says that nothing is accepted after a Close.

### UpsertWriterProofs: mutations in order

`OneTargetPerRequestHolds` (`OneTargetPerRequest`), `AppliedInOrderHolds`
(`AppliedInOrder`) and `AcknowledgedOffsetsHolds`, for any calls, buckets, limits and
batching. The last says that an acknowledged mutation is in the changelog of its
bucket. The writer computes its offset from the end of the log, minus the mutations
of the batch, plus its index; the server adds any number of changelog entries for a
mutation (none, one, or the before and after image of an update). So the theorem
claims the reported offset only of a mutation that added one entry, as did those
behind it in its batch; what all others added does not matter. `UpsertInv` (`UpsertInvariance`) follows a mutation from the commands
channel to the log. The batches of a bucket stand in line: the requests by their
sequence, then what is pending, then the open batch. A mutation enters at the end of
the line and keeps its place (sequence and index) until a failure cuts off the line
behind the requests that were sent.

- `RequestInv`: one request of a bucket executes, with the bucket's current sequence,
  and no two requests that were sent share a sequence. Without it a late request could
  put a second batch in the place of the first.
- `BatchInv`: what shares a batch has the same target columns and fits the limits.
- `OrderInv` and `HeldInv`: a mutation in line has before it those accepted earlier for
  the bucket whose context had not ended, and one that was taken is in line unless its
  context ended or the bucket is poisoned.
- `LogInv`: batch k of the log was sent with sequence k - 1, and its mutations lie
  in the changelog one after the other (`Spread`). `AnswerInv`: a request that was
  answered is in the log at its sequence.

`sumOf` (behind `bytesOf` and `entriesOf`) and `mutationsIn` are recursive functions. What they compute is established by
a least index at which it would fail, for the existence of the function and again for
each fact about it.

### ConnectionsProofs: one connection, shared operations

Of one connection, `OwnAnswer` (`Correlated`), for any number of requests: the IDs
handed out so far are 1 .. K, or MaxID and 1 .. K - 1 where they wrap (`CountInv`), so
no two requests have the same, and entries, frames and replies carry the ID of
their own request (`CarryID`). It needs `MaxID >= Cardinality(Requests)`, which stands for 2^31 - 1.
`CanceledAlone` (`CancellationIsLocal`) and `OwnDeadline`: a deadline on the shared
socket is set only by the hook of the request that holds `writeMu`, and
`FinishWrite` waits for a hook that has started (`HookInv`); so a write error without
a torn frame means that the peer or Close ended the socket (`DamageInv`).

Of the coalescer, `WaitersDecide`, `LiveValues` and `NothingLost` for any number of
callers and calls, `FlightsKeepResults` (`FlightsLoseNothing`) for the composition the
run checks. The invariant `FlightInv` says that `waiters` is the number of callers that wait for the
call, that the map's entry is the one call which is running and wanted, and where
the result of each call is: with a waiter, with a caller that took it, or with the
disposer. Without the count the decision of the last waiter says nothing about the
others. `CacheEntryKept` (`CacheKeepsLiveConnection`), about
the connection manager: a request removes the cache entry only when it names the
connection that failed it.

### ReadsProofs: routing, batch scans and lookups

- `NoReplay` (`AppliedOnce`) and `PartitionEnsured` (`EnsuredExists`), for any callers,
  attempts, elections and faults. `SentInv` says that a request that was applied has
  ended its call, and `WaiterInv` that the waiters of a flight are callers that wait
  for it, so no flight moves on a caller that has returned. `ElectedInv` says that
  every leader in the cache, in a flight or in a stray answer was elected, and
  `SeenInv` that a creator that found a route has seen one; only a bucket that exists
  has a leader.
- `EveryRowOnce` (`ScanExact`) and `SessionReleasedByClose` (`NoSessionLeft`), for any
  number of rows and polling goroutines. `MuInv` and `SessionInv` say that one
  goroutine at a time uses the session, and that client and server agree on its
  position and call sequence but for the request in flight; `ExactInv` relates the
  rows returned, lost with an error and still at the server by one position. The
  session in question is one that an answer has named to the scanner: a session
  that the server opened for a first request whose answer was lost or canceled is
  not known to Close.
- `EveryKeyItsValue` (`OwnValue`), for any calls and keys: a task that has a result has
  that of its own key (`ResultInv`), since the answer of a request is matched with the
  tasks that are left of its batch, in their order.

### RemoteReadsProofs: tokens and remote files

- `ReceiversHoldCurrent` (`ReceiversAgree`) and `RenewalKeepsUp` (`RenewsInTime`), for any
  number of receivers and any lifetime, skew, ratio and jitter. `normalized` admits
  ratios and jitters whose product exceeds one, so the claim that the loop wakes before
  the token lapses is made of each sleep whose own factor, drawn from the jitter,
  leaves the ratio below the whole lifetime. `PublishInv` says that the receivers the loop has passed hold
  the token it is about to publish, and that every publication begins with the
  first; the lemmas `RenewalDelayShort`, `JitterMonotone` and
  `FailedDelayCapped` are about the arithmetic of the delays.
- `AllBytesOrNone` (`WholeResult`), for any objects, attempts, errors and limits, and
  also for a log with nothing to fetch and for a snapshot without files, which
  `OpenSnapshot` refuses (`refused`):
  `ActiveInv` says that `active` counts the jobs that run or whose result waits in the
  channel, so the join leaves none, and `ErrorInv` that a job which ended has filled
  its part of the result or its error is known to the scheduler once it was heard
  of.

### LogScannerProofs: log scans

`NoRecordSkipped` (`NothingSkipped`), `EveryRecordOnce` (`NoDuplicates`) and
`BoundsRespected` (`WithinBounds`), for any logs, filters, row limits, stopping
offsets and any interleaving of Poll with the other calls. Two lemmas about data
come first: `FetchedRows`, that the rows a response is decoded to are exactly those
the filter lets through between the position and the next one (the recursion over
the batches is handled by a least batch at which it would go wrong), and
`BoundedRows`, that the bounds cut rows off at the end only and draw the position
back accordingly. The invariant `ScannerInv` then says that a record lies before the
position of its subscription (`BehindPosition`), and the same of the copies Poll works
with; a subscription that has not ended since is still where Poll copied it
(`BehindCopies`). This is why a late response, for a bucket that has been subscribed
anew, repeats nothing: if its position is the new one, it is what a new fetch
would have brought. `Counted` relates `delivered` to the records, and a Poll fetches
only while the limit leaves some (`PollTypes`).

### Only model-checked

- All liveness: `EveryBatchCompletes`, `EveryCallEnds`, `CloseSkipsDelays`,
  `CloseEndsRequests`, `CloseEndsAll`, `RoutingHeals`, `LogScanCompletes`,
  `LookupCallsEnd`, `StopEnds`, `ReadEnds` and `OpeningEnds`. Fairness is outside the
  prover's reach.
- `AckedIsInLog` of `AppendWriter` and its `ImplementsBucketLog`. The same promise is
  proved for one bucket in `BucketSequenceProofs`, and the corresponding one of the
  upsert writer in `UpsertWriterProofs`.
- The wire run: its codecs, message trees and predicates are recursive
  definitions, and `ImplementsService` is a refinement over these data.

## Observations

Besides the findings, which have runs, modelling met these. They concern wording
or corners of the code that no run asserts.

- Connections: a canceled request waits for `writeMu` as long as another request's
  write is blocked by a peer that does not read (`connection.go:199`). In the
  coalescer, Close and the last waiter can both dispose a result (`coalescer.go:101`
  and `:130`); no caller passes a disposer today, and `NoResultLost` and
  `ValuesAreAlive` do not depend on how often it is called. An authenticator's nil
  or empty token cannot be marshalled (`client_auth.go:21`).
- Routing: a bucket that is known but has no leader is not refreshed
  (`metadata.go:165`), while `README.md:86` speaks of recovery; `LeaderlessRouteHeals`
  states the stronger property. A routing bucket count of zero or less keeps the
  one known before.
- Writers: `MaxBuffered` counts calls, not records (`append_writer_options.go:16`,
  `docs/write-scheduling.md:25`; `BufferedRecordsBounded`). Delays are
  skipped once the loop has taken the Close (`kv_writer.go:485`), so a Close that is
  queued behind a Flush waits for the delays the Flush waits for, while
  `kv_writer.go:606` says that Close is not held for them (`CloseNotHeld`). A PartialUpsert that leaves out a NOT NULL auto-increment column is
  refused (`model.go:86`).
- Upserts: `BaseOffset` of a mutation is the log end minus the records of its batch,
  plus its index (`upsert_writer_backend.go`), which is its offset only if it and
  those behind it in the batch added one changelog entry each; an update adds two
  (`records.go:101`).
- Tokens: `normalized` accepts a ratio and a jitter whose product exceeds one (0.8 and
  0.5, say); a sleep that is stretched beyond the lifetime lets the token lapse before
  it is renewed. `RenewsInTime` is stated of the other sleeps.
- Batch scans: a session whose first answer is lost, or whose first Poll Close
  cancels, is not released by the client. A snapshot reader that returns more rows than the
  batch limit makes Poll fail and the rows are not returned again
  (`batch_scanner.go`, `pollSnapshot`).
- Log scans: the error of `projectScanArrows` cannot occur, since its columns come from a
  batch that `evolveArrowBatch` has just brought into the scanner's schema.
- Rebalance progress: `advanced.go:132` says that the partition ID "is -1 for an
  unpartitioned table", while the message has no partition ID then and
  `ListRebalanceProgress` returns 0 (`advanced.go:196`). The contract `FlussService`
  follows the code (`Reported`), and the wire run has a bucket of such a table.
- Codecs: an indexed BINARY loses trailing zeros; rendering a schema
  as JSON may assign other field IDs when it is done again (`model.go:72`;
  `FieldIDsStable`); in a schema of
  one column with field ID 0 a rename loses the values; the bytes of a decimal are
  not always the shortest; a batch without records does not advance an offset.
- Remote files: a plan whose objects are empty is refused by the object and HDFS
  adapters, and a snapshot without files by `OpenSnapshot` (`remote_snapshot.go:110`).
- Requests: timeouts wrap in int32, a lease below a millisecond is sent as 0, a
  present but empty lookup value becomes nil, and `ClusterHealthUnknown` is never
  produced.

## Not modelled

The typed facade (reflection over Go types), the protobuf and Arrow IPC bytes and
their compression, vendor storage clients and the HDFS read closer, telemetry,
generated code beyond its fields, and the repository's tools. `bootstrap`, which is
a loop over `get`, and automatic partition names from time values. The wrap of the
int32 batch sequence after 2^31 batches is an agreement with the server that the
repository does not state. In the modelled parts, setters and validation of
options, metrics and logging are left out.
