----------------------------- MODULE UpsertWriter -----------------------------
(***************************************************************************)
(* The scheduler of a primary-key writer: callers of Upsert,               *)
(* PartialUpsert, Delete, Flush and Close, the loop goroutine, and one     *)
(* executeBatch goroutine per active bucket.  It differs from the log      *)
(* writer in what may share a batch (mutations with the same target        *)
(* columns), in the delay that the server's pressure puts before a         *)
(* bucket's next request, and in how offsets are computed.  The loop's     *)
(* state is one record, w.  The attempts of executeWriterRequest are       *)
(* abstracted to their outcomes, as BucketSequence establishes them.       *)
(***************************************************************************)
EXTENDS Integers, Sequences, FiniteSets, Functions

CONSTANTS
    Items,        \* calls of Upsert, PartialUpsert and Delete that are valid
    Flushers, Closers,
    Write,        \* Write[i]: the bucket, target columns and size of a mutation, and the
                  \* entries it adds to the changelog: an update may add two, the row before
                  \* and the row after
    Scenarios,    \* sets of calls that a run makes
    Cancelable,   \* calls whose context may be canceled
    NumBuckets,
    Immediate,    \* BatchTimeout = 0
    Throttles,    \* BackpressureMaxThrottle > 0
    MaxBuffered, MaxBatchRecords, MaxBatchBytes, MaxConcurrentRequests,
    None

Buckets == 1 .. NumBuckets
Barriers == Flushers \union Closers
Calls == Items \union Barriers

ASSUME UpsertAssumption ==
    /\ NumBuckets \in Nat \ {0} /\ MaxBuffered \in Nat \ {0} /\ MaxBatchRecords \in Nat \ {0}
    /\ MaxBatchBytes \in Nat \ {0} /\ MaxConcurrentRequests \in Nat \ {0}
    /\ \A i \in Items : Write[i].bucket \in Buckets /\ Write[i].size \in Nat /\ Write[i].entries \in Nat
    /\ Cancelable \subseteq Calls /\ Scenarios \subseteq SUBSET Calls /\ IsFiniteSet(Items) /\ None \notin Calls
    /\ Flushers \cap Closers = {} /\ Items \cap Barriers = {}

VARIABLES
    pc, canceled, mu, closed, closeErr, done,
    commands,  \* the commands channel, capacity MaxBuffered
    barrier,   \* the error sent to each Flush or Close, None before
    ret,       \* what each Flush or Close returned
    closing,   \* closed by the loop when it takes the close command
    loop,      \* the loop goroutine: where it is, for whom, joined error
    w,         \* the loop's state, the futures and the slots
    log,       \* the server's changelog of each bucket, as batches of mutations
    accepted   \* history: the commands in the order they were sent

vars == <<pc, canceled, mu, closed, closeErr, done, commands, barrier, ret, closing, loop, w, log, accepted>>

Open == [err |-> "open", offset |-> -1]

Init ==
    /\ \E made \in Scenarios : pc = [p \in Calls |-> IF p \in made THEN "start" ELSE "returned"]
    /\ canceled = {} /\ mu = None
    /\ closed = FALSE /\ closeErr = None /\ done = FALSE /\ closing = FALSE
    /\ commands = <<>> /\ accepted = <<>>
    /\ barrier = [p \in Barriers |-> None] /\ ret = [p \in Barriers |-> None]
    /\ loop = [pc |-> "select", call |-> None, err |-> "nil"]
    /\ w = [batches |-> [b \in Buckets |-> <<>>], pending |-> [b \in Buckets |-> <<>>],
            active |-> {}, inFlight |-> 0, sequences |-> [b \in Buckets |-> 0],
            poisoned |-> {}, throttle |-> {}, timer |-> FALSE,
            running |-> {},   \* executeBatch goroutines and their completions
            sent |-> {},      \* requests the server may receive
            slots |-> {}, result |-> [i \in Items |-> Open]]
    /\ log = [b \in Buckets |-> <<>>]

-----------------------------------------------------------------------------
(* Futures *)

\* WriteFuture.complete: the first result stays, and it frees the slot.
complete(s, items, res) ==
    [s EXCEPT !.result = [i \in Items |-> IF i \in items /\ @[i].err = "open" THEN res[i] ELSE @[i]],
              !.slots = @ \ items]

fail(s, items, err) == complete(s, items, [i \in items |-> [err |-> err, offset |-> -1]])

\* Mutant: the offsets are counted from the end of the changelog.
acknowledgeFromEnd(s, items, logEnd) ==
    complete(s, Range(items), [i \in Range(items) |-> [err |-> "nil", offset |->
        IF logEnd = -1 THEN -1 ELSE logEnd + (CHOOSE n \in DOMAIN items : items[n] = i) - 1]])

\* completeKVBatch of an acknowledged batch; logEnd = -1 when no offset is known.
acknowledge(s, items, logEnd) ==
    complete(s, Range(items), [i \in Range(items) |-> [err |-> "nil", offset |->
        IF logEnd = -1 THEN -1 ELSE logEnd - Len(items) + (CHOOSE n \in DOMAIN items : items[n] = i) - 1]])

-----------------------------------------------------------------------------
(* The methods of upsertWriterLoop *)

ready(s) == {b \in Buckets : b \notin s.active /\ s.pending[b] # <<>>}
startable(s) ==
    {b \in ready(s) : Cardinality({c \in ready(s) : c < b}) < MaxConcurrentRequests - s.inFlight}

\* dispatch: start the head of pending for every startable bucket; a bucket
\* whose pressure deadline has not passed starts with the delay.
dispatch(s) ==
    LET start == startable(s)
        request(b) == [bucket |-> b, items |-> Head(s.pending[b]), sequence |-> s.sequences[b]]
    IN  [s EXCEPT !.pending = [b \in Buckets |-> IF b \in start THEN Tail(@[b]) ELSE @[b]],
                  !.active = @ \union start, !.inFlight = @ + Cardinality(start),
                  !.running = @ \union {[request |-> request(b), end |-> -1, pressure |-> "unknown",
                                         status |-> IF b \in s.throttle THEN "delay" ELSE "run"] : b \in start}]

\* Mutant: a poisoned bucket takes further batches.
flushBucketPoisoned(s, b) ==
    IF s.batches[b] = <<>> THEN s
    ELSE dispatch([s EXCEPT !.batches[b] = <<>>, !.pending[b] = Append(@, s.batches[b])])

flushBucket(s, b) ==
    IF s.batches[b] = <<>> THEN s
    ELSE IF b \in s.poisoned THEN fail([s EXCEPT !.batches[b] = <<>>], Range(s.batches[b]), "poisoned")
    ELSE dispatch([s EXCEPT !.batches[b] = <<>>, !.pending[b] = Append(@, s.batches[b])])

\* queueAll visits the buckets in order; queueAllErr is the error it joins.
queueAll(s) ==
    LET flushTo[n \in 0 .. NumBuckets] == IF n = 0 THEN [s EXCEPT !.timer = FALSE] ELSE flushBucket(flushTo[n - 1], n)
    IN  flushTo[NumBuckets]
queueAllErr(s) == IF \E b \in s.poisoned : s.batches[b] # <<>> THEN "err" ELSE "nil"

sumOf(items, value) ==
    LET upTo[n \in 0 .. Len(items)] == IF n = 0 THEN 0 ELSE upTo[n - 1] + value[items[n]]
    IN  upTo[Len(items)]
bytesOf(items) == sumOf(items, [i \in Items |-> Write[i].size])
batchFull(items) == Len(items) >= MaxBatchRecords \/ bytesOf(items) >= MaxBatchBytes
batchFullWith(items, i) == Len(items) >= MaxBatchRecords \/ bytesOf(items) + Write[i].size > MaxBatchBytes

\* Mutant: the target columns of the open batch are not compared.
compatibleBatchAny(s, i) == s

\* compatibleBatch: an open batch with other target columns is flushed first.
compatibleBatch(s, i) ==
    LET open == s.batches[Write[i].bucket]
    IN  IF open # <<>> /\ Write[Head(open)].targets # Write[i].targets THEN flushBucket(s, Write[i].bucket) ELSE s

add(s, i, ctxDone) ==
    LET b == Write[i].bucket
        compatible == compatibleBatch(s, i)
        room == IF compatible.batches[b] # <<>> /\ batchFullWith(compatible.batches[b], i)
                  THEN flushBucket(compatible, b) ELSE compatible
        added == [room EXCEPT !.batches[b] = Append(@, i)]
    IN  IF ctxDone THEN fail(s, {i}, "ctx")
        ELSE IF batchFull(added.batches[b]) \/ Immediate THEN flushBucket(added, b)
        ELSE [added EXCEPT !.timer = TRUE]

\* A failed batch poisons its bucket and fails what is pending for it.
failedBatch(s, e, b) ==
    fail(fail([s EXCEPT !.poisoned = @ \union {b}, !.pending[b] = <<>>], Range(e.request.items), "failed"),
         UNION {Range(batch) : batch \in Range(s.pending[b])}, "poisoned")

\* A reported pressure sets or clears the delay of the bucket; none, after a
\* duplicate sequence, leaves it.
throttled(s, e, b) ==
    CASE e.pressure = "high" /\ Throttles -> s.throttle \union {b}
      [] e.pressure # "unknown" /\ ~(e.pressure = "high" /\ Throttles) -> s.throttle \ {b}
      [] OTHER -> s.throttle

handleCompletion(s, e) ==
    LET b == e.request.bucket
        ended == [s EXCEPT !.active = @ \ {b}, !.inFlight = @ - 1, !.running = @ \ {e}]
    IN  dispatch(IF e.status = "err" THEN failedBatch(ended, e, b)
                 ELSE acknowledge([ended EXCEPT !.sequences[b] = @ + 1, !.throttle = throttled(s, e, b)],
                                  e.request.items, e.end))

-----------------------------------------------------------------------------
(* The callers: enqueue, Flush and Close *)

AcquireSlot(i) ==
    /\ pc[i] = "start" /\ Cardinality(w.slots) < MaxBuffered
    /\ w' = [w EXCEPT !.slots = @ \union {i}] /\ pc' = [pc EXCEPT ![i] = "slot"]
    /\ UNCHANGED <<canceled, mu, closed, closeErr, done, commands, barrier, ret, closing, loop, log, accepted>>

\* While it waits for a slot the context ends or the writer stops.
RefuseSlot(i) ==
    /\ pc[i] = "start"
    /\ \/ i \in canceled /\ w' = fail(w, {i}, "ctx")
       \/ done /\ w' = fail(w, {i}, "closed")
    /\ pc' = [pc EXCEPT ![i] = "returned"]
    /\ UNCHANGED <<canceled, mu, closed, closeErr, done, commands, barrier, ret, closing, loop, log, accepted>>

LockItem(i) ==
    /\ pc[i] = "slot" /\ mu = None
    /\ IF closed THEN w' = fail(w, {i}, "closed") /\ pc' = [pc EXCEPT ![i] = "returned"] /\ UNCHANGED mu
                 ELSE pc' = [pc EXCEPT ![i] = "locked"] /\ mu' = i /\ UNCHANGED w
    /\ UNCHANGED <<canceled, closed, closeErr, done, commands, barrier, ret, closing, loop, log, accepted>>

\* The context ends while commands is full.
AbandonItem(i) ==
    /\ pc[i] = "locked" /\ i \in canceled
    /\ w' = fail(w, {i}, "ctx") /\ pc' = [pc EXCEPT ![i] = "returned"] /\ mu' = None
    /\ UNCHANGED <<canceled, closed, closeErr, done, commands, barrier, ret, closing, loop, log, accepted>>

\* Sending a command under appendMu; a mutation is queued, the others wait.
Send(p) ==
    /\ pc[p] = "locked" /\ Len(commands) < MaxBuffered
    /\ commands' = Append(commands, p) /\ accepted' = Append(accepted, p)
    /\ pc' = [pc EXCEPT ![p] = IF p \in Items THEN "returned" ELSE "await"] /\ mu' = None
    /\ UNCHANGED <<canceled, closed, closeErr, done, barrier, ret, closing, loop, w, log>>

Return(p, value) == pc' = [pc EXCEPT ![p] = "returned"] /\ ret' = [ret EXCEPT ![p] = value]

LockFlush(f) ==
    /\ pc[f] = "start" /\ mu = None
    /\ IF closed THEN Return(f, "closed") /\ UNCHANGED mu
                 ELSE pc' = [pc EXCEPT ![f] = "locked"] /\ mu' = f /\ UNCHANGED ret
    /\ UNCHANGED <<canceled, closed, closeErr, done, commands, barrier, closing, loop, w, log, accepted>>

\* A second Close waits for the loop to stop.
LockClose(c) ==
    /\ pc[c] = "start" /\ mu = None
    /\ IF closed THEN pc' = [pc EXCEPT ![c] = "join"] /\ UNCHANGED <<mu, closed>>
                 ELSE pc' = [pc EXCEPT ![c] = "locked"] /\ mu' = c /\ closed' = TRUE
    /\ UNCHANGED <<canceled, closeErr, done, commands, barrier, ret, closing, loop, w, log, accepted>>

\* The context ends before the command was sent: Close reopens the writer.
Abandon(p) ==
    /\ pc[p] = "locked" /\ p \in canceled
    /\ Return(p, "ctx") /\ mu' = None /\ closed' = (closed /\ p \notin Closers)
    /\ UNCHANGED <<canceled, closeErr, done, commands, barrier, closing, loop, w, log, accepted>>

Await(p) ==
    /\ \/ pc[p] = "await" /\ barrier[p] # None /\ Return(p, barrier[p])
       \/ pc[p] = "join" /\ done /\ mu = None /\ Return(p, closeErr)
       \/ pc[p] \in {"await", "join"} /\ p \in canceled /\ Return(p, "ctx")
    /\ UNCHANGED <<canceled, mu, closed, closeErr, done, commands, barrier, closing, loop, w, log, accepted>>

Cancel(p) ==
    /\ p \in Cancelable \ canceled /\ canceled' = canceled \union {p}
    /\ UNCHANGED <<pc, mu, closed, closeErr, done, commands, barrier, ret, closing, loop, w, log, accepted>>

-----------------------------------------------------------------------------
(* The loop goroutine *)

TakeItem ==
    /\ loop.pc = "select" /\ commands # <<>> /\ Head(commands) \in Items
    /\ commands' = Tail(commands) /\ w' = add(w, Head(commands), Head(commands) \in canceled)
    /\ UNCHANGED <<pc, canceled, mu, closed, closeErr, done, barrier, ret, closing, loop, log, accepted>>

\* flushAll: stop the timer, queue everything, then handle completions until
\* nothing is in flight.  The close command first releases the delayed requests.
TakeBarrier ==
    /\ loop.pc = "select" /\ commands # <<>> /\ Head(commands) \in Barriers
    /\ loop' = [pc |-> IF Head(commands) \in Closers THEN "close" ELSE "flush", call |-> Head(commands), err |-> queueAllErr(w)]
    /\ closing' = (closing \/ Head(commands) \in Closers)
    /\ commands' = Tail(commands) /\ w' = queueAll(w)
    /\ UNCHANGED <<pc, canceled, mu, closed, closeErr, done, barrier, ret, log, accepted>>

TimerFires ==
    /\ loop.pc = "select" /\ w.timer /\ w' = queueAll(w)
    /\ UNCHANGED <<pc, canceled, mu, closed, closeErr, done, commands, barrier, ret, closing, loop, log, accepted>>

HandleCompletion ==
    /\ loop.pc # "exited"
    /\ \E e \in w.running :
         /\ e.status \in {"ok", "err"} /\ w' = handleCompletion(w, e)
         /\ loop' = [loop EXCEPT !.err = IF @ = "err" \/ (e.status = "err" /\ loop.pc # "select") THEN "err" ELSE "nil"]
    /\ UNCHANGED <<pc, canceled, mu, closed, closeErr, done, commands, barrier, ret, closing, log, accepted>>

FlushDone ==
    /\ loop.pc = "flush" /\ w.inFlight = 0
    /\ barrier' = [barrier EXCEPT ![loop.call] = loop.err]
    /\ loop' = [pc |-> "select", call |-> None, err |-> "nil"]
    /\ UNCHANGED <<pc, canceled, mu, closed, closeErr, done, commands, ret, closing, w, log, accepted>>

CloseDone ==
    /\ loop.pc = "close" /\ w.inFlight = 0 /\ mu = None
    /\ closeErr' = loop.err /\ barrier' = [barrier EXCEPT ![loop.call] = loop.err] /\ done' = TRUE
    /\ loop' = [pc |-> "exited", call |-> None, err |-> "nil"]
    /\ UNCHANGED <<pc, canceled, mu, closed, commands, ret, closing, w, log, accepted>>

-----------------------------------------------------------------------------
(* executeBatch and, external, the tablet server and the clock *)

goroutineFrame ==
    UNCHANGED <<pc, canceled, mu, closed, closeErr, done, commands, barrier, ret, closing, loop, accepted>>

\* The mutations of some batches, in their order.
mutationsIn(batches) ==
    LET upTo[n \in 0 .. Len(batches)] == IF n = 0 THEN <<>> ELSE upTo[n - 1] \o batches[n]
    IN  upTo[Len(batches)]

\* The entries that mutations add to the changelog.
entriesOf(items) == sumOf(items, [i \in Items |-> Write[i].entries])

Becomes(e, f) == w' = [w EXCEPT !.running = (@ \ {e}) \union {f}]

\* Mutant: closing does not end the delay.
SkipDelayNot(e) == FALSE /\ UNCHANGED vars

\* The loop closed closing: a delayed request is sent at once.
SkipDelay(e) ==
    /\ e.status = "delay" /\ closing /\ Becomes(e, [e EXCEPT !.status = "run"])
    /\ UNCHANGED log /\ goroutineFrame

\* The delay is over.
DelayEnds(e) ==
    /\ e.status = "delay" /\ Becomes(e, [e EXCEPT !.status = "run"])
    /\ UNCHANGED log /\ goroutineFrame

\* The pressure deadline of a bucket passes before its next request.
DeadlinePasses(b) ==
    /\ b \in w.throttle /\ w' = [w EXCEPT !.throttle = @ \ {b}]
    /\ UNCHANGED log /\ goroutineFrame

\* An attempt sends the request; the server may receive it at any later time.
SendRequest(e) ==
    /\ e.status = "run" /\ e.request \notin w.sent /\ w' = [w EXCEPT !.sent = @ \union {e.request}]
    /\ UNCHANGED log /\ goroutineFrame

\* The server applies the batch that carries the sequence it expects.
ServerApply(r) ==
    /\ r.sequence = Len(log[r.bucket])
    /\ log' = [log EXCEPT ![r.bucket] = Append(@, r.items)]
    /\ UNCHANGED w /\ goroutineFrame

\* Acknowledged with the end of the changelog after the batch and the pressure,
\* or, after DUPLICATE_SEQUENCE, with neither.
ExecuteOk(e) ==
    LET r == e.request IN
    /\ e.status = "run" /\ r \in w.sent /\ r.sequence < Len(log[r.bucket])
    /\ \/ \E p \in {"unknown", "none", "high"} :
            Becomes(e, [e EXCEPT !.status = "ok", !.pressure = p,
                                 !.end = entriesOf(mutationsIn(SubSeq(log[r.bucket], 1, r.sequence + 1)))])
       \/ Becomes(e, [e EXCEPT !.status = "ok"])
    /\ UNCHANGED log /\ goroutineFrame

\* Any failure of encoding, of the attempts, of the deadline or of the answer.
ExecuteErr(e) ==
    /\ e.status = "run" /\ Becomes(e, [e EXCEPT !.status = "err"])
    /\ UNCHANGED log /\ goroutineFrame

-----------------------------------------------------------------------------
\* Every call has returned, every future is complete and the loop is idle.
Finished ==
    /\ \A p \in Calls : pc[p] = "returned"
    /\ commands = <<>> /\ w.running = {} /\ ~w.timer /\ loop.pc \in {"select", "exited"}
    /\ UNCHANGED vars

ItemStep(i) == AcquireSlot(i) \/ RefuseSlot(i) \/ LockItem(i) \/ AbandonItem(i) \/ Send(i)
BarrierStep(p) == Send(p) \/ Abandon(p) \/ Await(p) \/ (p \in Flushers /\ LockFlush(p)) \/ (p \in Closers /\ LockClose(p))
LoopStep == TakeItem \/ TakeBarrier \/ TimerFires \/ HandleCompletion \/ FlushDone \/ CloseDone
ExecuteStep(e) == SkipDelay(e) \/ SendRequest(e) \/ ExecuteOk(e) \/ ExecuteErr(e)

Next ==
    \/ \E i \in Items : ItemStep(i)
    \/ \E p \in Barriers : BarrierStep(p)
    \/ \E p \in Calls : Cancel(p)
    \/ LoopStep
    \/ \E b \in Buckets : DeadlinePasses(b)
    \/ \E r \in w.sent : ServerApply(r)
    \/ \E e \in w.running : ExecuteStep(e) \/ DelayEnds(e)
    \/ Finished

Spec == Init /\ [][Next]_vars

\* Everything keeps running, except that nothing is assumed of the pressure
\* delays: they may outlast every bound.
FairSpec ==
    /\ Spec
    /\ WF_vars((\E i \in Items : ItemStep(i)) \/ (\E p \in Barriers : BarrierStep(p)))
    /\ WF_vars(LoopStep)
    /\ WF_vars(\E e \in w.running : ExecuteStep(e))

-----------------------------------------------------------------------------
UpsertTypeOK ==
    /\ pc \in [Calls -> {"start", "slot", "locked", "await", "join", "returned"}]
    /\ commands \in Seq(Calls) /\ Len(commands) <= MaxBuffered
    /\ w.active = {e.request.bucket : e \in w.running} /\ w.inFlight = Cardinality(w.running)
    /\ w.inFlight <= MaxConcurrentRequests
    /\ w.throttle \subseteq Buckets /\ w.poisoned \subseteq Buckets
    /\ log \in [Buckets -> Seq(Seq(Items))]

Accepted(i) == CHOOSE n \in DOMAIN accepted : accepted[n] = i
Changelog(b) == mutationsIn(log[b])

\* A request carries one set of target columns: the server applies the columns
\* of the request to every mutation in it (compatibleBatch), within the limits.
OneTargetPerRequest ==
    \A r \in w.sent : /\ \A i, j \in Range(r.items) : Write[i].targets = Write[j].targets
                      /\ Len(r.items) <= MaxBatchRecords
                      /\ Len(r.items) > 1 => bytesOf(r.items) <= MaxBatchBytes

\* Mutations of a bucket, hence of a key, are applied in the order they were
\* accepted and without a gap, whatever batches they were put into: one that
\* follows a failed mutation is not applied.
AppliedInOrder ==
    \A b \in Buckets : \A i, j \in Items \cap Range(accepted) :
        /\ Write[i].bucket = b /\ Write[j].bucket = b /\ Accepted(i) < Accepted(j)
        /\ j \in Range(Changelog(b)) /\ w.result[i].err # "ctx"
        => \E m, n \in DOMAIN Changelog(b) : m < n /\ Changelog(b)[m] = i /\ Changelog(b)[n] = j

\* The entries in front of those of the p-th mutation of batch k.
entriesBefore(batches, k, p) == entriesOf(mutationsIn(SubSeq(batches, 1, k - 1)) \o SubSeq(batches[k], 1, p - 1))

\* An offset, if one is known, is that of the first entry of the p-th mutation of batch
\* k, provided that it and the mutations behind it in its batch added one entry each.
OffsetOf(batches, k, p, offset) ==
    (\A q \in p .. Len(batches[k]) : Write[batches[k][q]].entries = 1) => offset \in {-1, entriesBefore(batches, k, p)}

\* A mutation that reported success is in the changelog, and the offset it reported
\* (logEnd minus the batch, plus its index) is that of its first entry there if it and
\* those behind it in its batch added one entry each, however many others added.
AcknowledgedOffsets ==
    \A i \in Items : w.result[i].err = "nil" =>
        \E k \in DOMAIN log[Write[i].bucket] : \E p \in DOMAIN log[Write[i].bucket][k] :
            log[Write[i].bucket][k][p] = i /\ OffsetOf(log[Write[i].bucket], k, p, w.result[i].offset)

\* Closing is not held up by a pressure delay: once the loop has taken the close
\* command, the writer stops even if no delay ever ends (the comment in
\* executeBatch, kv_writer.go).
CloseSkipsDelays == closing ~> done

\* The same of every call of Close: the comment says that "Close is not held for"
\* the pressure delay.
CloseNotHeld == \A c \in Closers : pc[c] = "await" ~> pc[c] = "returned"
=============================================================================
