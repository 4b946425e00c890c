----------------------------- MODULE AppendWriter -----------------------------
(***************************************************************************)
(* The scheduler of a log writer: callers of Append, AppendArrow, Flush    *)
(* and Close, the loop goroutine that batches, dispatches and completes,   *)
(* and one executeBatch goroutine per active bucket.                       *)
(*                                                                         *)
(* The state the loop owns (struct appendWriterLoop) is one record, w, so  *)
(* that the loop's methods are operators on it, composed as the code       *)
(* composes them.  What happens inside executeBatch is abstracted to its   *)
(* outcomes, as BucketSequence establishes them: the request of a started  *)
(* batch may reach the server at any time, even after the writer gave up   *)
(* on it; success means that the server has passed the batch's sequence.   *)
(***************************************************************************)
EXTENDS Integers, Sequences, FiniteSets, FiniteSetsExt, Functions

CONSTANTS
    Items,        \* calls of Append and AppendArrow
    Flushers,     \* calls of Flush
    Closers,      \* calls of Close
    Write,        \* Write[i]: the bucket, kind, row count and size of an item
    BadKey,       \* rows whose bucket key is null
    Cancelable,   \* calls whose context may be canceled
    NumBuckets,
    Assigner,     \* "key", "round_robin" or "sticky"
    Immediate,    \* BatchTimeout = 0
    MaxBuffered, MaxBatchRecords, MaxBatchBytes, MaxConcurrentRequests,
    None

Buckets == 1 .. NumBuckets
Calls == Items \union Flushers \union Closers

ASSUME ConfigAssumption ==
    /\ NumBuckets \in Nat \ {0}
    /\ MaxBuffered \in Nat \ {0} /\ MaxBatchRecords \in Nat \ {0}
    /\ MaxBatchBytes \in Nat \ {0} /\ MaxConcurrentRequests \in Nat \ {0}
    /\ Write \in [Items -> [bucket : Buckets, arrow : BOOLEAN, rows : Nat, size : Nat]]
    /\ Cancelable \subseteq Calls /\ BadKey \subseteq Items
    /\ IsFiniteSet(Items)
    /\ Flushers \cap Closers = {} /\ Items \cap (Flushers \union Closers) = {}
    /\ None \notin Calls

VARIABLES
    pc,        \* where each call is
    canceled,  \* calls whose context is done
    mu,        \* holder of appendMu
    closed, closeErr, done,
    commands,  \* the commands channel, capacity MaxBuffered
    barrier,   \* the error sent to each Flush or Close, None before
    ret,       \* what each Flush or Close returned
    loop,      \* the loop goroutine: where it is, for whom, joined error
    w,         \* the loop's state, the futures and the slots
    log,       \* the server's log of each bucket, as batches
    accepted,  \* history: the commands in the order they were sent
    covered    \* history: the items a Flush or Close found incomplete

callVars == <<pc, mu, closed, ret>>
vars == <<pc, canceled, mu, closed, closeErr, done, commands, barrier, ret,
          loop, w, log, accepted, covered>>

\* The records of a batch's items, and of a log's batches.
RowsIn(items) == FoldFunction(LAMBDA i, sum : Write[i].rows + sum, 0, items)
RecordsIn(batches) == FoldFunction(LAMBDA items, sum : RowsIn(items) + sum, 0, batches)

EmptyBatch == [items |-> <<>>, bytes |-> 0]
Open == [err |-> "open", bucket |-> 0, offset |-> -1]

Init ==
    /\ pc = [p \in Calls |-> "start"] /\ canceled = {} /\ mu = None
    /\ closed = FALSE /\ closeErr = None /\ done = FALSE
    /\ commands = <<>>
    /\ barrier = [p \in Flushers \union Closers |-> None]
    /\ ret = [p \in Flushers \union Closers |-> None]
    /\ loop = [pc |-> "select", call |-> None, err |-> "nil"]
    /\ w = [batches |-> [b \in Buckets |-> EmptyBatch],
            pending |-> [b \in Buckets |-> <<>>],
            active |-> {}, inFlight |-> 0,
            sequences |-> [b \in Buckets |-> 0],
            poisoned |-> {}, timer |-> FALSE, roundRobin |-> 0, sticky |-> 0,
            running |-> {},   \* executeBatch goroutines and their completions
            sent |-> {},      \* requests the server may receive
            flushed |-> [b \in Buckets |-> <<>>],   \* history: batches given to flushBucket
            slots |-> {}, result |-> [i \in Items |-> Open]]
    /\ log = [b \in Buckets |-> <<>>]
    /\ accepted = <<>>
    /\ covered = [p \in Flushers \union Closers |-> {}]

-----------------------------------------------------------------------------
(* Futures. *)

\* Mutant: completing a future does not give its slot back.
completeKeepsSlot(s, items, res) ==
    [s EXCEPT !.result = [i \in Items |-> IF i \in items /\ @[i].err = "open" THEN res[i] ELSE @[i]]]

\* WriteFuture.complete: the first result stays, and it frees the slot.
complete(s, items, res) ==
    [s EXCEPT !.result = [i \in Items |-> IF i \in items /\ @[i].err = "open" THEN res[i] ELSE @[i]],
              !.slots = @ \ items]

fail(s, items, err, b) ==
    complete(s, items, [i \in items |-> [err |-> err, bucket |-> b, offset |-> -1]])

\* Mutant: every item of the batch reports the base offset.
acknowledgeAtBase(s, items, b, base) ==
    complete(s, Range(items), [i \in Range(items) |-> [err |-> "nil", bucket |-> b, offset |-> base]])

\* completeBatch of an acknowledged batch; base = -1 when no offset is known.
acknowledge(s, items, b, base) ==
    LET at(i) == RowsIn(SubSeq(items, 1, (CHOOSE n \in DOMAIN items : items[n] = i) - 1))
    IN  complete(s, Range(items),
          [i \in Range(items) |->
             [err |-> "nil", bucket |-> b, offset |-> IF base = -1 THEN -1 ELSE base + at(i)]])

-----------------------------------------------------------------------------
(* The methods of appendWriterLoop. *)

\* Buckets that dispatch may start, in the order it visits them.
ready(s) == {b \in Buckets : b \notin s.active /\ s.pending[b] # <<>>}

\* Mutant: the concurrency limit is off by one.
startableOneMore(s) ==
    {b \in ready(s) : Cardinality({c \in ready(s) : c < b}) <= MaxConcurrentRequests - s.inFlight}

\* Mutant: dispatch visits the buckets in reverse.
startableReverse(s) ==
    {b \in ready(s) : Cardinality({c \in ready(s) : c > b}) < MaxConcurrentRequests - s.inFlight}

\* The first of them, until MaxConcurrentRequests are in flight.
startable(s) ==
    {b \in ready(s) : Cardinality({c \in ready(s) : c < b}) < MaxConcurrentRequests - s.inFlight}

popped(s, B) == [b \in Buckets |-> IF b \in B THEN Tail(s.pending[b]) ELSE s.pending[b]]

\* dispatch: start the head of pending for every startable bucket.
dispatch(s) ==
    LET start == startable(s)
        requests == {[bucket |-> b, items |-> Head(s.pending[b]), sequence |-> s.sequences[b]] : b \in start}
    IN  [s EXCEPT !.pending = popped(s, start),
                  !.active = @ \union start,
                  !.inFlight = @ + Cardinality(start),
                  !.running = @ \union {[request |-> r, status |-> "run", base |-> -1] : r \in requests},
                  !.sent = @ \union requests]

queue(s, B) ==
    [b \in Buckets |-> IF b \in B THEN Append(s.pending[b], s.batches[b].items) ELSE s.pending[b]]

\* flushBucket for a set of buckets.  The code calls dispatch after each one;
\* as dispatch never leaves a bucket waiting below the limit, once is the same.
flushBuckets(s, B) ==
    LET full == {b \in B : s.batches[b].items # <<>>}
        dead == full \cap s.poisoned
        queued == [s EXCEPT
            !.batches = [b \in Buckets |-> IF b \in full THEN EmptyBatch ELSE @[b]],
            !.flushed = [b \in Buckets |-> IF b \in full THEN Append(@[b], s.batches[b].items) ELSE @[b]],
            !.pending = queue(s, full \ dead)]
        failing == UNION {Range(s.batches[b].items) : b \in dead}
    IN  dispatch(complete(queued, failing,
          [i \in failing |-> [err |-> "poisoned", offset |-> -1,
                              bucket |-> CHOOSE b \in dead : i \in Range(s.batches[b].items)]]))

\* queueAll, and the error it joins.
queueAll(s) == flushBuckets([s EXCEPT !.timer = FALSE], Buckets)
queueAllErr(s) ==
    IF \E b \in s.poisoned : s.batches[b].items # <<>> THEN "err" ELSE "nil"

armTimer(s) == [s EXCEPT !.timer = ~Immediate]

advanceSticky(s) ==
    IF Assigner = "sticky" THEN [s EXCEPT !.sticky = (@ + 1) % NumBuckets] ELSE s

\* assignBucket, for an item whose key is not null, and its effect.
assignBucket(s, i) ==
    IF Write[i].arrow \/ Assigner = "key" THEN Write[i].bucket
    ELSE IF Assigner = "round_robin" THEN s.roundRobin + 1
    ELSE s.sticky + 1
assigned(s, i) ==
    IF Write[i].arrow \/ Assigner # "round_robin" THEN s
    ELSE [s EXCEPT !.roundRobin = (@ + 1) % NumBuckets]

batchFull(batch) == Len(batch.items) >= MaxBatchRecords \/ batch.bytes >= MaxBatchBytes

\* Mutant: the size of the new row is not counted.
batchFullWithout(batch, i) == Len(batch.items) >= MaxBatchRecords \/ batch.bytes > MaxBatchBytes

batchFullWith(batch, i) ==
    Len(batch.items) >= MaxBatchRecords \/ batch.bytes + Write[i].size > MaxBatchBytes

put(s, b, i) ==
    [s EXCEPT !.batches[b] = [items |-> Append(@.items, i), bytes |-> @.bytes + Write[i].size]]

\* add for an Arrow batch: it never shares a request with rows.
addArrow(s, i) ==
    LET b == assignBucket(s, i)
    IN  flushBuckets(put(flushBuckets(s, {b}), b, i), {b})

\* availableBatch: a batch the row does not fit into is flushed first, and a
\* sticky writer then moves on to the next bucket.
makeRoom(s, b, i) ==
    IF s.batches[b].items = <<>> \/ ~batchFullWith(s.batches[b], i) THEN s
    ELSE advanceSticky(flushBuckets(s, {b}))

addRow(s, i) ==
    LET first == assignBucket(s, i)
        room  == makeRoom(assigned(s, i), first, i)
        b     == IF Assigner = "sticky" THEN assignBucket(room, i) ELSE first
        added == put(room, b, i)
    IN  IF batchFull(added.batches[b]) \/ Immediate
          THEN advanceSticky(flushBuckets(added, {b}))
          ELSE armTimer(added)

add(s, i, ctxDone) ==
    IF ctxDone THEN fail(s, {i}, "ctx", 0)
    ELSE IF Assigner = "key" /\ ~Write[i].arrow /\ i \in BadKey THEN fail(s, {i}, "key", 0)
    ELSE IF Write[i].arrow THEN addArrow(s, i)
    ELSE addRow(s, i)

\* Mutant: a failed batch does not poison its bucket.
failedBatchForgiven(s, e, b) == fail(s, Range(e.request.items), "failed", b)

\* A failed batch poisons its bucket and fails what is pending for it.
failedBatch(s, e, b) ==
    fail(fail([s EXCEPT !.poisoned = @ \union {b}, !.pending[b] = <<>>],
              Range(e.request.items), "failed", b),
         UNION {Range(s.pending[b][n]) : n \in DOMAIN s.pending[b]}, "poisoned", b)

completedBatch(s, e, b) ==
    IF e.status = "err" THEN failedBatch(s, e, b)
    ELSE acknowledge([s EXCEPT !.sequences[b] = @ + 1], e.request.items, b, e.base)

\* Mutant: what is pending is not dispatched after a completion.
handleCompletionOnly(s, e) ==
    LET b == e.request.bucket
    IN  completedBatch([s EXCEPT !.active = @ \ {b}, !.inFlight = @ - 1, !.running = @ \ {e}], e, b)

\* handleCompletion of a finished goroutine e.
handleCompletion(s, e) ==
    LET b == e.request.bucket
    IN  dispatch(completedBatch([s EXCEPT !.active = @ \ {b}, !.inFlight = @ - 1, !.running = @ \ {e}], e, b))

-----------------------------------------------------------------------------
(* Append and AppendArrow: enqueue. *)

AcquireSlot(i) ==
    /\ pc[i] = "start" /\ Cardinality(w.slots) < MaxBuffered
    /\ w' = [w EXCEPT !.slots = @ \union {i}]
    /\ pc' = [pc EXCEPT ![i] = "slot"]
    /\ UNCHANGED <<canceled, mu, closed, closeErr, done, commands, barrier, ret, loop, log, accepted, covered>>

\* While it waits for a slot the context ends or the writer stops.
RefuseSlot(i) ==
    /\ pc[i] = "start"
    /\ \/ i \in canceled /\ w' = fail(w, {i}, "ctx", 0)
       \/ done /\ w' = fail(w, {i}, "closed", 0)
    /\ pc' = [pc EXCEPT ![i] = "returned"]
    /\ UNCHANGED <<canceled, mu, closed, closeErr, done, commands, barrier, ret, loop, log, accepted, covered>>

LockAppend(i) ==
    /\ pc[i] = "slot" /\ mu = None
    /\ IF closed
         THEN /\ w' = fail(w, {i}, "closed", 0)
              /\ pc' = [pc EXCEPT ![i] = "returned"] /\ UNCHANGED mu
         ELSE pc' = [pc EXCEPT ![i] = "locked"] /\ mu' = i /\ UNCHANGED w
    /\ UNCHANGED <<canceled, closed, closeErr, done, commands, barrier, ret, loop, log, accepted, covered>>

\* The context ends while commands is full.  (The third case of the select,
\* done, cannot occur: the loop stops only after closed was set.)
AbandonAppend(i) ==
    /\ pc[i] = "locked" /\ i \in canceled
    /\ w' = fail(w, {i}, "ctx", 0)
    /\ pc' = [pc EXCEPT ![i] = "returned"] /\ mu' = None
    /\ UNCHANGED <<canceled, closed, closeErr, done, commands, barrier, ret, loop, log, accepted, covered>>

-----------------------------------------------------------------------------
(* Flush and Close. *)

\* Sending a command under appendMu; Append returns, the others wait.
Send(p) ==
    /\ pc[p] = "locked" /\ Len(commands) < MaxBuffered
    /\ commands' = Append(commands, p) /\ accepted' = Append(accepted, p)
    /\ pc' = [pc EXCEPT ![p] = IF p \in Items THEN "returned" ELSE "await"]
    /\ mu' = None
    /\ UNCHANGED <<canceled, closed, closeErr, done, barrier, ret, loop, w, log, covered>>

Return(p, value) ==
    pc' = [pc EXCEPT ![p] = "returned"] /\ ret' = [ret EXCEPT ![p] = value]

LockFlush(f) ==
    /\ pc[f] = "start" /\ mu = None
    /\ IF closed THEN Return(f, "closed") /\ UNCHANGED mu
       ELSE pc' = [pc EXCEPT ![f] = "locked"] /\ mu' = f /\ UNCHANGED ret
    /\ UNCHANGED <<canceled, closed, closeErr, done, commands, barrier, loop, w, log, accepted, covered>>

\* A second Close waits for the loop to stop.
LockClose(c) ==
    /\ pc[c] = "start" /\ mu = None
    /\ IF closed THEN pc' = [pc EXCEPT ![c] = "join"] /\ UNCHANGED <<mu, closed>>
       ELSE pc' = [pc EXCEPT ![c] = "locked"] /\ mu' = c /\ closed' = TRUE
    /\ UNCHANGED <<canceled, closeErr, done, commands, barrier, ret, loop, w, log, accepted, covered>>

\* Mutant: a Close that gives up leaves the writer closed.
AbandonClosed(p) ==
    /\ pc[p] = "locked" /\ p \in canceled
    /\ Return(p, "ctx") /\ mu' = None
    /\ UNCHANGED <<canceled, closed, closeErr, done, commands, barrier, loop, w, log, accepted, covered>>

\* The context ends before the command was sent: Close reopens the writer.
Abandon(p) ==
    /\ pc[p] = "locked" /\ p \in canceled
    /\ Return(p, "ctx") /\ mu' = None
    /\ closed' = (closed /\ p \notin Closers)
    /\ UNCHANGED <<canceled, closeErr, done, commands, barrier, loop, w, log, accepted, covered>>

Await(p) ==
    /\ pc[p] = "await"
    /\ \/ barrier[p] # None /\ Return(p, barrier[p])
       \/ p \in canceled /\ Return(p, "ctx")
    /\ UNCHANGED <<canceled, mu, closed, closeErr, done, commands, barrier, loop, w, log, accepted, covered>>

Join(c) ==
    /\ pc[c] = "join"
    /\ \/ done /\ mu = None /\ Return(c, closeErr)
       \/ c \in canceled /\ Return(c, "ctx")
    /\ UNCHANGED <<canceled, mu, closed, closeErr, done, commands, barrier, loop, w, log, accepted, covered>>

\* The caller's context is canceled.
Cancel(p) ==
    /\ p \in Cancelable \ canceled
    /\ canceled' = canceled \union {p}
    /\ UNCHANGED <<pc, mu, closed, closeErr, done, commands, barrier, ret, loop, w, log, accepted, covered>>

-----------------------------------------------------------------------------
(* The loop goroutine. *)

loopFrame == UNCHANGED <<pc, canceled, mu, closed, ret, log, accepted>>

TakeItem ==
    /\ loop.pc = "select" /\ commands # <<>> /\ Head(commands) \in Items
    /\ commands' = Tail(commands)
    /\ w' = add(w, Head(commands), Head(commands) \in canceled)
    /\ UNCHANGED <<closeErr, done, barrier, loop, covered>> /\ loopFrame

\* flushAll for a Flush or a Close: stop the timer, queue everything, then
\* handle completions until nothing is in flight.
TakeBarrier ==
    /\ loop.pc = "select" /\ commands # <<>> /\ Head(commands) \notin Items
    /\ LET p == Head(commands) IN
         /\ loop' = [pc |-> IF p \in Closers THEN "close" ELSE "flush", call |-> p, err |-> queueAllErr(w)]
         /\ covered' = [covered EXCEPT ![p] =
              {i \in Items : w.result[i].err = "open" /\ i \in Range(accepted) \ Range(commands)}]
    /\ commands' = Tail(commands)
    /\ w' = queueAll(w)
    /\ UNCHANGED <<closeErr, done, barrier>> /\ loopFrame

TimerFires ==
    /\ loop.pc = "select" /\ w.timer
    /\ w' = queueAll(w)
    /\ UNCHANGED <<closeErr, done, commands, barrier, loop, covered>> /\ loopFrame

HandleCompletion ==
    /\ loop.pc # "exited"
    /\ \E e \in w.running :
         /\ e.status # "run"
         /\ w' = handleCompletion(w, e)
         /\ loop' = [loop EXCEPT !.err = IF @ = "err" \/ (e.status = "err" /\ loop.pc # "select")
                                          THEN "err" ELSE "nil"]
    /\ UNCHANGED <<closeErr, done, commands, barrier, covered>> /\ loopFrame

\* Mutant: Flush is answered although requests are in flight.
FlushDoneEarly ==
    /\ loop.pc = "flush"
    /\ barrier' = [barrier EXCEPT ![loop.call] = loop.err]
    /\ loop' = [pc |-> "select", call |-> None, err |-> "nil"]
    /\ UNCHANGED <<closeErr, done, commands, w, covered>> /\ loopFrame

FlushDone ==
    /\ loop.pc = "flush" /\ w.inFlight = 0
    /\ barrier' = [barrier EXCEPT ![loop.call] = loop.err]
    /\ loop' = [pc |-> "select", call |-> None, err |-> "nil"]
    /\ UNCHANGED <<closeErr, done, commands, w, covered>> /\ loopFrame

\* Mutant: the loop stops although requests are in flight.
CloseDoneEarly ==
    /\ loop.pc = "close" /\ mu = None
    /\ closeErr' = loop.err
    /\ barrier' = [barrier EXCEPT ![loop.call] = loop.err]
    /\ done' = TRUE
    /\ loop' = [pc |-> "exited", call |-> None, err |-> "nil"]
    /\ UNCHANGED <<commands, w, covered>> /\ loopFrame

CloseDone ==
    /\ loop.pc = "close" /\ w.inFlight = 0 /\ mu = None
    /\ closeErr' = loop.err
    /\ barrier' = [barrier EXCEPT ![loop.call] = loop.err]
    /\ done' = TRUE
    /\ loop' = [pc |-> "exited", call |-> None, err |-> "nil"]
    /\ UNCHANGED <<commands, w, covered>> /\ loopFrame

-----------------------------------------------------------------------------
(* executeBatch and, external, the tablet server. *)

goroutineFrame ==
    UNCHANGED <<pc, canceled, mu, closed, closeErr, done, commands, barrier, ret, loop, accepted, covered>>

\* The server appends the batch that carries the sequence it expects.
ServerAppend(r) ==
    /\ r.sequence = Len(log[r.bucket])
    /\ log' = [log EXCEPT ![r.bucket] = Append(@, r.items)]
    /\ UNCHANGED w /\ goroutineFrame

Finish(e, status, base) ==
    /\ w' = [w EXCEPT !.running = (@ \ {e}) \union {[e EXCEPT !.status = status, !.base = base]}]
    /\ UNCHANGED log /\ goroutineFrame

\* Acknowledged with the offset recorded for the sequence, or, after
\* DUPLICATE_SEQUENCE, without one.
ExecuteOk(e) ==
    LET r == e.request IN
    /\ e.status = "run" /\ r.sequence < Len(log[r.bucket])
    /\ \E base \in {-1, RecordsIn(SubSeq(log[r.bucket], 1, r.sequence))} : Finish(e, "ok", base)

\* Any failure of encoding, of the attempts or of the deadline.
ExecuteErr(e) == e.status = "run" /\ Finish(e, "err", -1)

-----------------------------------------------------------------------------
\* Every call has returned, every future is complete and the loop is idle.
Finished ==
    /\ \A p \in Calls : pc[p] = "returned"
    /\ commands = <<>> /\ w.running = {} /\ ~w.timer /\ loop.pc \in {"select", "exited"}
    /\ UNCHANGED vars

AppendStep(i) == AcquireSlot(i) \/ RefuseSlot(i) \/ LockAppend(i) \/ AbandonAppend(i) \/ Send(i)
FlushStep(f) == LockFlush(f) \/ Send(f) \/ Abandon(f) \/ Await(f)
CloseStep(c) == LockClose(c) \/ Send(c) \/ Abandon(c) \/ Await(c) \/ Join(c)
LoopStep == TakeItem \/ TakeBarrier \/ TimerFires \/ HandleCompletion \/ FlushDone \/ CloseDone

Next ==
    \/ \E i \in Items : AppendStep(i)
    \/ \E f \in Flushers : FlushStep(f)
    \/ \E c \in Closers : CloseStep(c)
    \/ \E p \in Calls : Cancel(p)
    \/ LoopStep
    \/ \E r \in w.sent : ServerAppend(r)
    \/ \E e \in w.running : ExecuteOk(e) \/ ExecuteErr(e)
    \/ Finished

Spec == Init /\ [][Next]_vars
\* The callers, the loop and the goroutines keep running; the timer fires; an
\* executeBatch ends at the latest when RequestTimeout expires.  Every behaviour
\* is finite here, so it is enough that each kind of step is not put off forever.
Fairness ==
    /\ WF_vars((\E i \in Items : AppendStep(i)) \/ (\E f \in Flushers : FlushStep(f))
                 \/ (\E c \in Closers : CloseStep(c)))
    /\ WF_vars(LoopStep)
    /\ WF_vars(\E e \in w.running : ExecuteOk(e) \/ ExecuteErr(e))

FairSpec == Spec /\ Fairness

-----------------------------------------------------------------------------
Requests == [bucket : Buckets, items : Seq(Items), sequence : Nat]

TypeOK ==
    /\ pc \in [Calls -> {"start", "slot", "locked", "await", "join", "returned"}]
    /\ canceled \subseteq Cancelable /\ mu \in Calls \union {None}
    /\ closed \in BOOLEAN /\ done \in BOOLEAN /\ closeErr \in {None, "nil", "err"}
    /\ commands \in Seq(Calls) /\ Len(commands) <= MaxBuffered
    /\ loop.pc \in {"select", "flush", "close", "exited"}
    /\ w.batches \in [Buckets -> [items : Seq(Items), bytes : Nat]]
    /\ w.pending \in [Buckets -> Seq(Seq(Items))]
    /\ w.active \subseteq Buckets /\ w.poisoned \subseteq Buckets
    /\ w.inFlight \in 0 .. MaxConcurrentRequests
    /\ w.sequences \in [Buckets -> Nat] /\ w.slots \subseteq Items
    /\ w.sticky \in 0 .. NumBuckets - 1 /\ w.roundRobin \in 0 .. NumBuckets - 1
    /\ w.sent \subseteq Requests /\ \A e \in w.running : e.request \in w.sent
    /\ \A i \in Items : w.result[i].bucket \in Buckets \union {0}
    /\ log \in [Buckets -> Seq(Seq(Items))]

Accepted(i) == CHOOSE n \in DOMAIN accepted : accepted[n] = i

\* An append that reported success is in the log of the bucket it reports, and a
\* reported BaseOffset is the number of records before it (completeBatch adds up
\* the rows of the items of a batch).
AckedIsInLog ==
    \A i \in Items : w.result[i].err = "nil" =>
        LET b == w.result[i].bucket IN
        \E k \in DOMAIN log[b] : \E n \in DOMAIN log[b][k] :
            /\ log[b][k][n] = i
            /\ w.result[i].offset \in {-1, RecordsIn(SubSeq(log[b], 1, k - 1)) + RowsIn(SubSeq(log[b][k], 1, n - 1))}

\* The admission semaphore: an append holds a slot from enqueue until its future
\* completes, through queue, batch and request, and every slot comes back.
SlotAccounting ==
    /\ w.slots = {i \in Items : pc[i] # "start" /\ w.result[i].err = "open"}
    /\ Cardinality(w.slots) <= MaxBuffered

\* Only one request per bucket is active, at most MaxConcurrentRequests in all,
\* and the loop's counters agree with the goroutines.
OneRequestPerBucket ==
    /\ w.active = {e.request.bucket : e \in w.running}
    /\ w.inFlight = Cardinality(w.active)
    /\ \A d, e \in w.running : d.request.bucket = e.request.bucket => d = e
    /\ w.inFlight <= MaxConcurrentRequests

\* A slow bucket does not hold up another one: below the limit no bucket with a
\* pending batch is idle.  Nothing is stranded in an open batch either: the
\* timer that will flush it is armed.
WorkConserving ==
    /\ w.inFlight < MaxConcurrentRequests =>
          \A b \in Buckets : w.pending[b] # <<>> => b \in w.active
    /\ \A b \in Buckets : w.batches[b].items # <<>> => w.timer

\* A Flush or Close that was answered found every item accepted before it
\* complete, and an answer without an error means that all those still
\* incomplete when the loop took the command were acknowledged.
FlushBarrier ==
    \A p \in Flushers \union Closers : barrier[p] # None =>
        /\ \A i \in Items \cap Range(accepted) :
              Accepted(i) < Accepted(p) => w.result[i].err # "open"
        /\ barrier[p] = "nil" => \A i \in covered[p] : w.result[i].err = "nil"

\* Close drains: when the loop has stopped no accepted append is incomplete, no
\* goroutine is left, and all calls of Close that outlast the shutdown, concurrent
\* or repeated, return the same result.
CloseDrains ==
    done =>
        /\ \A c \in Closers : pc[c] = "returned" /\ ret[c] # "ctx" => ret[c] = closeErr
        /\ Range(commands) \cap Items = {} /\ w.running = {} /\ ~w.timer
        /\ \A i \in Items \cap Range(accepted) : w.result[i].err # "open"

\* A request holds rows within both limits (one row may exceed MaxBatchBytes) or
\* one Arrow batch, also after a sticky writer moved to another bucket.
BatchLimits ==
    \A b \in Buckets : \A n \in DOMAIN w.flushed[b] :
        LET items == w.flushed[b][n]
            bytes == FoldFunction(LAMBDA i, sum : Write[i].size + sum, 0, items)
        IN  \/ Len(items) = 1
            \/ /\ Len(items) <= MaxBatchRecords /\ bytes <= MaxBatchBytes
               /\ \A i \in Range(items) : ~Write[i].arrow

\* Every Append, Flush and Close returns, and every future completes.
EveryCallEnds ==
    <>(\A p \in Calls : pc[p] = "returned" /\ (p \in Items => w.result[p].err # "open"))

\* append_writer_options.go says of MaxBuffered that it "bounds accepted records
\* awaiting completion"; docs/write-scheduling.md repeats it.
BufferedRecordsBounded ==
    MapThenSumSet(LAMBDA i : Write[i].rows, w.slots) <= MaxBuffered

-----------------------------------------------------------------------------
\* For each bucket the scheduler, its goroutines and the server together keep
\* the promise of BucketLog: batches are numbered by the flushBucket that
\* accepted them, and a batch has the outcome of its items.
Outcome(b, k) ==
    IF k > Len(w.flushed[b]) THEN "open"
    ELSE LET err == w.result[Head(w.flushed[b][k])].err
         IN  CASE err = "open" -> "open" [] err = "nil" -> "acked" [] OTHER -> "failed"

BatchNumber(b, items) == CHOOSE k \in DOMAIN w.flushed[b] : w.flushed[b][k] = items

Promise(b) == INSTANCE BucketLog WITH
    MaxBatches <- Cardinality(Items),
    accepted <- Len(w.flushed[b]),
    outcome <- [k \in 1 .. Cardinality(Items) |-> Outcome(b, k)],
    log <- [n \in DOMAIN log[b] |-> BatchNumber(b, log[b][n])]

ImplementsBucketLog ==
    /\ \A b \in Buckets : Promise(b)!Init
    /\ [][\A b \in Buckets : [Promise(b)!Next]_(Promise(b)!vars)]_vars
=============================================================================
