----------------------------- MODULE LogScanner -----------------------------
(***************************************************************************)
(* LogScanner: Poll visits the subscribed buckets one after the other from *)
(* the positions it copied when it began, while Subscribe, Unsubscribe,    *)
(* Wakeup and Close change the scanner.  The log of a bucket is a sequence *)
(* of batches; the server sends the batches from the one that holds the    *)
(* fetch offset on, leaves out those that its filter excludes and then     *)
(* reports how far it looked.  Row and Arrow results are treated alike:    *)
(* an Arrow batch is its rows, and rows are the set of their offsets, in   *)
(* whose order applyBounds handles them.                                   *)
(***************************************************************************)
EXTENDS Integers, Sequences, FiniteSets, FiniteSetsExt, Functions

CONSTANTS
    Buckets,      \* the buckets of the table, in the order in which Poll visits them
    Logs,         \* for each bucket its batches: records of base, count and match
    RowLimit,     \* LogScannerConfig.RowLimit, 0 for none
    Stops,        \* LogScannerConfig.StoppingOffsets, an empty function for none
    MaxChanges    \* bound on the calls of Subscribe and Unsubscribe

VARIABLES
    offset,        \* the position of each subscribed bucket
    delivered,
    done,
    scannerClosed,
    wakePending,
    poll,          \* the Poll in progress
    period,        \* number of Subscribe and Unsubscribe calls of each bucket so far
    since,         \* the position each bucket was last subscribed at
    returned,      \* records <<bucket, period, offset>> that Poll returned
    dropped        \* records in results that Poll gave up

vars == <<offset, delivered, done, scannerClosed, wakePending, poll, period, since, returned, dropped>>

BucketSet == Range(Buckets)
End(b) == IF Logs[b] = <<>> THEN 0 ELSE LET last == Logs[b][Len(Logs[b])] IN last.base + last.count
IsBounded == RowLimit > 0 \/ DOMAIN Stops # {}

ASSUME ScannerAssumption ==
    /\ RowLimit \in Nat /\ MaxChanges \in Nat /\ Buckets \in Seq(BucketSet)
    /\ DOMAIN Stops \in {{}, BucketSet} /\ \A b \in DOMAIN Stops : Stops[b] \in Nat
    /\ \A b \in BucketSet :
         /\ Logs[b] \in Seq([base : Nat, count : Nat \ {0}, match : BOOLEAN])
         /\ \A i \in 1 .. Len(Logs[b]) :
              Logs[b][i].base = IF i = 1 THEN 0 ELSE Logs[b][i - 1].base + Logs[b][i - 1].count

-----------------------------------------------------------------------------
(* What a fetch yields. *)

\* fetchedBatchOffsets: the index of the first wanted record of a batch and the
\* position after it.
fetchedBatchOffsets(base, count, position) ==
    LET end == base + count IN
    [start |-> IF position >= end THEN count ELSE IF position > base THEN position - base ELSE 0,
     next |-> IF end > position THEN end ELSE position]

\* Mutant: the batch is taken from its beginning.
decodeBatchWhole(into, batch) ==
    [rows |-> into.rows \union (batch.base .. batch.base + batch.count - 1),
     next |-> fetchedBatchOffsets(batch.base, batch.count, into.next).next]

\* One batch of the response.
decodeBatch(into, batch) ==
    LET f == fetchedBatchOffsets(batch.base, batch.count, into.next) IN
    [rows |-> into.rows \union (batch.base + f.start .. batch.base + batch.count - 1),
     next |-> f.next]

\* The decoded batches of a response, which holds those of the given positions.
decodeFetched(b, position, sent) ==
    LET after[k \in 0 .. Len(Logs[b])] ==
          IF k = 0 THEN [rows |-> {}, next |-> position]
          ELSE IF k \in sent THEN decodeBatch(after[k - 1], Logs[b][k]) ELSE after[k - 1]
    IN  after[Len(Logs[b])]

\* The response when the server looked at the batches up to the m-th, and the
\* rows and the position that the scanner makes of it.
fetch(b, position, m) ==
    LET looked == {k \in 1 .. m : Logs[b][k].base + Logs[b][k].count > position}
        sent == {k \in looked : Logs[b][k].match}
        filteredEnd == Logs[b][m].base + Logs[b][m].count
        decoded == decodeFetched(b, position, sent)
    IN  IF sent # looked /\ filteredEnd > decoded.next
          THEN [decoded EXCEPT !.next = filteredEnd] ELSE decoded

\* What a fetch at the position may yield.
fetches(b, position) ==
    {fetch(b, position, m) : m \in {n \in DOMAIN Logs[b] : Logs[b][n].base + Logs[b][n].count > position}}

stopOf(b) == IF b \in DOMAIN Stops THEN Stops[b] ELSE End(b) + 1

\* Mutant: the stopping offset is inclusive.
withinStopInclusive(b, o) == o <= stopOf(b)

withinStop(b, o) == o < stopOf(b)

\* Mutant: the position moves past all that was fetched.
boundedNextAll(b, rows, next) == next

\* The position after the rows that passed the bounds.
boundedNext(b, rows, next) ==
    LET reached == IF rows = {} THEN next ELSE Max(rows) + 1
    IN  IF reached > stopOf(b) THEN stopOf(b) ELSE reached

\* Of the rows below the stopping offset the first ones, up to the row limit.
applyBounds(b, rows, next) ==
    LET remaining == IF RowLimit > 0 THEN RowLimit - delivered ELSE Cardinality(rows)
        allowed == {o \in rows : withinStop(b, o)}
        passed == {o \in allowed : Cardinality({p \in allowed : p < o}) < remaining}
    IN  IF ~IsBounded THEN [rows |-> rows, next |-> next]
                    ELSE [rows |-> passed, next |-> boundedNext(b, passed, next)]

\* Mutant: the stopping offset itself has to be passed.
isDonePast(positions, count) ==
    \/ RowLimit > 0 /\ count >= RowLimit
    \/ /\ DOMAIN Stops # {} /\ DOMAIN positions # {}
       /\ \A b \in DOMAIN positions : positions[b] > Stops[b]

\* updateDoneLocked, for the given positions and number of delivered records.
isDone(positions, count) ==
    \/ RowLimit > 0 /\ count >= RowLimit
    \/ /\ DOMAIN Stops # {} /\ DOMAIN positions # {}
       /\ \A b \in DOMAIN positions : positions[b] >= Stops[b]

-----------------------------------------------------------------------------
(* The calls. *)

NoPoll == [pc |-> "idle", offsets |-> <<>>, periods |-> <<>>, todo |-> {}, result |-> {},
           canceled |-> FALSE, ctxDone |-> FALSE]

Init ==
    /\ offset = [b \in BucketSet |-> 0] /\ delivered = 0
    /\ done = isDone([b \in BucketSet |-> 0], 0)
    /\ scannerClosed = FALSE /\ wakePending = FALSE /\ poll = NoPoll
    /\ period = [b \in BucketSet |-> 0] /\ since = [b \in BucketSet |-> 0]
    /\ returned = {} /\ dropped = {}

Changes == FoldFunction(+, 0, period)

Subscribe(b, start) ==
    /\ Changes < MaxChanges /\ ~scannerClosed
    /\ offset' = [c \in DOMAIN offset \union {b} |-> IF c = b THEN start ELSE offset[c]]
    /\ done' = isDone(offset', delivered)
    /\ period' = [period EXCEPT ![b] = @ + 1] /\ since' = [since EXCEPT ![b] = start]
    /\ UNCHANGED <<delivered, scannerClosed, wakePending, poll, returned, dropped>>

Unsubscribe(b) ==
    /\ Changes < MaxChanges
    /\ offset' = [c \in DOMAIN offset \ {b} |-> offset[c]]
    /\ done' = isDone(offset', delivered)
    /\ period' = [period EXCEPT ![b] = @ + 1]
    /\ UNCHANGED <<delivered, scannerClosed, wakePending, poll, since, returned, dropped>>

\* beginPoll.  A Poll of a scanner that is closed, done or without buckets
\* returns at once and changes nothing.
BeginPoll ==
    /\ poll.pc = "idle" /\ ~scannerClosed /\ ~done
    /\ \/ wakePending /\ wakePending' = FALSE /\ UNCHANGED poll
       \/ /\ ~wakePending /\ DOMAIN offset # {}
          /\ LET todo == {b \in DOMAIN offset : offset[b] < stopOf(b)} IN
               poll' = [NoPoll EXCEPT !.pc = IF todo = {} THEN "check" ELSE "fetch",
                                      !.offsets = offset, !.periods = period, !.todo = todo]
          /\ UNCHANGED wakePending
    /\ UNCHANGED <<offset, delivered, done, scannerClosed, period, since, returned, dropped>>

\* Mutant: only a finished scan ends the loop over the buckets.
NextBucketAlways ==
    /\ poll.pc = "check"
    /\ IF done
         THEN poll' = NoPoll /\ returned' = returned \union poll.result
         ELSE poll' = [poll EXCEPT !.pc = "fetch"] /\ UNCHANGED returned
    /\ UNCHANGED <<offset, delivered, done, scannerClosed, wakePending, period, since, dropped>>

\* After a bucket: the next one, or the return of the result.
NextBucket ==
    /\ poll.pc = "check"
    /\ IF done \/ poll.todo = {}
         THEN poll' = NoPoll /\ returned' = returned \union poll.result
         ELSE poll' = [poll EXCEPT !.pc = "fetch"] /\ UNCHANGED returned
    /\ UNCHANGED <<offset, delivered, done, scannerClosed, wakePending, period, since, dropped>>

\* The bucket whose turn it is.
upcoming ==
    Buckets[CHOOSE n \in DOMAIN Buckets : Buckets[n] \in poll.todo /\ \A m \in 1 .. n - 1 : Buckets[m] \notin poll.todo]

\* Whether the bucket is still where the fetch began.
unmoved(b, previous) == b \in DOMAIN offset /\ offset[b] = previous

\* pollBucket with a response: applyBounds, advanceOffset.  (projectScanArrows does
\* not fail here: it takes its columns from a batch that evolveArrowBatch has just
\* brought into the scanner's schema.)
BucketFetched(fetched) ==
    LET b == upcoming
        same == unmoved(b, poll.offsets[b])
        bounded == applyBounds(b, fetched.rows, fetched.next)
        p == IF same THEN period[b] ELSE poll.periods[b]
    IN
    /\ poll.pc = "fetch"
    /\ offset' = IF same THEN [offset EXCEPT ![b] = bounded.next] ELSE offset
    /\ delivered' = delivered + Cardinality(bounded.rows)
    /\ done' = isDone(offset', delivered')
    /\ poll' = [poll EXCEPT !.pc = "check", !.todo = @ \ {b},
                            !.result = @ \union {<<b, p, o>> : o \in bounded.rows}]
    /\ UNCHANGED <<scannerClosed, wakePending, period, since, returned, dropped>>

\* The bucket has nothing at the position, or its error is put into the result.
BucketEmpty ==
    /\ poll.pc = "fetch"
    /\ poll' = [poll EXCEPT !.pc = "check", !.todo = @ \ {upcoming}]
    /\ UNCHANGED <<offset, delivered, done, scannerClosed, wakePending, period, since, returned, dropped>>

\* recordFetchError when the caller's context ended, or the scanner was closed or
\* woken: Poll releases the result and returns the error.
BucketInterrupted ==
    /\ poll.pc = "fetch" /\ (poll.ctxDone \/ scannerClosed \/ wakePending)
    /\ wakePending' = (wakePending /\ poll.ctxDone)
    /\ dropped' = dropped \union poll.result
    /\ poll' = NoPoll
    /\ UNCHANGED <<offset, delivered, done, scannerClosed, period, since, returned>>

\* Mutant: the flag is set but the Poll in progress is not canceled.
WakeupNext ==
    /\ ~scannerClosed /\ ~done /\ wakePending' = TRUE
    /\ UNCHANGED <<offset, delivered, done, scannerClosed, poll, period, since, returned, dropped>>

Wakeup ==
    /\ ~scannerClosed /\ ~done /\ wakePending' = TRUE
    /\ poll' = IF poll.pc = "idle" THEN poll ELSE [poll EXCEPT !.canceled = TRUE]
    /\ UNCHANGED <<offset, delivered, done, scannerClosed, period, since, returned, dropped>>

Close ==
    /\ ~scannerClosed /\ scannerClosed' = TRUE /\ offset' = <<>>
    /\ poll' = IF poll.pc = "idle" THEN poll ELSE [poll EXCEPT !.canceled = TRUE]
    /\ UNCHANGED <<delivered, done, wakePending, period, since, returned, dropped>>

Cancel ==
    /\ poll.pc # "idle" /\ ~poll.ctxDone
    /\ poll' = [poll EXCEPT !.canceled = TRUE, !.ctxDone = TRUE]
    /\ UNCHANGED <<offset, delivered, done, scannerClosed, wakePending, period, since, returned, dropped>>

Poll ==
    \/ BeginPoll \/ NextBucket \/ BucketEmpty \/ BucketInterrupted
    \/ poll.pc = "fetch" /\ \E f \in fetches(upcoming, poll.offsets[upcoming]) : BucketFetched(f)

Next ==
    \/ Poll \/ Wakeup \/ Close \/ Cancel
    \/ \E b \in BucketSet : Unsubscribe(b) \/ \E start \in 0 .. End(b) : Subscribe(b, start)

Spec == Init /\ [][Next]_vars

\* Poll is called again and goes on between two fetches, and a fetch whose
\* context is canceled returns.  The server owes no answer.
FairSpec ==
    /\ Spec
    /\ WF_vars(BeginPoll \/ NextBucket)
    /\ WF_vars(poll.canceled /\ (BucketEmpty \/ BucketInterrupted))

-----------------------------------------------------------------------------

TypeOK ==
    /\ DOMAIN offset \subseteq BucketSet /\ \A b \in DOMAIN offset : offset[b] \in 0 .. End(b)
    /\ delivered \in Nat /\ {done, scannerClosed, wakePending, poll.canceled, poll.ctxDone} \subseteq BOOLEAN
    /\ poll.pc \in {"idle", "fetch", "check"} /\ (poll.pc = "fetch" => poll.todo # {})
    /\ \A b \in BucketSet : period[b] \in 0 .. MaxChanges /\ since[b] \in 0 .. End(b)

\* The offsets of a bucket that the filter lets through.
Matching(b) ==
    UNION {Logs[b][i].base .. (Logs[b][i].base + Logs[b][i].count - 1) :
             i \in {j \in DOMAIN Logs[b] : Logs[b][j].match}}

\* No record is skipped: what lies between the subscribed position and the
\* current one was returned, is in the result being built, or was in a result
\* that Poll gave up with an error, however Subscribe, Unsubscribe, Wakeup and
\* cancellation interleave with a fetch.
NothingSkipped ==
    \A b \in DOMAIN offset : \A o \in Matching(b) :
        since[b] <= o /\ o < offset[b] => <<b, period[b], o>> \in returned \union poll.result \union dropped

\* No record is returned twice, unless its bucket was subscribed anew, and none
\* from before the subscribed position, also where that lies inside a batch.
NoDuplicates ==
    /\ poll.result \intersect (returned \union dropped) = {}
    /\ \A r \in poll.result : r[2] = period[r[1]] => r[3] >= since[r[1]]

\* The row limit counts over all buckets and polls, and the stopping offset is
\* exclusive, also where it lies inside a batch.
WithinBounds ==
    /\ RowLimit > 0 => Cardinality(returned \union poll.result \union dropped) <= RowLimit
    /\ \A r \in returned \union poll.result : r[1] \in DOMAIN Stops => r[3] < Stops[r[1]]

\* Wakeup and Close end the Poll in progress, whatever the server does.
InterruptsEndPoll ==
    poll.pc # "idle" /\ (wakePending \/ scannerClosed) ~> poll.pc = "idle"

\* A scan with stopping offsets completes, also when they lie in a batch or
\* among records that the filter excludes, if fetches that are tried again and
\* again succeed again and again and Wakeup is not called for ever.
ScanCompletes ==
    /\ SF_vars(/\ poll.pc = "fetch" /\ ~poll.canceled
               /\ \E f \in fetches(upcoming, poll.offsets[upcoming]) : BucketFetched(f))
    /\ <>[]~wakePending
    => <>(done \/ scannerClosed \/ DOMAIN offset = {})

\* "The poll returns fgo.ErrWakeup; the scanner remains usable"
\* (docs/data-operations.md:148): an interrupted Poll costs no records.
InterruptedPollLosesNothing == dropped = {}
=============================================================================
