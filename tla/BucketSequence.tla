---------------------------- MODULE BucketSequence ----------------------------
(***************************************************************************)
(* What an AppendWriter or an UpsertWriter does with the batches of ONE    *)
(* bucket: flushBucket hands a batch over, dispatch starts executeBatch    *)
(* with the bucket's current sequence, executeWriterAttempts repeats the   *)
(* request while the error is retryable, and handleCompletion advances the *)
(* sequence or poisons the bucket.  The network may lose and delay         *)
(* requests, deliver those of different connections in any order, and lose *)
(* responses; the tablet server appends a batch only when it carries the   *)
(* sequence it expects next.                                               *)
(*                                                                         *)
(* Batches are numbered in the order flushBucket accepts them.             *)
(***************************************************************************)
EXTENDS Naturals, Sequences

CONSTANTS
    MaxBatches,   \* bound: batches handed to the bucket
    MaxAttempts   \* WriterRetryPolicy.MaxAttempts

ASSUME MaxBatchesAssumption == MaxBatches \in Nat
ASSUME MaxAttemptsAssumption == MaxAttempts \in Nat \ {0}

VARIABLES
    submitted,  \* batches given to flushBucket so far: 1 .. submitted
    taken,      \* batches 1 .. taken have left pending[bucket]
    phase,      \* where the executeBatch goroutine of the bucket is
    batch,      \* the batch that goroutine sends
    attempt,    \* its attempt number
    rerouted,   \* RequestBucket has resent within this attempt
    sequence,   \* sequences[bucket]
    poisoned,   \* poisoned[bucket] # nil
    outcome,    \* terminal result of the futures of each batch
    offset,     \* log position reported for a batch, 0 = not known
    net,        \* produce requests on their way to the server
    serverLog   \* the server's log of the bucket, as batches

loopVars == <<submitted, taken, batch, sequence, poisoned, outcome>>
attemptVars == <<phase, attempt, rerouted>>
sequenceVars == <<submitted, taken, phase, batch, attempt, rerouted, sequence,
          poisoned, outcome, offset, net, serverLog>>

Batches == 1 .. MaxBatches
Attempts == 1 .. MaxAttempts
Phases == {"idle", "encode", "send", "wait", "ok", "err"}
Requests == [batch : Batches, seq : 0 .. MaxBatches, attempt : Attempts]

SequenceInit ==
    /\ submitted = 0 /\ taken = 0
    /\ phase = "idle" /\ batch = 0 /\ attempt = 1 /\ rerouted = FALSE
    /\ sequence = 0 /\ poisoned = FALSE
    /\ outcome = [k \in Batches |-> "open"]
    /\ offset = [k \in Batches |-> 0]
    /\ net = {} /\ serverLog = <<>>

-----------------------------------------------------------------------------
(* The writer's loop goroutine. *)

\* Mutant: flushBucket drops the batch of a poisoned bucket and leaves its
\* futures open.
FlushBucketDrops ==
    /\ submitted < MaxBatches
    /\ submitted' = submitted + 1
    /\ IF poisoned THEN taken' = submitted + 1 ELSE UNCHANGED taken
    /\ UNCHANGED <<batch, sequence, poisoned, outcome, attemptVars, offset, net, serverLog>>

\* flushBucket: a poisoned bucket fails the batch at once, otherwise it joins
\* pending[bucket].
FlushBucket ==
    /\ submitted < MaxBatches
    /\ submitted' = submitted + 1
    /\ IF poisoned
         THEN /\ outcome' = [outcome EXCEPT ![submitted + 1] = "failed"]
              /\ taken' = submitted + 1
         ELSE UNCHANGED <<outcome, taken>>
    /\ UNCHANGED <<batch, sequence, poisoned, attemptVars, offset, net, serverLog>>

\* dispatch: the head of pending[bucket] starts when the bucket is not active.
Dispatch ==
    /\ phase = "idle" /\ taken < submitted
    /\ taken' = taken + 1
    /\ batch' = taken + 1
    /\ phase' = "encode" /\ attempt' = 1 /\ rerouted' = FALSE
    /\ UNCHANGED <<submitted, sequence, poisoned, outcome, offset, net, serverLog>>

\* handleCompletion of a batch that was acknowledged.
CompleteOk ==
    /\ phase = "ok"
    /\ phase' = "idle"
    /\ sequence' = sequence + 1
    /\ outcome' = [outcome EXCEPT ![batch] = "acked"]
    /\ UNCHANGED <<submitted, taken, batch, attempt, rerouted, poisoned, offset, net, serverLog>>

\* Mutant: handleCompletion neither poisons the bucket nor touches what is
\* pending, and the next batch reuses the sequence.
CompleteErrNoPoison ==
    /\ phase = "err"
    /\ phase' = "idle"
    /\ outcome' = [outcome EXCEPT ![batch] = "failed"]
    /\ UNCHANGED <<submitted, taken, batch, attempt, rerouted, sequence, poisoned, offset, net, serverLog>>

\* Mutant: handleCompletion drops the pending batches without completing them.
CompleteErrDropPending ==
    /\ phase = "err"
    /\ phase' = "idle"
    /\ poisoned' = TRUE
    /\ outcome' = [outcome EXCEPT ![batch] = "failed"]
    /\ taken' = submitted
    /\ UNCHANGED <<submitted, batch, attempt, rerouted, sequence, offset, net, serverLog>>

\* handleCompletion of a batch that failed: poison the bucket and fail every
\* batch still pending for it.
CompleteErr ==
    /\ phase = "err"
    /\ phase' = "idle"
    /\ poisoned' = TRUE
    /\ outcome' = [k \in Batches |->
                     IF k = batch \/ k \in taken + 1 .. submitted
                       THEN "failed" ELSE outcome[k]]
    /\ taken' = submitted
    /\ UNCHANGED <<submitted, batch, attempt, rerouted, sequence, offset, net, serverLog>>

-----------------------------------------------------------------------------
(* executeBatch and executeWriterAttempts. *)

\* encodeBatch succeeds, or fails and nothing is ever sent.
Encode ==
    /\ phase = "encode"
    /\ phase' \in {"send", "err"}
    /\ UNCHANGED <<loopVars, attempt, rerouted, offset, net, serverLog>>

\* Mutant: every attempt takes a fresh sequence.
SendFreshSequence ==
    /\ phase = "send"
    /\ phase' = "wait"
    /\ net' = net \union {[batch |-> batch, seq |-> sequence + attempt - 1, attempt |-> attempt]}
    /\ UNCHANGED <<loopVars, attempt, rerouted, offset, serverLog>>

\* call(ctx): the request leaves with the sequence read at dispatch.
SendAttempt ==
    /\ phase = "send"
    /\ phase' = "wait"
    /\ net' = net \union {[batch |-> batch, seq |-> sequence, attempt |-> attempt]}
    /\ UNCHANGED <<loopVars, attempt, rerouted, offset, serverLog>>

\* Mutant: the attempt limit is off by one.
RetryableErrorOnceMore ==
    IF attempt > MaxAttempts
      THEN phase' = "err" /\ UNCHANGED <<attempt, rerouted>>
      ELSE phase' = "send" /\ attempt' = attempt + 1 /\ rerouted' = FALSE

\* A retryable error starts the next attempt, unless it was the last one.
RetryableError ==
    IF attempt = MaxAttempts
      THEN phase' = "err" /\ UNCHANGED <<attempt, rerouted>>
      ELSE phase' = "send" /\ attempt' = attempt + 1 /\ rerouted' = FALSE

\* The connection cannot be opened, or fails while the attempt waits for its
\* response: the client cannot know whether the batch was appended.
ConnectionFailure ==
    /\ phase \in {"send", "wait"}
    /\ RetryableError
    /\ UNCHANGED <<loopVars, offset, net, serverLog>>

\* Mutant: the error of the expired deadline is dropped.
TerminalErrorDropped ==
    /\ phase \in {"send", "wait"}
    /\ phase' = "ok"
    /\ UNCHANGED <<loopVars, attempt, rerouted, offset, net, serverLog>>

\* RequestTimeout expires in an attempt or in the backoff before one, or the
\* attempt ends with an error no retry can mend.
TerminalError ==
    /\ phase \in {"send", "wait"}
    /\ phase' = "err"
    /\ UNCHANGED <<loopVars, attempt, rerouted, offset, net, serverLog>>

-----------------------------------------------------------------------------
(* External: the network and the tablet server. *)

Lose(r) ==
    /\ net' = net \ {r}
    /\ UNCHANGED <<loopVars, attemptVars, offset, serverLog>>

\* A response reaches only the attempt that waits for it.
Awaited(r) == phase = "wait" /\ r.batch = batch /\ r.attempt = attempt

ReplyOk(at) ==
    /\ phase' = "ok" /\ UNCHANGED <<attempt, rerouted>>
    /\ offset' = [offset EXCEPT ![batch] = at]

ReplyRetryable == RetryableError /\ UNCHANGED offset

ReplyFatal == phase' = "err" /\ UNCHANGED <<attempt, rerouted, offset>>

\* RequestBucket answers one stale-metadata response by rerouting.
ReplyStale ==
    /\ ~rerouted
    /\ phase' = "send" /\ rerouted' = TRUE
    /\ UNCHANGED <<attempt, offset>>

NoReply == UNCHANGED <<attemptVars, offset>>

\* The expected sequence is the number of batches in the log: the server
\* appends the batch.  NOT_ENOUGH_REPLICAS_AFTER_APPEND reports a retryable
\* error although the batch is in the log.
AppendBatch(r) ==
    /\ r.seq = Len(serverLog)
    /\ serverLog' = Append(serverLog, r.batch)
    /\ \/ NoReply
       \/ Awaited(r) /\ (ReplyOk(Len(serverLog) + 1) \/ ReplyRetryable)

\* An older sequence is a duplicate: the server answers with the recorded
\* offset, or with DUPLICATE_SEQUENCE, which the client takes for success.
Duplicate(r) ==
    /\ r.seq < Len(serverLog)
    /\ UNCHANGED serverLog
    /\ \/ NoReply
       \/ Awaited(r) /\ (ReplyOk(r.seq + 1) \/ ReplyOk(0))

\* Any other answer leaves the log alone: OUT_OF_ORDER_SEQUENCE, an unknown
\* writer, a stale leader, a storage error, ...
Reject(r) ==
    /\ UNCHANGED serverLog
    /\ \/ NoReply
       \/ Awaited(r) /\ (ReplyRetryable \/ ReplyFatal \/ ReplyStale)

Handle(r) ==
    /\ net' = net \ {r}
    /\ AppendBatch(r) \/ Duplicate(r) \/ Reject(r)
    /\ UNCHANGED loopVars

-----------------------------------------------------------------------------
\* Every batch has its result and nothing is on its way: nothing is left to do.
SequenceFinished ==
    /\ submitted = MaxBatches /\ taken = submitted /\ phase = "idle" /\ net = {}
    /\ UNCHANGED sequenceVars

SequenceNext ==
    \/ FlushBucket \/ Dispatch \/ CompleteOk \/ CompleteErr
    \/ Encode \/ SendAttempt \/ ConnectionFailure \/ TerminalError
    \/ \E r \in net : Lose(r) \/ Handle(r)
    \/ SequenceFinished

\* The steps of the loop goroutine and of the goroutine of a batch, at most one of
\* which is not waiting for the other; an attempt that gets no answer ends at
\* RequestTimeout.
LoopOrAttemptStep == Dispatch \/ CompleteOk \/ CompleteErr \/ Encode \/ SendAttempt \/ TerminalError

SequenceSpec == SequenceInit /\ [][SequenceNext]_sequenceVars
SequenceFairSpec == SequenceSpec /\ WF_sequenceVars(LoopOrAttemptStep)

-----------------------------------------------------------------------------
TypeOK ==
    /\ submitted \in 0 .. MaxBatches /\ taken \in 0 .. submitted
    /\ phase \in Phases /\ batch \in 0 .. taken /\ attempt \in Attempts
    /\ rerouted \in BOOLEAN
    /\ sequence \in 0 .. MaxBatches /\ poisoned \in BOOLEAN
    /\ outcome \in [Batches -> {"open", "acked", "failed"}]
    /\ offset \in [Batches -> 0 .. MaxBatches]
    /\ net \subseteq Requests
    /\ serverLog \in Seq(Batches)

\* Whatever is lost, delayed or retried, the server's log holds the batches in
\* the order flushBucket accepted them, each once and without a gap: batch k is
\* only ever at position k.
LogInOrder == \A i \in DOMAIN serverLog : serverLog[i] = i

\* A future that handleCompletion completed without an error belongs to a batch
\* that is in the log, and an offset it reports is the batch's place there.
AckedIsInLog ==
    \A k \in Batches : outcome[k] = "acked" =>
        /\ k \in DOMAIN serverLog /\ serverLog[k] = k
        /\ offset[k] \in {0, k}

\* Poisoning: no batch is acknowledged behind one that failed, so a caller that
\* sees an error knows everything it appended later to the bucket failed too; and
\* a failed batch can be in the log (its response was lost) only when it is the
\* first that failed, as of the later ones no request was ever sent.
FailureIsFinal ==
    \A j, k \in Batches : j < k /\ outcome[j] = "failed" =>
        outcome[k] # "acked" /\ \A i \in DOMAIN serverLog : serverLog[i] # k

\* A WriteFuture completes once, its terminal result never changes, and the
\* batches of a bucket complete in the order flushBucket accepted them.
ResultsStable ==
    [][\A k \in Batches :
          /\ outcome[k] # "open" => outcome'[k] = outcome[k]
          /\ outcome'[k] # "open" => \A j \in 1 .. k : outcome'[j] # "open"]_sequenceVars

\* Every batch flushBucket accepts gets a terminal result: a backlog of batches
\* without one is worked off.
EveryBatchCompletes ==
    (\E k \in 1 .. submitted : outcome[k] = "open") ~> (\A k \in 1 .. submitted : outcome[k] # "open")

-----------------------------------------------------------------------------
\* The protocol keeps the promise of BucketLog: what callers are told and what
\* the log holds are related as there, whatever the retries do.
Promise == INSTANCE BucketLog WITH accepted <- submitted, log <- serverLog
ImplementsBucketLog == Promise!Spec
=============================================================================
