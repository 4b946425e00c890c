------------------------- MODULE BucketSequenceProofs -------------------------
(***************************************************************************)
(* Proofs about BucketSequence, for any number of batches and attempts.    *)
(*                                                                         *)
(* The argument: sequences[bucket] counts the acknowledged batches, so a   *)
(* request for batch k can only carry sequence k - 1, and it can only be   *)
(* sent while no earlier batch has failed.  The log therefore never runs   *)
(* ahead of sequence by more than the batch being sent, and an answer that *)
(* counts as success implies that this batch is in it.                     *)
(***************************************************************************)
EXTENDS BucketSequence, TLAPS

\* Every request on its way was built from the sequence of its own batch.
NetInv == \A r \in net : r.batch = r.seq + 1 /\ r.seq <= sequence /\ r.batch <= taken

\* What the loop knows about the goroutine of the bucket.
LoopInv ==
    /\ phase # "idle" => ~poisoned /\ batch = sequence + 1 /\ taken = batch
    /\ phase = "idle" /\ ~poisoned => taken = sequence
    /\ poisoned => phase = "idle" /\ taken = submitted /\ sequence < submitted
    /\ sequence <= taken

\* The log is the acknowledged batches and at most one more.
LogInv ==
    /\ LogInOrder
    /\ sequence <= Len(serverLog) /\ Len(serverLog) <= sequence + 1
    /\ phase = "ok" => Len(serverLog) = sequence + 1

\* The results are determined by sequence, poisoned and submitted.
Result(k, n, p, s) ==
    IF k <= n THEN "acked" ELSE IF p /\ k <= s THEN "failed" ELSE "open"

ResultInv ==
    /\ \A k \in Batches : outcome[k] = Result(k, sequence, poisoned, submitted)
    /\ \A k \in Batches : offset[k] \in {0, k}

IInv == TypeOK /\ NetInv /\ LoopInv /\ LogInv /\ ResultInv

-----------------------------------------------------------------------------
\* The initial state of a bucket satisfies the inductive invariant.
LEMMA InitIInv == SequenceInit => IInv
<1> SUFFICES ASSUME SequenceInit PROVE IInv
    BY Zenon
<1> USE MaxBatchesAssumption, MaxAttemptsAssumption DEF SequenceInit
<1>1. TypeOK
  <2>1. outcome \in [Batches -> {"open", "acked", "failed"}] /\ offset \in [Batches -> 0 .. MaxBatches]
    OBVIOUS
  <2>2. serverLog \in Seq(Batches) /\ net \subseteq Requests
    OBVIOUS
  <2>3. rerouted \in BOOLEAN /\ poisoned \in BOOLEAN
    BY Zenon
  <2> QED
    BY <2>1, <2>2, <2>3 DEF TypeOK, Attempts, Phases
<1>2. NetInv /\ LoopInv
    BY DEF NetInv, LoopInv
<1>3. LogInv
    BY DEF LogInv, LogInOrder
<1>4. ResultInv
    BY DEF ResultInv, Result, Batches
<1> QED
    BY <1>1, <1>2, <1>3, <1>4, Zenon DEF IInv

\* flushBucket on a live or a poisoned bucket preserves the inductive invariant.
LEMMA FlushBucketIInv == IInv /\ FlushBucket => IInv'
<1> SUFFICES ASSUME IInv, FlushBucket PROVE IInv'
    BY Zenon
<1> USE MaxBatchesAssumption, MaxAttemptsAssumption DEF IInv, FlushBucket, attemptVars
<1>1. TypeOK'
  <2>1. CASE poisoned
    <3>1. outcome' = [outcome EXCEPT ![submitted + 1] = "failed"] /\ taken' = submitted'
      BY <2>1, Zenon
    <3>2. outcome' \in [Batches -> {"open", "acked", "failed"}]
      BY <3>1, Zenon DEF TypeOK
    <3>3. poisoned' \in BOOLEAN /\ rerouted' \in BOOLEAN
      BY Zenon DEF TypeOK
    <3> QED
      BY <3>1, <3>2, <3>3 DEF TypeOK
  <2>2. CASE ~poisoned
    BY <2>2 DEF TypeOK, Batches
  <2> QED
    BY <2>1, <2>2, Zenon
<1>2. NetInv'
    BY DEF TypeOK, NetInv, LoopInv, Requests
<1>3. LoopInv'
    BY DEF TypeOK, LoopInv
<1>4. LogInv'
    BY Zenon DEF TypeOK, LoopInv, LogInv, LogInOrder
<1>5. ResultInv'
  <2>1. CASE poisoned
    <3>1. /\ submitted + 1 \in Batches /\ submitted \in Nat /\ submitted' = submitted + 1
          /\ sequence' = sequence /\ sequence < submitted /\ sequence \in Nat
          /\ poisoned' /\ offset' = offset
      BY <2>1 DEF TypeOK, LoopInv, Batches
    <3>2. outcome' = [outcome EXCEPT ![submitted + 1] = "failed"] /\ DOMAIN outcome = Batches
      BY <2>1, Zenon DEF TypeOK
    <3>3. ASSUME NEW k \in Batches PROVE outcome'[k] = Result(k, sequence', poisoned', submitted')
      <4>1. CASE k = submitted + 1
        BY <3>1, <3>2, <4>1 DEF Result
      <4>2. CASE k # submitted + 1
        <5>1. outcome'[k] = Result(k, sequence, poisoned, submitted)
          BY <3>2, <4>2, Zenon DEF ResultInv
        <5>2. k <= submitted <=> k <= submitted'
          BY <3>1, <4>2 DEF Batches
        <5> QED
          BY <2>1, <3>1, <5>1, <5>2, Zenon DEF Result
      <4> QED
        BY <4>1, <4>2, Zenon
    <3> QED
      BY <3>1, <3>3, Zenon DEF ResultInv
  <2>2. CASE ~poisoned
    BY <2>2, Zenon DEF TypeOK, LoopInv, ResultInv, Result, Batches
  <2> QED
    BY <2>1, <2>2, Zenon
<1> QED
    BY <1>1, <1>2, <1>3, <1>4, <1>5, Zenon DEF IInv

\* dispatch preserves the inductive invariant.
LEMMA DispatchIInv == IInv /\ Dispatch => IInv'
<1> SUFFICES ASSUME IInv, Dispatch PROVE IInv'
    BY Zenon
<1> USE MaxBatchesAssumption, MaxAttemptsAssumption DEF IInv, Dispatch
<1>1. TypeOK'
  <2>1. rerouted' \in BOOLEAN /\ poisoned' \in BOOLEAN
    BY Zenon DEF TypeOK
  <2> QED
    BY <2>1 DEF TypeOK, Attempts, Phases
<1>2. NetInv'
    BY DEF TypeOK, NetInv, LoopInv, Requests
<1>3. LoopInv'
    BY DEF TypeOK, LoopInv
<1>4. LogInv'
    BY Zenon DEF TypeOK, LoopInv, LogInv, LogInOrder
<1>5. ResultInv'
    BY Zenon DEF TypeOK, LoopInv, ResultInv, Result, Batches
<1> QED
    BY <1>1, <1>2, <1>3, <1>4, <1>5, Zenon DEF IInv

\* handleCompletion of a success preserves the inductive invariant.
LEMMA CompleteOkIInv == IInv /\ CompleteOk => IInv'
<1> SUFFICES ASSUME IInv, CompleteOk PROVE IInv'
    BY Zenon
<1> USE MaxBatchesAssumption, MaxAttemptsAssumption DEF IInv, CompleteOk
<1>1. TypeOK'
    BY DEF TypeOK, LoopInv, Batches, Attempts, Phases, Requests
<1>2. NetInv'
    BY DEF TypeOK, NetInv, LoopInv, Requests
<1>3. LoopInv'
    BY DEF TypeOK, LoopInv
<1>4. LogInv'
    BY DEF TypeOK, LoopInv, LogInv, LogInOrder
<1>5. ResultInv'
    BY DEF TypeOK, LoopInv, ResultInv, Result, Batches
<1> QED
    BY <1>1, <1>2, <1>3, <1>4, <1>5, Zenon DEF IInv

\* handleCompletion of a failure preserves the inductive invariant.
LEMMA CompleteErrIInv == IInv /\ CompleteErr => IInv'
<1> SUFFICES ASSUME IInv, CompleteErr PROVE IInv'
    BY Zenon
<1> USE MaxBatchesAssumption, MaxAttemptsAssumption DEF IInv, CompleteErr
<1>1. TypeOK'
    BY DEF TypeOK, LoopInv, Batches, Attempts, Phases, Requests
<1>2. NetInv'
    BY DEF TypeOK, NetInv, LoopInv, Requests
<1>3. LoopInv'
    BY DEF TypeOK, LoopInv
<1>4. LogInv'
    BY Zenon DEF TypeOK, LoopInv, LogInv, LogInOrder
<1>5. ResultInv'
    BY DEF TypeOK, LoopInv, ResultInv, Result, Batches
<1> QED
    BY <1>1, <1>2, <1>3, <1>4, <1>5, Zenon DEF IInv

\* Encoding a batch, or failing to, preserves the inductive invariant.
LEMMA EncodeIInv == IInv /\ Encode => IInv'
<1> SUFFICES ASSUME IInv, Encode PROVE IInv'
    BY Zenon
<1> USE MaxBatchesAssumption, MaxAttemptsAssumption DEF IInv, Encode, loopVars
<1>1. TypeOK'
    BY Zenon DEF TypeOK, LoopInv, Batches, Attempts, Phases, Requests
<1>2. NetInv'
    BY Zenon DEF TypeOK, NetInv, LoopInv, Requests
<1>3. LoopInv'
    BY Zenon DEF TypeOK, LoopInv
<1>4. LogInv'
    BY Zenon DEF TypeOK, LoopInv, LogInv, LogInOrder
<1>5. ResultInv'
    BY Zenon DEF TypeOK, LoopInv, ResultInv, Result, Batches
<1> QED
    BY <1>1, <1>2, <1>3, <1>4, <1>5, Zenon DEF IInv

\* Sending a request with the bucket's sequence preserves the inductive invariant.
LEMMA SendIInv == IInv /\ SendAttempt => IInv'
<1> SUFFICES ASSUME IInv, SendAttempt PROVE IInv'
    BY Zenon
<1> USE MaxBatchesAssumption, MaxAttemptsAssumption DEF IInv, SendAttempt, loopVars
<1>1. TypeOK'
    BY SMTT(30) DEF TypeOK, LoopInv, Batches, Attempts, Phases, Requests
<1>2. NetInv'
    BY DEF TypeOK, NetInv, LoopInv, Requests
<1>3. LoopInv'
    BY Zenon DEF TypeOK, LoopInv
<1>4. LogInv'
    BY Zenon DEF TypeOK, LoopInv, LogInv, LogInOrder
<1>5. ResultInv'
    BY Zenon DEF TypeOK, LoopInv, ResultInv, Result, Batches
<1> QED
    BY <1>1, <1>2, <1>3, <1>4, <1>5, Zenon DEF IInv

\* A connection failure, retried or final, preserves the inductive invariant.
LEMMA ConnectionFailureIInv == IInv /\ ConnectionFailure => IInv'
<1> SUFFICES ASSUME IInv, ConnectionFailure PROVE IInv'
    BY Zenon
<1> USE MaxBatchesAssumption, MaxAttemptsAssumption DEF IInv, ConnectionFailure, RetryableError, loopVars
<1>1. TypeOK'
  <2>1. CASE attempt = MaxAttempts
    BY <2>1, Zenon DEF TypeOK, Phases
  <2>2. CASE attempt # MaxAttempts
    <3>1. rerouted' \in BOOLEAN /\ poisoned' \in BOOLEAN
      BY <2>2, Zenon DEF TypeOK
    <3>2. attempt' \in Attempts /\ phase' \in Phases
      BY <2>2 DEF TypeOK, Attempts, Phases
    <3> QED
      BY <3>1, <3>2, Zenon DEF TypeOK
  <2> QED
    BY <2>1, <2>2, Zenon
<1>2. NetInv'
    BY Zenon DEF TypeOK, NetInv, LoopInv, Requests
<1>3. LoopInv'
    BY Zenon DEF TypeOK, LoopInv
<1>4. LogInv'
    BY Zenon DEF TypeOK, LoopInv, LogInv, LogInOrder
<1>5. ResultInv'
    BY Zenon DEF TypeOK, LoopInv, ResultInv, Result, Batches
<1> QED
    BY <1>1, <1>2, <1>3, <1>4, <1>5, Zenon DEF IInv

\* A deadline or another terminal error preserves the inductive invariant.
LEMMA TerminalErrorIInv == IInv /\ TerminalError => IInv'
<1> SUFFICES ASSUME IInv, TerminalError PROVE IInv'
    BY Zenon
<1> USE MaxBatchesAssumption, MaxAttemptsAssumption DEF IInv, TerminalError, loopVars
<1>1. TypeOK'
    BY Zenon DEF TypeOK, LoopInv, Batches, Attempts, Phases, Requests
<1>2. NetInv'
    BY Zenon DEF TypeOK, NetInv, LoopInv, Requests
<1>3. LoopInv'
    BY Zenon DEF TypeOK, LoopInv
<1>4. LogInv'
    BY Zenon DEF TypeOK, LoopInv, LogInv, LogInOrder
<1>5. ResultInv'
    BY Zenon DEF TypeOK, LoopInv, ResultInv, Result, Batches
<1> QED
    BY <1>1, <1>2, <1>3, <1>4, <1>5, Zenon DEF IInv

\* Losing a request preserves the inductive invariant.
LEMMA LoseIInv == ASSUME IInv, NEW r \in net, Lose(r) PROVE IInv'
<1> USE DEF IInv, Lose, loopVars, attemptVars
<1>1. TypeOK'
    BY Zenon DEF TypeOK
<1>2. NetInv' /\ LoopInv'
    BY Zenon DEF NetInv, LoopInv
<1>3. LogInv' /\ ResultInv'
    BY Zenon DEF LogInv, LogInOrder, ResultInv, Result
<1> QED
    BY <1>1, <1>2, <1>3, Zenon DEF IInv

\* A response that reports an error keeps the attempt well formed.
LEMMA ErrorReply ==
    ASSUME TypeOK, phase = "wait", ReplyRetryable \/ ReplyFatal \/ ReplyStale
    PROVE  /\ phase' \in {"send", "err"} /\ attempt' \in Attempts
           /\ rerouted' \in BOOLEAN /\ offset' = offset
<1> USE MaxAttemptsAssumption
<1>1. CASE ReplyRetryable
  <2>1. CASE attempt = MaxAttempts
    BY <1>1, <2>1, Zenon DEF TypeOK, ReplyRetryable, RetryableError
  <2>2. CASE attempt # MaxAttempts
    <3>1. rerouted' \in BOOLEAN
      BY <1>1, <2>2, Zenon DEF ReplyRetryable, RetryableError
    <3>2. attempt' \in Attempts /\ phase' = "send" /\ offset' = offset
      BY <1>1, <2>2 DEF TypeOK, Attempts, ReplyRetryable, RetryableError
    <3> QED
      BY <3>1, <3>2, Zenon
  <2> QED
    BY <2>1, <2>2, Zenon
<1>2. CASE ReplyFatal
    BY <1>2, Zenon DEF TypeOK, ReplyFatal
<1>3. CASE ReplyStale
    BY <1>3, Zenon DEF TypeOK, ReplyStale
<1> QED
    BY <1>1, <1>2, <1>3, Zenon

\* What the server and the response to one request can do: the log grows by the
\* expected batch or not at all, and success means that the batch is in it.
LEMMA HandleEffect ==
    ASSUME IInv, NEW r \in net, Handle(r)
    PROVE  /\ \/ serverLog' = serverLog
              \/ r.seq = Len(serverLog) /\ serverLog' = Append(serverLog, r.batch)
           /\ phase' = phase \/ (phase = "wait" /\ phase' \in {"send", "err", "ok"})
           /\ phase # "ok" /\ phase' = "ok" => Len(serverLog') >= sequence + 1
           /\ attempt' \in Attempts /\ rerouted' \in BOOLEAN
           /\ \/ offset' = offset
              \/ \E at \in {0, batch} : batch \in Batches /\ offset' = [offset EXCEPT ![batch] = at]
<1> USE DEF IInv, Handle
<1>0. /\ r.batch = r.seq + 1 /\ r.seq <= sequence /\ r \in Requests
      /\ sequence \in Nat /\ Len(serverLog) \in Nat /\ serverLog \in Seq(Batches)
      /\ r.seq \in Nat /\ r.batch \in Batches
    BY MaxBatchesAssumption DEF NetInv, TypeOK, Requests
<1>1. CASE NoReply
    BY <1>1, Zenon DEF NoReply, attemptVars, AppendBatch, Duplicate, Reject, TypeOK
<1>2. CASE AppendBatch(r) /\ Awaited(r)
  <2>1. r.seq = Len(serverLog) /\ serverLog' = Append(serverLog, r.batch) /\ phase = "wait" /\ batch = r.batch
    BY <1>2, Zenon DEF AppendBatch, Awaited
  <2>2. batch = sequence + 1 /\ Len(serverLog') = Len(serverLog) + 1
    BY <1>0, <2>1 DEF LoopInv
  <2>3. CASE ReplyOk(Len(serverLog) + 1)
    <3>1. Len(serverLog) + 1 = batch /\ batch \in Batches /\ Len(serverLog') >= sequence + 1
      BY <1>0, <2>1, <2>2
    <3>2. phase' = "ok" /\ offset' = [offset EXCEPT ![batch] = batch]
      BY <2>3, <3>1, Zenon DEF ReplyOk
    <3>3. attempt' \in Attempts /\ rerouted' \in BOOLEAN
      BY <2>3, Zenon DEF ReplyOk, TypeOK
    <3> QED
      BY <2>1, <3>1, <3>2, <3>3, Zenon
  <2>4. CASE ReplyRetryable
    BY <2>1, <2>4, ErrorReply, Zenon
  <2>5. CASE NoReply
    BY <1>1, <2>5, Zenon
  <2> QED
    BY <1>2, <2>3, <2>4, <2>5, Zenon DEF AppendBatch
<1>3. CASE Duplicate(r) /\ Awaited(r)
  <2>1. r.seq < Len(serverLog) /\ serverLog' = serverLog /\ phase = "wait" /\ batch = r.batch
    BY <1>3, Zenon DEF Duplicate, Awaited
  <2>2. batch = sequence + 1 /\ r.seq = sequence
    BY <1>0, <2>1 DEF LoopInv
  <2>3. CASE ReplyOk(r.seq + 1)
    BY <2>1, <2>2, <2>3, <1>0 DEF ReplyOk, TypeOK
  <2>4. CASE ReplyOk(0)
    BY <2>1, <2>2, <2>4, <1>0 DEF ReplyOk, TypeOK
  <2>5. CASE NoReply
    BY <1>1, <2>5, Zenon
  <2> QED
    BY <1>3, <2>3, <2>4, <2>5, Zenon DEF Duplicate
<1>4. CASE Reject(r) /\ Awaited(r) /\ ~NoReply
  <2>1. serverLog' = serverLog /\ phase = "wait" /\ (ReplyRetryable \/ ReplyFatal \/ ReplyStale)
    BY <1>4, Zenon DEF Reject, Awaited
  <2> QED
    BY <2>1, ErrorReply, Zenon
<1> QED
    BY <1>1, <1>2, <1>3, <1>4, Zenon DEF AppendBatch, Duplicate, Reject

\* The server's handling of a request preserves the inductive invariant.
LEMMA HandleIInv == ASSUME IInv, NEW r \in net, Handle(r) PROVE IInv'
<1> USE MaxBatchesAssumption, HandleEffect DEF IInv
<1>0. UNCHANGED loopVars /\ net' \subseteq net
    BY Zenon DEF Handle
<1>1. /\ r.batch = r.seq + 1 /\ r.seq <= sequence
      /\ r.seq \in Nat /\ r.batch \in Batches
    BY DEF NetInv, TypeOK, Requests
<1>2. serverLog' \in Seq(Batches) /\ LogInOrder' /\ Len(serverLog') \in {Len(serverLog), Len(serverLog) + 1}
    /\ sequence <= Len(serverLog') /\ Len(serverLog') <= sequence + 1
  <2>1. CASE serverLog' = serverLog
    BY <2>1, Zenon DEF TypeOK, LogInv, LogInOrder
  <2>2. CASE r.seq = Len(serverLog) /\ serverLog' = Append(serverLog, r.batch)
    BY <2>2, <1>1, SMTT(30) DEF TypeOK, LogInv, LogInOrder
  <2> QED
    BY <2>1, <2>2, Zenon
<1>3. offset' \in [Batches -> 0 .. MaxBatches] /\ \A k \in Batches : offset'[k] \in {0, k}
  <2>1. CASE offset' = offset
    BY <2>1, Zenon DEF TypeOK, ResultInv, Result
  <2>2. ASSUME NEW at \in {0, batch}, batch \in Batches, offset' = [offset EXCEPT ![batch] = at]
        PROVE  offset' \in [Batches -> 0 .. MaxBatches] /\ \A k \in Batches : offset'[k] \in {0, k}
    BY <2>2 DEF TypeOK, ResultInv, Result, Batches
  <2> QED
    BY <2>1, <2>2, Zenon
<1>4. phase' \in Phases /\ attempt' \in Attempts /\ rerouted' \in BOOLEAN
    BY Zenon DEF TypeOK, Phases
<1>5. TypeOK'
    BY <1>0, <1>2, <1>3, <1>4, Zenon DEF TypeOK, loopVars
<1>6. NetInv'
    BY <1>0, Zenon DEF NetInv, loopVars
<1>7. LoopInv'
    BY <1>0, Zenon DEF LoopInv, loopVars
<1>8. LogInv'
    BY <1>0, <1>2 DEF LogInv, TypeOK, loopVars
<1>9. ResultInv'
    BY <1>0, <1>3, Zenon DEF ResultInv, Result, loopVars
<1> QED
    BY <1>5, <1>6, <1>7, <1>8, <1>9, Zenon DEF IInv

-----------------------------------------------------------------------------
\* The invariant is inductive: every step of the writer's loop, of the batch's
\* goroutine, of the network and of the server preserves it.
LEMMA NextIInv == IInv /\ [SequenceNext]_sequenceVars => IInv'
<1> SUFFICES ASSUME IInv, [SequenceNext]_sequenceVars PROVE IInv'
    BY Zenon
<1>1. CASE UNCHANGED sequenceVars \/ SequenceFinished
    BY <1>1, SMTT(30) DEF SequenceFinished, sequenceVars, IInv, TypeOK, NetInv, LoopInv, LogInv, LogInOrder, ResultInv, Result
<1>2. CASE FlushBucket \/ Dispatch \/ CompleteOk \/ CompleteErr
    BY <1>2, FlushBucketIInv, DispatchIInv, CompleteOkIInv, CompleteErrIInv, Zenon
<1>3. CASE Encode \/ SendAttempt \/ ConnectionFailure \/ TerminalError
    BY <1>3, EncodeIInv, SendIInv, ConnectionFailureIInv, TerminalErrorIInv, Zenon
<1>4. CASE \E r \in net : Lose(r) \/ Handle(r)
    BY <1>4, LoseIInv, HandleIInv, Zenon
<1> QED
    BY <1>1, <1>2, <1>3, <1>4, Zenon DEF SequenceNext

\* For any number of batches and attempts, the inductive invariant always holds.
THEOREM Inductive == SequenceSpec => []IInv
    BY InitIInv, NextIInv, PTL DEF SequenceSpec

\* Type correctness of the bucket protocol.
THEOREM TypeCorrect == SequenceSpec => []TypeOK
    BY Inductive, PTL DEF IInv

\* The server's log of a bucket holds the accepted batches in order, each once.
THEOREM OrderedLog == SequenceSpec => []LogInOrder
    BY Inductive, PTL DEF IInv, LogInv

\* A future completed without an error belongs to a batch in the log, at the
\* reported offset.
THEOREM AckedBatches == SequenceSpec => []AckedIsInLog
<1>1. ASSUME IInv, NEW k \in Batches, outcome[k] = "acked"
      PROVE  k \in DOMAIN serverLog /\ serverLog[k] = k /\ offset[k] \in {0, k}
  <2>1. k <= sequence /\ offset[k] \in {0, k}
    BY <1>1, Zenon DEF IInv, ResultInv, Result
  <2>2. k \in 1 .. Len(serverLog) /\ DOMAIN serverLog = 1 .. Len(serverLog)
    BY <1>1, <2>1, MaxBatchesAssumption DEF IInv, TypeOK, LogInv, Batches
  <2> QED
    BY <1>1, <2>1, <2>2, Zenon DEF IInv, LogInv, LogInOrder
<1>2. IInv => AckedIsInLog
    BY <1>1, Zenon DEF AckedIsInLog
<1> QED
    BY <1>2, Inductive, PTL

\* After a failed batch nothing is acknowledged, and nothing later is in the log.
THEOREM Poisoning == SequenceSpec => []FailureIsFinal
<1>1. IInv => FailureIsFinal
  <2> SUFFICES ASSUME IInv, NEW j \in Batches, NEW k \in Batches, j < k, outcome[j] = "failed"
               PROVE  outcome[k] # "acked" /\ \A i \in DOMAIN serverLog : serverLog[i] # k
    BY Zenon DEF FailureIsFinal
  <2>1. ~(j <= sequence)
    BY Zenon DEF IInv, ResultInv, Result
  <2>2. ~(k <= sequence)
    BY <2>1, MaxBatchesAssumption DEF IInv, TypeOK, Batches
  <2>3. outcome[k] = IF poisoned /\ k <= submitted THEN "failed" ELSE "open"
    BY <2>2, Zenon DEF IInv, ResultInv, Result
  <2>4. \A i \in DOMAIN serverLog : serverLog[i] # k
    BY <2>1, MaxBatchesAssumption DEF IInv, TypeOK, LogInv, LogInOrder, Batches
  <2> QED
    BY <2>3, <2>4, Zenon
<1> QED
    BY <1>1, Inductive, PTL

\* Terminal results never change and the batches of a bucket complete in order.
THEOREM StableResults == SequenceSpec => ResultsStable
<1>1. IInv /\ IInv' /\ [SequenceNext]_sequenceVars =>
        [\A k \in Batches :
           /\ outcome[k] # "open" => outcome'[k] = outcome[k]
           /\ outcome'[k] # "open" => \A j \in 1 .. k : outcome'[j] # "open"]_sequenceVars
  <2> SUFFICES ASSUME IInv, IInv', [SequenceNext]_sequenceVars, NEW k \in Batches
               PROVE /\ outcome[k] # "open" => outcome'[k] = outcome[k]
                     /\ outcome'[k] # "open" => \A j \in 1 .. k : outcome'[j] # "open"
    BY Zenon
  <2>1. sequence <= sequence' /\ submitted <= submitted' /\ (poisoned => poisoned' /\ sequence' = sequence)
    BY SMTT(30) DEF IInv, TypeOK, LoopInv, SequenceNext, sequenceVars, FlushBucket, Dispatch, CompleteOk, CompleteErr, Encode, SendAttempt,
       ConnectionFailure, TerminalError, Lose, Handle, SequenceFinished, loopVars
  <2>2. /\ sequence \in Nat /\ sequence' \in Nat /\ submitted \in Nat /\ submitted' \in Nat
        /\ k \in Nat /\ \A j \in 1 .. k : j \in Batches /\ j <= k /\ j \in Nat
    BY MaxBatchesAssumption DEF IInv, TypeOK, Batches
  <2>3. \A j \in Batches : /\ outcome[j] = Result(j, sequence, poisoned, submitted)
                           /\ outcome'[j] = Result(j, sequence', poisoned', submitted')
    BY Zenon DEF IInv, ResultInv, Result
  <2>4. outcome[k] # "open" => outcome'[k] = outcome[k]
    <3>1. CASE k <= sequence
      BY <2>1, <2>2, <2>3, <3>1 DEF Result
    <3>2. CASE ~(k <= sequence) /\ poisoned /\ k <= submitted
      BY <2>1, <2>2, <2>3, <3>2 DEF Result
    <3>3. CASE ~(k <= sequence) /\ ~(poisoned /\ k <= submitted)
      BY <2>3, <3>3, Zenon DEF Result
    <3> QED
      BY <3>1, <3>2, <3>3, Zenon
  <2>5. ASSUME outcome'[k] # "open", NEW j \in 1 .. k PROVE outcome'[j] # "open"
    <3>1. k <= sequence' \/ (poisoned' /\ k <= submitted')
      BY <2>3, <2>5, Zenon DEF Result
    <3>2. j <= sequence' \/ (poisoned' /\ j <= submitted')
      BY <2>2, <3>1
    <3> QED
      BY <2>2, <2>3, <3>2, Zenon DEF Result
  <2> QED
    BY <2>4, <2>5, Zenon
<1> QED
    BY <1>1, Inductive, PTL DEF SequenceSpec, ResultsStable

-----------------------------------------------------------------------------
\* The writer's loop takes only steps BucketLog allows.
LEMMA LoopRefines ==
    ASSUME IInv, FlushBucket \/ Dispatch \/ CompleteOk \/ CompleteErr
    PROVE  [Promise!Next]_Promise!vars
<1> USE MaxBatchesAssumption DEF IInv, Promise!Batches, Batches
<1>0. /\ submitted \in Nat /\ taken \in Nat /\ sequence \in Nat /\ batch \in Nat
      /\ taken <= submitted /\ submitted <= MaxBatches
      /\ outcome \in [Batches -> {"open", "acked", "failed"}]
    BY DEF TypeOK
<1>1. CASE FlushBucket /\ poisoned
  <2>1. Promise!Broken
    <3>1. submitted \in Batches /\ ~(submitted <= sequence) /\ submitted <= submitted
      BY <1>0, <1>1 DEF LoopInv
    <3>2. outcome[submitted] = "failed"
      BY <1>1, <3>1, Zenon DEF ResultInv, Result
    <3> QED
      BY <3>1, <3>2, Zenon DEF Promise!Broken
  <2>2. outcome' = [k \in Batches |-> IF k \in submitted + 1 .. submitted + 1 THEN "failed" ELSE outcome[k]]
    BY <1>0, <1>1 DEF FlushBucket
  <2>3. submitted + 1 \in submitted + 1 .. MaxBatches /\ submitted' = submitted + 1 /\ serverLog' = serverLog
    BY <1>0, <1>1 DEF FlushBucket
  <2> QED
    BY <2>1, <2>2, <2>3, Zenon DEF Promise!Next, Promise!Accept
<1>2. CASE FlushBucket /\ ~poisoned
  <2>1. ~Promise!Broken
    BY <1>2, Zenon DEF Promise!Broken, ResultInv, Result
  <2>2. outcome' = [k \in Batches |-> outcome[k]]
    BY <1>0, <1>2, Zenon DEF FlushBucket
  <2>3. submitted + 1 \in submitted + 1 .. MaxBatches /\ submitted' = submitted + 1 /\ serverLog' = serverLog
    BY <1>0, <1>2 DEF FlushBucket
  <2> QED
    BY <2>1, <2>2, <2>3, Zenon DEF Promise!Next, Promise!Accept
<1>3. CASE Dispatch
    BY <1>3, Zenon DEF Dispatch, Promise!vars
<1>4. CASE CompleteOk
  <2>1. batch \in 1 .. Len(serverLog) /\ batch \in Batches /\ ~(batch <= sequence) /\ ~poisoned
    BY <1>0, <1>4 DEF CompleteOk, LoopInv, LogInv, TypeOK
  <2>2. outcome[batch] = "open"
    BY <2>1, Zenon DEF ResultInv, Result
  <2> QED
    BY <1>4, <2>1, <2>2, Zenon DEF CompleteOk, Promise!Next, Promise!Ack
<1>5. CASE CompleteErr
  <2>1. batch = sequence + 1 /\ taken = batch /\ ~poisoned
    BY <1>5, Zenon DEF CompleteErr, LoopInv
  <2>2. \A k \in Batches : outcome[k] = "open" <=> ~(k <= sequence)
    BY <2>1, Zenon DEF ResultInv, Result
  <2>3. \A k \in Batches : (k = batch \/ k \in taken + 1 .. submitted) <=> (k <= submitted /\ outcome[k] = "open")
    BY <1>0, <2>1, <2>2
  <2>4. outcome' = [k \in Batches |-> IF k <= submitted /\ outcome[k] = "open" THEN "failed" ELSE outcome[k]]
    BY <1>5, <2>3, Zenon DEF CompleteErr
  <2>5. batch \in 1 .. submitted /\ outcome[batch] = "open" /\ submitted' = submitted /\ serverLog' = serverLog
    BY <1>0, <1>5, <2>1, <2>2 DEF CompleteErr
  <2> QED
    BY <2>4, <2>5, Zenon DEF Promise!Next, Promise!Fail
<1> QED
    BY <1>1, <1>2, <1>3, <1>4, <1>5, Zenon

\* So does the server: only the next batch enters the log, after those before
\* it were acknowledged.
LEMMA HandleRefines ==
    ASSUME IInv, NEW r \in net, Handle(r) PROVE [Promise!Next]_Promise!vars
<1> USE MaxBatchesAssumption DEF IInv
<1>1. submitted' = submitted /\ outcome' = outcome
    BY Zenon DEF Handle, loopVars
<1>2. CASE serverLog' = serverLog
    BY <1>1, <1>2, Zenon DEF Promise!vars
<1>3. CASE r.seq = Len(serverLog) /\ serverLog' = Append(serverLog, r.batch)
  <2>1. /\ r.batch = Len(serverLog) + 1 /\ Len(serverLog) \in Nat /\ Len(serverLog) <= sequence
        /\ r.batch <= taken /\ taken <= submitted /\ submitted \in Nat /\ taken \in Nat
        /\ sequence \in 0 .. MaxBatches
    BY <1>3 DEF NetInv, TypeOK, Requests
  <2>2. \A j \in 1 .. Len(serverLog) : j \in Batches /\ j <= sequence
    BY <2>1 DEF Batches
  <2>3. \A j \in 1 .. Len(serverLog) : outcome[j] = "acked"
    BY <2>2, Zenon DEF ResultInv, Result
  <2> QED
    BY <1>1, <1>3, <2>1, <2>3 DEF Promise!Next, Promise!Commit
<1> QED
    BY <1>2, <1>3, HandleEffect, Zenon

\* The per-bucket protocol implements the promise of BucketLog.
THEOREM Refinement == SequenceSpec => ImplementsBucketLog
<1>1. SequenceInit => Promise!Init
    BY Zenon DEF SequenceInit, Promise!Init, Batches, Promise!Batches
<1>2. IInv /\ [SequenceNext]_sequenceVars => [Promise!Next]_Promise!vars
  <2> SUFFICES ASSUME IInv, [SequenceNext]_sequenceVars PROVE [Promise!Next]_Promise!vars
    BY Zenon
  <2>1. CASE FlushBucket \/ Dispatch \/ CompleteOk \/ CompleteErr
    BY <2>1, LoopRefines, Zenon
  <2>2. CASE Encode \/ SendAttempt \/ ConnectionFailure \/ TerminalError \/ SequenceFinished \/ UNCHANGED sequenceVars
    BY <2>2, Zenon DEF Encode, SendAttempt, ConnectionFailure, TerminalError, SequenceFinished, sequenceVars, loopVars, Promise!vars
  <2>3. CASE \E r \in net : Lose(r)
    BY <2>3, Zenon DEF Lose, loopVars, Promise!vars
  <2>4. CASE \E r \in net : Handle(r)
    BY <2>4, HandleRefines, Zenon
  <2> QED
    BY <2>1, <2>2, <2>3, <2>4, Zenon DEF SequenceNext
<1> QED
    BY <1>1, <1>2, Inductive, PTL DEF SequenceSpec, ImplementsBucketLog, Promise!Spec
=============================================================================
