------------------------------ MODULE BucketLog ------------------------------
(***************************************************************************)
(* What a writer promises about one bucket, with retries, timeouts and     *)
(* requests left out: accepted batches are numbered in order, the server's *)
(* log takes them in that order, a success is reported only for a batch in *)
(* the log, and after a failure the bucket accepts nothing any more.       *)
(***************************************************************************)
EXTENDS Naturals, Sequences

CONSTANT MaxBatches   \* bound: batches of the bucket

VARIABLES
    accepted,  \* batches 1 .. accepted have been accepted
    outcome,   \* what their callers were told
    log        \* the batches in the server's log

vars == <<accepted, outcome, log>>
Batches == 1 .. MaxBatches

Init ==
    /\ accepted = 0
    /\ outcome = [k \in Batches |-> "open"]
    /\ log = <<>>

Broken == \E k \in Batches : outcome[k] = "failed"

\* New batches are accepted; those of a broken bucket fail at once.
Accept ==
    \E n \in accepted + 1 .. MaxBatches :
        /\ accepted' = n
        /\ outcome' = [k \in Batches |->
                         IF Broken /\ k \in accepted + 1 .. n THEN "failed" ELSE outcome[k]]
        /\ UNCHANGED log

\* The server appends the next batch, once those before it are acknowledged.
\* This may happen after the batch was reported as failed.
Commit ==
    /\ Len(log) < accepted
    /\ \A j \in 1 .. Len(log) : outcome[j] = "acked"
    /\ log' = Append(log, Len(log) + 1)
    /\ UNCHANGED <<accepted, outcome>>

Ack ==
    \E k \in 1 .. Len(log) :
        /\ outcome[k] = "open"
        /\ outcome' = [outcome EXCEPT ![k] = "acked"]
        /\ UNCHANGED <<accepted, log>>

\* A failure is final for every batch that is still open.
Fail ==
    /\ \E k \in 1 .. accepted : outcome[k] = "open"
    /\ outcome' = [k \in Batches |->
                     IF k <= accepted /\ outcome[k] = "open" THEN "failed" ELSE outcome[k]]
    /\ UNCHANGED <<accepted, log>>

Next == Accept \/ Commit \/ Ack \/ Fail
Spec == Init /\ [][Next]_vars
=============================================================================
