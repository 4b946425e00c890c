---------------------------- MODULE MCAppendWriter ----------------------------
(* Small instances of AppendWriter: items are named by strings, rows r*, Arrow
   batches a*. *)
EXTENDS AppendWriter

Row(b, size) == [bucket |-> b, arrow |-> FALSE, rows |-> 1, size |-> size]
ArrowBatch(b, rows) == [bucket |-> b, arrow |-> TRUE, rows |-> rows, size |-> rows]

\* Rows whose bucket the writer chooses, next to an Arrow batch of two rows.
MixedItems == [r1 |-> Row(1, 1), r2 |-> Row(1, 2), r3 |-> Row(1, 1), a1 |-> ArrowBatch(1, 2)]

TwoRows == [r1 |-> Row(1, 1), r2 |-> Row(1, 1)]

\* queueAll as the code writes it, one flushBucket and one dispatch per bucket in
\* order, does what flushBuckets does for all buckets at once.
QueueAllInOrder ==
    LET flushTo[n \in 0 .. NumBuckets] ==
          IF n = 0 THEN w ELSE flushBuckets(flushTo[n - 1], {n})
    IN  flushBuckets(w, Buckets) = flushTo[NumBuckets]
=============================================================================
