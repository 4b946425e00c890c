---------------------------- MODULE MCLogScanner ----------------------------
EXTENDS LogScanner, TLC

Batch(base, count, match) == [base |-> base, count |-> count, match |-> match]

\* A log that ends in a batch the filter excludes beside one it passes whole.
TwoBuckets == <<1, 2>>
TwoLogs == 1 :> <<Batch(0, 2, TRUE), Batch(2, 1, TRUE)>>
        @@ 2 :> <<Batch(0, 2, TRUE), Batch(2, 2, FALSE)>>

\* No stopping offsets, and one inside a batch with one among excluded records.
NoStops == <<>>
InnerStops == 1 :> 1 @@ 2 :> 3
=============================================================================
