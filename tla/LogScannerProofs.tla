-------------------------- MODULE LogScannerProofs ---------------------------
(***************************************************************************)
(* Proofs about LogScanner, for any buckets, logs, filters, bounds and     *)
(* interleavings of Poll with Subscribe, Unsubscribe, Wakeup and Close.    *)
(*                                                                         *)
(* The argument: a response yields exactly the records that the filter     *)
(* lets through between the position it was fetched at and the next one,   *)
(* wherever these lie in a batch (FetchedRows), and so does what the       *)
(* bounds leave of it, up to a position that is drawn back accordingly     *)
(* (BoundedRows).  Positions therefore move over records that are in the   *)
(* result; and a response that comes too late, for a bucket that has been  *)
(* subscribed anew, is told from the new subscription by its position or,  *)
(* if that is the same, is as good as one that was fetched for it.         *)
(***************************************************************************)
EXTENDS LogScanner, FiniteSetTheorems, WellFoundedInduction, TLAPS

-----------------------------------------------------------------------------
(* Batches *)

\* A nonempty set of naturals has a least element.
LEMMA LeastNatural ==
    ASSUME NEW S \in SUBSET Nat, S # {}
    PROVE  \E m \in S : \A b \in S : m <= b
<1>1. PICK m \in S : \A b \in S : <<b, m>> \notin OpToRel(<, Nat)
    BY NatLessThanWellFounded, WFMin, Zenon
<1>2. \A b \in S : ~(b < m)
    BY <1>1, Zenon DEF OpToRel
<1> QED
    BY <1>2

First(b, k) == Logs[b][k].base
Past(b, k) == Logs[b][k].base + Logs[b][k].count

\* The batches of a log begin at 0 and follow each other without a gap.
LEMMA BatchTypes ==
    ASSUME NEW b \in BucketSet
    PROVE  /\ Len(Logs[b]) \in Nat /\ DOMAIN Logs[b] = 1 .. Len(Logs[b])
           /\ \A k \in 1 .. Len(Logs[b]) :
                /\ First(b, k) \in Nat /\ Past(b, k) \in Nat /\ First(b, k) < Past(b, k)
                /\ Logs[b][k].count \in Nat \ {0} /\ Logs[b][k].match \in BOOLEAN
                /\ k > 1 => First(b, k) = Past(b, k - 1)
<1>1. Logs[b] \in Seq([base : Nat, count : Nat \ {0}, match : BOOLEAN])
    BY ScannerAssumption, Zenon
<1>2. Len(Logs[b]) \in Nat /\ DOMAIN Logs[b] = 1 .. Len(Logs[b])
    BY <1>1
<1>3. ASSUME NEW k \in 1 .. Len(Logs[b])
      PROVE  /\ First(b, k) \in Nat /\ Past(b, k) \in Nat /\ First(b, k) < Past(b, k)
             /\ Logs[b][k].count \in Nat \ {0} /\ Logs[b][k].match \in BOOLEAN
             /\ k > 1 => First(b, k) = Past(b, k - 1)
  <2>1. Logs[b][k] \in [base : Nat, count : Nat \ {0}, match : BOOLEAN]
    <3>1. PICK B : B = [base : Nat, count : Nat \ {0}, match : BOOLEAN]
        BY Zenon
    <3>2. Logs[b] \in Seq(B)
        BY <1>1, <3>1, Zenon
    <3>3. Logs[b][k] \in B
        BY <3>2
    <3> QED
        BY <3>1, <3>3, Zenon
  <2>2. k > 1 => Logs[b][k].base = Logs[b][k - 1].base + Logs[b][k - 1].count
    BY ScannerAssumption
  <2> QED
    BY <2>1, <2>2 DEF First, Past
<1> QED
    BY <1>2, <1>3, Zenon

\* An earlier batch ends before a later one begins.
LEMMA BatchesInOrder ==
    ASSUME NEW b \in BucketSet, NEW j \in 1 .. Len(Logs[b]), NEW k \in 1 .. Len(Logs[b]), j < k
    PROVE  Past(b, j) <= First(b, k)
<1> DEFINE S == {i \in 1 .. Len(Logs[b]) : j < i /\ ~(Past(b, j) <= First(b, i))}
<1>1. SUFFICES ASSUME S # {} PROVE FALSE
    BY Zenon
<1>2. S \in SUBSET Nat
    BY BatchTypes
<1>3. PICK m \in S : \A i \in S : m <= i
    BY <1>1, <1>2, LeastNatural, Zenon
<1>4. /\ m \in 1 .. Len(Logs[b]) /\ j < m /\ m > 1 /\ m - 1 \in 1 .. Len(Logs[b]) /\ Len(Logs[b]) \in Nat
      /\ First(b, m) = Past(b, m - 1) /\ ~(Past(b, j) <= First(b, m))
    BY BatchTypes
<1>5. m - 1 \notin S
    BY <1>3, <1>4
<1>6. Past(b, j) \in Nat /\ First(b, m - 1) \in Nat /\ Past(b, m - 1) \in Nat /\ First(b, m - 1) < Past(b, m - 1)
    BY <1>4, BatchTypes, Zenon
<1>7. CASE j = m - 1
    BY <1>4, <1>6, <1>7
<1>8. CASE j < m - 1
  <2>1. Past(b, j) <= First(b, m - 1)
    BY <1>4, <1>5, <1>8, Zenon
  <2> QED
    BY <1>4, <1>6, <2>1
<1> QED
    BY <1>4, <1>7, <1>8

-----------------------------------------------------------------------------
(* What the decoder makes of a response. *)

Start(position) == [rows |-> {}, next |-> position]

\* One value of the recursive function in decodeFetched.
DecodeStep(b, position, sent, g, k) ==
    IF k = 0 THEN Start(position)
    ELSE IF k \in sent THEN decodeBatch(g[k - 1], Logs[b][k]) ELSE g[k - 1]

IsDecoding(b, position, sent, n, g) == g = [k \in 0 .. n |-> DecodeStep(b, position, sent, g, k)]

\* The recursion over the batches of a response is well founded.
LEMMA DecodingExists ==
    ASSUME NEW b, NEW position, NEW sent, NEW n \in Nat
    PROVE  \E g : IsDecoding(b, position, sent, n, g)
<1> DEFINE S == {i \in Nat : ~\E g : IsDecoding(b, position, sent, i, g)}
<1>1. SUFFICES ASSUME S # {} PROVE FALSE
    BY Zenon
<1>2. PICK m \in S : \A i \in S : m <= i
    BY <1>1, LeastNatural, Zenon
<1>3. m \in Nat /\ ~\E g : IsDecoding(b, position, sent, m, g)
    BY Zenon
<1>4. CASE m = 0
  <2>1. PICK g : g = [k \in 0 .. 0 |-> Start(position)]
    BY Zenon
  <2>2. g = [k \in 0 .. 0 |-> DecodeStep(b, position, sent, g, k)]
    BY <2>1 DEF DecodeStep
  <2> QED
    BY <1>3, <1>4, <2>2, Zenon DEF IsDecoding
<1>5. CASE m # 0
  <2>1. m - 1 \in Nat /\ m - 1 \notin S
    BY <1>2, <1>3, <1>5
  <2>2. PICK h : IsDecoding(b, position, sent, m - 1, h)
    BY <2>1, Zenon
  <2>3. PICK g : g = [k \in 0 .. m |-> IF k = m THEN DecodeStep(b, position, sent, h, m) ELSE h[k]]
    BY Zenon
  <2>4. ASSUME NEW k \in 0 .. m PROVE g[k] = DecodeStep(b, position, sent, g, k)
    <3>1. k # 0 => k - 1 \in 0 .. m /\ k - 1 # m
        BY <1>3
    <3>2. k # 0 => g[k - 1] = h[k - 1]
        BY <2>3, <3>1, Zenon
    <3>3. DecodeStep(b, position, sent, g, k) = DecodeStep(b, position, sent, h, k)
        BY <3>2, Zenon DEF DecodeStep
    <3>4. CASE k = m
        BY <2>3, <3>3, <3>4, Zenon
    <3>5. CASE k # m
      <4>1. k \in 0 .. m - 1
        BY <1>3, <3>5
      <4>2. h[k] = DecodeStep(b, position, sent, h, k)
        BY <2>2, <4>1, Zenon DEF IsDecoding
      <4> QED
        BY <2>3, <3>3, <3>5, <4>2, Zenon
    <3> QED
        BY <3>4, <3>5, Zenon
  <2>5. g = [k \in 0 .. m |-> DecodeStep(b, position, sent, g, k)]
    BY <2>3, <2>4, Zenon
  <2> QED
    BY <1>3, <2>5, Zenon DEF IsDecoding
<1> QED
    BY <1>4, <1>5, Zenon

\* decodeFetched is the last value of that function.
LEMMA DecodeFetchedValue ==
    ASSUME NEW b \in BucketSet, NEW position, NEW sent
    PROVE  \E g : IsDecoding(b, position, sent, Len(Logs[b]), g) /\ decodeFetched(b, position, sent) = g[Len(Logs[b])]
<1> DEFINE a == CHOOSE g : IsDecoding(b, position, sent, Len(Logs[b]), g)
<1>1. IsDecoding(b, position, sent, Len(Logs[b]), a)
    BY BatchTypes, DecodingExists, Zenon
<1>2. decodeFetched(b, position, sent) = a[Len(Logs[b])]
    BY Zenon DEF decodeFetched, IsDecoding, DecodeStep, Start
<1> QED
    BY <1>1, <1>2, Zenon

\* The records from the position on in the first k batches, of those that were sent.
Wanted(b, position, sent, k) ==
    {o \in Nat : position <= o /\ \E j \in sent : j <= k /\ First(b, j) <= o /\ o < Past(b, j)}

\* A decoded part of a response: the wanted records, and as next position the
\* end of the last batch, or the position that was asked for if there is none.
Decoded(b, position, sent, k, d) ==
    /\ DOMAIN d = {"rows", "next"}
    /\ d.rows = Wanted(b, position, sent, k)
    /\ d.next \in Nat /\ position <= d.next
    /\ d.next = position \/ \E j \in sent : j <= k /\ d.next = Past(b, j)
    /\ \A j \in sent : j <= k => Past(b, j) <= d.next

\* Decoding one more batch takes its records from the position on, whether the
\* position lies before the batch or inside of it.
LEMMA DecodeBatchStep ==
    ASSUME NEW b \in BucketSet, NEW position \in Nat, NEW sent \in SUBSET (1 .. Len(Logs[b])),
           \A j \in sent : Past(b, j) > position,
           NEW k \in sent, NEW d, Decoded(b, position, sent, k - 1, d)
    PROVE  Decoded(b, position, sent, k, decodeBatch(d, Logs[b][k]))
<1>1. /\ k \in 1 .. Len(Logs[b]) /\ Len(Logs[b]) \in Nat
      /\ First(b, k) \in Nat /\ Past(b, k) \in Nat /\ First(b, k) < Past(b, k)
      /\ Past(b, k) > position /\ Logs[b][k].count \in Nat
    BY BatchTypes, Zenon
<1>2. \A j \in sent : j \in 1 .. Len(Logs[b]) /\ Past(b, j) \in Nat /\ First(b, j) \in Nat
    BY BatchTypes, Zenon
<1>3. \A j \in sent : j <= k - 1 => Past(b, j) <= First(b, k)
    BY <1>1, BatchesInOrder
<1>4. d.next \in Nat /\ position <= d.next /\ (d.next = position \/ d.next <= First(b, k))
    BY <1>3, Zenon DEF Decoded
<1>5. d.next < Past(b, k)
    BY <1>1, <1>4
<1>6. PICK new : new = decodeBatch(d, Logs[b][k])
    BY Zenon
<1>7. PICK f : f = fetchedBatchOffsets(Logs[b][k].base, Logs[b][k].count, d.next)
    BY Zenon
<1>8. /\ f.next = Past(b, k)
      /\ f.start = IF d.next > First(b, k) THEN d.next - First(b, k) ELSE 0
    BY <1>1, <1>4, <1>5, <1>7 DEF fetchedBatchOffsets, First, Past
<1>9. new = [rows |-> d.rows \union (First(b, k) + f.start .. Past(b, k) - 1), next |-> Past(b, k)]
  <2>1. new = [rows |-> d.rows \union (Logs[b][k].base + f.start .. Logs[b][k].base + Logs[b][k].count - 1), next |-> f.next]
    BY <1>6, <1>7, Zenon DEF decodeBatch
  <2>2. Logs[b][k].base = First(b, k) /\ Past(b, k) = Logs[b][k].base + Logs[b][k].count
    BY Zenon DEF First, Past
  <2>3. Logs[b][k].base + Logs[b][k].count - 1 = Past(b, k) - 1
    BY ONLY <1>1, <2>2
  <2> QED
    BY ONLY <1>8, <2>1, <2>2, <2>3, Zenon
<1>10. PICK from : from = First(b, k) + f.start
    BY Zenon
<1>11. from \in Nat /\ from >= First(b, k) /\ from >= position /\ (from = First(b, k) \/ from = position)
    BY <1>1, <1>4, <1>8, <1>10
<1>12. new.rows = Wanted(b, position, sent, k)
  <2>1. new.rows = Wanted(b, position, sent, k - 1) \union (from .. Past(b, k) - 1)
    BY <1>9, <1>10, Zenon DEF Decoded
  <2>2. ASSUME NEW o \in from .. Past(b, k) - 1 PROVE o \in Wanted(b, position, sent, k)
    <3>1. o \in Nat /\ position <= o /\ First(b, k) <= o /\ o < Past(b, k) /\ k <= k
        BY <1>1, <1>11
    <3> QED
        BY <3>1, Zenon DEF Wanted
  <2>3. ASSUME NEW o \in Wanted(b, position, sent, k - 1) PROVE o \in Wanted(b, position, sent, k)
    <3>1. PICK j \in sent : o \in Nat /\ position <= o /\ j <= k - 1 /\ First(b, j) <= o /\ o < Past(b, j)
        BY Zenon DEF Wanted
    <3>2. j <= k
        BY <1>1, <1>2, <3>1
    <3> QED
        BY <3>1, <3>2, Zenon DEF Wanted
  <2>4. ASSUME NEW o \in Wanted(b, position, sent, k) PROVE o \in Wanted(b, position, sent, k - 1) \union (from .. Past(b, k) - 1)
    <3>1. PICK j \in sent : o \in Nat /\ position <= o /\ j <= k /\ First(b, j) <= o /\ o < Past(b, j)
        BY Zenon DEF Wanted
    <3>2. CASE j = k
        BY <1>1, <1>11, <3>1, <3>2
    <3>3. CASE j # k
      <4>1. j <= k - 1
        BY <1>1, <1>2, <3>1, <3>3
      <4> QED
        BY <3>1, <4>1, Zenon DEF Wanted
    <3> QED
        BY <3>2, <3>3, Zenon
  <2> QED
    BY <2>1, <2>2, <2>3, <2>4, Zenon
<1>13. ASSUME NEW j \in sent, j <= k PROVE Past(b, j) <= new.next
  <2>1. CASE j = k
    BY <1>1, <1>9, <2>1
  <2>2. CASE j # k
    <3>1. j <= k - 1
        BY <1>1, <1>2, <1>13, <2>2
    <3> QED
        BY <1>1, <1>2, <1>3, <1>9, <3>1
  <2> QED
    BY <2>1, <2>2, Zenon
<1>14. /\ DOMAIN new = {"rows", "next"} /\ new.next = Past(b, k) /\ new.next \in Nat /\ position <= new.next
       /\ \E j \in sent : j <= k /\ new.next = Past(b, j)
    BY <1>1, <1>9
<1> QED
    BY <1>6, <1>12, <1>13, <1>14, Zenon DEF Decoded

\* A batch that was not sent changes nothing.
LEMMA DecodeSkipStep ==
    ASSUME NEW b \in BucketSet, NEW position \in Nat, NEW sent \in SUBSET (1 .. Len(Logs[b])),
           NEW k \in Nat \ sent, NEW d, Decoded(b, position, sent, k - 1, d)
    PROVE  Decoded(b, position, sent, k, d)
<1>1. \A j \in sent : j \in Nat /\ (j <= k <=> j <= k - 1)
    BY BatchTypes
<1>2. Wanted(b, position, sent, k) = Wanted(b, position, sent, k - 1)
    BY <1>1, Zenon DEF Wanted
<1> QED
    BY <1>1, <1>2, Zenon DEF Decoded

\* What decodeFetched yields for the batches that were sent.
LEMMA DecodedResponse ==
    ASSUME NEW b \in BucketSet, NEW position \in Nat, NEW sent \in SUBSET (1 .. Len(Logs[b])),
           \A j \in sent : Past(b, j) > position
    PROVE  Decoded(b, position, sent, Len(Logs[b]), decodeFetched(b, position, sent))
<1>1. PICK g : IsDecoding(b, position, sent, Len(Logs[b]), g) /\ decodeFetched(b, position, sent) = g[Len(Logs[b])]
    BY DecodeFetchedValue
<1> DEFINE S == {k \in 0 .. Len(Logs[b]) : ~Decoded(b, position, sent, k, g[k])}
<1>2. Len(Logs[b]) \in Nat
    BY BatchTypes, Zenon
<1>3. SUFFICES ASSUME S # {} PROVE FALSE
    BY <1>1, <1>2
<1>4. S \in SUBSET Nat
    BY <1>2
<1>5. PICK m \in S : \A i \in S : m <= i
    BY <1>3, <1>4, LeastNatural, Zenon
<1>6. m \in 0 .. Len(Logs[b]) /\ ~Decoded(b, position, sent, m, g[m])
    BY Zenon
<1>7. g[m] = DecodeStep(b, position, sent, g, m)
    BY <1>1, <1>6, Zenon DEF IsDecoding
<1>8. CASE m = 0
  <2>1. g[m] = [rows |-> {}, next |-> position]
    BY <1>7, <1>8, Zenon DEF DecodeStep, Start
  <2>2. \A j \in sent : ~(j <= 0)
    BY <1>2
  <2>3. Wanted(b, position, sent, 0) = {}
    BY <2>2, Zenon DEF Wanted
  <2> QED
    BY <1>6, <1>8, <2>1, <2>2, <2>3 DEF Decoded
<1>9. CASE m # 0
  <2>1. m - 1 \in 0 .. Len(Logs[b]) /\ m - 1 \notin S /\ m \in Nat
    BY <1>2, <1>5, <1>6, <1>9
  <2>2. Decoded(b, position, sent, m - 1, g[m - 1])
    BY <2>1, Zenon
  <2>3. CASE m \in sent
    <3>1. Decoded(b, position, sent, m, decodeBatch(g[m - 1], Logs[b][m]))
        BY <2>2, <2>3, DecodeBatchStep, Zenon
    <3> QED
        BY <1>6, <1>7, <1>9, <2>3, <3>1, Zenon DEF DecodeStep
  <2>4. CASE m \notin sent
    <3>1. Decoded(b, position, sent, m, g[m - 1])
        BY <2>1, <2>2, <2>4, DecodeSkipStep, Zenon
    <3> QED
        BY <1>6, <1>7, <1>9, <2>4, <3>1, Zenon DEF DecodeStep
  <2> QED
    BY <2>3, <2>4, Zenon
<1> QED
    BY <1>8, <1>9, Zenon

\* The records that the filter lets through are those of the batches it lets through.
LEMMA MatchingRecords ==
    ASSUME NEW b \in BucketSet
    PROVE  /\ Matching(b) \in SUBSET Nat
           /\ \A o \in Nat : o \in Matching(b)
                <=> \E j \in 1 .. Len(Logs[b]) : Logs[b][j].match /\ First(b, j) <= o /\ o < Past(b, j)
<1>1. DOMAIN Logs[b] = 1 .. Len(Logs[b])
    BY BatchTypes, Zenon
<1>2. ASSUME NEW j \in 1 .. Len(Logs[b])
      PROVE  Logs[b][j].base .. (Logs[b][j].base + Logs[b][j].count - 1)
               = {o \in Nat : First(b, j) <= o /\ o < Past(b, j)}
  <2>1. First(b, j) \in Nat /\ Logs[b][j].count \in Nat
    BY BatchTypes, Zenon
  <2>2. First(b, j) = Logs[b][j].base /\ Past(b, j) = Logs[b][j].base + Logs[b][j].count
    BY Zenon DEF First, Past
  <2> QED
    BY ONLY <2>1, <2>2, SMTT(30)
<1>3. Matching(b) = UNION {{o \in Nat : First(b, j) <= o /\ o < Past(b, j)} : j \in {i \in 1 .. Len(Logs[b]) : Logs[b][i].match}}
    BY <1>1, <1>2, Zenon DEF Matching
<1> QED
    BY <1>3

\* The records of a bucket that a reader has to see from one position up to another.
Between(b, from, to) == {o \in Matching(b) : from <= o /\ o < to}

\* The fetched records are those the filter lets through between the position
\* and the next one, which is the end of the last batch the server looked at,
\* whether it was sent or excluded.
LEMMA FetchedRows ==
    ASSUME NEW b \in BucketSet, NEW position \in Nat, NEW m \in 1 .. Len(Logs[b]), Past(b, m) > position
    PROVE  /\ fetch(b, position, m).next = Past(b, m)
           /\ fetch(b, position, m).rows = Between(b, position, Past(b, m))
<1>1. PICK looked : looked = {k \in 1 .. m : Logs[b][k].base + Logs[b][k].count > position}
    BY Zenon
<1>2. PICK sent : sent = {k \in looked : Logs[b][k].match}
    BY Zenon
<1>3. PICK d : d = decodeFetched(b, position, sent)
    BY Zenon
<1>4. Len(Logs[b]) \in Nat /\ 1 .. m \subseteq 1 .. Len(Logs[b])
    BY BatchTypes
<1>5. looked = {k \in 1 .. m : Past(b, k) > position}
    BY <1>1, Zenon DEF Past
<1>6. sent \in SUBSET (1 .. Len(Logs[b])) /\ \A j \in sent : Past(b, j) > position /\ j \in 1 .. m /\ Logs[b][j].match
    BY <1>2, <1>4, <1>5, Zenon
<1>7. Decoded(b, position, sent, Len(Logs[b]), d)
    BY <1>3, <1>6, DecodedResponse, Zenon
<1>8. \A j \in 1 .. Len(Logs[b]) : First(b, j) \in Nat /\ Past(b, j) \in Nat /\ First(b, j) < Past(b, j)
    BY BatchTypes, Zenon
<1>9. \A j \in 1 .. m : Past(b, j) \in Nat /\ j <= Len(Logs[b]) /\ (j < m => Past(b, j) <= First(b, m)) /\ Past(b, j) <= Past(b, m)
  <2>1. \A j \in 1 .. m : j < m => Past(b, j) <= First(b, m)
    BY <1>4, BatchesInOrder, Zenon
  <2> QED
    BY <1>4, <1>8, <2>1
<1>10. fetch(b, position, m)
         = IF sent # looked /\ Past(b, m) > d.next THEN [d EXCEPT !.next = Past(b, m)] ELSE d
    BY <1>1, <1>2, <1>3, Zenon DEF fetch, Past
<1>11. d.next \in Nat /\ (m \in sent => d.next = Past(b, m)) /\ (m \notin sent => d.next < Past(b, m))
  <2>1. d.next \in Nat /\ (d.next = position \/ \E j \in sent : d.next = Past(b, j)) /\ \A j \in sent : j <= Len(Logs[b]) => Past(b, j) <= d.next
    BY <1>7, Zenon DEF Decoded
  <2>2. CASE m \in sent
    BY <1>6, <1>9, <2>1, <2>2
  <2>3. CASE m \notin sent
    <3>1. \A j \in sent : j \in 1 .. m /\ j < m
        BY <1>6, <2>3
    <3>2. \A j \in sent : Past(b, j) < Past(b, m) /\ Past(b, j) \in Nat
        BY <1>8, <1>9, <3>1
    <3> QED
        BY <1>8, <2>1, <2>3, <3>2, Zenon
  <2> QED
    BY <2>2, <2>3, Zenon
<1>12. m \in looked /\ (m \notin sent => sent # looked)
    BY <1>5
<1>13. DOMAIN d = {"rows", "next"} /\ d.rows = Wanted(b, position, sent, Len(Logs[b]))
    BY <1>7, Zenon DEF Decoded
<1>14. fetch(b, position, m).next = Past(b, m) /\ fetch(b, position, m).rows = d.rows
  <2>1. CASE m \in sent
    BY <1>8, <1>10, <1>11, <2>1
  <2>2. CASE m \notin sent
    <3>1. fetch(b, position, m) = [d EXCEPT !.next = Past(b, m)]
        BY <1>8, <1>10, <1>11, <1>12, <2>2, Zenon
    <3> QED
        BY <1>13, <3>1, Zenon
  <2> QED
    BY <2>1, <2>2, Zenon
<1>15. ASSUME NEW o \in Wanted(b, position, sent, Len(Logs[b])) PROVE o \in Between(b, position, Past(b, m))
  <2>1. PICK j \in sent : o \in Nat /\ position <= o /\ First(b, j) <= o /\ o < Past(b, j)
    BY Zenon DEF Wanted
  <2>2. o \in Matching(b)
    BY <1>6, <2>1, MatchingRecords, Zenon
  <2>3. o < Past(b, m)
    BY <1>6, <1>8, <1>9, <2>1
  <2> QED
    BY <2>1, <2>2, <2>3, Zenon DEF Between
<1>16. ASSUME NEW o \in Between(b, position, Past(b, m)) PROVE o \in Wanted(b, position, sent, Len(Logs[b]))
  <2>1. o \in Matching(b) /\ o \in Nat /\ position <= o /\ o < Past(b, m)
    BY MatchingRecords, Zenon DEF Between
  <2>2. PICK j \in 1 .. Len(Logs[b]) : Logs[b][j].match /\ First(b, j) <= o /\ o < Past(b, j)
    BY <2>1, MatchingRecords, Zenon
  <2>3. ~(m < j)
    <3>1. m < j => Past(b, m) <= First(b, j)
        BY BatchesInOrder, Zenon
    <3> QED
        BY <1>8, <2>1, <2>2, <3>1
  <2>4. j \in 1 .. m /\ Past(b, j) > position
    BY <1>4, <1>8, <2>1, <2>2, <2>3
  <2>5. j \in sent
    BY <1>2, <1>5, <2>2, <2>4, Zenon
  <2> QED
    BY <1>4, <2>1, <2>2, <2>5 DEF Wanted
<1> QED
    BY <1>13, <1>14, <1>15, <1>16, Zenon

-----------------------------------------------------------------------------
(* What the bounds leave of it. *)

\* A nonempty set of naturals below a bound has a largest element.
LEMMA LargestNatural ==
    ASSUME NEW S \in SUBSET Nat, S # {}, NEW n \in Nat, \A x \in S : x <= n
    PROVE  Max(S) \in S /\ \A x \in S : x <= Max(S)
<1> DEFINE U == {u \in Nat : \A x \in S : x <= u}
<1>1. U # {} /\ U \in SUBSET Nat
    BY Zenon
<1>2. PICK u \in U : \A v \in U : u <= v
    BY <1>1, LeastNatural, Zenon
<1>3. u \in Nat /\ \A x \in S : x \in Nat /\ x <= u
    BY Zenon
<1>4. u \in S
  <2>1. SUFFICES ASSUME u \notin S PROVE FALSE
    BY Zenon
  <2>2. \A x \in S : x <= u - 1
    BY <1>3, <2>1
  <2>3. u - 1 \in Nat
    <3>1. PICK x \in S : TRUE
        BY Zenon
    <3>2. x \in Nat /\ x <= u - 1
        BY <1>3, <2>2, Zenon
    <3> QED
        BY <1>3, <3>2
  <2>4. u - 1 \in U
    BY <2>2, <2>3, Zenon
  <2> QED
    BY <1>2, <1>3, <2>4
<1>5. \A x \in S : u >= x
    BY <1>3, Zenon
<1>6. Max(S) \in S /\ \A x \in S : Max(S) >= x
    BY <1>4, <1>5, Zenon DEF Max
<1> QED
    BY <1>6, Zenon

\* The stopping offset of a bucket, or a position that no record reaches.
LEMMA StopTypes ==
    ASSUME NEW b \in BucketSet
    PROVE  stopOf(b) \in Nat
<1>1. CASE b \in DOMAIN Stops
    BY <1>1, ScannerAssumption, Zenon DEF stopOf
<1>2. CASE b \notin DOMAIN Stops
  <2>1. CASE Logs[b] = <<>>
    BY <1>2, <2>1 DEF stopOf, End
  <2>2. CASE Logs[b] # <<>>
    <3>1. Logs[b] \in Seq([base : Nat, count : Nat \ {0}, match : BOOLEAN])
        BY ScannerAssumption, Zenon
    <3>2. Len(Logs[b]) \in 1 .. Len(Logs[b])
        BY <2>2, <3>1
    <3>3. Past(b, Len(Logs[b])) \in Nat
        BY <3>2, BatchTypes, Zenon
    <3> QED
        BY <1>2, <2>2, <3>3 DEF stopOf, End, Past
  <2> QED
    BY <2>1, <2>2, Zenon
<1> QED
    BY <1>1, <1>2, Zenon

\* The first rows of a set, as many as remain.
RowsBelow(rows, o) == {p \in rows : p < o}
FirstOf(rows, remaining) == {o \in rows : Cardinality(RowsBelow(rows, o)) < remaining}

\* The first rows of a set: with a row they hold the ones before it, there are
\* no more of them than remain, and there are some if the set has any.
LEMMA FirstRows ==
    ASSUME NEW rows \in SUBSET Nat, NEW n \in Nat, \A o \in rows : o <= n, NEW remaining \in Nat \ {0}
    PROVE  /\ \A o \in FirstOf(rows, remaining) : \A p \in rows : p < o => p \in FirstOf(rows, remaining)
           /\ IsFiniteSet(FirstOf(rows, remaining)) /\ Cardinality(FirstOf(rows, remaining)) <= remaining
           /\ rows # {} => FirstOf(rows, remaining) # {}
<1> DEFINE T == FirstOf(rows, remaining)
<1>1. IsFiniteSet(rows)
    BY FS_BoundedSetOfNaturals, Zenon
<1>2. \A o \in rows : IsFiniteSet(RowsBelow(rows, o)) /\ Cardinality(RowsBelow(rows, o)) \in Nat
    BY <1>1, FS_Subset, FS_CardinalityType, Zenon DEF RowsBelow
<1>3. T \in SUBSET rows /\ \A o \in T : Cardinality(RowsBelow(rows, o)) < remaining
    BY Zenon DEF FirstOf
<1>4. IsFiniteSet(T) /\ Cardinality(T) \in Nat
    BY <1>1, <1>3, FS_Subset, FS_CardinalityType, Zenon
<1>5. ASSUME NEW o \in T, NEW p \in rows, p < o PROVE p \in T
  <2>1. RowsBelow(rows, p) \in SUBSET RowsBelow(rows, o)
    <3>1. o \in Nat /\ p \in Nat /\ \A q \in rows : q \in Nat
        BY <1>3, Zenon
    <3>2. \A q \in rows : q < p => q < o
        BY ONLY <1>5, <3>1
    <3> QED
        BY ONLY <3>2, Zenon DEF RowsBelow
  <2>2. Cardinality(RowsBelow(rows, p)) <= Cardinality(RowsBelow(rows, o))
    BY <1>2, <1>3, <2>1, FS_Subset, Zenon
  <2>3. Cardinality(RowsBelow(rows, p)) < remaining
    <3>1. o \in rows /\ Cardinality(RowsBelow(rows, o)) < remaining
        BY <1>3, Zenon
    <3>2. Cardinality(RowsBelow(rows, o)) \in Nat /\ Cardinality(RowsBelow(rows, p)) \in Nat
        BY <1>2, <3>1, Zenon
    <3> QED
        BY <2>2, <3>1, <3>2
  <2> QED
    BY <2>3, Zenon DEF FirstOf
<1>6. Cardinality(T) <= remaining
  <2>1. CASE T = {}
    BY <2>1, FS_EmptySet
  <2>2. CASE T # {}
    <3>1. PICK x : x = Max(T)
        BY Zenon
    <3>2. x \in T /\ \A p \in T : p <= x
        BY <1>3, <2>2, <3>1, LargestNatural, Zenon
    <3>3. x \in rows /\ x \in Nat /\ Cardinality(RowsBelow(rows, x)) \in Nat /\ IsFiniteSet(RowsBelow(rows, x)) /\ Cardinality(RowsBelow(rows, x)) < remaining
        BY <1>2, <1>3, <3>2, Zenon
    <3>4. T \in SUBSET (RowsBelow(rows, x) \union {x})
      <4>1. ASSUME NEW p \in T, p # x PROVE p \in RowsBelow(rows, x)
        <5>1. p \in Nat /\ p <= x /\ p \in rows
            BY <1>3, <3>2, Zenon
        <5> QED
            BY <3>3, <4>1, <5>1 DEF RowsBelow
      <4> QED
        BY <4>1, Zenon
    <3>5. IsFiniteSet(RowsBelow(rows, x) \union {x}) /\ Cardinality(RowsBelow(rows, x) \union {x}) <= Cardinality(RowsBelow(rows, x)) + 1
        BY <3>3, FS_AddElement
    <3>6. Cardinality(T) <= Cardinality(RowsBelow(rows, x) \union {x}) /\ Cardinality(RowsBelow(rows, x) \union {x}) \in Nat
      <4> HIDE DEF T
      <4> QED
        BY <3>4, <3>5, FS_Subset, FS_CardinalityType, Zenon
    <3> QED
      <4> HIDE DEF T
      <4> QED
        BY <1>4, <3>3, <3>5, <3>6
  <2> QED
    BY <2>1, <2>2, Zenon
<1>7. ASSUME rows # {} PROVE T # {}
  <2>1. PICK o \in rows : \A p \in rows : o <= p
    BY <1>7, LeastNatural, Zenon
  <2>2. RowsBelow(rows, o) = {}
    <3>1. \A p \in rows : p \in Nat /\ o \in Nat
        BY Zenon
    <3>2. \A p \in rows : ~(p < o)
        BY ONLY <2>1, <3>1
    <3> QED
        BY ONLY <3>2, Zenon DEF RowsBelow
  <2>3. Cardinality(RowsBelow(rows, o)) < remaining
    BY <2>2, FS_EmptySet
  <2> QED
    BY <2>3, Zenon DEF FirstOf
<1> QED
    BY <1>4, <1>5, <1>6, <1>7, Zenon

\* What is known of bounded rows: they are those the filter lets through between
\* the position and the next one, which respect the limit and the stopping offset.
Delivery(b, position, r) ==
    /\ r.next \in Nat /\ position < r.next
    /\ r.rows = Between(b, position, r.next)
    /\ IsFiniteSet(r.rows)
    /\ RowLimit > 0 => delivered + Cardinality(r.rows) <= RowLimit
    /\ \A o \in r.rows : b \in DOMAIN Stops => o < Stops[b]

\* The bounds cut rows off at the end only, and the position is drawn back to
\* where they were cut off.
LEMMA BoundedRows ==
    ASSUME NEW b \in BucketSet, NEW position \in Nat, NEW next \in Nat, position < next, position < stopOf(b),
           delivered \in Nat, RowLimit = 0 \/ delivered < RowLimit
    PROVE  Delivery(b, position, applyBounds(b, Between(b, position, next), next))
<1>1. PICK rows : rows = Between(b, position, next)
    BY Zenon
<1>2. PICK stop : stop = stopOf(b)
    BY Zenon
<1>3. stop \in Nat /\ position < stop /\ RowLimit \in Nat
    BY <1>2, StopTypes, ScannerAssumption, Zenon
<1>4. rows \in SUBSET Nat /\ \A o \in rows : o \in Matching(b) /\ position <= o /\ o < next /\ o <= next
    BY <1>1, MatchingRecords DEF Between
<1>5. IsFiniteSet(rows) /\ Cardinality(rows) \in Nat
    BY <1>4, FS_BoundedSetOfNaturals, FS_CardinalityType, Zenon
<1>6. PICK result : result = applyBounds(b, rows, next)
    BY Zenon
<1>7. CASE ~IsBounded
  <2>1. result = [rows |-> rows, next |-> next]
    BY <1>6, <1>7, Zenon DEF applyBounds
  <2>2. ~(RowLimit > 0) /\ DOMAIN Stops = {}
    BY <1>7, Zenon DEF IsBounded
  <2>3. result.rows = rows /\ result.next = next
    BY <2>1, Zenon
  <2> QED
    BY <1>1, <1>5, <1>6, <2>2, <2>3, Zenon DEF Delivery
<1>8. CASE IsBounded
  <2>1. PICK remaining : remaining = IF RowLimit > 0 THEN RowLimit - delivered ELSE Cardinality(rows)
    BY Zenon
  <2>2. PICK allowed : allowed = {o \in rows : o < stop}
    BY Zenon
  <2>3. PICK passed : passed = FirstOf(allowed, remaining)
    BY Zenon
  <2>4. result = [rows |-> passed, next |-> boundedNext(b, passed, next)]
    BY <1>2, <1>6, <1>8, <2>1, <2>2, <2>3, Zenon DEF applyBounds, withinStop, FirstOf, RowsBelow
  <2>5. remaining \in Nat /\ (rows # {} => remaining > 0) /\ (RowLimit > 0 => delivered + remaining <= RowLimit)
    BY <1>3, <1>5, <2>1, FS_EmptySet
  <2>6. allowed \in SUBSET Nat /\ \A o \in allowed : o \in rows /\ o < stop /\ o <= next
    BY <1>4, <2>2, Zenon
  <2>7. /\ \A o \in passed : \A p \in allowed : p < o => p \in passed
        /\ IsFiniteSet(passed) /\ Cardinality(passed) \in Nat /\ Cardinality(passed) <= remaining
        /\ allowed # {} => passed # {}
        /\ passed \in SUBSET allowed
    <3>1. passed \in SUBSET allowed
        BY <2>3, Zenon DEF FirstOf
    <3>2. CASE rows = {}
      <4>1. allowed = {} /\ passed = {}
        BY <2>2, <3>1, <3>2, Zenon
      <4> QED
        BY <2>5, <4>1, FS_EmptySet
    <3>3. CASE rows # {}
      <4>1. remaining \in Nat \ {0}
        BY <2>5, <3>3
      <4>2. /\ \A o \in passed : \A p \in allowed : p < o => p \in passed
            /\ IsFiniteSet(passed) /\ Cardinality(passed) <= remaining
            /\ allowed # {} => passed # {}
        BY <2>3, <2>6, <4>1, FirstRows, Zenon
      <4> QED
        BY <3>1, <4>2, FS_CardinalityType, Zenon
    <3> QED
        BY <3>2, <3>3, Zenon
  <2>8. PICK reached : reached = IF passed = {} THEN next ELSE Max(passed) + 1
    BY Zenon
  <2>9. PICK last : last = IF reached > stop THEN stop ELSE reached
    BY Zenon
  <2>10. result.rows = passed /\ result.next = last
    BY <1>2, <2>4, <2>8, <2>9, Zenon DEF boundedNext
  <2>11. last \in Nat /\ position < last /\ passed = Between(b, position, last)
    <3>1. CASE passed = {}
      <4>1. last \in Nat /\ position < last /\ last <= next /\ last <= stop
        BY <1>3, <2>8, <2>9, <3>1
      <4>2. allowed = {}
        BY <2>7, <3>1, Zenon
      <4>3. ASSUME NEW o \in Between(b, position, last) PROVE FALSE
        <5>1. o \in Nat /\ o \in Matching(b) /\ position <= o /\ o < last
            BY MatchingRecords, Zenon DEF Between
        <5>2. o < next /\ o < stop
            BY <1>3, <4>1, <5>1
        <5>3. o \in rows
            BY <1>1, <5>1, <5>2, Zenon DEF Between
        <5> QED
            BY <2>2, <4>2, <5>2, <5>3, Zenon
      <4> QED
        BY <3>1, <4>1, <4>3, Zenon
    <3>2. CASE passed # {}
      <4>1. PICK x : x = Max(passed)
        BY Zenon
      <4>2. passed \in SUBSET Nat /\ \A o \in passed : o <= next
        BY <2>6, <2>7, Zenon
      <4>3. x \in passed /\ \A o \in passed : o <= x
        BY <3>2, <4>1, <4>2, LargestNatural, Zenon
      <4>4. x \in Nat /\ x \in allowed /\ x < stop /\ position <= x /\ x < next
        BY <1>4, <2>6, <2>7, <4>2, <4>3, Zenon
      <4>5. last = x + 1
        BY <1>3, <2>8, <2>9, <3>2, <4>1, <4>4
      <4>6. ASSUME NEW o \in passed PROVE o \in Between(b, position, last)
        <5>1. o \in Nat /\ o \in Matching(b) /\ position <= o /\ o <= x
            BY <1>4, <2>6, <2>7, <4>2, <4>3, Zenon
        <5>2. o < last
            BY <4>4, <4>5, <5>1
        <5> QED
            BY <5>1, <5>2, Zenon DEF Between
      <4>7. ASSUME NEW o \in Between(b, position, last) PROVE o \in passed
        <5>1. o \in Nat /\ o \in Matching(b) /\ position <= o /\ o < last
            BY MatchingRecords, Zenon DEF Between
        <5>2. o < next /\ o < stop /\ (o < x \/ o = x)
            BY <1>3, <4>4, <4>5, <5>1
        <5>3. o \in allowed
            BY <1>1, <2>2, <5>1, <5>2, Zenon DEF Between
        <5> QED
            BY <2>7, <4>3, <5>2, <5>3, Zenon
      <4> QED
        BY <4>4, <4>5, <4>6, <4>7, Zenon
    <3> QED
        BY <3>1, <3>2, Zenon
  <2>12. RowLimit > 0 => delivered + Cardinality(passed) <= RowLimit
    BY <1>3, <2>5, <2>7
  <2>13. \A o \in passed : b \in DOMAIN Stops => o < Stops[b]
    BY <1>2, <2>6, <2>7, Zenon DEF stopOf
  <2> QED
    BY <1>6, <1>1, <2>7, <2>10, <2>11, <2>12, <2>13, Zenon DEF Delivery
<1> QED
    BY <1>7, <1>8, Zenon

-----------------------------------------------------------------------------
(* The inductive invariant. *)

\* All records that Poll put into a result.
Records == returned \union poll.result \union dropped

PollFields == {"pc", "offsets", "periods", "todo", "result", "canceled", "ctxDone"}

ScannerTypes ==
    /\ offset = [b \in DOMAIN offset |-> offset[b]] /\ DOMAIN offset \subseteq BucketSet
    /\ \A b \in DOMAIN offset : offset[b] \in Nat
    /\ delivered \in Nat /\ period \in [BucketSet -> Nat] /\ since \in [BucketSet -> Nat]
    /\ Records \subseteq BucketSet \X Nat \X Nat

\* A Poll in progress holds positions below the stopping offsets; it fetches only
\* while rows may still be delivered, which a scanner that is not done grants.
PollTypes ==
    /\ DOMAIN poll = PollFields /\ poll.todo \subseteq BucketSet
    /\ \A b \in poll.todo : poll.offsets[b] \in Nat /\ poll.periods[b] \in Nat /\ poll.offsets[b] < stopOf(b)
    /\ poll.pc = "idle" => poll.todo = {} /\ poll.result = {}
    /\ poll.pc = "fetch" => poll.todo # {} /\ (RowLimit = 0 \/ delivered < RowLimit)
    /\ RowLimit > 0 /\ delivered >= RowLimit => done

\* A record belongs to a subscription that has been made, and lies before the
\* position if that subscription is the current one.
BehindPosition ==
    /\ \A b \in DOMAIN offset : since[b] <= offset[b]
    /\ \A r \in Records :
         /\ r[2] <= period[r[1]]
         /\ r[1] \in DOMAIN offset /\ r[2] = period[r[1]] => r[3] < offset[r[1]]

\* The same for the subscriptions and the positions that Poll copied, of the
\* buckets it has yet to visit; a subscription that has not ended is where it was.
BehindCopies ==
    /\ \A b \in poll.todo :
         /\ poll.periods[b] <= period[b]
         /\ poll.periods[b] = period[b] => since[b] <= poll.offsets[b]
         /\ poll.periods[b] = period[b] /\ b \in DOMAIN offset => offset[b] = poll.offsets[b]
    /\ \A r \in Records : r[1] \in poll.todo /\ r[2] = poll.periods[r[1]] => r[3] < poll.offsets[r[1]]

\* The limit bounds the records that are counted, and those are all there are.
Counted ==
    /\ IsFiniteSet(Records) /\ Cardinality(Records) <= delivered
    /\ RowLimit > 0 => delivered <= RowLimit
    /\ \A r \in Records : r[1] \in DOMAIN Stops => r[3] < Stops[r[1]]

ScannerInv ==
    ScannerTypes /\ PollTypes /\ BehindPosition /\ BehindCopies /\ Counted /\ NothingSkipped /\ NoDuplicates

\* A new scanner satisfies the invariant.
LEMMA ScannerInit == Init => ScannerInv
<1> SUFFICES ASSUME Init PROVE ScannerInv
    BY Zenon
<1>1. /\ offset = [b \in BucketSet |-> 0] /\ delivered = 0 /\ poll = NoPoll
      /\ period = [b \in BucketSet |-> 0] /\ since = [b \in BucketSet |-> 0] /\ returned = {} /\ dropped = {}
    BY Zenon DEF Init
<1>2. DOMAIN poll = PollFields /\ poll.pc = "idle" /\ poll.todo = {} /\ poll.result = {}
    BY <1>1, Zenon DEF NoPoll, PollFields
<1>3. Records = {} /\ RowLimit \in Nat
    BY <1>1, <1>2, ScannerAssumption, Zenon DEF Records
<1>4. ScannerTypes
    BY <1>1, <1>3, Zenon DEF ScannerTypes
<1>5. PollTypes
    BY <1>1, <1>2, <1>3 DEF PollTypes
<1>6. BehindPosition /\ BehindCopies
    BY <1>1, <1>2, <1>3 DEF BehindPosition, BehindCopies
<1>7. Counted
    BY <1>1, <1>3, FS_EmptySet DEF Counted
<1>8. NothingSkipped
    BY <1>1, MatchingRecords DEF NothingSkipped
<1>9. NoDuplicates
    BY <1>2, Zenon DEF NoDuplicates
<1> QED
    BY <1>4, <1>5, <1>6, <1>7, <1>8, <1>9, Zenon DEF ScannerInv

\* A step that fetches nothing and subscribes nothing: it may move the records of
\* the result, give up buckets yet to be visited, and close the scanner.
LEMMA QuietStep ==
    ASSUME ScannerInv, UNCHANGED <<delivered, done, period, since>>, offset' \in {offset, <<>>}, Records' = Records,
           poll'.result = {} \/ (poll'.result = poll.result /\ UNCHANGED <<returned, dropped>>),
           poll'.todo = {} \/ (poll'.todo \subseteq poll.todo /\ poll'.offsets = poll.offsets /\ poll'.periods = poll.periods),
           DOMAIN poll' = PollFields, poll'.pc = "idle" => poll'.todo = {} /\ poll'.result = {},
           poll'.pc = "fetch" => poll'.todo # {} /\ (RowLimit = 0 \/ delivered < RowLimit)
    PROVE  ScannerInv'
<1>1. ScannerTypes /\ PollTypes /\ BehindPosition /\ BehindCopies /\ Counted /\ NothingSkipped /\ NoDuplicates
    BY Zenon DEF ScannerInv
<1>2. offset' = offset \/ (offset' = <<>> /\ DOMAIN offset' = {})
    OBVIOUS
<1>3. ScannerTypes'
  <2>1. offset' = [b \in DOMAIN offset' |-> offset'[b]]
    <3>1. CASE offset' = offset
        BY <1>1, <3>1, Zenon DEF ScannerTypes
    <3>2. CASE offset' = <<>>
        BY <3>2
    <3> QED
        BY <1>2, <3>1, <3>2, Zenon
  <2>2. DOMAIN offset' \subseteq BucketSet /\ \A b \in DOMAIN offset' : offset'[b] \in Nat
    BY <1>1, <1>2, Zenon DEF ScannerTypes
  <2> QED
    BY <1>1, <2>1, <2>2, Zenon DEF ScannerTypes
<1>4. PollTypes'
    BY <1>1, Zenon DEF PollTypes, stopOf, End
<1>5. BehindPosition'
    BY <1>1, <1>2, Zenon DEF BehindPosition
<1>6. BehindCopies'
    BY <1>1, <1>2, Zenon DEF BehindCopies
<1>7. Counted'
    BY <1>1, Zenon DEF Counted
<1>8. NothingSkipped'
    BY <1>1, <1>2, Zenon DEF NothingSkipped, Records, Matching
<1>9. NoDuplicates'
    BY <1>1, Zenon DEF NoDuplicates
<1> QED
    BY <1>3, <1>4, <1>5, <1>6, <1>7, <1>8, <1>9, Zenon DEF ScannerInv

\* Subscribe and Unsubscribe end the subscription of a bucket; what a Poll in
\* progress still delivers of it belongs to the one that ended.
LEMMA SubscriptionStep ==
    ASSUME ScannerInv, NEW b \in BucketSet, UNCHANGED <<delivered, poll, returned, dropped>>,
           period' = [period EXCEPT ![b] = @ + 1], since' \in [BucketSet -> Nat],
           \A c \in BucketSet \ {b} : since'[c] = since[c],
           offset' = [c \in DOMAIN offset' |-> offset'[c]], DOMAIN offset' \subseteq DOMAIN offset \union {b},
           \A c \in DOMAIN offset' \ {b} : offset'[c] = offset[c],
           b \in DOMAIN offset' => offset'[b] = since'[b],
           done' = isDone(offset', delivered)
    PROVE  ScannerInv'
<1>1. ScannerTypes /\ PollTypes /\ BehindPosition /\ BehindCopies /\ Counted /\ NothingSkipped /\ NoDuplicates
    BY Zenon DEF ScannerInv
<1>2. Records' = Records
    BY Zenon DEF Records
<1>3. /\ period \in [BucketSet -> Nat] /\ period' \in [BucketSet -> Nat] /\ period'[b] > period[b]
      /\ \A c \in BucketSet \ {b} : period'[c] = period[c]
    BY <1>1 DEF ScannerTypes
<1>4. \A c \in DOMAIN offset' : c \in BucketSet /\ (c # b => c \in DOMAIN offset)
    BY <1>1, Zenon DEF ScannerTypes
<1>5. \A r \in Records : r[1] \in BucketSet /\ r[2] \in Nat /\ r[3] \in Nat /\ r = <<r[1], r[2], r[3]>>
    BY <1>1 DEF ScannerTypes
<1>6. \A r \in Records : r[1] = b => r[2] # period'[b]
  <2> SUFFICES ASSUME NEW r \in Records, r[1] = b PROVE r[2] # period'[b]
    BY Zenon
  <2>1. r[2] <= period[b] /\ r[2] \in Nat /\ period[b] \in Nat
    BY <1>1, <1>3, <1>5 DEF BehindPosition
  <2> QED
    BY <1>3, <2>1
<1>7. ScannerTypes'
  <2>1. \A c \in DOMAIN offset' : offset'[c] \in Nat
    BY <1>1, <1>4 DEF ScannerTypes
  <2> QED
    BY <1>1, <1>2, <1>3, <1>4, <2>1, Zenon DEF ScannerTypes
<1>8. PollTypes'
  <2>1. RowLimit > 0 /\ delivered' >= RowLimit => done'
    BY Zenon DEF isDone
  <2> QED
    BY <1>1, <2>1, Zenon DEF PollTypes, stopOf, End
<1>9. BehindPosition'
  <2>1. ASSUME NEW c \in DOMAIN offset' PROVE since'[c] <= offset'[c]
    BY <1>1, <1>4 DEF BehindPosition, ScannerTypes
  <2>2. ASSUME NEW r \in Records
        PROVE  r[2] <= period'[r[1]] /\ (r[1] \in DOMAIN offset' /\ r[2] = period'[r[1]] => r[3] < offset'[r[1]])
    <3>1. r[2] <= period[r[1]] /\ period[r[1]] \in Nat /\ r[2] \in Nat /\ r[1] \in BucketSet
        BY <1>1, <1>3, <1>5 DEF BehindPosition
    <3>2. CASE r[1] = b
        BY <1>3, <1>6, <3>1, <3>2
    <3>3. CASE r[1] # b
        BY <1>1, <1>3, <1>4, <3>1, <3>3, Zenon DEF BehindPosition
    <3> QED
        BY <3>2, <3>3, Zenon
  <2> QED
    BY <1>2, <2>1, <2>2, Zenon DEF BehindPosition
<1>10. BehindCopies'
  <2>1. ASSUME NEW c \in poll.todo
        PROVE  /\ poll.periods[c] <= period'[c]
               /\ poll.periods[c] = period'[c] => since'[c] <= poll.offsets[c]
               /\ poll.periods[c] = period'[c] /\ c \in DOMAIN offset' => offset'[c] = poll.offsets[c]
    <3>1. c \in BucketSet /\ poll.periods[c] \in Nat /\ period[c] \in Nat /\ poll.periods[c] <= period[c]
        BY <1>1, <1>3, Zenon DEF PollTypes, BehindCopies
    <3>2. CASE c = b
        BY <1>3, <3>1, <3>2
    <3>3. CASE c # b
        BY <1>1, <1>3, <1>4, <3>1, <3>3, Zenon DEF BehindCopies
    <3> QED
        BY <3>2, <3>3, Zenon
  <2> QED
    BY <1>1, <1>2, <2>1, Zenon DEF BehindCopies
<1>11. Counted'
    BY <1>1, <1>2, Zenon DEF Counted
<1>12. NothingSkipped'
  <2>1. ASSUME NEW c \in DOMAIN offset', NEW o \in Matching(c), since'[c] <= o, o < offset'[c]
        PROVE  <<c, period'[c], o>> \in Records
    <3>1. c \in BucketSet /\ o \in Nat /\ since'[c] \in Nat
        BY <1>4, MatchingRecords, Zenon
    <3>2. c # b
        BY <2>1, <3>1
    <3>3. c \in DOMAIN offset /\ since[c] <= o /\ o < offset[c] /\ period'[c] = period[c]
        BY <1>3, <1>4, <2>1, <3>1, <3>2, Zenon
    <3> QED
        BY <1>1, <3>3, Zenon DEF NothingSkipped, Records
  <2> QED
    BY <1>2, <2>1, Zenon DEF NothingSkipped, Records, Matching
<1>13. NoDuplicates'
  <2>1. ASSUME NEW r \in poll.result, r[2] = period'[r[1]] PROVE r[3] >= since'[r[1]]
    <3>1. r \in Records /\ r[1] \in BucketSet
        BY <1>5, Zenon DEF Records
    <3>2. r[1] # b
        BY <1>6, <2>1, <3>1, Zenon
    <3> QED
        BY <1>1, <1>3, <2>1, <3>1, <3>2, Zenon DEF NoDuplicates
  <2> QED
    BY <1>1, <2>1, Zenon DEF NoDuplicates
<1> QED
    BY <1>7, <1>8, <1>9, <1>10, <1>11, <1>12, <1>13, Zenon DEF ScannerInv

\* Poll copies the positions and the subscriptions.
LEMMA CopyStep ==
    ASSUME ScannerInv, BeginPoll, ~wakePending
    PROVE  ScannerInv'
<1>1. ScannerTypes /\ PollTypes /\ BehindPosition /\ BehindCopies /\ Counted /\ NothingSkipped /\ NoDuplicates
    BY Zenon DEF ScannerInv
<1>2. /\ poll.pc = "idle" /\ ~done
      /\ UNCHANGED <<offset, delivered, done, period, since, returned, dropped>>
    BY Zenon DEF BeginPoll
<1>3. PICK todo : todo = {b \in DOMAIN offset : offset[b] < stopOf(b)}
    BY Zenon
<1>4. poll' = [NoPoll EXCEPT !.pc = IF todo = {} THEN "check" ELSE "fetch",
                             !.offsets = offset, !.periods = period, !.todo = todo]
    BY <1>3, Zenon DEF BeginPoll
<1>5. /\ DOMAIN poll' = PollFields /\ poll'.pc = (IF todo = {} THEN "check" ELSE "fetch") /\ poll'.todo = todo
      /\ poll'.offsets = offset /\ poll'.periods = period /\ poll'.result = {}
    BY <1>4, Zenon DEF NoPoll, PollFields
<1>6. poll.result = {}
    BY <1>1, <1>2, Zenon DEF PollTypes
<1>7. Records' = Records
    BY <1>2, <1>5, <1>6, Zenon DEF Records
<1>8. ScannerTypes' /\ BehindPosition' /\ Counted'
    BY <1>1, <1>2, <1>7, Zenon DEF ScannerTypes, BehindPosition, Counted
<1>9. \A b \in todo : b \in DOMAIN offset /\ b \in BucketSet /\ offset[b] \in Nat /\ period[b] \in Nat /\ offset[b] < stopOf(b)
    BY <1>1, <1>3, Zenon DEF ScannerTypes
<1>10. PollTypes'
  <2>1. RowLimit = 0 \/ delivered < RowLimit
    BY <1>1, <1>2, ScannerAssumption DEF PollTypes, ScannerTypes
  <2> QED
    BY <1>1, <1>2, <1>5, <1>9, <2>1, Zenon DEF PollTypes, stopOf, End
<1>11. BehindCopies'
    BY <1>1, <1>2, <1>5, <1>7, <1>9 DEF BehindPosition, BehindCopies
<1>12. NothingSkipped'
    BY <1>1, <1>2, <1>7, Zenon DEF NothingSkipped, Records, Matching
<1>13. NoDuplicates'
    BY <1>5, Zenon DEF NoDuplicates
<1> QED
    BY <1>8, <1>10, <1>11, <1>12, <1>13, Zenon DEF ScannerInv

\* The bucket whose turn it is has yet to be visited.
LEMMA UpcomingInTodo ==
    ASSUME poll.todo \subseteq BucketSet, poll.todo # {}
    PROVE  upcoming \in poll.todo
<1> DEFINE S == {n \in DOMAIN Buckets : Buckets[n] \in poll.todo}
<1>1. DOMAIN Buckets = 1 .. Len(Buckets) /\ Len(Buckets) \in Nat
    BY ScannerAssumption
<1>2. S # {}
    BY Zenon DEF BucketSet, Range
<1>3. S \in SUBSET Nat
    BY <1>1
<1>4. PICK n \in S : \A m \in S : n <= m
    BY <1>2, <1>3, LeastNatural, Zenon
<1>5. ASSUME NEW m \in 1 .. n - 1 PROVE Buckets[m] \notin poll.todo
  <2>1. m \in DOMAIN Buckets /\ ~(n <= m)
    BY <1>1, <1>3
  <2> QED
    BY <1>4, <2>1, Zenon
<1>6. n \in DOMAIN Buckets /\ Buckets[n] \in poll.todo
    BY Zenon
<1>7. \E i \in DOMAIN Buckets : Buckets[i] \in poll.todo /\ \A m \in 1 .. i - 1 : Buckets[m] \notin poll.todo
    BY <1>5, <1>6, Zenon
<1> QED
    BY ONLY <1>7, Zenon DEF upcoming

\* Rows turned into records of one bucket and subscription are as many.
LEMMA RecordsOfRows ==
    ASSUME NEW b, NEW p, NEW rows, IsFiniteSet(rows)
    PROVE  /\ IsFiniteSet({<<b, p, o>> : o \in rows})
           /\ Cardinality({<<b, p, o>> : o \in rows}) <= Cardinality(rows)
<1>1. PICK T : T = {<<b, p, o>> : o \in rows}
    BY Zenon
<1>2. PICK g : g = [o \in rows |-> <<b, p, o>>]
    BY Zenon
<1>3. g \in [rows -> T]
    BY <1>1, <1>2, Zenon
<1>4. \A t \in T : \E o \in rows : g[o] = t
    BY <1>1, <1>2, Zenon
<1>5. g \in Surjection(rows, T)
    BY <1>3, <1>4, Zenon DEF Surjection
<1> QED
    BY <1>1, <1>5, FS_Surjection, Zenon

\* The answer to a fetch, within the bounds, delivers what lies between the
\* position of the Poll and the next one.
LEMMA FetchDelivers ==
    ASSUME ScannerInv, poll.pc = "fetch", NEW f \in fetches(upcoming, poll.offsets[upcoming])
    PROVE  Delivery(upcoming, poll.offsets[upcoming], applyBounds(upcoming, f.rows, f.next))
<1>1. ScannerTypes /\ PollTypes
    BY Zenon DEF ScannerInv
<1>2. PICK b : b = upcoming
    BY Zenon
<1>3. PICK position : position = poll.offsets[b]
    BY Zenon
<1>4. b \in poll.todo
    BY <1>1, <1>2, UpcomingInTodo, Zenon DEF PollTypes
<1>5. b \in BucketSet /\ position \in Nat /\ position < stopOf(b) /\ (RowLimit = 0 \/ delivered < RowLimit) /\ delivered \in Nat
    BY <1>1, <1>3, <1>4, Zenon DEF PollTypes, ScannerTypes
<1>6. PICK m \in DOMAIN Logs[b] : Past(b, m) > position /\ f = fetch(b, position, m)
    BY <1>2, <1>3, Zenon DEF fetches, Past
<1>7. m \in 1 .. Len(Logs[b]) /\ Past(b, m) \in Nat
    BY <1>5, BatchTypes, Zenon
<1>8. f.next = Past(b, m) /\ f.rows = Between(b, position, f.next)
    BY <1>5, <1>6, <1>7, FetchedRows
<1>9. Delivery(b, position, applyBounds(b, Between(b, position, f.next), f.next))
    BY <1>5, <1>6, <1>7, <1>8, BoundedRows, Zenon
<1> QED
    BY <1>2, <1>3, <1>8, <1>9, Zenon

\* The answer moves the position over the records it puts into the result, or
\* leaves a position alone that is no longer the one it was fetched at.
LEMMA FetchedStep ==
    ASSUME ScannerInv, poll.pc = "fetch", NEW f \in fetches(upcoming, poll.offsets[upcoming]), BucketFetched(f)
    PROVE  ScannerInv'
<1>1. ScannerTypes /\ PollTypes /\ BehindPosition /\ BehindCopies /\ Counted /\ NothingSkipped /\ NoDuplicates
    BY Zenon DEF ScannerInv
<1>2. PICK b : b = upcoming
    BY Zenon
<1>3. PICK position : position = poll.offsets[b]
    BY Zenon
<1>4. PICK d : d = applyBounds(b, f.rows, f.next)
    BY Zenon
<1>5. PICK p : p = IF unmoved(b, position) THEN period[b] ELSE poll.periods[b]
    BY Zenon
<1>6. PICK new : new = {<<b, p, o>> : o \in d.rows}
    BY Zenon
<1>7. Delivery(b, position, d)
    BY <1>2, <1>3, <1>4, FetchDelivers, Zenon
<1>8. /\ offset' = (IF unmoved(b, position) THEN [offset EXCEPT ![b] = d.next] ELSE offset)
      /\ delivered' = delivered + Cardinality(d.rows) /\ done' = isDone(offset', delivered')
      /\ poll' = [poll EXCEPT !.pc = "check", !.todo = @ \ {b}, !.result = @ \union new]
      /\ UNCHANGED <<period, since, returned, dropped>>
    BY <1>2, <1>3, <1>4, <1>5, <1>6 DEF BucketFetched
<1>9. /\ DOMAIN poll' = PollFields /\ poll'.pc = "check" /\ poll'.todo = poll.todo \ {b}
      /\ poll'.result = poll.result \union new /\ poll'.offsets = poll.offsets /\ poll'.periods = poll.periods
    BY <1>1, <1>8, Zenon DEF PollTypes, PollFields
<1>10. Records' = Records \union new
    BY <1>8, <1>9, Zenon DEF Records
<1>11. /\ b \in poll.todo /\ b \in BucketSet /\ position \in Nat /\ poll.periods[b] \in Nat
       /\ period[b] \in Nat /\ since[b] \in Nat /\ delivered \in Nat
  <2>1. b \in poll.todo
    BY <1>1, <1>2, UpcomingInTodo, Zenon DEF PollTypes
  <2> QED
    BY <1>1, <1>3, <2>1, Zenon DEF PollTypes, ScannerTypes
<1>12. p \in Nat /\ p <= period[b]
  <2>1. poll.periods[b] <= period[b]
    BY <1>1, <1>11, Zenon DEF BehindCopies
  <2> QED
    BY <1>5, <1>11, <2>1
<1>13. /\ d.next \in Nat /\ position < d.next /\ d.rows = Between(b, position, d.next)
       /\ \A o \in d.rows : o \in Nat /\ position <= o /\ o < d.next /\ (b \in DOMAIN Stops => o < Stops[b])
    BY <1>7, <1>11, MatchingRecords, Zenon DEF Delivery, Between
<1>14. \A r \in new : r[1] = b /\ r[2] = p /\ r[3] \in d.rows /\ r \in BucketSet \X Nat \X Nat
    BY <1>6, <1>11, <1>12, <1>13
<1>15. \A r \in Records : r[1] \in BucketSet /\ r[2] \in Nat /\ r[3] \in Nat
    BY <1>1, Zenon DEF ScannerTypes
<1>16. /\ offset' = [c \in DOMAIN offset' |-> offset'[c]] /\ DOMAIN offset' = DOMAIN offset
       /\ \A c \in DOMAIN offset : c # b \/ ~unmoved(b, position) => offset'[c] = offset[c]
       /\ unmoved(b, position) => b \in DOMAIN offset /\ offset[b] = position /\ offset'[b] = d.next
  <2>1. CASE unmoved(b, position)
    BY <1>1, <1>8, <2>1, Zenon DEF ScannerTypes, unmoved
  <2>2. CASE ~unmoved(b, position)
    BY <1>1, <1>8, <2>2, Zenon DEF ScannerTypes
  <2> QED
    BY <2>1, <2>2, Zenon
<1>17. new \intersect Records = {}
  <2>1. ASSUME NEW r \in new, r \in Records PROVE FALSE
    <3>1. r[1] = b /\ r[2] = p /\ position <= r[3] /\ r[3] \in Nat
        BY <1>13, <1>14, <2>1, Zenon
    <3>2. CASE unmoved(b, position)
      <4>1. r[3] < offset[b]
        BY <1>1, <1>5, <1>16, <2>1, <3>1, <3>2, Zenon DEF BehindPosition
      <4> QED
        BY <1>11, <1>16, <3>1, <3>2, <4>1
    <3>3. CASE ~unmoved(b, position)
      <4>1. r[3] < poll.offsets[b]
        BY <1>1, <1>5, <1>11, <2>1, <3>1, <3>3, Zenon DEF BehindCopies
      <4> QED
        BY <1>3, <1>11, <3>1, <4>1
    <3> QED
        BY <3>2, <3>3, Zenon
  <2> QED
    BY <2>1, Zenon
<1>18. ScannerTypes'
  <2>1. DOMAIN offset' \subseteq BucketSet /\ \A c \in DOMAIN offset' : offset'[c] \in Nat
    BY <1>1, <1>13, <1>16, Zenon DEF ScannerTypes
  <2>2. delivered' \in Nat
    BY <1>7, <1>8, <1>11, FS_CardinalityType DEF Delivery
  <2>3. Records' \subseteq BucketSet \X Nat \X Nat
    BY <1>1, <1>10, <1>14, Zenon DEF ScannerTypes
  <2> QED
    BY <1>1, <1>8, <1>16, <2>1, <2>2, <2>3, Zenon DEF ScannerTypes
<1>19. PollTypes'
  <2>1. RowLimit > 0 /\ delivered' >= RowLimit => done'
    BY <1>8, Zenon DEF isDone
  <2> QED
    BY <1>1, <1>9, <2>1, Zenon DEF PollTypes, stopOf, End
<1>20. BehindPosition'
  <2>1. ASSUME NEW c \in DOMAIN offset' PROVE since'[c] <= offset'[c]
    <3>1. c \in DOMAIN offset /\ c \in BucketSet /\ since[c] \in Nat /\ since[c] <= offset[c] /\ since'[c] = since[c]
        BY <1>1, <1>8, <1>16, Zenon DEF ScannerTypes, BehindPosition
    <3>2. CASE c = b /\ unmoved(b, position)
        BY <1>11, <1>13, <1>16, <3>1, <3>2
    <3>3. CASE c # b \/ ~unmoved(b, position)
        BY <1>16, <3>1, <3>3, Zenon
    <3> QED
        BY <3>2, <3>3, Zenon
  <2>2. ASSUME NEW r \in Records
        PROVE  r[2] <= period[r[1]] /\ (r[1] \in DOMAIN offset' /\ r[2] = period[r[1]] => r[3] < offset'[r[1]])
    <3>1. r[2] <= period[r[1]] /\ (r[1] \in DOMAIN offset /\ r[2] = period[r[1]] => r[3] < offset[r[1]]) /\ r[3] \in Nat
        BY <1>1, <1>15, Zenon DEF BehindPosition
    <3>2. CASE r[1] = b /\ unmoved(b, position)
        BY <1>11, <1>13, <1>16, <3>1, <3>2
    <3>3. CASE r[1] # b \/ ~unmoved(b, position)
        BY <1>16, <3>1, <3>3, Zenon
    <3> QED
        BY <3>2, <3>3, Zenon
  <2>3. ASSUME NEW r \in new
        PROVE  r[2] <= period[r[1]] /\ (r[1] \in DOMAIN offset' /\ r[2] = period[r[1]] => r[3] < offset'[r[1]])
    <3>1. r[1] = b /\ r[2] = p /\ r[3] < d.next
        BY <1>13, <1>14, Zenon
    <3>2. ~unmoved(b, position) => ~(b \in DOMAIN offset /\ p = period[b])
        BY <1>1, <1>3, <1>5, <1>11, Zenon DEF BehindCopies, unmoved
    <3> QED
        BY <1>12, <1>16, <3>1, <3>2, Zenon
  <2> QED
    BY <1>8, <1>10, <2>1, <2>2, <2>3, Zenon DEF BehindPosition
<1>21. BehindCopies'
  <2>1. \A c \in poll'.todo : c # b /\ c \in poll.todo /\ (c \in DOMAIN offset' => c \in DOMAIN offset /\ offset'[c] = offset[c])
    BY <1>9, <1>16, Zenon
  <2>2. \A r \in Records' : r[1] \in poll'.todo => r \in Records
    BY <1>9, <1>10, <1>14, Zenon
  <2> QED
    BY <1>1, <1>8, <1>9, <2>1, <2>2 DEF BehindCopies
<1>22. Counted'
  <2>1. IsFiniteSet(d.rows) /\ Cardinality(d.rows) \in Nat /\ (RowLimit > 0 => delivered + Cardinality(d.rows) <= RowLimit)
    BY <1>7, FS_CardinalityType, Zenon DEF Delivery
  <2>2. IsFiniteSet(new) /\ Cardinality(new) <= Cardinality(d.rows) /\ Cardinality(new) \in Nat
    BY <1>6, <2>1, RecordsOfRows, FS_CardinalityType, Zenon
  <2>3. IsFiniteSet(Records) /\ Cardinality(Records) <= delivered /\ Cardinality(Records) \in Nat
    BY <1>1, FS_CardinalityType, Zenon DEF Counted
  <2>4. IsFiniteSet(Records') /\ Cardinality(Records') = Cardinality(Records) + Cardinality(new)
    <3>1. Records \intersect new = {}
        BY <1>17, Zenon
    <3>2. Cardinality(Records \intersect new) = 0
        BY <3>1, FS_EmptySet, Zenon
    <3>3. /\ IsFiniteSet(Records \union new)
          /\ Cardinality(Records \union new) = Cardinality(Records) + Cardinality(new) - Cardinality(Records \intersect new)
        BY <2>2, <2>3, FS_Union, Zenon
    <3> QED
        BY <1>10, <2>2, <2>3, <3>2, <3>3
  <2>5. Cardinality(Records') <= delivered'
    BY <1>8, <1>11, <2>1, <2>2, <2>3, <2>4
  <2>6. \A r \in Records' : r[1] \in DOMAIN Stops => r[3] < Stops[r[1]]
    BY <1>1, <1>10, <1>13, <1>14, Zenon DEF Counted
  <2> QED
    BY <1>8, <2>1, <2>4, <2>5, <2>6, Zenon DEF Counted
<1>23. NothingSkipped'
  <2>1. ASSUME NEW c \in DOMAIN offset', NEW o \in Matching(c), since[c] <= o, o < offset'[c]
        PROVE  <<c, period[c], o>> \in Records'
    <3>1. c \in DOMAIN offset /\ c \in BucketSet /\ o \in Nat
        BY <1>1, <1>16, MatchingRecords, Zenon DEF ScannerTypes
    <3>2. o < offset[c] => <<c, period[c], o>> \in Records'
        BY <1>1, <1>10, <2>1, <3>1, Zenon DEF NothingSkipped, Records
    <3>3. CASE c = b /\ unmoved(b, position)
      <4>1. position <= o => o \in d.rows
        BY <1>13, <1>16, <2>1, <3>3, Zenon DEF Between
      <4>2. position <= o => <<c, period[c], o>> \in new
        BY <1>5, <1>6, <3>3, <4>1, Zenon
      <4> QED
        BY <1>10, <1>11, <1>16, <3>1, <3>2, <3>3, <4>2
    <3>4. CASE c # b \/ ~unmoved(b, position)
        BY <1>16, <2>1, <3>1, <3>2, <3>4, Zenon
    <3> QED
        BY <3>3, <3>4, Zenon
  <2> QED
    BY <1>8, <2>1, Zenon DEF NothingSkipped, Records, Matching
<1>24. NoDuplicates'
  <2>1. poll'.result \intersect (returned' \union dropped') = {}
    BY <1>1, <1>8, <1>9, <1>17, Zenon DEF NoDuplicates, Records
  <2>2. ASSUME NEW r \in new, r[2] = period[r[1]] PROVE r[3] >= since[r[1]]
    <3>1. r[1] = b /\ p = period[b] /\ position <= r[3] /\ r[3] \in Nat
        BY <1>13, <1>14, <2>2, Zenon
    <3>2. since[b] <= position
      <4>1. CASE unmoved(b, position)
        BY <1>1, <1>16, <4>1, Zenon DEF BehindPosition
      <4>2. CASE ~unmoved(b, position)
        BY <1>1, <1>3, <1>5, <1>11, <3>1, <4>2 DEF BehindCopies
      <4> QED
        BY <4>1, <4>2, Zenon
    <3> QED
        BY <1>11, <3>1, <3>2
  <2> QED
    BY <1>1, <1>8, <1>9, <2>1, <2>2, Zenon DEF NoDuplicates
<1> QED
    BY <1>18, <1>19, <1>20, <1>21, <1>22, <1>23, <1>24, Zenon DEF ScannerInv

-----------------------------------------------------------------------------
(* Every step keeps the invariant. *)

\* Every call, and every step of Poll, keeps the invariant.
LEMMA ScannerNext == ScannerInv /\ [Next]_vars => ScannerInv'
<1> SUFFICES ASSUME ScannerInv, [Next]_vars PROVE ScannerInv'
    BY Zenon
<1>1. ScannerTypes /\ PollTypes
    BY Zenon DEF ScannerInv
<1>2. /\ DOMAIN poll = PollFields /\ (poll.pc = "idle" => poll.todo = {} /\ poll.result = {})
      /\ poll.pc = "fetch" => poll.todo # {} /\ (RowLimit = 0 \/ delivered < RowLimit)
    BY <1>1, Zenon DEF PollTypes
<1>3. /\ DOMAIN NoPoll = PollFields /\ NoPoll.pc = "idle" /\ NoPoll.todo = {} /\ NoPoll.result = {}
    BY Zenon DEF NoPoll, PollFields
<1>4. CASE BeginPoll
  <2>1. CASE wakePending
    <3>1. UNCHANGED <<offset, delivered, done, poll, period, since, returned, dropped>>
        BY <1>4, <2>1, Zenon DEF BeginPoll
    <3>2. Records' = Records
        BY <3>1, Zenon DEF Records
    <3> QED
        BY <1>2, <3>1, <3>2, QuietStep, Zenon
  <2> QED
    BY <1>4, <2>1, CopyStep, Zenon
<1>5. CASE NextBucket
  <2>1. UNCHANGED <<offset, delivered, done, period, since, dropped>> /\ poll.pc = "check"
    BY <1>5, Zenon DEF NextBucket
  <2>2. CASE done \/ poll.todo = {}
    <3>1. poll' = NoPoll /\ returned' = returned \union poll.result
        BY <1>5, <2>2, Zenon DEF NextBucket
    <3>2. Records' = Records
        BY <1>3, <2>1, <3>1, Zenon DEF Records
    <3> QED
        BY <1>3, <2>1, <3>1, <3>2, QuietStep, Zenon
  <2>3. CASE ~(done \/ poll.todo = {})
    <3>1. poll' = [poll EXCEPT !.pc = "fetch"] /\ returned' = returned
        BY <1>5, <2>3, Zenon DEF NextBucket
    <3>2. /\ DOMAIN poll' = PollFields /\ poll'.pc = "fetch" /\ poll'.todo = poll.todo /\ poll'.result = poll.result
          /\ poll'.offsets = poll.offsets /\ poll'.periods = poll.periods
        BY <1>2, <3>1, Zenon DEF PollFields
    <3>3. Records' = Records
        BY <2>1, <3>1, <3>2, Zenon DEF Records
    <3>4. RowLimit = 0 \/ delivered < RowLimit
        BY <1>1, <2>3, ScannerAssumption DEF PollTypes, ScannerTypes
    <3> QED
        BY <2>1, <2>3, <3>1, <3>2, <3>3, <3>4, QuietStep, Zenon
  <2> QED
    BY <2>2, <2>3, Zenon
<1>6. CASE BucketEmpty
  <2>1. /\ UNCHANGED <<offset, delivered, done, period, since, returned, dropped>>
        /\ poll' = [poll EXCEPT !.pc = "check", !.todo = @ \ {upcoming}]
    BY <1>6, Zenon DEF BucketEmpty
  <2>2. /\ DOMAIN poll' = PollFields /\ poll'.pc = "check" /\ poll'.todo \subseteq poll.todo /\ poll'.result = poll.result
        /\ poll'.offsets = poll.offsets /\ poll'.periods = poll.periods
    BY <1>2, <2>1, Zenon DEF PollFields
  <2>3. Records' = Records
    BY <2>1, <2>2, Zenon DEF Records
  <2> QED
    BY <2>1, <2>2, <2>3, QuietStep, Zenon
<1>7. CASE BucketInterrupted
  <2>1. /\ UNCHANGED <<offset, delivered, done, period, since, returned>>
        /\ poll' = NoPoll /\ dropped' = dropped \union poll.result
    BY <1>7, Zenon DEF BucketInterrupted
  <2>2. Records' = Records
    BY <1>3, <2>1, Zenon DEF Records
  <2> QED
    BY <1>3, <2>1, <2>2, QuietStep, Zenon
<1>8. CASE poll.pc = "fetch" /\ \E f \in fetches(upcoming, poll.offsets[upcoming]) : BucketFetched(f)
    BY <1>8, FetchedStep, Zenon
<1>9. CASE Wakeup \/ Close \/ Cancel
  <2>1. /\ UNCHANGED <<delivered, done, period, since, returned, dropped>> /\ offset' \in {offset, <<>>}
        /\ \/ poll' = poll \/ poll' = [poll EXCEPT !.canceled = TRUE]
           \/ poll' = [poll EXCEPT !.canceled = TRUE, !.ctxDone = TRUE]
    BY <1>9, Zenon DEF Wakeup, Close, Cancel
  <2>2. /\ DOMAIN poll' = PollFields /\ poll'.pc = poll.pc /\ poll'.todo = poll.todo /\ poll'.result = poll.result
        /\ poll'.offsets = poll.offsets /\ poll'.periods = poll.periods
    BY <1>2, <2>1, Zenon DEF PollFields
  <2>3. Records' = Records
    BY <2>1, <2>2, Zenon DEF Records
  <2> QED
    BY <1>2, <2>1, <2>2, <2>3, QuietStep, Zenon
<1>10. ASSUME NEW b \in BucketSet, Unsubscribe(b) PROVE ScannerInv'
  <2>1. /\ UNCHANGED <<delivered, poll, since, returned, dropped>> /\ period' = [period EXCEPT ![b] = @ + 1]
        /\ offset' = [c \in DOMAIN offset \ {b} |-> offset[c]] /\ done' = isDone(offset', delivered)
    BY <1>10, Zenon DEF Unsubscribe
  <2> QED
    BY <1>1, <2>1, SubscriptionStep, Zenon DEF ScannerTypes
<1>11. ASSUME NEW b \in BucketSet, NEW start \in 0 .. End(b), Subscribe(b, start) PROVE ScannerInv'
  <2>1. /\ UNCHANGED <<delivered, poll, returned, dropped>> /\ period' = [period EXCEPT ![b] = @ + 1]
        /\ since' = [since EXCEPT ![b] = start] /\ done' = isDone(offset', delivered)
        /\ offset' = [c \in DOMAIN offset \union {b} |-> IF c = b THEN start ELSE offset[c]]
    BY <1>11, Zenon DEF Subscribe
  <2>2. start \in Nat
    OBVIOUS
  <2>3. since' \in [BucketSet -> Nat] /\ (\A c \in BucketSet \ {b} : since'[c] = since[c]) /\ since'[b] = start
    BY <1>1, <2>1, <2>2, Zenon DEF ScannerTypes
  <2>4. /\ offset' = [c \in DOMAIN offset' |-> offset'[c]] /\ DOMAIN offset' \subseteq DOMAIN offset \union {b}
        /\ offset'[b] = start /\ \A c \in DOMAIN offset' \ {b} : offset'[c] = offset[c]
    BY <2>1, Zenon
  <2> QED
    BY <2>1, <2>3, <2>4, SubscriptionStep, Zenon
<1>12. CASE UNCHANGED vars
  <2>1. UNCHANGED <<offset, delivered, done, poll, period, since, returned, dropped>>
    BY <1>12, Zenon DEF vars
  <2>2. Records' = Records
    BY <2>1, Zenon DEF Records
  <2> QED
    BY <1>2, <2>1, <2>2, QuietStep, Zenon
<1> QED
    BY <1>4, <1>5, <1>6, <1>7, <1>8, <1>9, <1>10, <1>11, <1>12 DEF Next, Poll

\* No record that the filter lets through is skipped: whatever Subscribe,
\* Unsubscribe, Wakeup, Close and cancellation do during a fetch, and wherever the
\* limit and the stopping offsets cut a response off, the position of a bucket
\* passes only records that Poll put into a result.
THEOREM NoRecordSkipped == Spec => []NothingSkipped
<1>1. ScannerInv => NothingSkipped
    BY Zenon DEF ScannerInv
<1> QED
    BY <1>1, ScannerInit, ScannerNext, PTL DEF Spec

\* No record of one subscription is put into two results, and none from before
\* the subscribed position, although a late response is applied to a bucket that
\* was subscribed anew at the very position it was fetched at.
THEOREM EveryRecordOnce == Spec => []NoDuplicates
<1>1. ScannerInv => NoDuplicates
    BY Zenon DEF ScannerInv
<1> QED
    BY <1>1, ScannerInit, ScannerNext, PTL DEF Spec

\* The row limit holds for all results together and the stopping offsets for
\* every record: applyBounds counts what earlier polls and buckets delivered.
THEOREM BoundsRespected == Spec => []WithinBounds
<1>1. ScannerInv => WithinBounds
  <2> SUFFICES ASSUME ScannerInv PROVE WithinBounds
    BY Zenon
  <2>1. Counted /\ delivered \in Nat
    BY Zenon DEF ScannerInv, ScannerTypes
  <2>2. RowLimit > 0 => Cardinality(Records) <= RowLimit
    BY <2>1, ScannerAssumption, FS_CardinalityType DEF Counted
  <2>3. \A r \in Records : r[1] \in DOMAIN Stops => r[3] < Stops[r[1]]
    BY <2>1, Zenon DEF Counted
  <2> QED
    BY <2>2, <2>3, Zenon DEF WithinBounds, Records
<1> QED
    BY <1>1, ScannerInit, ScannerNext, PTL DEF Spec
=============================================================================
