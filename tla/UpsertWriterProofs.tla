-------------------------- MODULE UpsertWriterProofs --------------------------
(***************************************************************************)
(* Proofs about UpsertWriter, for any calls, buckets, limits and batching: *)
(* what shares a request, and the order in which mutations are applied.    *)
(*                                                                         *)
(* The argument follows a mutation from the commands channel to the log.   *)
(* The batches of a bucket stand in line: first the requests, by their     *)
(* sequence, then what is pending, then the open batch.  A mutation enters *)
(* at the end of the line when the loop takes it, and what the loop does   *)
(* afterwards, flushing, dispatching and handling completions, leaves its  *)
(* position (sequence, index) alone, until a failure cuts off the line     *)
(* behind the requests that were sent.  The server appends batches by      *)
(* sequence, so the log is a beginning of the line.                        *)
(***************************************************************************)
EXTENDS UpsertWriter, WellFoundedInduction, TLAPS

\* A set of natural numbers has a least member.
LEMMA LeastNatural ==
    ASSUME NEW S \in SUBSET Nat, S # {}
    PROVE  \E m \in S : \A n \in S : m <= n
<1>1. PICK m \in S : \A n \in S : <<n, m>> \notin OpToRel(<, Nat)
    BY NatLessThanWellFounded, WFMin, Zenon
<1>2. \A n \in S : ~(n < m)
    BY <1>1, Zenon DEF OpToRel
<1> QED
    BY <1>2

-----------------------------------------------------------------------------
(* The recursive functions of the model *)

SumStep(items, v, f, n) == IF n = 0 THEN 0 ELSE f[n - 1] + v[items[n]]
IsSum(items, v, N, f) == f = [n \in 0 .. N |-> SumStep(items, v, f, n)]

\* The function that adds up the values of mutations exists.
LEMMA SumExists ==
    ASSUME NEW items, NEW v, NEW N \in Nat
    PROVE  \E f : IsSum(items, v, N, f)
<1> DEFINE S == {n \in Nat : ~\E f : IsSum(items, v, n, f)}
<1>1. SUFFICES ASSUME S # {} PROVE FALSE
    BY Zenon
<1>2. PICK m \in S : \A n \in S : m <= n
    BY <1>1, LeastNatural, Zenon
<1>3. m \in Nat /\ ~\E f : IsSum(items, v, m, f)
    BY Zenon
<1>4. CASE m = 0
  <2>1. PICK f : f = [n \in 0 .. 0 |-> 0]
    BY Zenon
  <2>2. f = [n \in 0 .. 0 |-> SumStep(items, v, f, n)]
    BY <2>1 DEF SumStep
  <2> QED
    BY <1>3, <1>4, <2>2, Zenon DEF IsSum
<1>5. CASE m # 0
  <2>1. m - 1 \in Nat /\ m - 1 \notin S
    BY <1>2, <1>3, <1>5
  <2>2. PICK h : IsSum(items, v, m - 1, h)
    BY <2>1, Zenon
  <2>3. PICK f : f = [n \in 0 .. m |-> IF n = m THEN SumStep(items, v, h, m) ELSE h[n]]
    BY Zenon
  <2>4. ASSUME NEW n \in 0 .. m PROVE f[n] = SumStep(items, v, f, n)
    <3>1. n # 0 => n - 1 \in 0 .. m /\ n - 1 # m
        BY <1>3
    <3>2. n # 0 => f[n - 1] = h[n - 1]
        BY <2>3, <3>1, Zenon
    <3>3. SumStep(items, v, f, n) = SumStep(items, v, h, n)
        BY <3>2, Zenon DEF SumStep
    <3>4. CASE n = m
        BY <2>3, <3>3, <3>4, Zenon
    <3>5. CASE n # m
      <4>1. n \in 0 .. m - 1
        BY <1>3, <3>5
      <4>2. h[n] = SumStep(items, v, h, n)
        BY <2>2, <4>1, Zenon DEF IsSum
      <4> QED
        BY <2>3, <3>3, <3>5, <4>2, Zenon
    <3> QED
        BY <3>4, <3>5, Zenon
  <2>5. f = [n \in 0 .. m |-> SumStep(items, v, f, n)]
    BY <2>3, <2>4, Zenon
  <2> QED
    BY <1>3, <2>5, Zenon DEF IsSum
<1> QED
    BY <1>4, <1>5, Zenon

\* sumOf is the last value of that function.
LEMMA SumValue ==
    ASSUME NEW items \in Seq(Items), NEW v
    PROVE  \E f : IsSum(items, v, Len(items), f) /\ sumOf(items, v) = f[Len(items)]
<1> DEFINE a == CHOOSE f : IsSum(items, v, Len(items), f)
<1>0. Len(items) \in Nat
    OBVIOUS
<1>1. IsSum(items, v, Len(items), a)
    BY <1>0, SumExists, Zenon
<1>2. sumOf(items, v) = a[Len(items)]
    BY Zenon DEF sumOf, IsSum, SumStep
<1> QED
    BY <1>1, <1>2, Zenon

\* One more mutation adds its value to the sum.
LEMMA SumAppend ==
    ASSUME NEW items \in Seq(Items), NEW v \in [Items -> Nat], NEW i \in Items
    PROVE  /\ sumOf(items, v) \in Nat /\ sumOf(<<i>>, v) = v[i]
           /\ sumOf(Append(items, i), v) = sumOf(items, v) + v[i]
<1>1. PICK x : x = Append(items, i)
    BY Zenon
<1>2. /\ x \in Seq(Items) /\ Len(x) = Len(items) + 1 /\ x[Len(items) + 1] = i /\ Len(items) \in Nat
      /\ \A n \in 1 .. Len(items) : x[n] = items[n] /\ items[n] \in Items
    BY <1>1
<1>3. PICK f : IsSum(items, v, Len(items), f) /\ sumOf(items, v) = f[Len(items)]
    BY SumValue
<1>4. PICK g : IsSum(x, v, Len(x), g) /\ sumOf(x, v) = g[Len(x)]
    BY <1>2, SumValue
<1>5. \A n \in 0 .. Len(items) : f[n] = SumStep(items, v, f, n) /\ g[n] = SumStep(x, v, g, n)
  <2>1. \A n \in 0 .. Len(items) : n \in 0 .. Len(x)
    BY <1>2
  <2> QED
    BY <1>3, <1>4, <2>1, Zenon DEF IsSum
<1> DEFINE S == {n \in 0 .. Len(items) : ~(f[n] \in Nat /\ g[n] = f[n])}
<1>6. S = {}
  <2>1. SUFFICES ASSUME S # {} PROVE FALSE
    BY Zenon
  <2>2. S \in SUBSET Nat
    BY <1>2
  <2>3. PICK m \in S : \A n \in S : m <= n
    BY <2>1, <2>2, LeastNatural, Zenon
  <2>4. m \in 0 .. Len(items) /\ ~(f[m] \in Nat /\ g[m] = f[m])
    BY Zenon
  <2>5. CASE m = 0
    BY <1>5, <2>4, <2>5 DEF SumStep
  <2>6. CASE m # 0
    <3>1. m - 1 \in 0 .. Len(items) /\ ~(m <= m - 1) /\ m \in 1 .. Len(items)
        BY <1>2, <2>4, <2>6
    <3>2. f[m - 1] \in Nat /\ g[m - 1] = f[m - 1]
        BY <2>3, <3>1, Zenon
    <3>3. f[m] = f[m - 1] + v[items[m]] /\ g[m] = g[m - 1] + v[x[m]]
        BY <1>5, <2>4, <2>6, Zenon DEF SumStep
    <3>4. x[m] = items[m] /\ v[items[m]] \in Nat
        BY <1>2, <3>1
    <3> QED
        BY ONLY <2>4, <3>2, <3>3, <3>4
  <2> QED
    BY <2>5, <2>6, Zenon
<1>7. f[Len(items)] \in Nat /\ g[Len(items)] = f[Len(items)]
  <2>1. Len(items) \in 0 .. Len(items)
    BY <1>2
  <2> QED
    BY <1>6, <2>1, Zenon
<1>8. g[Len(x)] = g[Len(items)] + v[i]
  <2>1. Len(x) \in 0 .. Len(x) /\ Len(x) # 0 /\ Len(x) - 1 = Len(items)
    BY <1>2
  <2>2. g[Len(x)] = SumStep(x, v, g, Len(x))
    BY <1>4, <2>1, Zenon DEF IsSum
  <2> QED
    BY <1>2, <2>1, <2>2, Zenon DEF SumStep
<1>9. sumOf(<<i>>, v) = v[i]
  <2>1. PICK y : y = <<i>>
    BY Zenon
  <2>2. y \in Seq(Items) /\ Len(y) = 1 /\ y[1] = i
    BY <2>1
  <2>3. PICK h : IsSum(y, v, 1, h) /\ sumOf(y, v) = h[1]
    BY <2>2, SumValue, Zenon
  <2>4. 0 \in 0 .. 1 /\ 1 \in 0 .. 1 /\ 1 - 1 = 0 /\ 1 # 0
    OBVIOUS
  <2>5. h[0] = 0 /\ h[1] = h[0] + v[i]
    BY <2>2, <2>3, <2>4, Zenon DEF IsSum, SumStep
  <2>6. v[i] \in Nat
    OBVIOUS
  <2> QED
    BY <2>1, <2>3, <2>5, <2>6
<1> QED
    BY <1>1, <1>3, <1>4, <1>7, <1>8, <1>9, Zenon

\* One more mutation adds its size to the bytes of a batch.
LEMMA BytesOfAppend ==
    ASSUME NEW items \in Seq(Items), NEW i \in Items
    PROVE  /\ bytesOf(items) \in Nat /\ bytesOf(<<i>>) = Write[i].size
           /\ bytesOf(Append(items, i)) = bytesOf(items) + Write[i].size
<1>1. PICK v : v = [j \in Items |-> Write[j].size]
    BY Zenon
<1>2. v \in [Items -> Nat] /\ v[i] = Write[i].size
    BY <1>1, UpsertAssumption, Zenon
<1>3. \A z : bytesOf(z) = sumOf(z, v)
    BY <1>1, Zenon DEF bytesOf
<1> QED
    BY <1>2, <1>3, SumAppend, Zenon

\* Mutations with one entry each add as many entries as they are.
LEMMA EntriesOfRest ==
    ASSUME NEW c \in Seq(Items), NEW z \in Seq(Items), NEW p \in 1 .. Len(z),
           \A q \in p .. Len(z) : Write[z[q]].entries = 1
    PROVE  /\ entriesOf(c \o SubSeq(z, 1, p - 1)) \in Nat
           /\ entriesOf(c \o z) = entriesOf(c \o SubSeq(z, 1, p - 1)) + (Len(z) - (p - 1))
<1>1. PICK v : v = [j \in Items |-> Write[j].entries]
    BY Zenon
<1>2. v \in [Items -> Nat] /\ \A j \in Items : v[j] = Write[j].entries
    BY <1>1, UpsertAssumption, Zenon
<1>3. PICK f : f = [q \in 0 .. Len(z) |-> sumOf(c \o SubSeq(z, 1, q), v)]
    BY Zenon
<1>4. /\ Len(z) \in Nat /\ \A q \in 1 .. Len(z) : z[q] \in Items
      /\ p \in Nat /\ p - 1 \in 0 .. Len(z) /\ Len(z) \in 0 .. Len(z)
    OBVIOUS
<1>5. \A q \in 0 .. Len(z) : c \o SubSeq(z, 1, q) \in Seq(Items)
    OBVIOUS
<1>6. \A q \in 0 .. Len(z) : f[q] = sumOf(c \o SubSeq(z, 1, q), v)
    BY <1>3, Zenon
<1>7. \A q \in 0 .. Len(z) : f[q] \in Nat
  <2> TAKE q \in 0 .. Len(z)
  <2>1. z[p] \in Items
    BY <1>4
  <2> QED
    BY <1>2, <1>5, <1>6, <2>1, SumAppend, Zenon
<1>8. ASSUME NEW q \in p .. Len(z) PROVE f[q] = f[q - 1] + 1
  <2>1. q \in 1 .. Len(z) /\ q - 1 \in 0 .. Len(z) /\ q \in 0 .. Len(z) /\ z[q] \in Items
    BY <1>4
  <2>2. c \o SubSeq(z, 1, q) = Append(c \o SubSeq(z, 1, q - 1), z[q])
    <3>1. PICK d : d = SubSeq(z, 1, q - 1)
        BY Zenon
    <3>2. d \in Seq(Items) /\ SubSeq(z, 1, q) = Append(d, z[q])
        BY <2>1, <3>1, SMTT(30)
    <3>3. c \o Append(d, z[q]) = Append(c \o d, z[q])
        BY <2>1, <3>2, SMTT(30)
    <3> QED
        BY <3>1, <3>2, <3>3, Zenon
  <2>3. sumOf(c \o SubSeq(z, 1, q), v) = sumOf(c \o SubSeq(z, 1, q - 1), v) + v[z[q]]
    <3>1. PICK y : y = c \o SubSeq(z, 1, q - 1)
        BY Zenon
    <3>2. y \in Seq(Items)
        BY <1>5, <2>1, <3>1, Zenon
    <3>3. sumOf(Append(y, z[q]), v) = sumOf(y, v) + v[z[q]]
        BY <1>2, <2>1, <3>2, SumAppend, Zenon
    <3> QED
        BY <2>2, <3>1, <3>3, Zenon
  <2>4. v[z[q]] = 1
    BY <1>2, <2>1, Zenon
  <2> QED
    BY <1>6, <2>1, <2>3, <2>4, Zenon
<1> DEFINE S == {q \in p - 1 .. Len(z) : f[q] # f[p - 1] + (q - (p - 1))}
<1>9. S = {}
  <2>1. SUFFICES ASSUME S # {} PROVE FALSE
    BY Zenon
  <2>2. S \in SUBSET Nat
    BY <1>4
  <2>3. PICK m \in S : \A n \in S : m <= n
    BY <2>1, <2>2, LeastNatural, Zenon
  <2>4. m \in p - 1 .. Len(z) /\ f[m] # f[p - 1] + (m - (p - 1))
    BY Zenon
  <2>5. f[p - 1] \in Nat
    BY <1>4, <1>7, Zenon
  <2>6. CASE m = p - 1
    BY ONLY <1>4, <2>4, <2>5, <2>6
  <2>7. CASE m # p - 1
    <3>1. m \in p .. Len(z) /\ m - 1 \in p - 1 .. Len(z) /\ ~(m <= m - 1)
        BY ONLY <1>4, <2>4, <2>7
    <3>2. m - 1 \notin S
        BY <2>3, <3>1, Zenon
    <3>3. f[m - 1] = f[p - 1] + ((m - 1) - (p - 1))
        BY <3>1, <3>2, Zenon
    <3>4. f[m] = f[m - 1] + 1
        BY <1>8, <3>1, Zenon
    <3> QED
        BY ONLY <1>4, <2>4, <2>5, <3>3, <3>4
  <2> QED
    BY <2>6, <2>7, Zenon
<1>10. f[Len(z)] = f[p - 1] + (Len(z) - (p - 1))
  <2>1. Len(z) \in p - 1 .. Len(z)
    BY <1>4
  <2> QED
    BY <1>9, <2>1, Zenon
<1>11. SubSeq(z, 1, Len(z)) = z
    OBVIOUS
<1>12. \A x : entriesOf(x) = sumOf(x, v)
    BY <1>1, Zenon DEF entriesOf
<1> QED
    BY <1>4, <1>6, <1>7, <1>10, <1>11, <1>12, Zenon

JoinStep(x, f, n) == IF n = 0 THEN <<>> ELSE f[n - 1] \o x[n]
IsJoin(x, N, f) == f = [n \in 0 .. N |-> JoinStep(x, f, n)]

\* The function that puts batches one after the other exists.
LEMMA JoinExists ==
    ASSUME NEW x, NEW N \in Nat
    PROVE  \E f : IsJoin(x, N, f)
<1> DEFINE S == {n \in Nat : ~\E f : IsJoin(x, n, f)}
<1>1. SUFFICES ASSUME S # {} PROVE FALSE
    BY Zenon
<1>2. PICK m \in S : \A n \in S : m <= n
    BY <1>1, LeastNatural, Zenon
<1>3. m \in Nat /\ ~\E f : IsJoin(x, m, f)
    BY Zenon
<1>4. CASE m = 0
  <2>1. PICK f : f = [n \in 0 .. 0 |-> <<>>]
    BY Zenon
  <2>2. f = [n \in 0 .. 0 |-> JoinStep(x, f, n)]
    BY <2>1 DEF JoinStep
  <2> QED
    BY <1>3, <1>4, <2>2, Zenon DEF IsJoin
<1>5. CASE m # 0
  <2>1. m - 1 \in Nat /\ m - 1 \notin S
    BY <1>2, <1>3, <1>5
  <2>2. PICK h : IsJoin(x, m - 1, h)
    BY <2>1, Zenon
  <2>3. PICK f : f = [n \in 0 .. m |-> IF n = m THEN JoinStep(x, h, m) ELSE h[n]]
    BY Zenon
  <2>4. ASSUME NEW n \in 0 .. m PROVE f[n] = JoinStep(x, f, n)
    <3>1. n # 0 => n - 1 \in 0 .. m /\ n - 1 # m
        BY <1>3
    <3>2. n # 0 => f[n - 1] = h[n - 1]
        BY <2>3, <3>1, Zenon
    <3>3. JoinStep(x, f, n) = JoinStep(x, h, n)
        BY <3>2, Zenon DEF JoinStep
    <3>4. CASE n = m
        BY <2>3, <3>3, <3>4, Zenon
    <3>5. CASE n # m
      <4>1. n \in 0 .. m - 1
        BY <1>3, <3>5
      <4>2. h[n] = JoinStep(x, h, n)
        BY <2>2, <4>1, Zenon DEF IsJoin
      <4> QED
        BY <2>3, <3>3, <3>5, <4>2, Zenon
    <3> QED
        BY <3>4, <3>5, Zenon
  <2>5. f = [n \in 0 .. m |-> JoinStep(x, f, n)]
    BY <2>3, <2>4, Zenon
  <2> QED
    BY <1>3, <2>5, Zenon DEF IsJoin
<1> QED
    BY <1>4, <1>5, Zenon

\* mutationsIn is the last value of that function.
LEMMA JoinValue ==
    ASSUME NEW x \in Seq(Seq(Items))
    PROVE  \E f : IsJoin(x, Len(x), f) /\ mutationsIn(x) = f[Len(x)]
<1> DEFINE a == CHOOSE f : IsJoin(x, Len(x), f)
<1>0. Len(x) \in Nat
    OBVIOUS
<1>1. IsJoin(x, Len(x), a)
    BY <1>0, JoinExists, Zenon
<1>2. mutationsIn(x) = a[Len(x)]
    BY Zenon DEF mutationsIn, IsJoin, JoinStep
<1> QED
    BY <1>1, <1>2, Zenon

\* A batch that the server appends comes after all mutations in its changelog.
LEMMA MutationsInAppend ==
    ASSUME NEW x \in Seq(Seq(Items)), NEW y \in Seq(Items)
    PROVE  mutationsIn(<<>>) = <<>> /\ mutationsIn(Append(x, y)) = mutationsIn(x) \o y
<1>1. PICK z : z = Append(x, y)
    BY Zenon
<1>2. /\ z \in Seq(Seq(Items)) /\ Len(z) = Len(x) + 1 /\ z[Len(x) + 1] = y /\ Len(x) \in Nat
      /\ \A n \in 1 .. Len(x) : z[n] = x[n]
    BY <1>1
<1>3. PICK f : IsJoin(x, Len(x), f) /\ mutationsIn(x) = f[Len(x)]
    BY JoinValue
<1>4. PICK g : IsJoin(z, Len(z), g) /\ mutationsIn(z) = g[Len(z)]
    BY <1>2, JoinValue
<1>5. \A n \in 0 .. Len(x) : f[n] = JoinStep(x, f, n) /\ g[n] = JoinStep(z, g, n)
  <2>1. \A n \in 0 .. Len(x) : n \in 0 .. Len(z)
    BY <1>2
  <2> QED
    BY <1>3, <1>4, <2>1, Zenon DEF IsJoin
<1> DEFINE S == {n \in 0 .. Len(x) : g[n] # f[n]}
<1>6. S = {}
  <2>1. SUFFICES ASSUME S # {} PROVE FALSE
    BY Zenon
  <2>2. S \in SUBSET Nat
    BY <1>2
  <2>3. PICK m \in S : \A n \in S : m <= n
    BY <2>1, <2>2, LeastNatural, Zenon
  <2>4. m \in 0 .. Len(x) /\ g[m] # f[m]
    BY Zenon
  <2>5. CASE m = 0
    BY <1>5, <2>4, <2>5, Zenon DEF JoinStep
  <2>6. CASE m # 0
    <3>1. m - 1 \in 0 .. Len(x) /\ ~(m <= m - 1) /\ m \in 1 .. Len(x)
        BY <1>2, <2>4, <2>6
    <3>2. g[m - 1] = f[m - 1]
        BY <2>3, <3>1, Zenon
    <3>3. f[m] = f[m - 1] \o x[m] /\ g[m] = g[m - 1] \o z[m]
        BY <1>5, <2>4, <2>6, Zenon DEF JoinStep
    <3> QED
        BY <1>2, <2>4, <3>1, <3>2, <3>3, Zenon
  <2> QED
    BY <2>5, <2>6, Zenon
<1>7. g[Len(x)] = f[Len(x)]
  <2>1. Len(x) \in 0 .. Len(x)
    BY <1>2
  <2> QED
    BY <1>6, <2>1, Zenon
<1>8. g[Len(z)] = g[Len(x)] \o y
  <2>1. Len(z) \in 0 .. Len(z) /\ Len(z) # 0 /\ Len(z) - 1 = Len(x)
    BY <1>2
  <2>2. g[Len(z)] = JoinStep(z, g, Len(z))
    BY <1>4, <2>1, Zenon DEF IsJoin
  <2> QED
    BY <1>2, <2>1, <2>2, Zenon DEF JoinStep
<1>9. mutationsIn(<<>>) = <<>>
  <2>1. <<>> \in Seq(Seq(Items)) /\ Len(<<>>) = 0 /\ 0 \in 0 .. 0
    OBVIOUS
  <2>2. PICK h : IsJoin(<<>>, 0, h) /\ mutationsIn(<<>>) = h[0]
    BY <2>1, JoinValue, Zenon
  <2> QED
    BY <2>1, <2>2, Zenon DEF IsJoin, JoinStep
<1> QED
    BY <1>1, <1>3, <1>4, <1>7, <1>8, <1>9, Zenon

\* The mutations of batches are a sequence of mutations.
LEMMA JoinType ==
    ASSUME NEW x \in Seq(Seq(Items))
    PROVE  mutationsIn(x) \in Seq(Items)
<1>1. PICK f : IsJoin(x, Len(x), f) /\ mutationsIn(x) = f[Len(x)]
    BY JoinValue
<1>2. Len(x) \in Nat /\ \A n \in 1 .. Len(x) : x[n] \in Seq(Items)
    OBVIOUS
<1> DEFINE S == {n \in 0 .. Len(x) : f[n] \notin Seq(Items)}
<1>3. S = {}
  <2>1. SUFFICES ASSUME S # {} PROVE FALSE
    BY Zenon
  <2>2. S \in SUBSET Nat
    BY <1>2
  <2>3. PICK m \in S : \A n \in S : m <= n
    BY <2>1, <2>2, LeastNatural, Zenon
  <2>4. m \in 0 .. Len(x) /\ f[m] \notin Seq(Items) /\ f[m] = JoinStep(x, f, m)
    BY <1>1, Zenon DEF IsJoin
  <2>5. CASE m = 0
    BY <2>4, <2>5 DEF JoinStep
  <2>6. CASE m # 0
    <3>1. m - 1 \in 0 .. Len(x) /\ ~(m <= m - 1) /\ m \in 1 .. Len(x)
        BY <1>2, <2>4, <2>6
    <3>2. f[m - 1] \in Seq(Items)
        BY <2>3, <3>1, Zenon
    <3>3. f[m] = f[m - 1] \o x[m]
        BY <2>4, <2>6, Zenon DEF JoinStep
    <3> QED
        BY <1>2, <2>4, <3>1, <3>2, <3>3
  <2> QED
    BY <2>5, <2>6, Zenon
<1> QED
  <2>1. Len(x) \in 0 .. Len(x)
    BY <1>2
  <2> QED
    BY <1>1, <1>3, <2>1, Zenon

FlushStep(s, f, n) == IF n = 0 THEN [s EXCEPT !.timer = FALSE] ELSE flushBucket(f[n - 1], n)
IsFlush(s, N, f) == f = [n \in 0 .. N |-> FlushStep(s, f, n)]

\* The function that flushes the buckets one by one exists.
LEMMA FlushExists ==
    ASSUME NEW s, NEW N \in Nat
    PROVE  \E f : IsFlush(s, N, f)
<1> DEFINE S == {n \in Nat : ~\E f : IsFlush(s, n, f)}
<1>1. SUFFICES ASSUME S # {} PROVE FALSE
    BY Zenon
<1>2. PICK m \in S : \A n \in S : m <= n
    BY <1>1, LeastNatural, Zenon
<1>3. m \in Nat /\ ~\E f : IsFlush(s, m, f)
    BY Zenon
<1>4. CASE m = 0
  <2>1. PICK f : f = [n \in 0 .. 0 |-> [s EXCEPT !.timer = FALSE]]
    BY Zenon
  <2>2. f = [n \in 0 .. 0 |-> FlushStep(s, f, n)]
    BY <2>1 DEF FlushStep
  <2> QED
    BY <1>3, <1>4, <2>2, Zenon DEF IsFlush
<1>5. CASE m # 0
  <2>1. m - 1 \in Nat /\ m - 1 \notin S
    BY <1>2, <1>3, <1>5
  <2>2. PICK h : IsFlush(s, m - 1, h)
    BY <2>1, Zenon
  <2>3. PICK f : f = [n \in 0 .. m |-> IF n = m THEN FlushStep(s, h, m) ELSE h[n]]
    BY Zenon
  <2>4. ASSUME NEW n \in 0 .. m PROVE f[n] = FlushStep(s, f, n)
    <3>1. n # 0 => n - 1 \in 0 .. m /\ n - 1 # m
        BY <1>3
    <3>2. n # 0 => f[n - 1] = h[n - 1]
        BY <2>3, <3>1, Zenon
    <3>3. FlushStep(s, f, n) = FlushStep(s, h, n)
        BY <3>2, Zenon DEF FlushStep
    <3>4. CASE n = m
        BY <2>3, <3>3, <3>4, Zenon
    <3>5. CASE n # m
      <4>1. n \in 0 .. m - 1
        BY <1>3, <3>5
      <4>2. h[n] = FlushStep(s, h, n)
        BY <2>2, <4>1, Zenon DEF IsFlush
      <4> QED
        BY <2>3, <3>3, <3>5, <4>2, Zenon
    <3> QED
        BY <3>4, <3>5, Zenon
  <2>5. f = [n \in 0 .. m |-> FlushStep(s, f, n)]
    BY <2>3, <2>4, Zenon
  <2> QED
    BY <1>3, <2>5, Zenon DEF IsFlush
<1> QED
    BY <1>4, <1>5, Zenon

\* queueAll flushes the buckets one by one, beginning with the state whose timer is
\* stopped.
LEMMA QueueAllSteps ==
    ASSUME NEW s
    PROVE  \E f : /\ queueAll(s) = f[NumBuckets] /\ f[0] = [s EXCEPT !.timer = FALSE]
                  /\ \A n \in Buckets : f[n] = flushBucket(f[n - 1], n)
<1> DEFINE a == CHOOSE f : IsFlush(s, NumBuckets, f)
<1>1. NumBuckets \in Nat /\ 0 \in 0 .. NumBuckets /\ \A n \in Buckets : n \in 0 .. NumBuckets /\ n # 0
    BY UpsertAssumption DEF Buckets
<1>2. IsFlush(s, NumBuckets, a)
    BY <1>1, FlushExists, Zenon
<1>3. queueAll(s) = a[NumBuckets]
    BY Zenon DEF queueAll, IsFlush, FlushStep
<1> HIDE DEF a
<1>4. \A n \in 0 .. NumBuckets : a[n] = FlushStep(s, a, n)
    BY <1>2, Zenon DEF IsFlush
<1>5. a[0] = [s EXCEPT !.timer = FALSE] /\ \A n \in Buckets : a[n] = flushBucket(a[n - 1], n)
    BY <1>1, <1>4, Zenon DEF FlushStep
<1> QED
    BY <1>3, <1>5, Zenon

-----------------------------------------------------------------------------
(* The line of a bucket *)

Fields == {"batches", "pending", "active", "inFlight", "sequences", "poisoned",
           "throttle", "timer", "running", "sent", "slots", "result"}
Requests == [bucket : Buckets, items : Seq(Items), sequence : Nat]
Request(b, items, k) == [bucket |-> b, items |-> items, sequence |-> k]

\* The requests that goroutines execute or that the server may receive.
requestsOf(s) == s.sent \union {e.request : e \in s.running}

\* The batches that wait for a request, the open one at the end, and the sequence
\* that the first of them will get.
waiting(s, b) == IF s.batches[b] = <<>> THEN s.pending[b] ELSE Append(s.pending[b], s.batches[b])
nextSequence(s, b) == IF b \in s.active THEN s.sequences[b] + 1 ELSE s.sequences[b]

\* Mutation i stands at index p of the batch of bucket b with sequence k.  What
\* waits in a poisoned bucket is never sent and has no place.
SentIn(requests, b, i, k, p) ==
    \E r \in requests : r.bucket = b /\ r.sequence = k /\ p \in DOMAIN r.items /\ r.items[p] = i
WaitsIn(line, next, i, k, p) ==
    \E m \in DOMAIN line : k + 1 = next + m /\ p \in DOMAIN line[m] /\ line[m][p] = i
Sent(s, b, i, k, p) == SentIn(requestsOf(s), b, i, k, p)
Waits(s, b, i, k, p) == b \notin s.poisoned /\ WaitsIn(waiting(s, b), nextSequence(s, b), i, k, p)
At(s, b, i, k, p) == Sent(s, b, i, k, p) \/ Waits(s, b, i, k, p)

-----------------------------------------------------------------------------
(* The invariant of the loop's state s: acc is the history of accepted calls, of   *)
(* which the loop took the first t, F are calls that were not accepted yet, and    *)
(* lg is the server's log.                                                         *)

Shape(s) ==
    /\ DOMAIN s = Fields
    /\ s.batches \in [Buckets -> Seq(Items)] /\ s.pending \in [Buckets -> Seq(Seq(Items))]
    /\ s.sequences \in [Buckets -> Nat] /\ s.active \subseteq Buckets /\ s.poisoned \subseteq Buckets
    /\ s.sent \subseteq Requests /\ DOMAIN s.result = Items
    /\ \A e \in s.running : /\ DOMAIN e = {"request", "end", "pressure", "status"} /\ e.request \in Requests
                            /\ e.end = -1 \/ e.status = "ok"

\* One request at a time executes in a bucket, with the bucket's current sequence,
\* none in a poisoned one; requests that were sent have earlier sequences, or the
\* current one if they still execute or failed; no two have the same.
Executes(e, active, sequences) == e.request.bucket \in active /\ e.request.sequence = sequences[e.request.bucket]
OnePerBucket(running) == \A e, f \in running : e.request.bucket = f.request.bucket => e = f
Idle(poisoned, active, pending) == \A b \in poisoned : b \notin active /\ pending[b] = <<>>
WasSent(r, sequences, poisoned, running) ==
    \/ r.sequence < sequences[r.bucket]
    \/ /\ r.sequence = sequences[r.bucket]
       /\ r.bucket \in poisoned \/ \E e \in running : e.request = r
SentOnce(sent) == \A r, q \in sent : r.bucket = q.bucket /\ r.sequence = q.sequence => r = q
RequestInv(s) ==
    /\ \A e \in s.running : Executes(e, s.active, s.sequences)
    /\ OnePerBucket(s.running) /\ Idle(s.poisoned, s.active, s.pending)
    /\ \A r \in s.sent : WasSent(r, s.sequences, s.poisoned, s.running)
    /\ SentOnce(s.sent)

Taken(acc, t, i) == \E m \in 1 .. t : acc[m] = i

\* What may be in a request: mutations of the bucket that the loop took, with the
\* same target columns and within the limits.
BatchOK(acc, t, b, x) ==
    /\ \A p \in DOMAIN x : Write[x[p]].bucket = b /\ Taken(acc, t, x[p])
    /\ \A p, q \in DOMAIN x : Write[x[p]].targets = Write[x[q]].targets
    /\ Len(x) <= MaxBatchRecords
    /\ Len(x) > 1 => bytesOf(x) <= MaxBatchBytes

BatchesOK(acc, t, b, line) == \A m \in DOMAIN line : BatchOK(acc, t, b, line[m])
BatchInv(s, acc, t) ==
    /\ \A b \in Buckets : BatchOK(acc, t, b, s.batches[b]) /\ BatchesOK(acc, t, b, s.pending[b])
    /\ \A r \in requestsOf(s) : BatchOK(acc, t, r.bucket, r.items)

\* A mutation in line has those before it that were accepted earlier for the same
\* bucket, but for the ones whose context ended.
Before(s, b, i, j) ==
    \A l, q \in Nat : At(s, b, j, l, q) => \E k, p \in Nat : At(s, b, i, k, p) /\ (k < l \/ (k = l /\ p < q))
Ordered(s, i, j) ==
    /\ i \in Items /\ j \in Items /\ Write[i].bucket = Write[j].bucket /\ s.result[i].err # "ctx"
    => Before(s, Write[j].bucket, i, j)
OrderInv(s, acc, t) == \A m, n \in 1 .. t : m < n => Ordered(s, acc[m], acc[n])

\* A mutation that was taken is in line unless its context ended or the bucket is
\* poisoned.
Held(s, i) ==
    i \in Items /\ Write[i].bucket \notin s.poisoned /\ s.result[i].err # "ctx"
    => \E k, p \in Nat : At(s, Write[i].bucket, i, k, p)
HeldInv(s, acc, t) == \A m \in 1 .. t : Held(s, acc[m])

\* Nothing completes a mutation that the loop did not take yet.
FreshInv(s, acc, t, F) ==
    /\ \A m \in t + 1 .. Len(acc) : acc[m] \in Items => s.result[acc[m]].err = "open"
    /\ \A i \in F : s.result[i].err = "open"

\* The history: every call is accepted once, and those of F not yet.
History(acc, t, F) ==
    /\ acc \in Seq(Calls) /\ t \in Nat /\ t <= Len(acc) /\ F \subseteq Items
    /\ \A m, n \in 1 .. Len(acc) : acc[m] = acc[n] => m = n
    /\ \A m \in 1 .. Len(acc) : acc[m] \notin F

-----------------------------------------------------------------------------
(* The changelog *)

\* The offset of the first mutation of batch k.
offsetOf(x, k) == Len(mutationsIn(SubSeq(x, 1, k - 1)))

\* The mutations of the batches x lie one after the other in their changelog.
Spread(x) ==
    /\ mutationsIn(x) \in Seq(Items)
    /\ \A k \in DOMAIN x : /\ offsetOf(x, k) \in Nat
                           /\ offsetOf(x, k + 1) = offsetOf(x, k) + Len(x[k])
                           /\ offsetOf(x, k + 1) <= Len(mutationsIn(x))
                           /\ \A p \in DOMAIN x[k] : mutationsIn(x)[offsetOf(x, k) + p] = x[k][p]
    /\ \A k, l \in DOMAIN x : k < l => offsetOf(x, k + 1) <= offsetOf(x, l)
    /\ \A n \in DOMAIN mutationsIn(x) : \E k \in DOMAIN x : \E p \in DOMAIN x[k] : n = offsetOf(x, k) + p

\* What the server appended was sent for that place.
LogInv(s, lg) ==
    /\ lg \in [Buckets -> Seq(Seq(Items))]
    /\ \A b \in Buckets : /\ \A k \in DOMAIN lg[b] : Request(b, lg[b][k], k - 1) \in s.sent
                          /\ Spread(lg[b])

\* The entries of the first k - 1 batches.
endOf(x, k) == entriesOf(mutationsIn(SubSeq(x, 1, k - 1)))

\* Mutation i is in the changelog, with offset o if that is known and its entries and
\* those behind it are counted as one each.
Reported(lg, i, o) ==
    \E k \in DOMAIN lg[Write[i].bucket] : \E p \in DOMAIN lg[Write[i].bucket][k] :
        lg[Write[i].bucket][k][p] = i /\ OffsetOf(lg[Write[i].bucket], k, p, o)

\* What was answered is in the log: a request at its sequence, with the end of the
\* changelog after it, and every mutation at the offset its future reports.
Answered(s, e, lg) ==
    /\ e.request \in s.sent /\ e.request.sequence < Len(lg[e.request.bucket])
    /\ e.end \in {-1, endOf(lg[e.request.bucket], e.request.sequence + 2)}
AnswerInv(s, lg) ==
    /\ \A e \in s.running : e.status = "ok" => Answered(s, e, lg)
    /\ \A i \in Items : s.result[i].err = "nil" => Reported(lg, i, s.result[i].offset)

LineInv(s, acc, t, F, lg) ==
    /\ Shape(s) /\ RequestInv(s) /\ BatchInv(s, acc, t) /\ OrderInv(s, acc, t) /\ HeldInv(s, acc, t)
    /\ FreshInv(s, acc, t, F) /\ History(acc, t, F) /\ LogInv(s, lg) /\ AnswerInv(s, lg)

\* The invariant of the writer: the commands are what was accepted and not taken.
taken == Len(accepted) - Len(commands)
fresh == {i \in Items : pc[i] \in {"start", "slot", "locked"}}

UpsertInv ==
    /\ pc \in [Calls -> {"start", "slot", "locked", "await", "join", "returned"}]
    /\ commands \in Seq(Calls) /\ Len(commands) <= Len(accepted)
    /\ \A m \in DOMAIN commands : commands[m] = accepted[taken + m]
    /\ \A p \in Calls : pc[p] \in {"start", "slot", "locked"} => \A m \in DOMAIN accepted : accepted[m] # p
    /\ LineInv(w, accepted, taken, fresh, log)

-----------------------------------------------------------------------------
\* The changelog of an empty log.
LEMMA SpreadEmpty == Spread(<<>>)
<1>1. mutationsIn(<<>>) = <<>>
  <2>1. <<>> \in Seq(Seq(Items)) /\ <<>> \in Seq(Items)
    OBVIOUS
  <2> QED
    BY <2>1, MutationsInAppend, Zenon
<1>2. DOMAIN <<>> = {} /\ <<>> \in Seq(Items)
    OBVIOUS
<1> QED
    BY <1>1, <1>2, Zenon DEF Spread

\* A batch that the server appends begins where the changelog ended, and what was in
\* the changelog stays where it was.
LEMMA SpreadAppend ==
    ASSUME NEW x \in Seq(Seq(Items)), NEW z \in Seq(Items), Spread(x)
    PROVE  /\ Spread(Append(x, z))
           /\ \A k \in 1 .. Len(x) + 1 : offsetOf(Append(x, z), k) = offsetOf(x, k)
           /\ \A n \in DOMAIN mutationsIn(x) : /\ n \in DOMAIN mutationsIn(Append(x, z))
                                               /\ mutationsIn(Append(x, z))[n] = mutationsIn(x)[n]
<1>1. PICK y : y = Append(x, z)
    BY Zenon
<1>2. PICK c : c = mutationsIn(x)
    BY Zenon
<1>3. PICK d : d = mutationsIn(y)
    BY Zenon
<1>4. /\ y \in Seq(Seq(Items)) /\ Len(y) = Len(x) + 1 /\ y[Len(x) + 1] = z /\ Len(x) \in Nat
      /\ DOMAIN y = 1 .. Len(x) + 1 /\ DOMAIN x = 1 .. Len(x)
      /\ \A n \in 1 .. Len(x) : y[n] = x[n] /\ x[n] \in Seq(Items)
    BY <1>1
<1>5. c \in Seq(Items) /\ d = c \o z
    BY <1>1, <1>2, <1>3, MutationsInAppend, Zenon DEF Spread
<1>6. /\ d \in Seq(Items) /\ Len(d) = Len(c) + Len(z) /\ Len(c) \in Nat /\ Len(z) \in Nat
      /\ DOMAIN c = 1 .. Len(c) /\ DOMAIN d = 1 .. Len(d) /\ DOMAIN z = 1 .. Len(z)
      /\ \A n \in 1 .. Len(c) : d[n] = c[n]
      /\ \A n \in 1 .. Len(z) : d[Len(c) + n] = z[n]
    BY <1>5
<1>7. \A k \in 1 .. Len(x) + 1 : SubSeq(y, 1, k - 1) = SubSeq(x, 1, k - 1)
    BY <1>4
<1>8. SubSeq(x, 1, (Len(x) + 1) - 1) = x /\ SubSeq(y, 1, ((Len(x) + 1) + 1) - 1) = y
    BY <1>4
<1>9. \A k \in 1 .. Len(x) + 1 : offsetOf(y, k) = offsetOf(x, k)
    BY <1>7, Zenon DEF offsetOf
<1>10. offsetOf(x, Len(x) + 1) = Len(c) /\ offsetOf(y, (Len(x) + 1) + 1) = Len(d)
    BY <1>2, <1>3, <1>8, Zenon DEF offsetOf
<1>11. /\ \A k \in 1 .. Len(x) : k \in 1 .. Len(x) + 1 /\ k + 1 \in 1 .. Len(x) + 1
       /\ Len(x) + 1 \in 1 .. Len(x) + 1
       /\ \A k \in 1 .. Len(x) + 1 : k \in 1 .. Len(x) \/ k = Len(x) + 1
    BY <1>4
<1>12. \A k \in 1 .. Len(x) : /\ offsetOf(x, k) \in Nat
                              /\ offsetOf(x, k + 1) = offsetOf(x, k) + Len(x[k])
                              /\ offsetOf(x, k + 1) <= Len(c)
                              /\ \A p \in DOMAIN x[k] : c[offsetOf(x, k) + p] = x[k][p]
    BY <1>2, <1>4, Zenon DEF Spread
<1>13. \A k, l \in 1 .. Len(x) : k < l => offsetOf(x, k + 1) <= offsetOf(x, l)
    BY <1>4, Zenon DEF Spread
<1>14. \A n \in 1 .. Len(c) : \E k \in 1 .. Len(x) : \E p \in DOMAIN x[k] : n = offsetOf(x, k) + p
  <2>1. \A n \in DOMAIN mutationsIn(x) : \E k \in DOMAIN x : \E p \in DOMAIN x[k] : n = offsetOf(x, k) + p
    BY Zenon DEF Spread
  <2>2. DOMAIN mutationsIn(x) = 1 .. Len(c) /\ DOMAIN x = 1 .. Len(x)
    BY <1>2, <1>4, <1>6, Zenon
  <2> QED
    BY ONLY <2>1, <2>2
<1>15. ASSUME NEW k \in 1 .. Len(x) + 1
       PROVE  /\ offsetOf(y, k) \in Nat
              /\ offsetOf(y, k + 1) = offsetOf(y, k) + Len(y[k])
              /\ offsetOf(y, k + 1) <= Len(d)
              /\ \A p \in DOMAIN y[k] : d[offsetOf(y, k) + p] = y[k][p]
  <2>1. CASE k \in 1 .. Len(x)
    <3>1. offsetOf(y, k) = offsetOf(x, k) /\ offsetOf(y, k + 1) = offsetOf(x, k + 1) /\ y[k] = x[k]
        BY <1>4, <1>9, <1>11, <2>1, Zenon
    <3>2. Len(x[k]) \in Nat /\ DOMAIN x[k] = 1 .. Len(x[k])
        BY <1>4, <2>1
    <3>3. offsetOf(x, k + 1) <= Len(d)
        BY ONLY <1>6, <1>12, <2>1, <3>2
    <3>4. \A p \in DOMAIN x[k] : offsetOf(x, k) + p \in 1 .. Len(c)
        BY ONLY <1>6, <1>12, <2>1, <3>2, SMTT(40)
    <3> QED
        BY <1>6, <1>12, <2>1, <3>1, <3>3, <3>4, Zenon
  <2>2. CASE k = Len(x) + 1
    <3>1. offsetOf(y, k) = Len(c) /\ offsetOf(y, k + 1) = Len(d) /\ y[k] = z
        BY <1>4, <1>9, <1>10, <1>11, <2>2, Zenon
    <3>2. Len(d) <= Len(d)
        BY <1>6
    <3> QED
        BY <1>6, <3>1, <3>2, Zenon
  <2> QED
    BY <1>11, <2>1, <2>2, Zenon
<1>16. ASSUME NEW k \in 1 .. Len(x) + 1, NEW l \in 1 .. Len(x) + 1, k < l
       PROVE  offsetOf(y, k + 1) <= offsetOf(y, l)
  <2>1. k \in 1 .. Len(x)
    BY <1>4, <1>16
  <2>2. offsetOf(y, k + 1) = offsetOf(x, k + 1) /\ offsetOf(y, l) = offsetOf(x, l)
    BY <1>9, <1>11, <2>1, Zenon
  <2>3. CASE l \in 1 .. Len(x)
    BY <1>13, <1>16, <2>1, <2>2, <2>3, Zenon
  <2>4. CASE l = Len(x) + 1
    BY <1>10, <1>12, <2>1, <2>2, <2>4, Zenon
  <2> QED
    BY <1>11, <2>3, <2>4, Zenon
<1>17. ASSUME NEW n \in 1 .. Len(d)
       PROVE  \E k \in 1 .. Len(x) + 1 : \E p \in DOMAIN y[k] : n = offsetOf(y, k) + p
  <2>1. CASE n \in 1 .. Len(c)
    <3>1. PICK k \in 1 .. Len(x) : \E p \in DOMAIN x[k] : n = offsetOf(x, k) + p
        BY <1>14, <2>1, Zenon
    <3>2. offsetOf(y, k) = offsetOf(x, k) /\ y[k] = x[k] /\ k \in 1 .. Len(x) + 1
        BY <1>4, <1>9, <1>11, Zenon
    <3> QED
        BY <3>1, <3>2, Zenon
  <2>2. CASE n \notin 1 .. Len(c)
    <3>1. n - Len(c) \in 1 .. Len(z) /\ n = Len(c) + (n - Len(c))
        BY <1>6, <2>2
    <3>2. offsetOf(y, Len(x) + 1) = Len(c) /\ y[Len(x) + 1] = z
        BY <1>4, <1>9, <1>10, <1>11, Zenon
    <3> QED
        BY <1>6, <1>11, <3>1, <3>2, Zenon
  <2> QED
    BY <2>1, <2>2, Zenon
<1>18. Spread(y)
  <2>1. d \in Seq(Items) /\ DOMAIN y = 1 .. Len(x) + 1 /\ DOMAIN d = 1 .. Len(d)
    BY <1>4, <1>6, Zenon
  <2>2. \A k \in DOMAIN y : /\ offsetOf(y, k) \in Nat
                           /\ offsetOf(y, k + 1) = offsetOf(y, k) + Len(y[k])
                           /\ offsetOf(y, k + 1) <= Len(d)
                           /\ \A p \in DOMAIN y[k] : d[offsetOf(y, k) + p] = y[k][p]
    BY <1>15, <2>1, Zenon
  <2>3. \A k, l \in DOMAIN y : k < l => offsetOf(y, k + 1) <= offsetOf(y, l)
    BY <1>16, <2>1, Zenon
  <2>4. \A n \in DOMAIN d : \E k \in DOMAIN y : \E p \in DOMAIN y[k] : n = offsetOf(y, k) + p
    BY ONLY <1>17, <2>1, ZenonT(20)
  <2> QED
    BY ONLY <1>3, <2>1, <2>2, <2>3, <2>4, Zenon DEF Spread
<1>19. \A n \in 1 .. Len(c) : n \in 1 .. Len(d)
    BY <1>6
<1> QED
    BY <1>1, <1>2, <1>3, <1>6, <1>9, <1>18, <1>19, Zenon

-----------------------------------------------------------------------------
(* What leaves the line alone *)

\* Mutations that stay where they are stay in order.
LEMMA BeforeSame ==
    ASSUME NEW s, NEW u, NEW b, NEW i, NEW j, Before(s, b, i, j),
           \A k, p \in Nat : At(u, b, i, k, p) <=> At(s, b, i, k, p),
           \A k, p \in Nat : At(u, b, j, k, p) <=> At(s, b, j, k, p)
    PROVE  Before(u, b, i, j)
<1>1. SUFFICES ASSUME NEW l \in Nat, NEW q \in Nat, At(u, b, j, l, q)
               PROVE  \E k, p \in Nat : At(u, b, i, k, p) /\ (k < l \/ (k = l /\ p < q))
    BY Zenon DEF Before
<1>2. At(s, b, j, l, q)
    BY <1>1, Zenon
<1>3. PICK k, p \in Nat : At(s, b, i, k, p) /\ (k < l \/ (k = l /\ p < q))
    BY <1>2, Zenon DEF Before
<1> QED
    BY <1>3, Zenon

\* The same for two mutations of the history, of which no context ended meanwhile.
LEMMA OrderedSame ==
    ASSUME NEW s, NEW u, NEW i, NEW j, Ordered(s, i, j),
           i \in Items /\ u.result[i].err # "ctx" => s.result[i].err # "ctx",
           \A b \in Buckets, x \in Items, k, p \in Nat : At(u, b, x, k, p) <=> At(s, b, x, k, p)
    PROVE  Ordered(u, i, j)
<1>1. SUFFICES ASSUME i \in Items, j \in Items, Write[i].bucket = Write[j].bucket, u.result[i].err # "ctx"
               PROVE  Before(u, Write[j].bucket, i, j)
    BY Zenon DEF Ordered
<1>2. PICK b : b = Write[j].bucket
    BY Zenon
<1>3. Before(s, b, i, j) /\ b \in Buckets
    BY <1>1, <1>2, UpsertAssumption, Zenon DEF Ordered
<1>4. Before(u, b, i, j)
    BY <1>1, <1>3, BeforeSame, Zenon
<1> QED
    BY <1>2, <1>4, Zenon

\* And a mutation that is in line stays there.
LEMMA HeldSame ==
    ASSUME NEW s, NEW u, NEW i, Held(s, i), u.poisoned = s.poisoned,
           i \in Items /\ u.result[i].err # "ctx" => s.result[i].err # "ctx",
           \A b \in Buckets, x \in Items, k, p \in Nat : At(u, b, x, k, p) <=> At(s, b, x, k, p)
    PROVE  Held(u, i)
<1>1. i \in Items => Write[i].bucket \in Buckets
    BY UpsertAssumption, Zenon
<1> QED
    BY <1>1, Zenon DEF Held

\* A step of the loop that completes nothing, poisons nothing and leaves every
\* mutation where it stands keeps the invariant if its requests and batches are
\* in order.
LEMMA Transfer ==
    ASSUME NEW s, NEW acc, NEW t, NEW F, NEW lg, LineInv(s, acc, t, F, lg),
           NEW u, Shape(u), RequestInv(u), BatchInv(u, acc, t),
           s.sent \subseteq u.sent, u.result = s.result, u.poisoned = s.poisoned,
           \A e \in u.running : e.status = "ok" => e \in s.running \/ Answered(u, e, lg),
           \A b \in Buckets, i \in Items, k, p \in Nat : At(u, b, i, k, p) <=> At(s, b, i, k, p)
    PROVE  LineInv(u, acc, t, F, lg)
<1>1. \A i \in Items : Write[i].bucket \in Buckets
    BY UpsertAssumption, Zenon
<1>2. OrderInv(u, acc, t)
  <2>1. \A i, j : Ordered(s, i, j) => Ordered(u, i, j)
    BY OrderedSame, Zenon
  <2> QED
    BY <2>1, Zenon DEF OrderInv, LineInv
<1>3. HeldInv(u, acc, t)
  <2>1. \A i : Held(s, i) => Held(u, i)
    BY HeldSame, Zenon
  <2> QED
    BY <2>1, Zenon DEF HeldInv, LineInv
<1>4. FreshInv(u, acc, t, F) /\ History(acc, t, F)
    BY Zenon DEF LineInv, FreshInv
<1>5. LogInv(u, lg)
    BY Zenon DEF LineInv, LogInv
<1>6. AnswerInv(u, lg)
    BY Zenon DEF LineInv, AnswerInv, Answered
<1> QED
    BY <1>2, <1>3, <1>4, <1>5, <1>6, Zenon DEF LineInv

\* Only these fields place the mutations.
SamePlaces(s, u) ==
    /\ DOMAIN u = Fields
    /\ u.batches = s.batches /\ u.pending = s.pending /\ u.sequences = s.sequences
    /\ u.active = s.active /\ u.poisoned = s.poisoned /\ u.sent = s.sent /\ u.running = s.running

\* While these are unchanged so are the requests, the batches and the places.
LEMMA SamePlacesKeeps ==
    ASSUME NEW s, NEW acc, NEW t, NEW u, SamePlaces(s, u), DOMAIN u.result = Items,
           Shape(s), RequestInv(s), BatchInv(s, acc, t)
    PROVE  /\ Shape(u) /\ RequestInv(u) /\ BatchInv(u, acc, t)
           /\ \A b, i, k, p : At(u, b, i, k, p) <=> At(s, b, i, k, p)
<1>1. Shape(u)
    BY Zenon DEF Shape, SamePlaces
<1>2. RequestInv(u)
    BY Zenon DEF RequestInv, SamePlaces
<1>3. requestsOf(u) = requestsOf(s)
    BY Zenon DEF requestsOf, SamePlaces
<1>4. BatchInv(u, acc, t)
    BY <1>3, Zenon DEF BatchInv, SamePlaces
<1>5. \A b : waiting(u, b) = waiting(s, b) /\ nextSequence(u, b) = nextSequence(s, b)
    BY Zenon DEF waiting, nextSequence, SamePlaces
<1>6. ASSUME NEW b, NEW i, NEW k, NEW p PROVE At(u, b, i, k, p) <=> At(s, b, i, k, p)
  <2>1. Sent(u, b, i, k, p) <=> Sent(s, b, i, k, p)
    BY <1>3, Zenon DEF Sent
  <2>2. Waits(u, b, i, k, p) <=> Waits(s, b, i, k, p)
    BY <1>5, Zenon DEF Waits, SamePlaces
  <2> QED
    BY <2>1, <2>2, Zenon DEF At
<1> QED
    BY <1>1, <1>2, <1>4, <1>6, Zenon

\* The timer, the slots, the pressure deadlines and the counter of requests do not
\* matter.
LEMMA IdleKeeps ==
    ASSUME NEW s, NEW acc, NEW t, NEW F, NEW lg, LineInv(s, acc, t, F, lg),
           NEW u, SamePlaces(s, u), u.result = s.result
    PROVE  LineInv(u, acc, t, F, lg)
<1>1. Shape(s) /\ RequestInv(s) /\ BatchInv(s, acc, t) /\ DOMAIN u.result = Items
    BY Zenon DEF LineInv, Shape
<1>2. /\ Shape(u) /\ RequestInv(u) /\ BatchInv(u, acc, t)
      /\ \A b, i, k, p : At(u, b, i, k, p) <=> At(s, b, i, k, p)
    BY <1>1, SamePlacesKeeps, Zenon
<1>3. s.sent \subseteq u.sent /\ u.poisoned = s.poisoned /\ \A e \in u.running : e \in s.running
    BY Zenon DEF SamePlaces
<1> QED
    BY <1>2, <1>3, Transfer, Zenon

\* Mutation i was taken by the loop or will never be.
Settled(acc, t, F, i) == Taken(acc, t, i) \/ (i \notin F /\ \A m \in t + 1 .. Len(acc) : acc[m] # i)

\* Completing mutations that the loop took or that were refused, with success only if
\* they are in the changelog.
LEMMA CompleteKeeps ==
    ASSUME NEW s, NEW acc, NEW t, NEW F, NEW lg, LineInv(s, acc, t, F, lg),
           NEW items, NEW res,
           \A i \in items \cap Items : Settled(acc, t, F, i),
           \A i \in items \cap Items : res[i].err = "nil" => Reported(lg, i, res[i].offset)
    PROVE  /\ LineInv(complete(s, items, res), acc, t, F, lg)
           /\ SamePlaces(s, complete(s, items, res))
<1>1. PICK u : u = complete(s, items, res)
    BY Zenon
<1>2. /\ SamePlaces(s, u)
      /\ u.result = [i \in Items |-> IF i \in items /\ s.result[i].err = "open" THEN res[i] ELSE s.result[i]]
    BY <1>1, Zenon DEF complete, SamePlaces, LineInv, Shape, Fields
<1>3. /\ Shape(s) /\ RequestInv(s) /\ BatchInv(s, acc, t) /\ DOMAIN u.result = Items
      /\ OrderInv(s, acc, t) /\ HeldInv(s, acc, t) /\ FreshInv(s, acc, t, F)
      /\ History(acc, t, F) /\ LogInv(s, lg) /\ AnswerInv(s, lg)
    BY <1>2, Zenon DEF LineInv
<1>4. /\ Shape(u) /\ RequestInv(u) /\ BatchInv(u, acc, t)
      /\ \A b, i, k, p : At(u, b, i, k, p) <=> At(s, b, i, k, p)
    BY <1>2, <1>3, SamePlacesKeeps, Zenon
<1>5. "ctx" # "open"
    OBVIOUS
<1>6. \A i \in Items : u.result[i].err # "ctx" => s.result[i].err # "ctx"
    BY <1>2, <1>5, Zenon
<1>7. OrderInv(u, acc, t)
  <2>1. \A i, j : Ordered(s, i, j) => Ordered(u, i, j)
    BY <1>4, <1>6, OrderedSame, Zenon
  <2> QED
    BY <1>3, <2>1, Zenon DEF OrderInv
<1>8. HeldInv(u, acc, t)
  <2>1. \A i : Held(s, i) => Held(u, i)
    BY <1>2, <1>4, <1>6, HeldSame, Zenon DEF SamePlaces
  <2> QED
    BY <1>3, <2>1, Zenon DEF HeldInv
<1>9. \A i \in Items : i \notin items => u.result[i] = s.result[i]
    BY <1>2, Zenon
<1>10. \A m \in t + 1 .. Len(acc) : acc[m] \in Items => acc[m] \notin items
  <2>1. ASSUME NEW m \in t + 1 .. Len(acc), NEW n \in 1 .. t PROVE acc[n] # acc[m]
    <3>1. m \in 1 .. Len(acc) /\ n \in 1 .. Len(acc) /\ m # n
        BY <1>3 DEF History
    <3> QED
        BY <1>3, <3>1, Zenon DEF History
  <2> QED
    BY <2>1, Zenon DEF Settled, Taken
<1>11. \A i \in F : i \in Items /\ i \notin items
  <2>1. \A n \in 1 .. t : n \in 1 .. Len(acc)
    BY <1>3 DEF History
  <2> QED
    BY <1>3, <2>1, Zenon DEF History, Settled, Taken
<1>12. FreshInv(u, acc, t, F)
    BY <1>3, <1>9, <1>10, <1>11, Zenon DEF FreshInv
<1>13. LogInv(u, lg)
    BY <1>2, <1>3, Zenon DEF LogInv, SamePlaces
<1>14. AnswerInv(u, lg)
  <2>1. ASSUME NEW i \in Items, u.result[i].err = "nil" PROVE Reported(lg, i, u.result[i].offset)
    <3>1. CASE i \in items /\ s.result[i].err = "open"
        BY <1>2, <2>1, <3>1, Zenon
    <3>2. CASE ~(i \in items /\ s.result[i].err = "open")
        BY <1>2, <1>3, <2>1, <3>2, Zenon DEF AnswerInv
    <3> QED
        BY <3>1, <3>2, Zenon
  <2> QED
    BY <1>2, <1>3, <2>1, Zenon DEF AnswerInv, Answered, SamePlaces
<1>15. LineInv(u, acc, t, F, lg)
    BY <1>3, <1>4, <1>7, <1>8, <1>12, <1>13, <1>14, Zenon DEF LineInv
<1> QED
    BY <1>1, <1>2, <1>15, Zenon

\* The same for mutations that fail.
LEMMA FailKeeps ==
    ASSUME NEW s, NEW acc, NEW t, NEW F, NEW lg, LineInv(s, acc, t, F, lg),
           NEW items, NEW err, err # "nil", \A i \in items \cap Items : Settled(acc, t, F, i)
    PROVE  LineInv(fail(s, items, err), acc, t, F, lg) /\ SamePlaces(s, fail(s, items, err))
<1>1. PICK res : res = [i \in items |-> [err |-> err, offset |-> -1]]
    BY Zenon
<1>2. \A i \in items \cap Items : res[i].err = "nil" => Reported(lg, i, res[i].offset)
    BY <1>1, Zenon
<1>3. fail(s, items, err) = complete(s, items, res)
    BY <1>1, Zenon DEF fail
<1> QED
    BY <1>2, <1>3, CompleteKeeps, Zenon

-----------------------------------------------------------------------------
(* dispatch and flushBucket *)

Execution(s, b) ==
    [request |-> Request(b, Head(s.pending[b]), s.sequences[b]), end |-> -1, pressure |-> "unknown",
     status |-> IF b \in s.throttle THEN "delay" ELSE "run"]

\* What dispatch changes.
LEMMA DispatchFields ==
    ASSUME NEW s, Shape(s)
    PROVE  /\ DOMAIN dispatch(s) = Fields
           /\ dispatch(s).pending = [b \in Buckets |-> IF b \in startable(s) THEN Tail(s.pending[b]) ELSE s.pending[b]]
           /\ dispatch(s).active = s.active \union startable(s)
           /\ dispatch(s).running = s.running \union {Execution(s, b) : b \in startable(s)}
           /\ dispatch(s).batches = s.batches /\ dispatch(s).sequences = s.sequences
           /\ dispatch(s).poisoned = s.poisoned /\ dispatch(s).sent = s.sent /\ dispatch(s).result = s.result
           /\ \A b \in startable(s) : b \in Buckets /\ b \notin s.active /\ s.pending[b] # <<>>
<1>1. \A b \in startable(s) : b \in Buckets /\ b \notin s.active /\ s.pending[b] # <<>>
    BY Zenon DEF startable, ready
<1> QED
    BY <1>1, Zenon DEF dispatch, Shape, Fields, Execution, Request

\* dispatch turns the first batch that waits into a request with the sequence of
\* its place in line.
LEMMA DispatchKeeps ==
    ASSUME NEW s, NEW acc, NEW t, NEW F, NEW lg, LineInv(s, acc, t, F, lg)
    PROVE  LineInv(dispatch(s), acc, t, F, lg)
<1>1. PICK u : u = dispatch(s)
    BY Zenon
<1>2. PICK S : S = startable(s)
    BY Zenon
<1>3. Shape(s) /\ RequestInv(s) /\ BatchInv(s, acc, t)
    BY Zenon DEF LineInv
<1>4. /\ DOMAIN u = Fields
      /\ u.pending = [b \in Buckets |-> IF b \in S THEN Tail(s.pending[b]) ELSE s.pending[b]]
      /\ u.active = s.active \union S
      /\ u.running = s.running \union {Execution(s, b) : b \in S}
      /\ u.batches = s.batches /\ u.sequences = s.sequences
      /\ u.poisoned = s.poisoned /\ u.sent = s.sent /\ u.result = s.result
      /\ \A b \in S : b \in Buckets /\ b \notin s.active /\ s.pending[b] # <<>>
    BY <1>1, <1>2, <1>3, DispatchFields
<1>5. /\ s.pending \in [Buckets -> Seq(Seq(Items))] /\ s.batches \in [Buckets -> Seq(Items)]
      /\ s.sequences \in [Buckets -> Nat]
    BY <1>3, Zenon DEF Shape
<1>6. \A b \in S : b \notin s.poisoned
    BY <1>3, <1>4, Zenon DEF RequestInv, Idle
<1>7. ASSUME NEW b \in S
      PROVE  /\ Head(s.pending[b]) \in Seq(Items) /\ Tail(s.pending[b]) \in Seq(Seq(Items))
             /\ 1 \in DOMAIN s.pending[b] /\ Head(s.pending[b]) = s.pending[b][1]
             /\ \A m \in DOMAIN Tail(s.pending[b]) : m + 1 \in DOMAIN s.pending[b] /\ Tail(s.pending[b])[m] = s.pending[b][m + 1]
  <2>1. PICK x : x = s.pending[b]
    BY Zenon
  <2>2. x \in Seq(Seq(Items)) /\ x # <<>>
    BY <1>4, <1>5, <2>1, Zenon
  <2>3. /\ Head(x) \in Seq(Items) /\ Tail(x) \in Seq(Seq(Items)) /\ 1 \in DOMAIN x /\ Head(x) = x[1]
        /\ \A m \in DOMAIN Tail(x) : m + 1 \in DOMAIN x /\ Tail(x)[m] = x[m + 1]
    BY ONLY <2>2
  <2> QED
    BY <2>1, <2>3, Zenon
<1>8. ASSUME NEW b \in S
      PROVE  /\ Execution(s, b).request \in Requests /\ Execution(s, b).status # "ok"
             /\ DOMAIN Execution(s, b) = {"request", "end", "pressure", "status"} /\ Execution(s, b).end = -1
             /\ Execution(s, b).request.bucket = b /\ Execution(s, b).request.items = Head(s.pending[b])
             /\ Execution(s, b).request.sequence = s.sequences[b]
  <2>1. b \in Buckets /\ s.sequences[b] \in Nat /\ Head(s.pending[b]) \in Seq(Items)
    BY <1>4, <1>5, <1>7, Zenon
  <2>2. "delay" # "ok" /\ "run" # "ok"
    OBVIOUS
  <2> QED
    BY <2>1, <2>2, Zenon DEF Execution, Request, Requests
<1>9. ASSUME NEW e \in u.running, e \notin s.running
      PROVE  /\ e.request \in Requests /\ e.status # "ok"
             /\ DOMAIN e = {"request", "end", "pressure", "status"} /\ e.end = -1
             /\ e.request.bucket \in S /\ e.request.items = Head(s.pending[e.request.bucket])
             /\ e.request.sequence = s.sequences[e.request.bucket] /\ e = Execution(s, e.request.bucket)
  <2>1. PICK b \in S : e = Execution(s, b)
    BY <1>4, <1>9, Zenon
  <2>2. e.request.bucket = b
    BY <1>8, <2>1, Zenon
  <2> QED
    BY <1>8, <2>1, <2>2, Zenon
<1>10. /\ \A e \in s.running : e \in u.running
       /\ \A b \in S : Execution(s, b) \in u.running
    BY <1>4, Zenon
<1>11. /\ \A r \in requestsOf(s) : r \in requestsOf(u)
       /\ \A b \in S : Execution(s, b).request \in requestsOf(u)
       /\ \A r \in requestsOf(u) : r \notin requestsOf(s) =>
               /\ r.bucket \in S /\ r.items = Head(s.pending[r.bucket]) /\ r.sequence = s.sequences[r.bucket]
  <2>1. \A r \in requestsOf(s) : r \in requestsOf(u)
    BY <1>4, <1>10, ZenonT(40) DEF requestsOf
  <2>2. \A b \in S : Execution(s, b).request \in requestsOf(u)
    BY <1>10, Zenon DEF requestsOf
  <2>3. ASSUME NEW r \in requestsOf(u), r \notin requestsOf(s)
        PROVE  r.bucket \in S /\ r.items = Head(s.pending[r.bucket]) /\ r.sequence = s.sequences[r.bucket]
    <3>1. PICK e \in u.running : e.request = r /\ e \notin s.running
        BY <1>4, <2>3, Zenon DEF requestsOf
    <3> QED
        BY <1>9, <3>1, Zenon
  <2> QED
    BY <2>1, <2>2, <2>3, Zenon
<1>12. Shape(u)
  <2>1. u.pending \in [Buckets -> Seq(Seq(Items))]
    <3>1. ASSUME NEW b \in Buckets PROVE u.pending[b] \in Seq(Seq(Items))
      <4>1. CASE b \in S
        BY <1>4, <1>7, <4>1, Zenon
      <4>2. CASE b \notin S
        BY <1>4, <1>5, <4>2, Zenon
      <4> QED
        BY <4>1, <4>2, Zenon
    <3> QED
        BY <1>4, <3>1, Zenon
  <2>2. \A e \in u.running : /\ DOMAIN e = {"request", "end", "pressure", "status"} /\ e.request \in Requests
                             /\ e.end = -1 \/ e.status = "ok"
    BY <1>3, <1>9, Zenon DEF Shape
  <2>3. u.active \subseteq Buckets
    BY <1>3, <1>4, Zenon DEF Shape
  <2> QED
    BY <1>3, <1>4, <2>1, <2>2, <2>3, Zenon DEF Shape
<1>13. RequestInv(u)
  <2>1. \A e \in s.running : Executes(e, s.active, s.sequences) /\ e.request.bucket \notin S
    BY <1>3, <1>4, Zenon DEF RequestInv, Executes
  <2>2. ASSUME NEW e \in u.running PROVE Executes(e, u.active, u.sequences)
    <3>1. CASE e \in s.running
        BY <1>4, <2>1, <3>1, Zenon DEF Executes
    <3>2. CASE e \notin s.running
        BY <1>4, <1>9, <3>2, Zenon DEF Executes
    <3> QED
        BY <3>1, <3>2, Zenon
  <2>3. ASSUME NEW e \in u.running, NEW f \in u.running, e.request.bucket = f.request.bucket PROVE e = f
    <3>1. CASE e \in s.running /\ f \in s.running
        BY <1>3, <2>3, <3>1, Zenon DEF RequestInv, OnePerBucket
    <3>2. CASE e \in s.running /\ f \notin s.running
        BY <1>9, <2>1, <2>3, <3>2, Zenon
    <3>3. CASE e \notin s.running /\ f \in s.running
        BY <1>9, <2>1, <2>3, <3>3, Zenon
    <3>4. CASE e \notin s.running /\ f \notin s.running
        BY <1>9, <2>3, <3>4, Zenon
    <3> QED
        BY <3>1, <3>2, <3>3, <3>4, Zenon
  <2>4. OnePerBucket(u.running)
    BY <2>3, Zenon DEF OnePerBucket
  <2>5. Idle(u.poisoned, u.active, u.pending)
    <3>1. \A b \in s.poisoned : b \in Buckets /\ b \notin S /\ b \notin s.active /\ s.pending[b] = <<>>
        BY <1>3, <1>6, Zenon DEF RequestInv, Idle, Shape
    <3>2. \A b \in Buckets : b \notin S => u.pending[b] = s.pending[b]
        BY <1>4, Zenon
    <3> QED
        BY <1>4, <3>1, <3>2, Zenon DEF Idle
  <2>6. \A r \in s.sent : WasSent(r, s.sequences, s.poisoned, u.running)
    BY <1>3, <1>10, Zenon DEF RequestInv, WasSent
  <2>7. SentOnce(s.sent)
    BY <1>3, Zenon DEF RequestInv
  <2> QED
    BY <1>4, <2>2, <2>4, <2>5, <2>6, <2>7, Zenon DEF RequestInv
<1>14. BatchInv(u, acc, t)
  <2>1. ASSUME NEW b \in Buckets PROVE BatchesOK(acc, t, b, u.pending[b])
    <3>1. BatchesOK(acc, t, b, s.pending[b])
        BY <1>3, Zenon DEF BatchInv
    <3>2. CASE b \notin S
        BY <1>4, <3>1, <3>2, Zenon
    <3>3. CASE b \in S
      <4>1. u.pending[b] = Tail(s.pending[b])
        BY <1>4, <3>3, Zenon
      <4> QED
        BY <1>7, <3>1, <3>3, <4>1, ZenonT(40) DEF BatchesOK
    <3> QED
        BY <3>2, <3>3, Zenon
  <2>2. ASSUME NEW b \in S PROVE BatchOK(acc, t, b, Head(s.pending[b]))
    <3>1. BatchesOK(acc, t, b, s.pending[b])
        BY <1>3, <1>4, Zenon DEF BatchInv
    <3> QED
        BY <1>7, <3>1, Zenon DEF BatchesOK
  <2>3. ASSUME NEW r \in requestsOf(u) PROVE BatchOK(acc, t, r.bucket, r.items)
    <3>1. CASE r \in requestsOf(s)
        BY <1>3, <3>1, Zenon DEF BatchInv
    <3>2. CASE r \notin requestsOf(s)
        BY <1>11, <2>2, <3>2, Zenon
    <3> QED
        BY <3>1, <3>2, Zenon
  <2>4. \A b \in Buckets : BatchOK(acc, t, b, u.batches[b])
    BY <1>3, <1>4, Zenon DEF BatchInv
  <2> QED
    BY ONLY <2>1, <2>3, <2>4, Zenon DEF BatchInv
<1>15. ASSUME NEW b \in Buckets, NEW i \in Items, NEW k \in Nat, NEW p \in Nat
       PROVE  At(u, b, i, k, p) <=> At(s, b, i, k, p)
  <2>1. CASE b \notin S
    <3>1. Sent(u, b, i, k, p) <=> Sent(s, b, i, k, p)
      <4>1. \A r \in requestsOf(u) : r.bucket = b => r \in requestsOf(s)
        BY <1>11, <2>1, Zenon
      <4>2. \A r \in requestsOf(s) : r \in requestsOf(u)
        BY <1>11, Zenon
      <4> QED
        BY <4>1, <4>2, Zenon DEF Sent, SentIn
    <3>2. waiting(u, b) = waiting(s, b) /\ nextSequence(u, b) = nextSequence(s, b)
        BY <1>4, <2>1, Zenon DEF waiting, nextSequence
    <3>3. Waits(u, b, i, k, p) <=> Waits(s, b, i, k, p)
        BY <1>4, <3>2, Zenon DEF Waits
    <3> QED
        BY <3>1, <3>3, Zenon DEF At
  <2>2. CASE b \in S
    <3>1. PICK x : x = waiting(s, b)
        BY Zenon
    <3>2. PICK y : y = waiting(u, b)
        BY Zenon
    <3>3. PICK q : q = s.sequences[b]
        BY Zenon
    <3>4. PICK h : h = Head(s.pending[b])
        BY Zenon
    <3>5. nextSequence(s, b) = q /\ nextSequence(u, b) = q + 1 /\ b \notin s.poisoned /\ b \notin u.poisoned /\ q \in Nat
        BY <1>4, <1>5, <1>6, <2>2, <3>3, Zenon DEF nextSequence
    <3>6. /\ 1 \in DOMAIN x /\ x[1] = h
          /\ \A m \in DOMAIN y : m + 1 \in DOMAIN x /\ y[m] = x[m + 1] /\ m \in Nat
          /\ \A m \in DOMAIN x : m = 1 \/ (m - 1 \in DOMAIN y /\ y[m - 1] = x[m] /\ m \in Nat)
      <4>1. PICK z : z = s.pending[b]
        BY Zenon
      <4>2. PICK o : o = s.batches[b]
        BY Zenon
      <4>3. z \in Seq(Seq(Items)) /\ z # <<>> /\ o \in Seq(Items) /\ h = Head(z)
        BY <1>4, <1>5, <2>2, <3>4, <4>1, <4>2, Zenon
      <4>4. x = IF o = <<>> THEN z ELSE Append(z, o)
        BY <3>1, <4>1, <4>2, Zenon DEF waiting
      <4>5. y = IF o = <<>> THEN Tail(z) ELSE Append(Tail(z), o)
        BY <1>4, <2>2, <3>2, <4>1, <4>2, Zenon DEF waiting
      <4>6. CASE o = <<>>
        BY ONLY <4>3, <4>4, <4>5, <4>6
      <4>7. CASE o # <<>>
        BY ONLY <4>3, <4>4, <4>5, <4>7
      <4> QED
        BY <4>6, <4>7, Zenon
    <3>7. Sent(u, b, i, k, p) <=> (Sent(s, b, i, k, p) \/ (k = q /\ p \in DOMAIN h /\ h[p] = i))
      <4>1. PICK r : r = Execution(s, b).request
        BY Zenon
      <4>2. r \in requestsOf(u) /\ r.bucket = b /\ r.items = h /\ r.sequence = q
        BY <1>8, <1>11, <2>2, <3>3, <3>4, <4>1, Zenon
      <4>3. \A o \in requestsOf(u) : o.bucket = b => o \in requestsOf(s) \/ (o.items = h /\ o.sequence = q)
        BY <1>11, <3>3, <3>4, Zenon
      <4>4. \A o \in requestsOf(s) : o \in requestsOf(u)
        BY <1>11, Zenon
      <4>5. ASSUME Sent(u, b, i, k, p) PROVE Sent(s, b, i, k, p) \/ (k = q /\ p \in DOMAIN h /\ h[p] = i)
        BY <4>3, <4>5, Zenon DEF Sent, SentIn
      <4>6. ASSUME k = q, p \in DOMAIN h, h[p] = i PROVE Sent(u, b, i, k, p)
        BY <4>2, <4>6, Zenon DEF Sent, SentIn
      <4>7. ASSUME Sent(s, b, i, k, p) PROVE Sent(u, b, i, k, p)
        BY <4>4, <4>7, Zenon DEF Sent, SentIn
      <4> QED
        BY <4>5, <4>6, <4>7, Zenon
    <3>8. Waits(u, b, i, k, p) <=> \E m \in DOMAIN y : k + 1 = (q + 1) + m /\ p \in DOMAIN y[m] /\ y[m][p] = i
        BY <3>2, <3>5, Zenon DEF Waits, WaitsIn
    <3>9. Waits(s, b, i, k, p) <=> \E m \in DOMAIN x : k + 1 = q + m /\ p \in DOMAIN x[m] /\ x[m][p] = i
        BY <3>1, <3>5, Zenon DEF Waits, WaitsIn
    <3>10. Waits(s, b, i, k, p) <=> (Waits(u, b, i, k, p) \/ (k = q /\ p \in DOMAIN h /\ h[p] = i))
      <4>1. (k = q) <=> (k + 1 = q + 1)
        BY ONLY <3>5, k \in Nat
      <4>2. \A m \in Nat : (k + 1 = (q + 1) + m) <=> (k + 1 = q + (m + 1))
        BY ONLY <3>5, k \in Nat
      <4>3. \A m \in Nat : (k + 1 = (q + 1) + (m - 1)) <=> (k + 1 = q + m)
        BY ONLY <3>5, k \in Nat
      <4> QED
        BY ONLY <3>6, <3>8, <3>9, <4>1, <4>2, <4>3, SMTT(40)
    <3> QED
        BY <3>7, <3>10, Zenon DEF At
  <2> QED
    BY <2>1, <2>2, Zenon
<1>16. \A e \in u.running : e.status = "ok" => e \in s.running
    BY <1>9, Zenon
<1>17. s.sent \subseteq u.sent /\ u.result = s.result /\ u.poisoned = s.poisoned
    BY <1>4, Zenon
<1>18. LineInv(u, acc, t, F, lg)
    BY <1>12, <1>13, <1>14, <1>15, <1>16, <1>17, Transfer, Zenon
<1> QED
    BY <1>1, <1>18, Zenon

\* flushBucket closes the open batch, which keeps its place at the end of the line;
\* in a poisoned bucket the batch fails.
LEMMA FlushKeeps ==
    ASSUME NEW s, NEW acc, NEW t, NEW F, NEW lg, LineInv(s, acc, t, F, lg), NEW b \in Buckets
    PROVE  /\ LineInv(flushBucket(s, b), acc, t, F, lg)
           /\ flushBucket(s, b).batches = [s.batches EXCEPT ![b] = <<>>]
           /\ flushBucket(s, b).poisoned = s.poisoned
<1>1. Shape(s) /\ RequestInv(s) /\ BatchInv(s, acc, t)
    BY Zenon DEF LineInv
<1>2. /\ s.pending \in [Buckets -> Seq(Seq(Items))] /\ s.batches \in [Buckets -> Seq(Items)]
      /\ DOMAIN s = Fields /\ s.batches[b] \in Seq(Items) /\ s.pending[b] \in Seq(Seq(Items))
    BY <1>1, Zenon DEF Shape
<1>3. CASE s.batches[b] = <<>>
  <2>1. [s.batches EXCEPT ![b] = <<>>] = s.batches
    BY <1>2, <1>3, Zenon
  <2> QED
    BY <1>3, <2>1, Zenon DEF flushBucket
<1>4. BatchOK(acc, t, b, <<>>)
  <2>1. DOMAIN <<>> = {} /\ Len(<<>>) = 0 /\ 0 <= MaxBatchRecords /\ ~(0 > 1)
    BY UpsertAssumption
  <2> QED
    BY <2>1, Zenon DEF BatchOK
<1>5. CASE s.batches[b] # <<>> /\ b \in s.poisoned
  <2>1. PICK u : u = [s EXCEPT !.batches[b] = <<>>]
    BY Zenon
  <2>2. /\ DOMAIN u = Fields /\ u.batches = [s.batches EXCEPT ![b] = <<>>] /\ u.pending = s.pending
        /\ u.sequences = s.sequences /\ u.active = s.active /\ u.poisoned = s.poisoned
        /\ u.sent = s.sent /\ u.running = s.running /\ u.result = s.result
    BY <1>2, <2>1, Zenon DEF Fields
  <2>3. u.batches \in [Buckets -> Seq(Items)]
    <3>1. <<>> \in Seq(Items)
        OBVIOUS
    <3> QED
        BY <1>2, <2>2, <3>1, Zenon
  <2>4. Shape(u)
    BY <1>1, <2>2, <2>3, Zenon DEF Shape
  <2>5. RequestInv(u)
    BY <1>1, <2>2, Zenon DEF RequestInv
  <2>6. requestsOf(u) = requestsOf(s)
    BY <2>2, Zenon DEF requestsOf
  <2>7. BatchInv(u, acc, t)
    <3>1. ASSUME NEW c \in Buckets PROVE BatchOK(acc, t, c, u.batches[c])
      <4>1. u.batches[c] = s.batches[c] \/ (c = b /\ u.batches[c] = <<>>)
        BY <1>2, <2>2, Zenon
      <4> QED
        BY <1>1, <1>4, <4>1, Zenon DEF BatchInv
    <3> QED
        BY <1>1, <2>2, <2>6, <3>1, Zenon DEF BatchInv
  <2>8. ASSUME NEW c \in Buckets, NEW i \in Items, NEW k \in Nat, NEW p \in Nat
        PROVE  At(u, c, i, k, p) <=> At(s, c, i, k, p)
    <3>1. Sent(u, c, i, k, p) <=> Sent(s, c, i, k, p)
        BY <2>6, Zenon DEF Sent
    <3>2. c # b => waiting(u, c) = waiting(s, c) /\ nextSequence(u, c) = nextSequence(s, c)
        BY <1>2, <2>2, Zenon DEF waiting, nextSequence
    <3>3. Waits(u, c, i, k, p) <=> Waits(s, c, i, k, p)
        BY <1>5, <2>2, <3>2, Zenon DEF Waits
    <3> QED
        BY <3>1, <3>3, Zenon DEF At
  <2>9. LineInv(u, acc, t, F, lg)
    <3>1. s.sent \subseteq u.sent /\ \A e \in u.running : e.status = "ok" => e \in s.running
        BY <2>2, Zenon
    <3> QED
        BY <2>2, <2>4, <2>5, <2>7, <2>8, <3>1, Transfer, Zenon
  <2>10. \A i \in Range(s.batches[b]) \cap Items : Taken(acc, t, i)
    <3>1. BatchOK(acc, t, b, s.batches[b])
        BY <1>1, Zenon DEF BatchInv
    <3> QED
        BY <3>1, Zenon DEF BatchOK, Range
  <2>11. "poisoned" # "nil"
    OBVIOUS
  <2>12. flushBucket(s, b) = fail(u, Range(s.batches[b]), "poisoned")
    BY <1>5, <2>1, Zenon DEF flushBucket
  <2>13. LineInv(flushBucket(s, b), acc, t, F, lg) /\ SamePlaces(u, flushBucket(s, b))
    BY <2>9, <2>10, <2>11, <2>12, FailKeeps, Zenon DEF Settled
  <2> QED
    BY <2>2, <2>13, Zenon DEF SamePlaces
<1>6. CASE s.batches[b] # <<>> /\ b \notin s.poisoned
  <2>1. PICK u : u = [s EXCEPT !.batches[b] = <<>>, !.pending[b] = Append(@, s.batches[b])]
    BY Zenon
  <2>2. /\ DOMAIN u = Fields /\ u.batches = [s.batches EXCEPT ![b] = <<>>]
        /\ u.pending = [s.pending EXCEPT ![b] = Append(s.pending[b], s.batches[b])]
        /\ u.sequences = s.sequences /\ u.active = s.active /\ u.poisoned = s.poisoned
        /\ u.sent = s.sent /\ u.running = s.running /\ u.result = s.result
    BY <1>2, <2>1, Zenon DEF Fields
  <2>3. PICK x : x = Append(s.pending[b], s.batches[b])
    BY Zenon
  <2>4. /\ x \in Seq(Seq(Items)) /\ <<>> \in Seq(Items)
        /\ \A m \in DOMAIN x : (m \in DOMAIN s.pending[b] /\ x[m] = s.pending[b][m]) \/ x[m] = s.batches[b]
    <3>1. PICK z : z = s.pending[b]
        BY Zenon
    <3>2. PICK o : o = s.batches[b]
        BY Zenon
    <3>3. z \in Seq(Seq(Items)) /\ o \in Seq(Items) /\ x = Append(z, o)
        BY <1>2, <2>3, <3>1, <3>2, Zenon
    <3>4. /\ x \in Seq(Seq(Items)) /\ <<>> \in Seq(Items)
          /\ \A m \in DOMAIN x : (m \in DOMAIN z /\ x[m] = z[m]) \/ x[m] = o
        BY ONLY <3>3
    <3> QED
        BY <3>1, <3>2, <3>4, Zenon
  <2>5. Shape(u)
    <3>1. u.batches \in [Buckets -> Seq(Items)]
        BY <1>2, <2>2, <2>4, ZenonT(40)
    <3>2. u.pending \in [Buckets -> Seq(Seq(Items))]
        BY <1>2, <2>2, <2>3, <2>4, ZenonT(40)
    <3> QED
        BY <1>1, <2>2, <3>1, <3>2, Zenon DEF Shape
  <2>6. RequestInv(u)
    <3>1. \A c \in s.poisoned : c \in Buckets /\ u.pending[c] = s.pending[c]
        BY <1>1, <1>2, <1>6, <2>2, Zenon DEF Shape
    <3> QED
        BY <1>1, <2>2, <3>1, Zenon DEF RequestInv, Idle
  <2>7. requestsOf(u) = requestsOf(s)
    BY <2>2, Zenon DEF requestsOf
  <2>8. BatchInv(u, acc, t)
    <3>1. BatchesOK(acc, t, b, x)
        BY <1>1, <2>4, Zenon DEF BatchInv, BatchesOK
    <3>2. ASSUME NEW c \in Buckets PROVE BatchOK(acc, t, c, u.batches[c]) /\ BatchesOK(acc, t, c, u.pending[c])
      <4>1. CASE c = b
        <5>1. u.batches[c] = <<>> /\ u.pending[c] = x
            BY <1>2, <2>2, <2>3, <4>1, Zenon
        <5> QED
            BY <1>4, <3>1, <4>1, <5>1, Zenon
      <4>2. CASE c # b
        <5>1. u.batches[c] = s.batches[c] /\ u.pending[c] = s.pending[c]
            BY <1>2, <2>2, <4>2, Zenon
        <5> QED
            BY <1>1, <5>1, Zenon DEF BatchInv
      <4> QED
        BY <4>1, <4>2, Zenon
    <3> QED
        BY <1>1, <2>7, <3>2, Zenon DEF BatchInv
  <2>9. ASSUME NEW c \in Buckets, NEW i \in Items, NEW k \in Nat, NEW p \in Nat
        PROVE  At(u, c, i, k, p) <=> At(s, c, i, k, p)
    <3>1. Sent(u, c, i, k, p) <=> Sent(s, c, i, k, p)
        BY <2>7, Zenon DEF Sent
    <3>2. waiting(u, c) = waiting(s, c) /\ nextSequence(u, c) = nextSequence(s, c)
      <4>1. nextSequence(u, c) = nextSequence(s, c)
        BY <2>2, Zenon DEF nextSequence
      <4>2. CASE c = b
        <5>1. u.batches[c] = <<>> /\ u.pending[c] = Append(s.pending[c], s.batches[c]) /\ s.batches[c] # <<>>
            BY <1>2, <1>6, <2>2, <4>2, Zenon
        <5> QED
            BY <4>1, <5>1, Zenon DEF waiting
      <4>3. CASE c # b
        <5>1. u.batches[c] = s.batches[c] /\ u.pending[c] = s.pending[c]
            BY <1>2, <2>2, <4>3, Zenon
        <5> QED
            BY <4>1, <5>1, Zenon DEF waiting
      <4> QED
        BY <4>2, <4>3, Zenon
    <3>3. Waits(u, c, i, k, p) <=> Waits(s, c, i, k, p)
        BY <2>2, <3>2, Zenon DEF Waits
    <3> QED
        BY <3>1, <3>3, Zenon DEF At
  <2>10. LineInv(u, acc, t, F, lg)
    <3>1. s.sent \subseteq u.sent /\ \A e \in u.running : e.status = "ok" => e \in s.running
        BY <2>2, Zenon
    <3> QED
        BY <2>2, <2>5, <2>6, <2>8, <2>9, <3>1, Transfer, Zenon
  <2>11. flushBucket(s, b) = dispatch(u)
    BY <1>6, <2>1, Zenon DEF flushBucket
  <2>12. dispatch(u).batches = u.batches /\ dispatch(u).poisoned = u.poisoned
    BY <2>5, DispatchFields, Zenon
  <2> QED
    <3>1. LineInv(dispatch(u), acc, t, F, lg)
        BY <2>10, DispatchKeeps, Zenon
    <3> QED
        BY <2>2, <2>11, <2>12, <3>1, Zenon
<1> QED
    BY <1>3, <1>5, <1>6, Zenon

\* queueAll flushes one bucket after the other.
LEMMA QueueAllKeeps ==
    ASSUME NEW s, NEW acc, NEW t, NEW F, NEW lg, LineInv(s, acc, t, F, lg)
    PROVE  LineInv(queueAll(s), acc, t, F, lg)
<1>1. PICK f : /\ queueAll(s) = f[NumBuckets] /\ f[0] = [s EXCEPT !.timer = FALSE]
               /\ \A n \in Buckets : f[n] = flushBucket(f[n - 1], n)
    BY QueueAllSteps
<1>2. LineInv(f[0], acc, t, F, lg)
  <2>1. SamePlaces(s, f[0]) /\ f[0].result = s.result
    BY <1>1, Zenon DEF SamePlaces, LineInv, Shape, Fields
  <2> QED
    BY <2>1, IdleKeeps, Zenon
<1> DEFINE S == {n \in 0 .. NumBuckets : ~LineInv(f[n], acc, t, F, lg)}
<1>3. S = {}
  <2>1. SUFFICES ASSUME S # {} PROVE FALSE
    BY Zenon
  <2>2. S \in SUBSET Nat
    BY UpsertAssumption
  <2>3. PICK m \in S : \A n \in S : m <= n
    BY <2>1, <2>2, LeastNatural, Zenon
  <2>4. m \in 0 .. NumBuckets /\ ~LineInv(f[m], acc, t, F, lg)
    BY Zenon
  <2>5. m # 0
    BY <1>2, <2>4, Zenon
  <2>6. m \in Buckets /\ m - 1 \in 0 .. NumBuckets /\ ~(m <= m - 1)
    BY <2>4, <2>5, UpsertAssumption DEF Buckets
  <2>7. LineInv(f[m - 1], acc, t, F, lg)
    BY <2>3, <2>6, Zenon
  <2>8. PICK u : u = f[m - 1]
    BY Zenon
  <2>9. LineInv(flushBucket(u, m), acc, t, F, lg)
    BY <2>6, <2>7, <2>8, FlushKeeps, Zenon
  <2>10. f[m] = flushBucket(u, m)
    BY <1>1, <2>6, <2>8, Zenon
  <2> QED
    BY <2>4, <2>9, <2>10, Zenon
<1>4. NumBuckets \in 0 .. NumBuckets
    BY UpsertAssumption
<1> QED
    BY <1>1, <1>3, <1>4, Zenon

-----------------------------------------------------------------------------
(* add *)

\* What is in line was taken, and stands before the end of the line.
LEMMA InLine ==
    ASSUME NEW s, NEW acc, NEW t, NEW F, NEW lg, LineInv(s, acc, t, F, lg),
           NEW b \in Buckets, NEW i \in Items, NEW k \in Nat, NEW p \in Nat, At(s, b, i, k, p)
    PROVE  /\ Taken(acc, t, i)
           /\ b \notin s.poisoned =>
                \/ k < nextSequence(s, b) + Len(s.pending[b])
                \/ k = nextSequence(s, b) + Len(s.pending[b]) /\ p < Len(s.batches[b]) + 1
<1>1. Shape(s) /\ RequestInv(s) /\ BatchInv(s, acc, t)
    BY Zenon DEF LineInv
<1>2. PICK z : z = s.pending[b]
    BY Zenon
<1>3. PICK o : o = s.batches[b]
    BY Zenon
<1>4. PICK q : q = nextSequence(s, b)
    BY Zenon
<1>5. z \in Seq(Seq(Items)) /\ o \in Seq(Items) /\ s.sequences[b] \in Nat
    BY <1>1, <1>2, <1>3, Zenon DEF Shape
<1>6. q \in Nat /\ q >= s.sequences[b] /\ (b \in s.active => q = s.sequences[b] + 1) /\ Len(z) \in Nat
  <2>1. PICK n : n = s.sequences[b]
    BY Zenon
  <2>2. n \in Nat /\ q = IF b \in s.active THEN n + 1 ELSE n
    BY <1>4, <1>5, <2>1, Zenon DEF nextSequence
  <2>3. q \in Nat /\ q >= n /\ (b \in s.active => q = n + 1)
    BY ONLY <2>2
  <2>4. Len(z) \in Nat
    BY ONLY <1>5
  <2> QED
    BY <2>1, <2>3, <2>4, Zenon
<1>7. CASE Sent(s, b, i, k, p)
  <2>1. PICK r \in requestsOf(s) : r.bucket = b /\ r.sequence = k /\ p \in DOMAIN r.items /\ r.items[p] = i
    BY <1>7, Zenon DEF Sent, SentIn
  <2>2. Taken(acc, t, i)
    BY <1>1, <2>1, Zenon DEF BatchInv, BatchOK
  <2>3. b \notin s.poisoned => k < s.sequences[b] \/ (k = s.sequences[b] /\ b \in s.active)
    <3>1. CASE \E e \in s.running : e.request = r
        BY <1>1, <2>1, <3>1, Zenon DEF RequestInv, Executes
    <3>2. CASE r \in s.sent
      <4>1. WasSent(r, s.sequences, s.poisoned, s.running)
        BY <1>1, <3>2, Zenon DEF RequestInv
      <4> QED
        BY <2>1, <3>1, <4>1, Zenon DEF WasSent
    <3> QED
        BY <2>1, <3>1, <3>2, Zenon DEF requestsOf
  <2>4. b \notin s.poisoned => k < q + Len(z)
    BY ONLY <1>5, <1>6, <2>3, k \in Nat
  <2> QED
    BY <1>2, <1>4, <2>2, <2>4, Zenon
<1>8. CASE Waits(s, b, i, k, p)
  <2>1. PICK x : x = waiting(s, b)
    BY Zenon
  <2>2. x = IF o = <<>> THEN z ELSE Append(z, o)
    BY <1>2, <1>3, <2>1, Zenon DEF waiting
  <2>3. PICK m \in DOMAIN x : k + 1 = q + m /\ p \in DOMAIN x[m] /\ x[m][p] = i
    BY <1>4, <1>8, <2>1, Zenon DEF Waits, WaitsIn
  <2>4. \/ m \in DOMAIN z /\ x[m] = z[m] /\ m \in 1 .. Len(z)
        \/ m = Len(z) + 1 /\ x[m] = o /\ o # <<>>
    <3>1. CASE o = <<>>
        BY ONLY <1>5, <2>2, <2>3, <3>1
    <3>2. CASE o # <<>>
        BY ONLY <1>5, <2>2, <2>3, <3>2
    <3> QED
        BY <3>1, <3>2, Zenon
  <2>5. Taken(acc, t, i)
    <3>1. BatchOK(acc, t, b, x[m])
        BY <1>1, <1>2, <1>3, <2>4, Zenon DEF BatchInv, BatchesOK
    <3> QED
        BY <2>3, <3>1, Zenon DEF BatchOK
  <2>6. k < q + Len(z) \/ (k = q + Len(z) /\ p < Len(o) + 1)
    <3>1. CASE m \in 1 .. Len(z)
        BY ONLY <1>6, <2>3, <3>1, k \in Nat
    <3>2. CASE m = Len(z) + 1 /\ x[m] = o
      <4>1. DOMAIN o = 1 .. Len(o) /\ Len(o) \in Nat
        BY <1>5
      <4> QED
        BY ONLY <1>6, <2>3, <3>2, <4>1, k \in Nat
    <3> QED
        BY <2>4, <3>1, <3>2, Zenon
  <2> QED
    BY <1>2, <1>3, <1>4, <2>5, <2>6, Zenon
<1> QED
    BY <1>7, <1>8, Zenon DEF At

\* The next call of the history, when the loop takes it: it is nowhere in line.
TakenNext(s, acc, t, F, i) ==
    /\ \A m \in 1 .. t : acc[m] # i
    /\ \A b \in Buckets, k, p \in Nat : ~At(s, b, i, k, p)
    /\ s.result[i].err = "open" /\ i \notin F
    /\ \A m \in 1 .. t + 1 : m \in 1 .. t \/ m = t + 1
    /\ \A m \in (t + 1) + 1 .. Len(acc) : m \in t + 1 .. Len(acc) /\ acc[m] # i
    /\ BatchInv(s, acc, t + 1) /\ History(acc, t + 1, F) /\ Taken(acc, t + 1, i)

\* What the loop takes was never in line before.
LEMMA NextTaken ==
    ASSUME NEW s, NEW acc, NEW t, NEW F, NEW lg, LineInv(s, acc, t, F, lg),
           t + 1 <= Len(acc), NEW i \in Items, acc[t + 1] = i
    PROVE  TakenNext(s, acc, t, F, i)
<1>1. History(acc, t, F) /\ BatchInv(s, acc, t) /\ FreshInv(s, acc, t, F)
    BY Zenon DEF LineInv
<1>2. acc \in Seq(Calls) /\ t \in Nat /\ Len(acc) \in Nat
    BY <1>1 DEF History
<1>3. /\ t + 1 \in 1 .. Len(acc) /\ t + 1 \in t + 1 .. Len(acc) /\ t + 1 \in 1 .. t + 1
      /\ \A m \in 1 .. t + 1 : m \in 1 .. t \/ m = t + 1
      /\ \A m \in 1 .. t : m \in 1 .. Len(acc) /\ m # t + 1 /\ m \in 1 .. t + 1
      /\ \A m \in (t + 1) + 1 .. Len(acc) : m \in t + 1 .. Len(acc) /\ m \in 1 .. Len(acc) /\ m # t + 1
      /\ t + 1 \in Nat
    BY <1>2
<1>4. \A m \in 1 .. t : acc[m] # i
    BY <1>1, <1>3, Zenon DEF History
<1>5. \A m \in (t + 1) + 1 .. Len(acc) : acc[m] # i
    BY <1>1, <1>3, Zenon DEF History
<1>6. \A b \in Buckets, k, p \in Nat : ~At(s, b, i, k, p)
  <2>1. ~Taken(acc, t, i)
    BY <1>4, Zenon DEF Taken
  <2> QED
    BY <2>1, InLine, Zenon
<1>7. s.result[i].err = "open" /\ i \notin F
    BY <1>1, <1>3, Zenon DEF FreshInv, History
<1>8. \A j : Taken(acc, t, j) => Taken(acc, t + 1, j)
    BY <1>3, Zenon DEF Taken
<1>9. \A b, x : BatchOK(acc, t, b, x) => BatchOK(acc, t + 1, b, x)
    BY <1>8, Zenon DEF BatchOK
<1>10. BatchInv(s, acc, t + 1)
    BY <1>1, <1>9, Zenon DEF BatchInv, BatchesOK
<1>11. History(acc, t + 1, F)
    BY <1>1, <1>3, Zenon DEF History
<1>12. Taken(acc, t + 1, i)
    BY <1>3, Zenon DEF Taken
<1> QED
    BY <1>3, <1>4, <1>5, <1>6, <1>7, <1>10, <1>11, <1>12, Zenon DEF TakenNext

\* A mutation whose context has ended is taken and gets no place.
LEMMA DropKeeps ==
    ASSUME NEW s, NEW acc, NEW t, NEW F, NEW lg, LineInv(s, acc, t, F, lg),
           t + 1 <= Len(acc), NEW i \in Items, acc[t + 1] = i
    PROVE  LineInv(fail(s, {i}, "ctx"), acc, t + 1, F, lg)
<1>1. PICK u : u = fail(s, {i}, "ctx")
    BY Zenon
<1>2. /\ Shape(s) /\ RequestInv(s) /\ OrderInv(s, acc, t) /\ HeldInv(s, acc, t) /\ FreshInv(s, acc, t, F)
      /\ LogInv(s, lg) /\ AnswerInv(s, lg)
    BY Zenon DEF LineInv
<1>3. /\ \A m \in 1 .. t : acc[m] # i
      /\ \A b \in Buckets, k, p \in Nat : ~At(s, b, i, k, p)
      /\ s.result[i].err = "open" /\ i \notin F
      /\ \A m \in 1 .. t + 1 : m \in 1 .. t \/ m = t + 1
      /\ \A m \in (t + 1) + 1 .. Len(acc) : m \in t + 1 .. Len(acc) /\ acc[m] # i
      /\ BatchInv(s, acc, t + 1) /\ History(acc, t + 1, F)
  <2>1. TakenNext(s, acc, t, F, i)
    BY NextTaken, Zenon
  <2> QED
    BY <2>1, Zenon DEF TakenNext
<1>4. PICK res : res = [j \in {i} |-> [err |-> "ctx", offset |-> -1]]
    BY Zenon
<1>5. /\ SamePlaces(s, u)
      /\ u.result = [j \in Items |-> IF j \in {i} /\ s.result[j].err = "open" THEN res[j] ELSE s.result[j]]
    BY <1>1, <1>2, <1>4, Zenon DEF fail, complete, SamePlaces, Shape, Fields
<1>6. u.result[i].err = "ctx" /\ \A j \in Items : j # i => u.result[j] = s.result[j]
  <2>1. res[i].err = "ctx"
    BY <1>4, Zenon
  <2> QED
    BY <1>3, <1>5, <2>1, Zenon
<1>7. /\ Shape(u) /\ RequestInv(u) /\ BatchInv(u, acc, t + 1) /\ u.poisoned = s.poisoned
      /\ \A b, j, k, p : At(u, b, j, k, p) <=> At(s, b, j, k, p)
  <2>1. DOMAIN u.result = Items
    BY <1>5, Zenon
  <2> QED
    BY <1>2, <1>3, <1>5, <2>1, SamePlacesKeeps, Zenon DEF SamePlaces
<1>8. Write[i].bucket \in Buckets
    BY UpsertAssumption, Zenon
<1>9. OrderInv(u, acc, t + 1)
  <2>1. \A b \in Buckets : \A j : Before(u, b, j, i)
    BY <1>3, <1>7, Zenon DEF Before
  <2>2. ASSUME NEW m \in 1 .. t + 1, NEW n \in 1 .. t + 1, m < n PROVE Ordered(u, acc[m], acc[n])
    <3>1. CASE n = t + 1
        BY <1>8, <2>1, <3>1, Zenon DEF Ordered
    <3>2. CASE m = t + 1
        BY <1>6, <3>2, Zenon DEF Ordered
    <3>3. CASE m \in 1 .. t /\ n \in 1 .. t
      <4>1. Ordered(s, acc[m], acc[n]) /\ acc[m] # i
        BY <1>2, <1>3, <2>2, <3>3, Zenon DEF OrderInv
      <4> QED
        BY <1>6, <1>7, <4>1, OrderedSame, Zenon
    <3> QED
        BY <1>3, <3>1, <3>2, <3>3, Zenon
  <2> QED
    BY <2>2, Zenon DEF OrderInv
<1>10. HeldInv(u, acc, t + 1)
  <2>1. Held(u, i)
    BY <1>6, Zenon DEF Held
  <2>2. ASSUME NEW m \in 1 .. t PROVE Held(u, acc[m])
    <3>1. Held(s, acc[m]) /\ acc[m] # i
        BY <1>2, <1>3, Zenon DEF HeldInv
    <3> QED
        BY <1>6, <1>7, <3>1, HeldSame, Zenon
  <2> QED
    BY <1>3, <2>1, <2>2, Zenon DEF HeldInv
<1>11. FreshInv(u, acc, t + 1, F)
  <2>1. F \subseteq Items
    BY <1>3, Zenon DEF History
  <2> QED
    BY <1>2, <1>3, <1>6, <2>1, Zenon DEF FreshInv
<1>12. LogInv(u, lg)
    BY <1>2, <1>5, Zenon DEF LogInv, SamePlaces
<1>13. AnswerInv(u, lg)
  <2>1. "ctx" # "nil"
    OBVIOUS
  <2> QED
    BY <1>2, <1>5, <1>6, <2>1, Zenon DEF AnswerInv, Answered, SamePlaces
<1> QED
    BY <1>1, <1>3, <1>7, <1>9, <1>10, <1>11, <1>12, <1>13, Zenon DEF LineInv

\* A mutation that fits into a batch leaves it a batch for one request.
LEMMA PutBatch ==
    ASSUME NEW acc, NEW t, NEW b, NEW x \in Seq(Items), BatchOK(acc, t, b, x), NEW i \in Items,
           Write[i].bucket = b, Taken(acc, t, i),
           x # <<>> => Write[Head(x)].targets = Write[i].targets /\ ~batchFullWith(x, i)
    PROVE  BatchOK(acc, t, b, Append(x, i))
<1>1. PICK y : y = Append(x, i)
    BY Zenon
<1>2. /\ y \in Seq(Items) /\ Len(y) = Len(x) + 1 /\ Len(x) \in Nat /\ (x = <<>> <=> Len(x) = 0)
      /\ \A p \in DOMAIN y : (p \in DOMAIN x /\ y[p] = x[p]) \/ y[p] = i
      /\ x # <<>> => 1 \in DOMAIN x /\ Head(x) = x[1]
      /\ x = <<>> => \A p \in DOMAIN x : FALSE
    BY <1>1
<1>3. \A p \in DOMAIN y : Write[y[p]].bucket = b /\ Taken(acc, t, y[p])
    BY <1>2, Zenon DEF BatchOK
<1>4. \A p \in DOMAIN x : Write[x[p]].targets = Write[i].targets
    BY <1>2, Zenon DEF BatchOK
<1>5. \A p, q \in DOMAIN y : Write[y[p]].targets = Write[y[q]].targets
    BY <1>2, <1>4, Zenon
<1>6. bytesOf(x) \in Nat /\ bytesOf(y) = bytesOf(x) + Write[i].size /\ Write[i].size \in Nat
    BY <1>1, BytesOfAppend, UpsertAssumption, Zenon
<1>7. x # <<>> => ~(Len(x) >= MaxBatchRecords) /\ ~(bytesOf(x) + Write[i].size > MaxBatchBytes)
    BY Zenon DEF batchFullWith
<1>8. Len(y) <= MaxBatchRecords /\ (Len(y) > 1 => bytesOf(y) <= MaxBatchBytes)
  <2>1. MaxBatchRecords \in Nat \ {0} /\ MaxBatchBytes \in Nat
    BY UpsertAssumption
  <2> QED
    BY ONLY <1>2, <1>6, <1>7, <2>1
<1> QED
    BY <1>1, <1>3, <1>5, <1>8, Zenon DEF BatchOK

\* add puts the mutation at the end of the line.
LEMMA PutKeeps ==
    ASSUME NEW s, NEW acc, NEW t, NEW F, NEW lg, LineInv(s, acc, t, F, lg),
           t + 1 <= Len(acc), NEW i \in Items, acc[t + 1] = i, NEW b, b = Write[i].bucket,
           s.batches[b] # <<>> => Write[Head(s.batches[b])].targets = Write[i].targets /\ ~batchFullWith(s.batches[b], i)
    PROVE  LineInv([s EXCEPT !.batches[b] = Append(@, i)], acc, t + 1, F, lg)
<1>1. PICK u : u = [s EXCEPT !.batches[b] = Append(@, i)]
    BY Zenon
<1>2. /\ Shape(s) /\ RequestInv(s) /\ OrderInv(s, acc, t) /\ HeldInv(s, acc, t) /\ FreshInv(s, acc, t, F)
      /\ LogInv(s, lg) /\ AnswerInv(s, lg)
    BY Zenon DEF LineInv
<1>3. /\ \A m \in 1 .. t : acc[m] # i
      /\ \A c \in Buckets, k, p \in Nat : ~At(s, c, i, k, p)
      /\ \A m \in 1 .. t + 1 : m \in 1 .. t \/ m = t + 1
      /\ \A m \in (t + 1) + 1 .. Len(acc) : m \in t + 1 .. Len(acc)
      /\ BatchInv(s, acc, t + 1) /\ History(acc, t + 1, F) /\ Taken(acc, t + 1, i)
  <2>1. TakenNext(s, acc, t, F, i)
    BY NextTaken, Zenon
  <2> QED
    BY <2>1, Zenon DEF TakenNext
<1>4. b \in Buckets
    BY UpsertAssumption, Zenon
<1>5. PICK z : z = s.pending[b]
    BY Zenon
<1>6. PICK o : o = s.batches[b]
    BY Zenon
<1>7. PICK a : a = Append(o, i)
    BY Zenon
<1>8. z \in Seq(Seq(Items)) /\ o \in Seq(Items) /\ s.batches \in [Buckets -> Seq(Items)] /\ s.sequences[b] \in Nat
    BY <1>2, <1>4, <1>5, <1>6, Zenon DEF Shape
<1>9. /\ a \in Seq(Items) /\ a # <<>> /\ Len(o) \in Nat /\ Len(z) \in Nat
      /\ \A p : p \in DOMAIN a <=> (p \in DOMAIN o \/ p = Len(o) + 1)
      /\ \A p \in DOMAIN o : a[p] = o[p]
      /\ a[Len(o) + 1] = i /\ Len(o) + 1 \notin DOMAIN o
      /\ DOMAIN z = 1 .. Len(z)
    BY ONLY <1>7, <1>8, i \in Items, SMTT(30)
<1>10. /\ DOMAIN u = Fields /\ u.batches = [s.batches EXCEPT ![b] = a] /\ u.pending = s.pending
       /\ u.sequences = s.sequences /\ u.active = s.active /\ u.poisoned = s.poisoned
       /\ u.sent = s.sent /\ u.running = s.running /\ u.result = s.result
    BY <1>1, <1>2, <1>4, <1>6, <1>7, <1>8, Zenon DEF Shape, Fields
<1>11. Shape(u)
  <2>1. u.batches \in [Buckets -> Seq(Items)]
    BY <1>8, <1>9, <1>10, Zenon
  <2> QED
    BY <1>2, <1>10, <2>1, Zenon DEF Shape
<1>12. RequestInv(u)
    BY <1>2, <1>10, Zenon DEF RequestInv
<1>13. requestsOf(u) = requestsOf(s)
    BY <1>10, Zenon DEF requestsOf
<1>14. BatchInv(u, acc, t + 1)
  <2>1. BatchOK(acc, t + 1, b, o)
    BY <1>3, <1>4, <1>6, Zenon DEF BatchInv
  <2>2. BatchOK(acc, t + 1, b, a)
    BY <1>3, <1>6, <1>7, <1>8, <2>1, PutBatch, Zenon
  <2> QED
    BY <1>3, <1>8, <1>10, <1>13, <2>2, Zenon DEF BatchInv
<1>15. PICK K : K = nextSequence(s, b) + Len(z)
    BY Zenon
<1>16. PICK q : q = nextSequence(s, b)
    BY Zenon
<1>17. q \in Nat /\ K = q + Len(z) /\ K \in Nat /\ Len(o) + 1 \in Nat
  <2>1. PICK n : n = s.sequences[b]
    BY Zenon
  <2>2. n \in Nat /\ q = IF b \in s.active THEN n + 1 ELSE n
    BY <1>8, <1>16, <2>1, Zenon DEF nextSequence
  <2>3. K = q + Len(z)
    BY <1>15, <1>16, Zenon
  <2> QED
    BY ONLY <1>9, <2>2, <2>3
<1>18. ASSUME NEW c \in Buckets, NEW j \in Items, NEW k \in Nat, NEW p \in Nat
       PROVE  At(u, c, j, k, p) <=> \/ At(s, c, j, k, p)
                                    \/ c = b /\ b \notin s.poisoned /\ j = i /\ k = K /\ p = Len(o) + 1
  <2>1. Sent(u, c, j, k, p) <=> Sent(s, c, j, k, p)
    BY <1>13, Zenon DEF Sent
  <2>2. nextSequence(u, c) = nextSequence(s, c)
    BY <1>10, Zenon DEF nextSequence
  <2>3. CASE c # b
    <3>1. waiting(u, c) = waiting(s, c)
        BY <1>8, <1>10, <2>3, Zenon DEF waiting
    <3>2. Waits(u, c, j, k, p) <=> Waits(s, c, j, k, p)
        BY <1>10, <2>2, <3>1, Zenon DEF Waits
    <3> QED
        BY <2>1, <2>3, <3>2, Zenon DEF At
  <2>4. CASE c = b
    <3>1. PICK x : x = waiting(s, b)
        BY Zenon
    <3>2. PICK y : y = waiting(u, b)
        BY Zenon
    <3>3. x = (IF o = <<>> THEN z ELSE Append(z, o)) /\ y = Append(z, a)
        BY <1>4, <1>5, <1>6, <1>8, <1>9, <1>10, <3>1, <3>2, Zenon DEF waiting
    <3>4. /\ \A m : m \in DOMAIN y <=> (m \in DOMAIN z \/ m = Len(z) + 1)
          /\ \A m \in DOMAIN z : y[m] = z[m]
          /\ y[Len(z) + 1] = a /\ Len(z) + 1 \notin DOMAIN z
        BY ONLY <1>8, <1>9, <3>3
    <3>5. /\ \A m : m \in DOMAIN x <=> (m \in DOMAIN z \/ (m = Len(z) + 1 /\ o # <<>>))
          /\ \A m \in DOMAIN z : x[m] = z[m]
          /\ o # <<>> => x[Len(z) + 1] = o
      <4>1. CASE o = <<>>
        BY ONLY <1>8, <3>3, <4>1
      <4>2. CASE o # <<>>
        BY ONLY <1>8, <3>3, <4>2
      <4> QED
        BY <4>1, <4>2, Zenon
    <3>6. (k + 1 = q + (Len(z) + 1)) <=> k = K
        BY ONLY <1>9, <1>17, k \in Nat
    <3>7. o = <<>> => p \notin DOMAIN o
        BY <1>8
    <3>8. Waits(u, b, j, k, p) <=> b \notin s.poisoned /\ \E m \in DOMAIN y : k + 1 = q + m /\ p \in DOMAIN y[m] /\ y[m][p] = j
        BY <1>10, <1>16, <2>2, <2>4, <3>2, ZenonT(40) DEF Waits, WaitsIn
    <3>9. Waits(s, b, j, k, p) <=> b \notin s.poisoned /\ \E m \in DOMAIN x : k + 1 = q + m /\ p \in DOMAIN x[m] /\ x[m][p] = j
        BY <1>16, <3>1, Zenon DEF Waits, WaitsIn
    <3>10. (\E m \in DOMAIN y : k + 1 = q + m /\ p \in DOMAIN y[m] /\ y[m][p] = j)
             <=> \/ \E m \in DOMAIN z : k + 1 = q + m /\ p \in DOMAIN z[m] /\ z[m][p] = j
                 \/ k = K /\ p \in DOMAIN o /\ o[p] = j
                 \/ k = K /\ p = Len(o) + 1 /\ j = i
        BY ONLY <1>9, <3>4, <3>6, Zenon
    <3>11. (\E m \in DOMAIN x : k + 1 = q + m /\ p \in DOMAIN x[m] /\ x[m][p] = j)
             <=> \/ \E m \in DOMAIN z : k + 1 = q + m /\ p \in DOMAIN z[m] /\ z[m][p] = j
                 \/ k = K /\ p \in DOMAIN o /\ o[p] = j
        BY ONLY <3>5, <3>6, <3>7, Zenon
    <3> QED
        BY ONLY <2>1, <2>4, <3>8, <3>9, <3>10, <3>11, Zenon DEF At
  <2> QED
    BY <2>3, <2>4, Zenon
<1>19. ASSUME NEW c \in Buckets, NEW j \in Items, j # i, NEW k \in Nat, NEW p \in Nat
       PROVE  At(u, c, j, k, p) <=> At(s, c, j, k, p)
    BY <1>18, <1>19, Zenon
<1>20. ASSUME NEW m \in 1 .. t PROVE Held(u, acc[m])
  <2>1. Held(s, acc[m]) /\ acc[m] # i
    BY <1>2, <1>3, Zenon DEF HeldInv
  <2>2. acc[m] \in Items => Write[acc[m]].bucket \in Buckets
    BY UpsertAssumption, Zenon
  <2> QED
    BY <1>10, <1>19, <2>1, <2>2, Zenon DEF Held
<1>21. Held(u, i)
    BY <1>4, <1>17, <1>18, <1>10, ZenonT(40) DEF Held
<1>22. HeldInv(u, acc, t + 1)
    BY <1>3, <1>20, <1>21, Zenon DEF HeldInv
<1>23. ASSUME NEW m \in 1 .. t PROVE Ordered(u, acc[m], i)
  <2>1. SUFFICES ASSUME acc[m] \in Items, Write[acc[m]].bucket = b, u.result[acc[m]].err # "ctx",
                        NEW l \in Nat, NEW r \in Nat, At(u, b, i, l, r)
                 PROVE  \E k, p \in Nat : At(u, b, acc[m], k, p) /\ (k < l \/ (k = l /\ p < r))
    BY Zenon DEF Ordered, Before
  <2>2. b \notin s.poisoned /\ l = K /\ r = Len(o) + 1 /\ acc[m] # i
    <3>1. At(u, b, i, l, r) <=> \/ At(s, b, i, l, r)
                                \/ b = b /\ b \notin s.poisoned /\ i = i /\ l = K /\ r = Len(o) + 1
        BY <1>4, <1>18, Zenon
    <3> QED
        BY <1>3, <1>4, <2>1, <3>1, Zenon
  <2>3. PICK k, p \in Nat : At(s, b, acc[m], k, p)
    <3>1. Held(s, acc[m])
        BY <1>2, Zenon DEF HeldInv
    <3> QED
        BY <1>10, <2>1, <2>2, <3>1, Zenon DEF Held
  <2>4. k < K \/ (k = K /\ p < Len(o) + 1)
    <3>1. b \notin s.poisoned =>
             \/ k < nextSequence(s, b) + Len(s.pending[b])
             \/ k = nextSequence(s, b) + Len(s.pending[b]) /\ p < Len(s.batches[b]) + 1
        BY <1>4, <2>1, <2>3, InLine, Zenon
    <3>2. nextSequence(s, b) + Len(s.pending[b]) = K /\ s.batches[b] = o
        BY <1>5, <1>6, <1>15, Zenon
    <3> QED
        BY <2>2, <3>1, <3>2, Zenon
  <2> QED
    BY <1>4, <1>18, <2>1, <2>2, <2>3, <2>4, Zenon
<1>24. ASSUME NEW m \in 1 .. t, NEW n \in 1 .. t, m < n PROVE Ordered(u, acc[m], acc[n])
  <2>1. Ordered(s, acc[m], acc[n]) /\ acc[m] # i /\ acc[n] # i
    BY <1>2, <1>3, <1>24, Zenon DEF OrderInv
  <2>2. SUFFICES ASSUME acc[m] \in Items, acc[n] \in Items, Write[acc[m]].bucket = Write[acc[n]].bucket,
                        u.result[acc[m]].err # "ctx"
                 PROVE  Before(u, Write[acc[n]].bucket, acc[m], acc[n])
    BY Zenon DEF Ordered
  <2>3. Before(s, Write[acc[n]].bucket, acc[m], acc[n]) /\ Write[acc[n]].bucket \in Buckets
    BY <1>10, <2>1, <2>2, UpsertAssumption, Zenon DEF Ordered
  <2> QED
    BY <1>19, <2>1, <2>2, <2>3, BeforeSame, Zenon
<1>25. OrderInv(u, acc, t + 1)
  <2>1. t \in Nat
    BY <1>2, Zenon DEF LineInv, History
  <2>2. ASSUME NEW m \in 1 .. t + 1, NEW n \in 1 .. t + 1, m < n PROVE m \in 1 .. t
    BY ONLY <2>1, <2>2
  <2> QED
    BY <1>3, <1>23, <1>24, <2>2, Zenon DEF OrderInv
<1>26. FreshInv(u, acc, t + 1, F) /\ LogInv(u, lg) /\ AnswerInv(u, lg)
    BY <1>2, <1>3, <1>10, ZenonT(40) DEF FreshInv, LogInv, AnswerInv, Answered
<1> QED
    BY <1>1, <1>3, <1>11, <1>12, <1>14, <1>22, <1>25, <1>26, Zenon DEF LineInv

\* add: the open batch is closed if the mutation does not fit into it.
LEMMA AddKeeps ==
    ASSUME NEW s, NEW acc, NEW t, NEW F, NEW lg, LineInv(s, acc, t, F, lg),
           t + 1 <= Len(acc), NEW i \in Items, acc[t + 1] = i, NEW ctxDone \in BOOLEAN
    PROVE  LineInv(add(s, i, ctxDone), acc, t + 1, F, lg)
<1>1. PICK b : b = Write[i].bucket
    BY Zenon
<1>2. b \in Buckets
    BY <1>1, UpsertAssumption, Zenon
<1>3. CASE ctxDone
    BY <1>3, DropKeeps, Zenon DEF add
<1>4. CASE ~ctxDone
  <2>1. PICK c : c = compatibleBatch(s, i)
    BY Zenon
  <2>2. LineInv(c, acc, t, F, lg) /\ (c.batches[b] # <<>> => Write[Head(c.batches[b])].targets = Write[i].targets)
    <3>1. CASE s.batches[b] # <<>> /\ Write[Head(s.batches[b])].targets # Write[i].targets
      <4>1. c = flushBucket(s, b)
        BY <1>1, <2>1, <3>1, Zenon DEF compatibleBatch
      <4>2. LineInv(c, acc, t, F, lg) /\ c.batches = [s.batches EXCEPT ![b] = <<>>]
        BY <1>2, <4>1, FlushKeeps, Zenon
      <4>3. s.batches \in [Buckets -> Seq(Items)]
        BY Zenon DEF LineInv, Shape
      <4> QED
        BY <1>2, <4>2, <4>3, Zenon
    <3>2. CASE ~(s.batches[b] # <<>> /\ Write[Head(s.batches[b])].targets # Write[i].targets)
      <4>1. c = s
        BY <1>1, <2>1, <3>2, Zenon DEF compatibleBatch
      <4> QED
        BY <3>2, <4>1, Zenon
    <3> QED
        BY <3>1, <3>2, Zenon
  <2>3. PICK r : r = IF c.batches[b] # <<>> /\ batchFullWith(c.batches[b], i) THEN flushBucket(c, b) ELSE c
    BY Zenon
  <2>4. /\ LineInv(r, acc, t, F, lg)
        /\ r.batches[b] # <<>> => Write[Head(r.batches[b])].targets = Write[i].targets /\ ~batchFullWith(r.batches[b], i)
    <3>1. CASE c.batches[b] # <<>> /\ batchFullWith(c.batches[b], i)
      <4>1. LineInv(r, acc, t, F, lg) /\ r.batches = [c.batches EXCEPT ![b] = <<>>]
        BY <1>2, <2>2, <2>3, <3>1, FlushKeeps, Zenon
      <4>2. c.batches \in [Buckets -> Seq(Items)]
        BY <2>2, Zenon DEF LineInv, Shape
      <4> QED
        BY <1>2, <4>1, <4>2, Zenon
    <3>2. CASE ~(c.batches[b] # <<>> /\ batchFullWith(c.batches[b], i))
        BY <2>2, <2>3, <3>2, Zenon
    <3> QED
        BY <3>1, <3>2, Zenon
  <2>5. PICK a : a = [r EXCEPT !.batches[b] = Append(@, i)]
    BY Zenon
  <2>6. LineInv(a, acc, t + 1, F, lg)
    BY <1>1, <2>4, <2>5, PutKeeps, Zenon
  <2>7. add(s, i, ctxDone) = IF batchFull(a.batches[b]) \/ Immediate THEN flushBucket(a, b) ELSE [a EXCEPT !.timer = TRUE]
    BY <1>1, <1>4, <2>1, <2>3, <2>5, Zenon DEF add
  <2>8. LineInv(flushBucket(a, b), acc, t + 1, F, lg)
    BY <1>2, <2>6, FlushKeeps, Zenon
  <2>9. LineInv([a EXCEPT !.timer = TRUE], acc, t + 1, F, lg)
    <3>1. PICK v : v = [a EXCEPT !.timer = TRUE]
        BY Zenon
    <3>2. SamePlaces(a, v) /\ v.result = a.result
        BY <2>6, <3>1, Zenon DEF SamePlaces, LineInv, Shape, Fields
    <3> QED
        BY <2>6, <3>1, <3>2, IdleKeeps, Zenon
  <2> QED
    BY <2>7, <2>8, <2>9, Zenon
<1> QED
    BY <1>3, <1>4, Zenon

-----------------------------------------------------------------------------
(* handleCompletion *)

\* The end of a request takes its bucket out of active and the request out of
\* running.
Ended(s, e) ==
    [s EXCEPT !.active = @ \ {e.request.bucket}, !.inFlight = @ - 1, !.running = @ \ {e}]

\* Request q is the only one that was sent with sequence k of bucket b.
OnlySent(sent, b, k, q) == \A r \in sent : r.bucket = b /\ r.sequence = k => r = q

\* What is left of the requests when one has ended.
LEMMA EndedRequests ==
    ASSUME NEW s, Shape(s), RequestInv(s), NEW e \in s.running, NEW b, b = e.request.bucket
    PROVE  /\ b \in Buckets /\ b \in s.active /\ b \notin s.poisoned /\ e.request.sequence = s.sequences[b]
           /\ \A f \in s.running : f # e => f.request.bucket # b
           /\ OnlySent(s.sent, b, s.sequences[b], e.request)
           /\ \A r \in s.sent : r.bucket # b => \A f \in s.running : f.request = r => f # e
           /\ \A r \in s.sent : r.bucket = b => r.sequence <= s.sequences[b]
<1>1. b \in Buckets /\ b \in s.active /\ b \notin s.poisoned /\ e.request.sequence = s.sequences[b]
    BY Zenon DEF RequestInv, Executes, Idle, Shape, Requests
<1>2. \A f \in s.running : f # e => f.request.bucket # b
    BY Zenon DEF RequestInv, OnePerBucket
<1>3. ASSUME NEW r \in s.sent, r.bucket = b
      PROVE  /\ r.sequence <= s.sequences[b]
             /\ r.sequence = s.sequences[b] => r = e.request
  <2>1. r.sequence \in Nat /\ s.sequences[b] \in Nat
    BY <1>1, Zenon DEF Shape, Requests
  <2>2. r.sequence < s.sequences[b] \/ (r.sequence = s.sequences[b] /\ \E f \in s.running : f.request = r)
    <3>1. WasSent(r, s.sequences, s.poisoned, s.running)
        BY Zenon DEF RequestInv
    <3> QED
        BY <1>1, <1>3, <3>1, Zenon DEF WasSent
  <2>3. (\E f \in s.running : f.request = r) => r = e.request
    BY <1>2, <1>3, Zenon
  <2> QED
    BY ONLY <2>1, <2>2, <2>3
<1> QED
    BY <1>1, <1>2, <1>3, Zenon DEF OnlySent

\* A request that was acknowledged is behind the new sequence of its bucket.
LEMMA AckKeeps ==
    ASSUME NEW s, NEW acc, NEW t, NEW F, NEW lg, LineInv(s, acc, t, F, lg),
           NEW e \in s.running, e.status = "ok", NEW throttle
    PROVE  LineInv([Ended(s, e) EXCEPT !.sequences[e.request.bucket] = @ + 1, !.throttle = throttle], acc, t, F, lg)
<1>1. PICK b : b = e.request.bucket
    BY Zenon
<1>2. PICK u : u = [Ended(s, e) EXCEPT !.sequences[b] = @ + 1, !.throttle = throttle]
    BY Zenon
<1>3. Shape(s) /\ RequestInv(s) /\ BatchInv(s, acc, t)
    BY Zenon DEF LineInv
<1>4. /\ b \in Buckets /\ b \in s.active /\ b \notin s.poisoned /\ e.request.sequence = s.sequences[b]
      /\ \A f \in s.running : f # e => f.request.bucket # b
      /\ \A r \in s.sent : r.bucket # b => \A f \in s.running : f.request = r => f # e
      /\ \A r \in s.sent : r.bucket = b => r.sequence <= s.sequences[b]
    BY <1>1, <1>3, EndedRequests, Zenon
<1>5. e.request \in s.sent
    BY Zenon DEF LineInv, AnswerInv, Answered
<1>6. /\ DOMAIN u = Fields /\ u.active = s.active \ {b} /\ u.running = s.running \ {e}
      /\ u.sequences = [s.sequences EXCEPT ![b] = s.sequences[b] + 1]
      /\ u.batches = s.batches /\ u.pending = s.pending /\ u.poisoned = s.poisoned
      /\ u.sent = s.sent /\ u.result = s.result
  <2>1. PICK v : v = Ended(s, e)
    BY Zenon
  <2>2. /\ DOMAIN v = Fields /\ v.active = s.active \ {b} /\ v.running = s.running \ {e}
        /\ v.sequences = s.sequences
        /\ v.batches = s.batches /\ v.pending = s.pending /\ v.poisoned = s.poisoned
        /\ v.sent = s.sent /\ v.result = s.result
    BY <1>1, <1>3, <2>1, Zenon DEF Ended, Shape, Fields
  <2> QED
    BY <1>2, <2>1, <2>2, Zenon DEF Fields
<1>7. /\ s.sequences \in [Buckets -> Nat] /\ s.sequences[b] \in Nat /\ s.sequences[b] + 1 \in Nat
      /\ u.sequences[b] = s.sequences[b] + 1
      /\ \A c \in Buckets : c # b => u.sequences[c] = s.sequences[c]
  <2>1. s.sequences \in [Buckets -> Nat]
    BY <1>3, Zenon DEF Shape
  <2>2. s.sequences[b] \in Nat
    BY <1>4, <2>1, Zenon
  <2>3. s.sequences[b] + 1 \in Nat
    BY <2>2
  <2> QED
    BY <1>4, <1>6, <2>1, <2>2, <2>3, Zenon
<1>8. Shape(u)
  <2>1. u.sequences \in [Buckets -> Nat]
    BY <1>6, <1>7, Zenon
  <2> QED
    BY <1>3, <1>6, <2>1, Zenon DEF Shape
<1>9. RequestInv(u)
  <2>1. \A f \in u.running : f \in s.running /\ f.request.bucket # b /\ f.request.bucket \in Buckets
    BY <1>3, <1>4, <1>6, Zenon DEF Shape, Requests
  <2>2. ASSUME NEW f \in u.running PROVE Executes(f, u.active, u.sequences)
    <3>1. Executes(f, s.active, s.sequences)
        BY <1>3, <2>1, Zenon DEF RequestInv
    <3> QED
        BY <1>6, <1>7, <2>1, <3>1, Zenon DEF Executes
  <2>3. OnePerBucket(u.running)
    BY <1>3, <2>1, Zenon DEF RequestInv, OnePerBucket
  <2>4. Idle(u.poisoned, u.active, u.pending)
    BY <1>3, <1>6, Zenon DEF RequestInv, Idle
  <2>5. ASSUME NEW r \in s.sent PROVE WasSent(r, u.sequences, u.poisoned, u.running)
    <3>1. r.bucket \in Buckets /\ r.sequence \in Nat
        BY <1>3, Zenon DEF Shape, Requests
    <3>2. CASE r.bucket = b
      <4>1. PICK n : n = s.sequences[b]
        BY Zenon
      <4>2. r.sequence <= n /\ u.sequences[r.bucket] = n + 1 /\ n \in Nat
        BY <1>4, <1>7, <3>2, <4>1, Zenon
      <4>3. r.sequence < u.sequences[r.bucket]
        BY ONLY <3>1, <4>2
      <4> QED
        BY <4>3, Zenon DEF WasSent
    <3>3. CASE r.bucket # b
      <4>1. WasSent(r, s.sequences, s.poisoned, s.running)
        BY <1>3, Zenon DEF RequestInv
      <4>2. u.sequences[r.bucket] = s.sequences[r.bucket] /\ \A f \in s.running : f.request = r => f \in u.running
        BY <1>4, <1>6, <1>7, <3>1, <3>3, Zenon
      <4> QED
        BY <1>6, <4>1, <4>2, Zenon DEF WasSent
    <3> QED
        BY <3>2, <3>3, Zenon
  <2> QED
    BY <1>3, <1>6, <2>2, <2>3, <2>4, <2>5, Zenon DEF RequestInv
<1>10. requestsOf(u) = requestsOf(s)
    BY <1>5, <1>6, Zenon DEF requestsOf
<1>11. BatchInv(u, acc, t)
    BY <1>3, <1>6, <1>10, Zenon DEF BatchInv
<1>12. ASSUME NEW c \in Buckets, NEW i \in Items, NEW k \in Nat, NEW p \in Nat
       PROVE  At(u, c, i, k, p) <=> At(s, c, i, k, p)
  <2>1. Sent(u, c, i, k, p) <=> Sent(s, c, i, k, p)
    BY <1>10, Zenon DEF Sent
  <2>2. waiting(u, c) = waiting(s, c) /\ nextSequence(u, c) = nextSequence(s, c)
    BY <1>4, <1>6, <1>7, Zenon DEF waiting, nextSequence
  <2>3. Waits(u, c, i, k, p) <=> Waits(s, c, i, k, p)
    BY <1>6, <2>2, Zenon DEF Waits
  <2> QED
    BY <2>1, <2>3, Zenon DEF At
<1>13. /\ s.sent \subseteq u.sent /\ u.result = s.result /\ u.poisoned = s.poisoned
       /\ \A f \in u.running : f.status = "ok" => f \in s.running \/ Answered(u, f, lg)
    BY <1>6, Zenon
<1>14. LineInv(u, acc, t, F, lg)
    BY <1>8, <1>9, <1>11, <1>12, <1>13, Transfer, Zenon
<1> QED
    BY <1>1, <1>2, <1>14, Zenon

\* The offsets that completeKVBatch computes from the end of the changelog are those
\* of the mutations.
LEMMA AckReported ==
    ASSUME NEW s, NEW acc, NEW t, NEW F, NEW lg, LineInv(s, acc, t, F, lg),
           NEW e \in s.running, e.status = "ok", NEW n \in DOMAIN e.request.items, NEW i \in Items,
           e.request.items[n] = i
    PROVE  Reported(lg, i, IF e.end = -1 THEN -1 ELSE e.end - Len(e.request.items) + n - 1)
<1>1. PICK r : r = e.request
    BY Zenon
<1>2. PICK x : x = lg[r.bucket]
    BY Zenon
<1>3. PICK k : k = r.sequence + 1
    BY Zenon
<1>4. Shape(s) /\ RequestInv(s) /\ BatchInv(s, acc, t) /\ LogInv(s, lg) /\ Answered(s, e, lg)
    BY Zenon DEF LineInv, AnswerInv
<1>5. r \in Requests /\ r \in s.sent
    BY <1>1, <1>4, Zenon DEF Shape, Answered
<1>6. r.bucket \in Buckets /\ r.items \in Seq(Items) /\ r.sequence \in Nat
    BY <1>5, Zenon DEF Requests
<1>7. x \in Seq(Seq(Items)) /\ Spread(x)
    BY <1>2, <1>4, <1>6, Zenon DEF LogInv
<1>8. r.sequence < Len(x) /\ e.end \in {-1, endOf(x, r.sequence + 2)}
    BY <1>1, <1>2, <1>4, Zenon DEF Answered
<1>9. k \in DOMAIN x /\ k - 1 = r.sequence /\ r.sequence + 2 = k + 1
  <2>1. PICK q : q = r.sequence
    BY Zenon
  <2>2. k = q + 1 /\ q \in Nat /\ q < Len(x) /\ x \in Seq(Seq(Items))
    BY <1>3, <1>6, <1>7, <1>8, <2>1, Zenon
  <2>3. k \in DOMAIN x /\ k - 1 = q /\ q + 2 = k + 1
    BY ONLY <2>2
  <2> QED
    BY <2>1, <2>3, Zenon
<1>10. Request(r.bucket, x[k], r.sequence) \in s.sent
    BY <1>2, <1>4, <1>6, <1>9, Zenon DEF LogInv
<1>11. x[k] = r.items
  <2>1. /\ Request(r.bucket, x[k], r.sequence).bucket = r.bucket
        /\ Request(r.bucket, x[k], r.sequence).sequence = r.sequence
        /\ Request(r.bucket, x[k], r.sequence).items = x[k]
    BY Zenon DEF Request
  <2>2. SentOnce(s.sent)
    BY <1>4, Zenon DEF RequestInv
  <2> QED
    BY <1>5, <1>10, <2>1, <2>2, Zenon DEF SentOnce
<1>12. PICK c : c = mutationsIn(SubSeq(x, 1, k - 1))
    BY Zenon
<1>13. c \in Seq(Items) /\ mutationsIn(SubSeq(x, 1, (k + 1) - 1)) = c \o r.items
  <2>1. PICK y : y = SubSeq(x, 1, k - 1)
    BY Zenon
  <2>2. y \in Seq(Seq(Items)) /\ SubSeq(x, 1, (k + 1) - 1) = Append(y, x[k])
    BY ONLY <1>7, <1>9, <2>1, SMTT(30)
  <2>3. mutationsIn(y) \in Seq(Items)
    BY <2>2, JoinType, Zenon
  <2> QED
    BY <1>6, <1>11, <1>12, <2>1, <2>2, <2>3, MutationsInAppend, Zenon
<1>14. PICK o : o = entriesBefore(x, k, n)
    BY Zenon
<1>15. n \in 1 .. Len(r.items) /\ n \in DOMAIN x[k] /\ x[k][n] = i /\ Len(r.items) \in Nat
  <2>1. n \in DOMAIN r.items /\ DOMAIN r.items = 1 .. Len(r.items) /\ Len(r.items) \in Nat
    BY <1>1, <1>6
  <2> QED
    BY <1>1, <1>11, <2>1, Zenon
<1>16. ASSUME e.end # -1, \A q \in n .. Len(x[k]) : Write[x[k][q]].entries = 1
       PROVE  e.end - Len(r.items) + n - 1 = o
  <2>1. PICK d : d = e.end
    BY Zenon
  <2>2. PICK l : l = Len(r.items)
    BY Zenon
  <2>3. d = entriesOf(c \o r.items)
    BY <1>8, <1>9, <1>13, <1>16, <2>1, Zenon DEF endOf
  <2>4. o = entriesOf(c \o SubSeq(r.items, 1, n - 1))
    BY <1>11, <1>12, <1>14, Zenon DEF entriesBefore
  <2>5. o \in Nat /\ d = o + (l - (n - 1)) /\ l \in Nat /\ n \in Int
    <3>1. \A q \in n .. Len(r.items) : Write[r.items[q]].entries = 1
        BY <1>11, <1>16, Zenon
    <3>2. entriesOf(c \o SubSeq(r.items, 1, n - 1)) \in Nat
          /\ entriesOf(c \o r.items) = entriesOf(c \o SubSeq(r.items, 1, n - 1)) + (Len(r.items) - (n - 1))
        BY <1>6, <1>13, <1>15, <3>1, EntriesOfRest, Zenon
    <3>3. n \in Int
        BY <1>15
    <3> QED
        BY <1>15, <2>2, <2>3, <2>4, <3>2, <3>3, Zenon
  <2>6. d - l + n - 1 = o
    BY ONLY <2>5
  <2> QED
    BY <2>1, <2>2, <2>6, Zenon
<1>17. Write[i].bucket = r.bucket
  <2>1. r \in requestsOf(s)
    BY <1>5, Zenon DEF requestsOf
  <2> QED
    BY <1>1, <1>4, <2>1, Zenon DEF BatchInv, BatchOK
<1> QED
  <2>1. PICK v : v = IF e.end = -1 THEN -1 ELSE e.end - Len(e.request.items) + n - 1
    BY Zenon
  <2>2. OffsetOf(x, k, n, v)
    BY <1>1, <1>14, <1>16, <2>1, Zenon DEF OffsetOf
  <2> QED
    BY <1>2, <1>9, <1>15, <1>17, <2>1, <2>2, Zenon DEF Reported

\* A request that failed poisons its bucket: the line is cut off behind what was
\* sent, and nothing that was sent stands behind what was not.
LEMMA PoisonKeeps ==
    ASSUME NEW s, NEW acc, NEW t, NEW F, NEW lg, LineInv(s, acc, t, F, lg), NEW e \in s.running
    PROVE  LineInv([Ended(s, e) EXCEPT !.poisoned = @ \union {e.request.bucket}, !.pending[e.request.bucket] = <<>>],
                   acc, t, F, lg)
<1>1. PICK b : b = e.request.bucket
    BY Zenon
<1>2. PICK u : u = [Ended(s, e) EXCEPT !.poisoned = @ \union {b}, !.pending[b] = <<>>]
    BY Zenon
<1>3. /\ Shape(s) /\ RequestInv(s) /\ BatchInv(s, acc, t) /\ OrderInv(s, acc, t) /\ HeldInv(s, acc, t)
      /\ FreshInv(s, acc, t, F) /\ History(acc, t, F) /\ LogInv(s, lg) /\ AnswerInv(s, lg)
    BY Zenon DEF LineInv
<1>4. /\ b \in Buckets /\ b \in s.active /\ b \notin s.poisoned /\ e.request.sequence = s.sequences[b]
      /\ \A f \in s.running : f # e => f.request.bucket # b
      /\ OnlySent(s.sent, b, s.sequences[b], e.request)
      /\ \A r \in s.sent : r.bucket # b => \A f \in s.running : f.request = r => f # e
      /\ \A r \in s.sent : r.bucket = b => r.sequence <= s.sequences[b]
    BY <1>1, <1>3, EndedRequests, ZenonT(40)
<1>5. /\ DOMAIN u = Fields /\ u.active = s.active \ {b} /\ u.running = s.running \ {e}
      /\ u.pending = [s.pending EXCEPT ![b] = <<>>] /\ u.poisoned = s.poisoned \union {b}
      /\ u.batches = s.batches /\ u.sequences = s.sequences
      /\ u.sent = s.sent /\ u.result = s.result
  <2>1. PICK v : v = Ended(s, e)
    BY Zenon
  <2>2. /\ DOMAIN v = Fields /\ v.active = s.active \ {b} /\ v.running = s.running \ {e}
        /\ v.sequences = s.sequences
        /\ v.batches = s.batches /\ v.pending = s.pending /\ v.poisoned = s.poisoned
        /\ v.sent = s.sent /\ v.result = s.result
    BY <1>1, <1>3, <2>1, Zenon DEF Ended, Shape, Fields
  <2> QED
    BY <1>2, <2>1, <2>2, Zenon DEF Fields
<1>6. /\ s.pending \in [Buckets -> Seq(Seq(Items))] /\ u.pending[b] = <<>>
      /\ \A c \in Buckets : c # b => u.pending[c] = s.pending[c]
      /\ u.pending \in [Buckets -> Seq(Seq(Items))] /\ s.sequences[b] \in Nat
  <2>1. <<>> \in Seq(Seq(Items))
    OBVIOUS
  <2>2. s.pending \in [Buckets -> Seq(Seq(Items))] /\ s.sequences[b] \in Nat
    BY <1>3, <1>4, Zenon DEF Shape
  <2>3. u.pending[b] = <<>> /\ \A c \in Buckets : c # b => u.pending[c] = s.pending[c]
    BY <1>4, <1>5, <2>2, Zenon
  <2>4. u.pending \in [Buckets -> Seq(Seq(Items))]
    BY <1>4, <1>5, <2>1, <2>2, Zenon
  <2> QED
    BY <2>2, <2>3, <2>4, Zenon
<1>7. Shape(u)
    BY <1>3, <1>4, <1>5, <1>6, Zenon DEF Shape
<1>8. RequestInv(u)
  <2>1. \A f \in u.running : f \in s.running /\ f.request.bucket # b
    BY <1>4, <1>5, Zenon
  <2>2. ASSUME NEW f \in u.running PROVE Executes(f, u.active, u.sequences)
    <3>1. Executes(f, s.active, s.sequences)
        BY <1>3, <2>1, Zenon DEF RequestInv
    <3> QED
        BY <1>5, <2>1, <3>1, Zenon DEF Executes
  <2>3. OnePerBucket(u.running)
    BY <1>3, <2>1, Zenon DEF RequestInv, OnePerBucket
  <2>4. ASSUME NEW c \in u.poisoned PROVE c \notin u.active /\ u.pending[c] = <<>>
    <3>1. CASE c = b
        BY <1>5, <1>6, <3>1, Zenon
    <3>2. CASE c # b
      <4>1. c \in s.poisoned /\ c \in Buckets
        BY <1>3, <1>5, <3>2, Zenon DEF Shape
      <4> QED
        BY <1>3, <1>5, <1>6, <3>2, <4>1, Zenon DEF RequestInv, Idle
    <3> QED
        BY <3>1, <3>2, Zenon
  <2>5. ASSUME NEW r \in s.sent PROVE WasSent(r, u.sequences, u.poisoned, u.running)
    <3>1. WasSent(r, s.sequences, s.poisoned, s.running)
        BY <1>3, Zenon DEF RequestInv
    <3>2. r.bucket = b => r.bucket \in u.poisoned
        BY <1>5, Zenon
    <3>3. r.bucket # b => \A f \in s.running : f.request = r => f \in u.running
        BY <1>4, <1>5, Zenon
    <3> QED
        BY <1>5, <3>1, <3>2, <3>3, Zenon DEF WasSent
  <2> QED
    BY <1>3, <1>5, <2>2, <2>3, <2>4, <2>5, Zenon DEF RequestInv, Idle
<1>9. \A r \in requestsOf(u) : r \in requestsOf(s)
    BY <1>5, Zenon DEF requestsOf
<1>10. BatchInv(u, acc, t)
  <2>1. ASSUME NEW c \in Buckets PROVE BatchesOK(acc, t, c, u.pending[c])
    <3>1. DOMAIN <<>> = {}
        OBVIOUS
    <3>2. CASE c = b
        BY <1>6, <3>1, <3>2, Zenon DEF BatchesOK
    <3>3. CASE c # b
        BY <1>3, <1>6, <3>3, Zenon DEF BatchInv
    <3> QED
        BY <3>2, <3>3, Zenon
  <2> QED
    BY <1>3, <1>5, <1>9, <2>1, Zenon DEF BatchInv
<1>11. ASSUME NEW c \in Buckets, NEW i \in Items, NEW k \in Nat, NEW p \in Nat, c # b
       PROVE  At(u, c, i, k, p) <=> At(s, c, i, k, p)
  <2>1. Sent(u, c, i, k, p) <=> Sent(s, c, i, k, p)
    <3>1. ASSUME NEW r, r.bucket = c PROVE r \in requestsOf(s) => r \in requestsOf(u)
        BY <1>1, <1>5, <1>11, <3>1, Zenon DEF requestsOf
    <3> QED
        BY <1>9, <3>1, Zenon DEF Sent, SentIn
  <2>2. waiting(u, c) = waiting(s, c) /\ nextSequence(u, c) = nextSequence(s, c)
    BY <1>5, <1>6, <1>11, Zenon DEF waiting, nextSequence
  <2>3. Waits(u, c, i, k, p) <=> Waits(s, c, i, k, p)
    BY <1>5, <1>11, <2>2, Zenon DEF Waits
  <2> QED
    BY <2>1, <2>3, Zenon DEF At
<1>12. ASSUME NEW i \in Items, NEW l \in Nat, NEW q \in Nat, At(u, b, i, l, q)
       PROVE  /\ At(s, b, i, l, q) /\ l <= s.sequences[b]
              /\ l = s.sequences[b] => e.request \in s.sent
  <2>1. Sent(u, b, i, l, q)
    BY <1>5, <1>12, Zenon DEF At, Waits
  <2>2. PICK r \in requestsOf(u) : r.bucket = b /\ r.sequence = l /\ q \in DOMAIN r.items /\ r.items[q] = i
    BY <2>1, Zenon DEF Sent, SentIn
  <2>3. r \in s.sent
    BY <1>4, <1>5, <2>2, Zenon DEF requestsOf
  <2>4. Sent(s, b, i, l, q)
    BY <1>9, <2>2, Zenon DEF Sent, SentIn
  <2> QED
    BY <1>4, <2>2, <2>3, <2>4, Zenon DEF At, OnlySent
<1>13. ASSUME NEW i \in Items, NEW k \in Nat, NEW p \in Nat, At(s, b, i, k, p),
              k < s.sequences[b] \/ (k = s.sequences[b] /\ e.request \in s.sent)
       PROVE  At(u, b, i, k, p)
  <2>1. ~Waits(s, b, i, k, p)
    <3>1. SUFFICES ASSUME Waits(s, b, i, k, p) PROVE FALSE
        BY Zenon
    <3>2. PICK x : x = waiting(s, b)
        BY Zenon
    <3>3. PICK m \in DOMAIN x : k + 1 = (s.sequences[b] + 1) + m
        BY <1>4, <3>1, <3>2, Zenon DEF Waits, WaitsIn, nextSequence
    <3>4. x \in Seq(Seq(Items))
      <4>1. s.pending[b] \in Seq(Seq(Items)) /\ s.batches[b] \in Seq(Items)
        BY <1>3, <1>4, Zenon DEF Shape
      <4> QED
        BY <3>2, <4>1 DEF waiting
    <3>5. m \in Nat /\ m >= 1
        BY ONLY <3>3, <3>4
    <3> QED
        BY ONLY <1>6, <1>13, <3>3, <3>5
  <2>2. PICK r \in requestsOf(s) : r.bucket = b /\ r.sequence = k /\ p \in DOMAIN r.items /\ r.items[p] = i
    BY <1>13, <2>1, Zenon DEF At, Sent, SentIn
  <2>3. r \in s.sent
    <3>1. CASE r \in s.sent
        BY <3>1
    <3>2. CASE r \notin s.sent
      <4>1. PICK f \in s.running : f.request = r
        BY <2>2, <3>2, Zenon DEF requestsOf
      <4>2. f = e
        BY <1>4, <2>2, <4>1, Zenon
      <4>3. k = s.sequences[b]
        BY <1>4, <2>2, <4>1, <4>2, Zenon
      <4>4. ~(k < s.sequences[b])
        BY <1>6, <4>3
      <4> QED
        BY <1>13, <4>1, <4>2, <4>4, Zenon
    <3> QED
        BY <3>1, <3>2, Zenon
  <2>4. Sent(u, b, i, k, p)
    BY <1>5, <2>2, <2>3, Zenon DEF Sent, SentIn, requestsOf
  <2> QED
    BY <2>4, Zenon DEF At
<1>14. ASSUME NEW i \in Items, NEW j \in Items, Before(s, b, i, j) PROVE Before(u, b, i, j)
  <2>1. SUFFICES ASSUME NEW l \in Nat, NEW q \in Nat, At(u, b, j, l, q)
                 PROVE  \E k, p \in Nat : At(u, b, i, k, p) /\ (k < l \/ (k = l /\ p < q))
    BY Zenon DEF Before
  <2>2. At(s, b, j, l, q) /\ l <= s.sequences[b] /\ (l = s.sequences[b] => e.request \in s.sent)
    BY <1>12, <2>1, Zenon
  <2>3. PICK k, p \in Nat : At(s, b, i, k, p) /\ (k < l \/ (k = l /\ p < q))
    BY <1>14, <2>2, Zenon DEF Before
  <2>4. PICK n : n = s.sequences[b]
    BY Zenon
  <2>5. n \in Nat /\ l <= n /\ k <= l
    BY ONLY <1>6, <2>2, <2>3, <2>4, l \in Nat
  <2>6. k < n \/ (k = n /\ l = n)
    BY ONLY <2>5, k \in Nat, l \in Nat
  <2>7. At(u, b, i, k, p)
    BY <1>13, <2>2, <2>3, <2>4, <2>6, Zenon
  <2> QED
    BY <2>3, <2>7, Zenon
<1>15. OrderInv(u, acc, t)
  <2>1. ASSUME NEW m \in 1 .. t, NEW n \in 1 .. t, m < n PROVE Ordered(u, acc[m], acc[n])
    <3>1. Ordered(s, acc[m], acc[n])
        BY <1>3, <2>1, Zenon DEF OrderInv
    <3>2. SUFFICES ASSUME acc[m] \in Items, acc[n] \in Items, Write[acc[m]].bucket = Write[acc[n]].bucket,
                          u.result[acc[m]].err # "ctx"
                   PROVE  Before(u, Write[acc[n]].bucket, acc[m], acc[n])
        BY Zenon DEF Ordered
    <3>3. Before(s, Write[acc[n]].bucket, acc[m], acc[n]) /\ Write[acc[n]].bucket \in Buckets
        BY <1>5, <3>1, <3>2, UpsertAssumption, Zenon DEF Ordered
    <3>4. CASE Write[acc[n]].bucket = b
        BY <1>14, <3>2, <3>3, <3>4, Zenon
    <3>5. CASE Write[acc[n]].bucket # b
        BY <1>11, <3>2, <3>3, <3>5, BeforeSame, Zenon
    <3> QED
        BY <3>4, <3>5, Zenon
  <2> QED
    BY <2>1, Zenon DEF OrderInv
<1>16. HeldInv(u, acc, t)
  <2>1. ASSUME NEW m \in 1 .. t PROVE Held(u, acc[m])
    <3>1. Held(s, acc[m])
        BY <1>3, Zenon DEF HeldInv
    <3>2. SUFFICES ASSUME acc[m] \in Items, Write[acc[m]].bucket \notin u.poisoned, u.result[acc[m]].err # "ctx"
                   PROVE  \E k, p \in Nat : At(u, Write[acc[m]].bucket, acc[m], k, p)
        BY Zenon DEF Held
    <3>3. Write[acc[m]].bucket \in Buckets /\ Write[acc[m]].bucket # b /\ Write[acc[m]].bucket \notin s.poisoned
        BY <1>5, <3>2, UpsertAssumption, Zenon
    <3>4. PICK k, p \in Nat : At(s, Write[acc[m]].bucket, acc[m], k, p)
        BY <1>5, <3>1, <3>2, <3>3, Zenon DEF Held
    <3> QED
        BY <1>11, <3>2, <3>3, <3>4, Zenon
  <2> QED
    BY <2>1, Zenon DEF HeldInv
<1>17. FreshInv(u, acc, t, F) /\ LogInv(u, lg) /\ AnswerInv(u, lg)
    BY <1>3, <1>5, Zenon DEF FreshInv, LogInv, AnswerInv, Answered
<1> QED
    BY <1>1, <1>2, <1>3, <1>7, <1>8, <1>10, <1>15, <1>16, <1>17, Zenon DEF LineInv

\* handleCompletion: acknowledge or poison, then start what waits.
LEMMA CompletionKeeps ==
    ASSUME NEW s, NEW acc, NEW t, NEW F, NEW lg, LineInv(s, acc, t, F, lg),
           NEW e \in s.running, e.status \in {"ok", "err"}
    PROVE  LineInv(handleCompletion(s, e), acc, t, F, lg)
<1>1. PICK b : b = e.request.bucket
    BY Zenon
<1>2. PICK x : x = e.request.items
    BY Zenon
<1>3. Shape(s) /\ RequestInv(s) /\ BatchInv(s, acc, t)
    BY Zenon DEF LineInv
<1>4. b \in Buckets /\ e.request \in requestsOf(s)
    BY <1>1, <1>3, Zenon DEF requestsOf, Shape, Requests
<1>5. \A i \in Range(x) : Taken(acc, t, i)
  <2>1. BatchOK(acc, t, e.request.bucket, x)
    BY <1>2, <1>3, <1>4, Zenon DEF BatchInv
  <2> QED
    BY <2>1, Zenon DEF BatchOK, Range
<1>6. CASE e.status = "ok"
  <2>1. PICK u : u = [Ended(s, e) EXCEPT !.sequences[b] = @ + 1, !.throttle = throttled(s, e, b)]
    BY Zenon
  <2>2. LineInv(u, acc, t, F, lg)
    BY <1>1, <1>6, <2>1, AckKeeps, Zenon
  <2>3. PICK res : res = [i \in Range(x) |-> [err |-> "nil", offset |->
            IF e.end = -1 THEN -1 ELSE e.end - Len(x) + (CHOOSE n \in DOMAIN x : x[n] = i) - 1]]
    BY Zenon
  <2>4. ASSUME NEW i \in Range(x) \cap Items PROVE Reported(lg, i, res[i].offset)
    <3>1. PICK n : n = CHOOSE j \in DOMAIN x : x[j] = i
        BY Zenon
    <3>2. n \in DOMAIN x /\ x[n] = i
        BY <3>1, Zenon DEF Range
    <3>3. Reported(lg, i, IF e.end = -1 THEN -1 ELSE e.end - Len(x) + n - 1)
        BY <1>2, <1>6, <3>2, AckReported, Zenon
    <3>4. res[i].offset = IF e.end = -1 THEN -1 ELSE e.end - Len(x) + n - 1
        BY ONLY <2>3, <3>1, i \in Range(x)
    <3> QED
        BY <3>3, <3>4, Zenon
  <2>5. LineInv(complete(u, Range(x), res), acc, t, F, lg)
    BY <1>5, <2>2, <2>4, CompleteKeeps, Zenon DEF Settled
  <2>6. handleCompletion(s, e) = dispatch(complete(u, Range(x), res))
    <3>1. "ok" # "err"
        OBVIOUS
    <3> QED
        BY <1>1, <1>2, <1>6, <2>1, <2>3, <3>1, Zenon DEF handleCompletion, acknowledge, Ended
  <2> QED
    BY <2>5, <2>6, DispatchKeeps, Zenon
<1>7. CASE e.status = "err"
  <2>1. PICK u : u = [Ended(s, e) EXCEPT !.poisoned = @ \union {b}, !.pending[b] = <<>>]
    BY Zenon
  <2>2. LineInv(u, acc, t, F, lg)
    BY <1>1, <2>1, PoisonKeeps, Zenon
  <2>3. PICK v : v = fail(u, Range(x), "failed")
    BY Zenon
  <2>4. "failed" # "nil" /\ "poisoned" # "nil"
    OBVIOUS
  <2>5. LineInv(v, acc, t, F, lg)
    BY <1>5, <2>2, <2>3, <2>4, FailKeeps, Zenon DEF Settled
  <2>6. PICK pending : pending = UNION {Range(batch) : batch \in Range(s.pending[b])}
    BY Zenon
  <2>7. \A i \in pending \cap Items : Taken(acc, t, i)
    <3>1. BatchesOK(acc, t, b, s.pending[b])
        BY <1>3, <1>4, Zenon DEF BatchInv
    <3>2. ASSUME NEW i \in pending PROVE Taken(acc, t, i)
      <4>1. PICK batch \in Range(s.pending[b]) : i \in Range(batch)
        BY <2>6, Zenon
      <4>2. PICK m \in DOMAIN s.pending[b] : s.pending[b][m] = batch
        BY Zenon DEF Range
      <4>3. BatchOK(acc, t, b, batch)
        BY <3>1, <4>2, Zenon DEF BatchesOK
      <4> QED
        BY <4>1, <4>3, Zenon DEF BatchOK, Range
    <3> QED
        BY <3>2, Zenon
  <2>8. LineInv(fail(v, pending, "poisoned"), acc, t, F, lg)
    BY <2>4, <2>5, <2>7, FailKeeps, Zenon DEF Settled
  <2>9. Ended(s, e).pending = s.pending
    BY <1>3, Zenon DEF Ended, Shape, Fields
  <2>10. handleCompletion(s, e) = dispatch(fail(v, pending, "poisoned"))
    BY <1>1, <1>2, <1>7, <2>1, <2>3, <2>6, <2>9, Zenon DEF handleCompletion, failedBatch, Ended
  <2> QED
    BY <2>8, <2>10, DispatchKeeps, Zenon
<1> QED
    BY <1>6, <1>7, Zenon

-----------------------------------------------------------------------------
(* executeBatch and the server *)

\* A goroutine that goes on with its request, answered only if the server appended
\* the batch.
LEMMA BecomesKeeps ==
    ASSUME NEW s, NEW acc, NEW t, NEW F, NEW lg, LineInv(s, acc, t, F, lg),
           NEW e \in s.running, NEW f, DOMAIN f = {"request", "end", "pressure", "status"},
           f.request = e.request, f.status = "ok" => Answered(s, f, lg), f.end = -1 \/ f.status = "ok"
    PROVE  LineInv([s EXCEPT !.running = (@ \ {e}) \union {f}], acc, t, F, lg)
<1>1. PICK u : u = [s EXCEPT !.running = (@ \ {e}) \union {f}]
    BY Zenon
<1>2. Shape(s) /\ RequestInv(s) /\ BatchInv(s, acc, t)
    BY Zenon DEF LineInv
<1>3. /\ DOMAIN u = Fields /\ u.running = (s.running \ {e}) \union {f}
      /\ u.batches = s.batches /\ u.pending = s.pending /\ u.sequences = s.sequences
      /\ u.active = s.active /\ u.poisoned = s.poisoned /\ u.sent = s.sent /\ u.result = s.result
    BY <1>1, <1>2, Zenon DEF Shape, Fields
<1>4. \A g \in u.running : \E h \in s.running : g.request = h.request /\ (g = f => h = e) /\ (g # f => h = g /\ h # e)
    BY <1>3, Zenon
<1>5. Shape(u)
    BY <1>2, <1>3, Zenon DEF Shape
<1>6. \A g \in s.running : \E h \in u.running : h.request = g.request
    BY <1>3, Zenon
<1>7. RequestInv(u)
  <2>1. ASSUME NEW g \in u.running, NEW h \in u.running, g.request.bucket = h.request.bucket PROVE g = h
    <3>1. PICK i \in s.running : g.request = i.request /\ (g = f => i = e) /\ (g # f => i = g /\ i # e)
        BY <1>4, Zenon
    <3>2. PICK j \in s.running : h.request = j.request /\ (h = f => j = e) /\ (h # f => j = h /\ j # e)
        BY <1>4, Zenon
    <3>3. i = j
        BY <1>2, <2>1, <3>1, <3>2, Zenon DEF RequestInv, OnePerBucket
    <3> QED
        BY <3>1, <3>2, <3>3, Zenon
  <2>2. ASSUME NEW g \in u.running PROVE Executes(g, s.active, s.sequences)
    <3>1. PICK h \in s.running : g.request = h.request
        BY <1>4, Zenon
    <3>2. Executes(h, s.active, s.sequences)
        BY <1>2, Zenon DEF RequestInv
    <3> QED
        BY <3>1, <3>2, Zenon DEF Executes
  <2>3. ASSUME NEW r \in s.sent PROVE WasSent(r, s.sequences, s.poisoned, u.running)
    <3>1. WasSent(r, s.sequences, s.poisoned, s.running)
        BY <1>2, Zenon DEF RequestInv
    <3>2. (\E g \in s.running : g.request = r) => \E g \in u.running : g.request = r
        BY <1>6, Zenon
    <3> QED
        BY <3>1, <3>2, Zenon DEF WasSent
  <2> QED
    BY <1>2, <1>3, <2>1, <2>2, <2>3, Zenon DEF RequestInv, OnePerBucket
<1>8. requestsOf(u) = requestsOf(s)
  <2>1. ASSUME NEW g \in u.running PROVE g.request \in requestsOf(s)
    <3>1. PICK h \in s.running : g.request = h.request
        BY <1>4, Zenon
    <3> QED
        BY <3>1, Zenon DEF requestsOf
  <2>2. ASSUME NEW g \in s.running PROVE g.request \in requestsOf(u)
    <3>1. PICK h \in u.running : h.request = g.request
        BY <1>6, Zenon
    <3>2. h.request \in requestsOf(u)
        BY Zenon DEF requestsOf
    <3> QED
        BY <3>1, <3>2, Zenon
  <2>3. \A r : r \in requestsOf(u) <=> r \in requestsOf(s)
    BY <1>3, <2>1, <2>2 DEF requestsOf
  <2> QED
    BY <2>3, Zenon
<1>9. BatchInv(u, acc, t)
    BY <1>2, <1>3, <1>8, Zenon DEF BatchInv
<1>10. ASSUME NEW c \in Buckets, NEW i \in Items, NEW k \in Nat, NEW p \in Nat
       PROVE  At(u, c, i, k, p) <=> At(s, c, i, k, p)
  <2>1. Sent(u, c, i, k, p) <=> Sent(s, c, i, k, p)
    BY <1>8, Zenon DEF Sent
  <2>2. waiting(u, c) = waiting(s, c) /\ nextSequence(u, c) = nextSequence(s, c)
    BY <1>3, Zenon DEF waiting, nextSequence
  <2>3. Waits(u, c, i, k, p) <=> Waits(s, c, i, k, p)
    BY <1>3, <2>2, Zenon DEF Waits
  <2> QED
    BY <2>1, <2>3, Zenon DEF At
<1>11. /\ s.sent \subseteq u.sent /\ u.result = s.result /\ u.poisoned = s.poisoned
       /\ \A g \in u.running : g.status = "ok" => g \in s.running \/ Answered(u, g, lg)
    BY <1>3, Zenon DEF Answered
<1>12. LineInv(u, acc, t, F, lg)
    BY <1>5, <1>7, <1>9, <1>10, <1>11, Transfer, Zenon
<1> QED
    BY <1>1, <1>12, Zenon

\* Sending a request makes the place of its mutations final.
LEMMA SendRequestKeeps ==
    ASSUME NEW s, NEW acc, NEW t, NEW F, NEW lg, LineInv(s, acc, t, F, lg), NEW e \in s.running
    PROVE  LineInv([s EXCEPT !.sent = @ \union {e.request}], acc, t, F, lg)
<1>1. PICK u : u = [s EXCEPT !.sent = @ \union {e.request}]
    BY Zenon
<1>2. Shape(s) /\ RequestInv(s) /\ BatchInv(s, acc, t)
    BY Zenon DEF LineInv
<1>3. /\ DOMAIN u = Fields /\ u.sent = s.sent \union {e.request}
      /\ u.batches = s.batches /\ u.pending = s.pending /\ u.sequences = s.sequences
      /\ u.active = s.active /\ u.poisoned = s.poisoned /\ u.running = s.running /\ u.result = s.result
    BY <1>1, <1>2, Zenon DEF Shape, Fields
<1>4. Shape(u)
    BY <1>2, <1>3, Zenon DEF Shape
<1>5. RequestInv(u)
  <2>1. \A r \in s.sent : r.bucket = e.request.bucket /\ r.sequence = e.request.sequence => r = e.request
    <3>1. PICK b : b = e.request.bucket
        BY Zenon
    <3>2. e.request.sequence = s.sequences[b] /\ OnlySent(s.sent, b, s.sequences[b], e.request)
        BY <1>2, <3>1, EndedRequests, Zenon
    <3> QED
        BY <3>1, <3>2, Zenon DEF OnlySent
  <2>2. SentOnce(u.sent)
    <3>1. SentOnce(s.sent)
        BY <1>2, Zenon DEF RequestInv
    <3> QED
        BY <1>3, <2>1, <3>1, Zenon DEF SentOnce
  <2>3. WasSent(e.request, s.sequences, s.poisoned, s.running)
    <3>1. Executes(e, s.active, s.sequences)
        BY <1>2, Zenon DEF RequestInv
    <3> QED
        BY <3>1, Zenon DEF Executes, WasSent
  <2>4. ASSUME NEW r \in u.sent PROVE WasSent(r, s.sequences, s.poisoned, s.running)
    <3>1. r \in s.sent \/ r = e.request
        BY <1>3, Zenon
    <3> QED
        BY <1>2, <2>3, <3>1, Zenon DEF RequestInv
  <2> QED
    BY <1>2, <1>3, <2>2, <2>4, Zenon DEF RequestInv
<1>6. requestsOf(u) = requestsOf(s)
    BY <1>3, Zenon DEF requestsOf
<1>7. BatchInv(u, acc, t)
    BY <1>2, <1>3, <1>6, Zenon DEF BatchInv
<1>8. ASSUME NEW c \in Buckets, NEW i \in Items, NEW k \in Nat, NEW p \in Nat
      PROVE  At(u, c, i, k, p) <=> At(s, c, i, k, p)
  <2>1. Sent(u, c, i, k, p) <=> Sent(s, c, i, k, p)
    BY <1>6, Zenon DEF Sent
  <2>2. waiting(u, c) = waiting(s, c) /\ nextSequence(u, c) = nextSequence(s, c)
    BY <1>3, Zenon DEF waiting, nextSequence
  <2>3. Waits(u, c, i, k, p) <=> Waits(s, c, i, k, p)
    BY <1>3, <2>2, Zenon DEF Waits
  <2> QED
    BY <2>1, <2>3, Zenon DEF At
<1>9. /\ s.sent \subseteq u.sent /\ u.result = s.result /\ u.poisoned = s.poisoned
      /\ \A g \in u.running : g.status = "ok" => g \in s.running \/ Answered(u, g, lg)
    BY <1>3, Zenon
<1>10. LineInv(u, acc, t, F, lg)
    BY <1>4, <1>5, <1>7, <1>8, <1>9, Transfer, Zenon
<1> QED
    BY <1>1, <1>10, Zenon

\* The server appends the batch with the sequence it expects.
LEMMA ApplyKeeps ==
    ASSUME NEW s, NEW acc, NEW t, NEW F, NEW lg, LineInv(s, acc, t, F, lg),
           NEW r \in s.sent, r.sequence = Len(lg[r.bucket])
    PROVE  LineInv(s, acc, t, F, [lg EXCEPT ![r.bucket] = Append(@, r.items)])
<1>1. PICK b : b = r.bucket
    BY Zenon
<1>2. PICK x : x = lg[b]
    BY Zenon
<1>3. PICK y : y = Append(x, r.items)
    BY Zenon
<1>4. PICK new : new = [lg EXCEPT ![b] = y]
    BY Zenon
<1>5. Shape(s) /\ LogInv(s, lg) /\ AnswerInv(s, lg)
    BY Zenon DEF LineInv
<1>6. r \in Requests /\ b \in Buckets /\ r.items \in Seq(Items) /\ r.sequence \in Nat /\ r.sequence = Len(x)
    BY <1>1, <1>2, <1>5, Zenon DEF Shape, Requests
<1>7. lg \in [Buckets -> Seq(Seq(Items))] /\ x \in Seq(Seq(Items)) /\ Spread(x)
    BY <1>2, <1>5, <1>6, Zenon DEF LogInv
<1>8. /\ y \in Seq(Seq(Items)) /\ Len(y) = Len(x) + 1 /\ Len(x) \in Nat
      /\ \A k \in DOMAIN y : (k \in DOMAIN x /\ y[k] = x[k]) \/ (k = Len(x) + 1 /\ y[k] = r.items)
    BY ONLY <1>3, <1>6, <1>7
<1>9. /\ new \in [Buckets -> Seq(Seq(Items))] /\ new[b] = y
      /\ \A c \in Buckets : c # b => new[c] = lg[c]
    BY <1>4, <1>6, <1>7, <1>8, Zenon
<1>10. /\ Spread(y)
       /\ \A k \in 1 .. Len(x) + 1 : SubSeq(y, 1, k - 1) = SubSeq(x, 1, k - 1)
       /\ \A k \in DOMAIN x : k \in DOMAIN y /\ y[k] = x[k] /\ k \in 1 .. Len(x) + 1
  <2>1. /\ \A k \in 1 .. Len(x) + 1 : SubSeq(y, 1, k - 1) = SubSeq(x, 1, k - 1)
        /\ \A k \in DOMAIN x : k \in DOMAIN y /\ y[k] = x[k] /\ k \in 1 .. Len(x) + 1
    BY ONLY <1>3, <1>6, <1>7, SMTT(30)
  <2> QED
    BY <1>3, <1>6, <1>7, <2>1, SpreadAppend, Zenon
<1>11. Request(b, r.items, (Len(x) + 1) - 1) = r
  <2>1. (Len(x) + 1) - 1 = r.sequence
    BY <1>6, <1>8
  <2> QED
    BY <1>1, <1>6, <2>1, Zenon DEF Request, Requests
<1>12. LogInv(s, new)
  <2>1. \A k \in DOMAIN y : Request(b, y[k], k - 1) \in s.sent
    BY <1>2, <1>5, <1>6, <1>8, <1>11, Zenon DEF LogInv
  <2> QED
    BY <1>5, <1>9, <1>10, <2>1, Zenon DEF LogInv
<1>13. AnswerInv(s, new)
  <2>1. ASSUME NEW e \in s.running, e.status = "ok" PROVE Answered(s, e, new)
    <3>1. Answered(s, e, lg) /\ e.request \in Requests
        BY <1>5, <2>1, Zenon DEF AnswerInv, Shape
    <3>2. CASE e.request.bucket = b
      <4>1. e.request \in s.sent /\ e.request.sequence < Len(x) /\ e.end \in {-1, endOf(x, e.request.sequence + 2)}
        BY <1>2, <3>1, <3>2, Zenon DEF Answered
      <4>2. e.request.sequence \in Nat
        BY <3>1, Zenon DEF Requests
      <4>3. e.request.sequence < Len(y) /\ e.request.sequence + 2 \in 1 .. Len(x) + 1
        BY ONLY <1>8, <4>1, <4>2
      <4>4. endOf(y, e.request.sequence + 2) = endOf(x, e.request.sequence + 2)
        BY <1>10, <4>3, Zenon DEF endOf
      <4> QED
        BY <1>9, <3>2, <4>1, <4>3, <4>4, Zenon DEF Answered
    <3>3. CASE e.request.bucket # b
      <4>1. e.request.bucket \in Buckets
        BY <3>1, Zenon DEF Requests
      <4> QED
        BY <1>9, <3>1, <3>3, <4>1, Zenon DEF Answered
    <3> QED
        BY <3>2, <3>3, Zenon
  <2>2. ASSUME NEW i \in Items, s.result[i].err = "nil" PROVE Reported(new, i, s.result[i].offset)
    <3>1. Reported(lg, i, s.result[i].offset) /\ Write[i].bucket \in Buckets
        BY <1>5, <2>2, UpsertAssumption, Zenon DEF AnswerInv
    <3>2. CASE Write[i].bucket = b
      <4>1. PICK k \in DOMAIN x : \E p \in DOMAIN x[k] : x[k][p] = i /\ OffsetOf(x, k, p, s.result[i].offset)
        BY <1>2, <3>1, <3>2, Zenon DEF Reported
      <4>2. PICK p \in DOMAIN x[k] : x[k][p] = i /\ OffsetOf(x, k, p, s.result[i].offset)
        BY <4>1, Zenon
      <4>3. k \in DOMAIN y /\ y[k] = x[k] /\ SubSeq(y, 1, k - 1) = SubSeq(x, 1, k - 1)
        BY <1>10, Zenon
      <4>4. OffsetOf(y, k, p, s.result[i].offset)
        BY <4>2, <4>3, Zenon DEF OffsetOf, entriesBefore
      <4> QED
        BY <1>9, <3>2, <4>2, <4>3, <4>4, Zenon DEF Reported
    <3>3. CASE Write[i].bucket # b
        BY <1>9, <3>1, <3>3, Zenon DEF Reported
    <3> QED
        BY <3>2, <3>3, Zenon
  <2> QED
    BY <2>1, <2>2, Zenon DEF AnswerInv
<1>14. new = [lg EXCEPT ![r.bucket] = Append(@, r.items)]
    BY <1>1, <1>2, <1>3, <1>4, Zenon
<1> QED
    BY <1>12, <1>13, <1>14, Zenon DEF LineInv

-----------------------------------------------------------------------------
(* The history *)

\* Calls that were refused need not be followed any more.
LEMMA FewerFresh ==
    ASSUME NEW s, NEW acc, NEW t, NEW F, NEW lg, LineInv(s, acc, t, F, lg), NEW G \in SUBSET F
    PROVE  LineInv(s, acc, t, G, lg)
    BY Zenon DEF LineInv, FreshInv, History

\* A call that was accepted stands at the end of the history.
LEMMA AcceptKeeps ==
    ASSUME NEW s, NEW acc, NEW t, NEW F, NEW lg, LineInv(s, acc, t, F, lg),
           NEW p \in Calls, \A m \in DOMAIN acc : acc[m] # p, p \in Items => p \in F
    PROVE  LineInv(s, Append(acc, p), t, F \ {p}, lg)
<1>1. PICK new : new = Append(acc, p)
    BY Zenon
<1>2. /\ Shape(s) /\ RequestInv(s) /\ BatchInv(s, acc, t) /\ OrderInv(s, acc, t) /\ HeldInv(s, acc, t)
      /\ FreshInv(s, acc, t, F) /\ History(acc, t, F) /\ LogInv(s, lg) /\ AnswerInv(s, lg)
    BY Zenon DEF LineInv
<1>3. acc \in Seq(Calls) /\ t \in Nat /\ t <= Len(acc)
    BY <1>2, Zenon DEF History
<1>4. /\ new \in Seq(Calls) /\ Len(new) = Len(acc) + 1 /\ t <= Len(new) /\ DOMAIN acc = 1 .. Len(acc)
      /\ \A m \in 1 .. Len(acc) : new[m] = acc[m]
      /\ new[Len(acc) + 1] = p
      /\ \A m \in 1 .. Len(new) : m \in 1 .. Len(acc) \/ m = Len(acc) + 1
      /\ \A m \in t + 1 .. Len(new) : m \in t + 1 .. Len(acc) \/ m = Len(acc) + 1
      /\ \A m \in t + 1 .. Len(acc) : m \in 1 .. Len(acc)
      /\ \A m \in 1 .. t : m \in 1 .. Len(acc)
    BY ONLY <1>1, <1>3, p \in Calls
<1>5. \A m \in 1 .. t : new[m] = acc[m]
    BY <1>4, Zenon
<1>6. \A i : Taken(new, t, i) <=> Taken(acc, t, i)
    BY <1>5, Zenon DEF Taken
<1>7. \A b, x : BatchOK(acc, t, b, x) => BatchOK(new, t, b, x)
    BY <1>6, Zenon DEF BatchOK
<1>8. BatchInv(s, new, t)
    BY <1>2, <1>7, Zenon DEF BatchInv, BatchesOK
<1>9. OrderInv(s, new, t)
    BY <1>2, <1>5, Zenon DEF OrderInv
<1>10. HeldInv(s, new, t)
    BY <1>2, <1>5, Zenon DEF HeldInv
<1>11. FreshInv(s, new, t, F \ {p})
    BY <1>2, <1>4, Zenon DEF FreshInv
<1>12. History(new, t, F \ {p})
  <2>1. \A m, n \in 1 .. Len(new) : new[m] = new[n] => m = n
    BY <1>2, <1>4, Zenon DEF History
  <2>2. \A m \in 1 .. Len(new) : new[m] \notin F \ {p}
    BY <1>2, <1>4, Zenon DEF History
  <2> QED
    BY <1>2, <1>4, <2>1, <2>2, Zenon DEF History
<1> QED
    BY <1>1, <1>2, <1>8, <1>9, <1>10, <1>11, <1>12, Zenon DEF LineInv

\* The loop takes the command of a Flush or Close.
LEMMA SkipKeeps ==
    ASSUME NEW s, NEW acc, NEW t, NEW F, NEW lg, LineInv(s, acc, t, F, lg),
           t + 1 <= Len(acc), acc[t + 1] \notin Items
    PROVE  LineInv(s, acc, t + 1, F, lg)
<1>1. /\ Shape(s) /\ RequestInv(s) /\ BatchInv(s, acc, t) /\ OrderInv(s, acc, t) /\ HeldInv(s, acc, t)
      /\ FreshInv(s, acc, t, F) /\ History(acc, t, F) /\ LogInv(s, lg) /\ AnswerInv(s, lg)
    BY Zenon DEF LineInv
<1>2. acc \in Seq(Calls) /\ t \in Nat /\ t <= Len(acc)
    BY <1>1, Zenon DEF History
<1>3. /\ t + 1 \in Nat
      /\ \A m \in 1 .. t : m \in 1 .. t + 1
      /\ \A m \in 1 .. t + 1 : m \in 1 .. t \/ m = t + 1
      /\ \A m \in (t + 1) + 1 .. Len(acc) : m \in t + 1 .. Len(acc)
    BY <1>2
<1>4. \A i : Taken(acc, t, i) => Taken(acc, t + 1, i)
    BY <1>3, Zenon DEF Taken
<1>5. \A b, x : BatchOK(acc, t, b, x) => BatchOK(acc, t + 1, b, x)
    BY <1>4, Zenon DEF BatchOK
<1>6. BatchInv(s, acc, t + 1)
    BY <1>1, <1>5, Zenon DEF BatchInv, BatchesOK
<1>7. OrderInv(s, acc, t + 1)
  <2>1. \A j : Ordered(s, acc[t + 1], j) /\ Ordered(s, j, acc[t + 1])
    BY Zenon DEF Ordered
  <2> QED
    BY <1>1, <1>3, <2>1, Zenon DEF OrderInv
<1>8. HeldInv(s, acc, t + 1)
  <2>1. Held(s, acc[t + 1])
    BY Zenon DEF Held
  <2> QED
    BY <1>1, <1>3, <2>1, Zenon DEF HeldInv
<1>9. FreshInv(s, acc, t + 1, F) /\ History(acc, t + 1, F)
    BY <1>1, <1>3, Zenon DEF FreshInv, History
<1> QED
    BY <1>1, <1>6, <1>7, <1>8, <1>9, Zenon DEF LineInv

-----------------------------------------------------------------------------
(* The steps of the writer *)

\* Initially nothing is accepted.
LEMMA InitUpsertInv == Init => UpsertInv
<1> SUFFICES ASSUME Init PROVE UpsertInv
    BY Zenon
<1>1. /\ accepted = <<>> /\ commands = <<>> /\ log = [b \in Buckets |-> <<>>]
      /\ w = [batches |-> [b \in Buckets |-> <<>>], pending |-> [b \in Buckets |-> <<>>],
            active |-> {}, inFlight |-> 0, sequences |-> [b \in Buckets |-> 0],
            poisoned |-> {}, throttle |-> {}, timer |-> FALSE,
            running |-> {}, sent |-> {}, slots |-> {}, result |-> [i \in Items |-> Open]]
    BY Zenon DEF Init
<1>2. /\ DOMAIN w = Fields /\ w.batches = [b \in Buckets |-> <<>>] /\ w.pending = [b \in Buckets |-> <<>>]
      /\ w.active = {} /\ w.sequences = [b \in Buckets |-> 0] /\ w.poisoned = {} /\ w.running = {}
      /\ w.sent = {} /\ w.result = [i \in Items |-> Open]
    BY <1>1, Zenon DEF Fields
<1>3. /\ pc \in [Calls -> {"start", "slot", "locked", "await", "join", "returned"}]
      /\ fresh \subseteq Items
    BY Zenon DEF Init, fresh
<1>4. /\ Len(<<>>) = 0 /\ DOMAIN <<>> = {} /\ 0 \in Nat /\ 0 - 0 = 0 /\ 0 <= 0 /\ <<>> \in Seq(Calls) /\ <<>> \in Seq(Items)
      /\ <<>> \in Seq(Seq(Items)) /\ \A m \in 1 .. 0 : FALSE
      /\ \A m \in 0 + 1 .. 0 : FALSE
      /\ 0 <= MaxBatchRecords /\ ~(0 > 1)
    BY UpsertAssumption
<1>5. taken = 0
    BY <1>1, <1>4, Zenon DEF taken
<1>6. Shape(w)
    BY <1>2, <1>4, Zenon DEF Shape
<1>7. RequestInv(w)
    BY <1>2, Zenon DEF RequestInv, OnePerBucket, Idle, SentOnce
<1>8. BatchInv(w, <<>>, 0)
  <2>1. \A b : BatchOK(<<>>, 0, b, <<>>)
    BY <1>4, Zenon DEF BatchOK
  <2> QED
    BY <1>2, <1>4, <2>1, ZenonT(40) DEF BatchInv, BatchesOK, requestsOf
<1>9. OrderInv(w, <<>>, 0) /\ HeldInv(w, <<>>, 0)
    BY <1>4, Zenon DEF OrderInv, HeldInv
<1>10. FreshInv(w, <<>>, 0, fresh) /\ History(<<>>, 0, fresh)
  <2>1. \A i \in fresh : w.result[i].err = "open"
    BY <1>2, <1>3 DEF Open
  <2>2. \A m \in 0 + 1 .. Len(<<>>) : FALSE
    BY <1>4, Zenon
  <2>3. \A m \in 1 .. Len(<<>>) : FALSE
    BY <1>4, Zenon
  <2>4. FreshInv(w, <<>>, 0, fresh)
    BY <2>1, <2>2, Zenon DEF FreshInv
  <2>5. History(<<>>, 0, fresh)
    BY <1>3, <1>4, <2>3, Zenon DEF History
  <2> QED
    BY <2>4, <2>5, Zenon
<1>11. LogInv(w, log) /\ AnswerInv(w, log)
  <2>1. "open" # "nil"
    OBVIOUS
  <2> QED
    BY <1>1, <1>2, <1>4, <2>1, SpreadEmpty, Zenon DEF LogInv, AnswerInv, Open
<1>12. LineInv(w, accepted, taken, fresh, log)
    BY <1>1, <1>5, <1>6, <1>7, <1>8, <1>9, <1>10, <1>11, Zenon DEF LineInv
<1> QED
    BY <1>1, <1>3, <1>4, <1>5, <1>12, Zenon DEF UpsertInv

\* What a step that moves no command has to show.
LEMMA UpsertFrame ==
    ASSUME UpsertInv, commands' = commands, accepted' = accepted,
           pc' \in [Calls -> {"start", "slot", "locked", "await", "join", "returned"}],
           \A p \in Calls : pc'[p] \in {"start", "slot", "locked"} => pc[p] \in {"start", "slot", "locked"},
           LineInv(w', accepted, taken, fresh', log')
    PROVE  UpsertInv'
<1>1. taken' = taken
    BY Zenon DEF taken
<1> QED
    BY <1>1, Zenon DEF UpsertInv

\* The same for one that only the loop, a goroutine or the server takes.
LEMMA LoopFrame ==
    ASSUME UpsertInv, commands' = commands, accepted' = accepted, pc' = pc,
           LineInv(w', accepted, taken, fresh, log')
    PROVE  UpsertInv'
<1>1. taken' = taken /\ fresh' = fresh
    BY Zenon DEF taken, fresh
<1> QED
    BY <1>1, Zenon DEF UpsertInv

\* A call of Flush or Close goes on.
LEMMA BarrierFrame ==
    ASSUME UpsertInv, UNCHANGED <<commands, accepted, w, log>>,
           NEW p \in Calls, NEW v \in {"start", "slot", "locked", "await", "join", "returned"},
           pc' = [pc EXCEPT ![p] = v],
           v \in {"start", "slot", "locked"} => pc[p] \in {"start", "slot", "locked"}
    PROVE  UpsertInv'
<1>1. pc \in [Calls -> {"start", "slot", "locked", "await", "join", "returned"}]
    BY Zenon DEF UpsertInv
<1>2. pc' \in [Calls -> {"start", "slot", "locked", "await", "join", "returned"}]
    BY <1>1, Zenon
<1>3. \A q \in Calls : pc'[q] \in {"start", "slot", "locked"} => pc[q] \in {"start", "slot", "locked"}
    BY <1>1, Zenon
<1>4. fresh' \subseteq fresh
    BY <1>3, Zenon DEF fresh, Calls
<1>5. LineInv(w', accepted, taken, fresh', log')
    BY <1>4, FewerFresh, Zenon DEF UpsertInv
<1> QED
    BY <1>2, <1>3, <1>5, UpsertFrame, Zenon

\* enqueue refuses a mutation: its future fails and it is not accepted.
LEMMA RefuseKeeps ==
    ASSUME UpsertInv, UNCHANGED <<commands, accepted, log>>,
           NEW i \in Items, pc[i] \in {"start", "slot", "locked"}, pc' = [pc EXCEPT ![i] = "returned"],
           NEW err, err # "nil", w' = fail(w, {i}, err)
    PROVE  UpsertInv'
<1>1. /\ pc \in [Calls -> {"start", "slot", "locked", "await", "join", "returned"}] /\ i \in Calls
      /\ LineInv(w, accepted, taken, fresh, log)
    BY Zenon DEF UpsertInv, Calls
<1>2. pc' \in [Calls -> {"start", "slot", "locked", "await", "join", "returned"}]
    BY <1>1, Zenon
<1>3. "returned" \notin {"start", "slot", "locked"}
    OBVIOUS
<1>4. \A q \in Calls : pc'[q] \in {"start", "slot", "locked"} => pc[q] \in {"start", "slot", "locked"} /\ q # i
    BY <1>1, <1>3, Zenon
<1>5. fresh' \subseteq fresh /\ i \notin fresh'
    BY <1>4, Zenon DEF fresh, Calls
<1>6. LineInv(w, accepted, taken, fresh', log)
    BY <1>1, <1>5, FewerFresh, Zenon
<1>7. Settled(accepted, taken, fresh', i)
  <2>1. accepted \in Seq(Calls) /\ taken \in Nat
    BY <1>1, Zenon DEF LineInv, History
  <2>2. \A m \in taken + 1 .. Len(accepted) : m \in DOMAIN accepted
    BY <2>1
  <2> QED
    BY <1>1, <1>5, <2>2, Zenon DEF Settled, UpsertInv
<1>8. LineInv(w', accepted, taken, fresh', log)
    BY <1>6, <1>7, FailKeeps, Zenon
<1> QED
    BY <1>2, <1>4, <1>8, UpsertFrame, Zenon

\* Sending a command under appendMu.
LEMMA SendKeeps ==
    ASSUME UpsertInv, NEW p \in Calls, Send(p)
    PROVE  UpsertInv'
<1>1. PICK v : v = IF p \in Items THEN "returned" ELSE "await"
    BY Zenon
<1>2. /\ v \in {"start", "slot", "locked", "await", "join", "returned"} /\ v \notin {"start", "slot", "locked"}
      /\ pc[p] = "locked" /\ pc' = [pc EXCEPT ![p] = v]
      /\ commands' = Append(commands, p) /\ accepted' = Append(accepted, p) /\ w' = w /\ log' = log
    BY <1>1 DEF Send
<1>3. /\ pc \in [Calls -> {"start", "slot", "locked", "await", "join", "returned"}]
      /\ LineInv(w, accepted, taken, fresh, log)
      /\ commands \in Seq(Calls) /\ Len(commands) <= Len(accepted)
      /\ \A m \in DOMAIN commands : commands[m] = accepted[taken + m]
    BY Zenon DEF UpsertInv
<1>4. accepted \in Seq(Calls) /\ taken \in Nat
    BY <1>3, Zenon DEF LineInv, History
<1>5. pc' \in [Calls -> {"start", "slot", "locked", "await", "join", "returned"}]
    BY <1>2, <1>3, Zenon
<1>6. \A q \in Calls : pc'[q] \in {"start", "slot", "locked"} <=> (pc[q] \in {"start", "slot", "locked"} /\ q # p)
    BY <1>2, <1>3, Zenon
<1>7. fresh' = fresh \ {p}
    BY <1>6, Zenon DEF fresh, Calls
<1>8. \A m \in DOMAIN accepted : accepted[m] # p
    BY <1>2, Zenon DEF UpsertInv
<1>9. p \in Items => p \in fresh
    BY <1>2, Zenon DEF fresh
<1>10. LineInv(w, Append(accepted, p), taken, fresh \ {p}, log)
    BY <1>3, <1>8, <1>9, AcceptKeeps, Zenon
<1>11. /\ taken' = taken /\ commands' \in Seq(Calls) /\ Len(commands') <= Len(accepted')
       /\ \A m \in DOMAIN commands' : commands'[m] = accepted'[taken + m]
       /\ \A m \in DOMAIN accepted' : m \in DOMAIN accepted \/ accepted'[m] = p
       /\ \A m \in DOMAIN accepted : accepted'[m] = accepted[m]
    BY <1>2, <1>3, <1>4 DEF taken
<1>12. \A q \in Calls : pc'[q] \in {"start", "slot", "locked"} => \A m \in DOMAIN accepted' : accepted'[m] # q
    BY <1>6, <1>11, Zenon DEF UpsertInv
<1> QED
    BY <1>2, <1>5, <1>7, <1>10, <1>11, <1>12, Zenon DEF UpsertInv

\* The oldest command is the first accepted call that was not taken.
LEMMA NextCommand ==
    ASSUME UpsertInv, commands # <<>>
    PROVE  taken + 1 <= Len(accepted) /\ accepted[taken + 1] = Head(commands)
<1>1. /\ LineInv(w, accepted, taken, fresh, log) /\ commands \in Seq(Calls) /\ Len(commands) <= Len(accepted)
      /\ \A m \in DOMAIN commands : commands[m] = accepted[taken + m]
    BY Zenon DEF UpsertInv
<1>2. accepted \in Seq(Calls) /\ taken \in Nat
    BY <1>1, Zenon DEF LineInv, History
<1>3. 1 \in DOMAIN commands /\ commands[1] = Head(commands) /\ Len(commands) >= 1
    BY <1>1
<1> QED
    BY <1>1, <1>2, <1>3 DEF taken

\* The loop takes a command.
LEMMA TakeFrame ==
    ASSUME UpsertInv, commands # <<>>, commands' = Tail(commands), accepted' = accepted, pc' = pc, log' = log,
           LineInv(w', accepted, taken + 1, fresh, log)
    PROVE  UpsertInv'
<1>1. /\ LineInv(w, accepted, taken, fresh, log) /\ commands \in Seq(Calls) /\ Len(commands) <= Len(accepted)
      /\ \A m \in DOMAIN commands : commands[m] = accepted[taken + m]
    BY Zenon DEF UpsertInv
<1>2. accepted \in Seq(Calls) /\ taken \in Nat
    BY <1>1, Zenon DEF LineInv, History
<1>3. fresh' = fresh
    BY Zenon DEF fresh
<1>4. taken' = taken + 1 /\ commands' \in Seq(Calls) /\ Len(commands') <= Len(accepted)
    BY <1>1, <1>2 DEF taken
<1>5. \A m \in DOMAIN commands' : commands'[m] = accepted[(taken + 1) + m]
  <2>1. ASSUME NEW m \in DOMAIN commands'
        PROVE  commands'[m] = accepted[(taken + 1) + m]
    <3>1. m + 1 \in DOMAIN commands /\ commands'[m] = commands[m + 1] /\ m \in Nat
        BY <1>1, <2>1
    <3>2. taken + (m + 1) = (taken + 1) + m
        BY <1>2, <3>1
    <3>3. commands[m + 1] = accepted[taken + (m + 1)]
        BY <1>1, <3>1, Zenon
    <3> QED
        BY <3>1, <3>2, <3>3, Zenon
  <2> QED
    BY <2>1, Zenon
<1> QED
    BY <1>3, <1>4, <1>5, Zenon DEF UpsertInv

\* A step of an executeBatch goroutine.
LEMMA ExecuteKeeps ==
    ASSUME UpsertInv, NEW e \in w.running, SkipDelay(e) \/ DelayEnds(e) \/ SendRequest(e) \/ ExecuteOk(e) \/ ExecuteErr(e)
    PROVE  UpsertInv'
<1>1. /\ LineInv(w, accepted, taken, fresh, log)
      /\ DOMAIN e = {"request", "end", "pressure", "status"} /\ e.request \in Requests
      /\ e.end = -1 \/ e.status = "ok"
    BY Zenon DEF UpsertInv, LineInv, Shape
<1>2. /\ "run" # "ok" /\ "err" # "ok" /\ "delay" # "ok"
    OBVIOUS
<1>3. ASSUME goroutineFrame, log' = log, LineInv(w', accepted, taken, fresh, log)
      PROVE  UpsertInv'
    BY <1>3, LoopFrame, Zenon DEF goroutineFrame
<1>4. ASSUME NEW v, e.status # "ok", Becomes(e, [e EXCEPT !.status = v]),
             v = "ok" => Answered(w, [e EXCEPT !.status = v], log)
      PROVE  LineInv(w', accepted, taken, fresh, log)
  <2>1. PICK f : f = [e EXCEPT !.status = v]
    BY Zenon
  <2>2. /\ DOMAIN f = {"request", "end", "pressure", "status"} /\ f.request = e.request /\ f.status = v
        /\ f.end = -1
    BY <1>1, <1>4, <2>1, Zenon
  <2> QED
    BY <1>1, <1>4, <2>1, <2>2, BecomesKeeps, Zenon DEF Becomes
<1>5. CASE SkipDelay(e)
    BY <1>2, <1>3, <1>4, <1>5, Zenon DEF SkipDelay
<1>6. CASE DelayEnds(e)
    BY <1>2, <1>3, <1>4, <1>6, Zenon DEF DelayEnds
<1>7. CASE ExecuteErr(e)
    BY <1>2, <1>3, <1>4, <1>7, Zenon DEF ExecuteErr
<1>8. CASE SendRequest(e)
  <2>1. LineInv(w', accepted, taken, fresh, log)
    BY <1>1, <1>8, SendRequestKeeps, Zenon DEF SendRequest
  <2> QED
    BY <1>3, <1>8, <2>1, Zenon DEF SendRequest
<1>9. CASE ExecuteOk(e)
  <2>1. PICK r : r = e.request
    BY Zenon
  <2>2. PICK end : end = entriesOf(mutationsIn(SubSeq(log[r.bucket], 1, r.sequence + 1)))
    BY Zenon
  <2>3. /\ e.status = "run" /\ r \in w.sent /\ r.sequence < Len(log[r.bucket]) /\ log' = log /\ goroutineFrame
        /\ \/ \E p \in {"unknown", "none", "high"} :
                Becomes(e, [e EXCEPT !.status = "ok", !.pressure = p, !.end = end])
           \/ Becomes(e, [e EXCEPT !.status = "ok"])
    BY <1>9, <2>1, <2>2, Zenon DEF ExecuteOk
  <2>4. end = endOf(log[r.bucket], r.sequence + 2)
    <3>1. r.sequence \in Nat
        BY <1>1, <2>1, Zenon DEF Requests
    <3>2. (r.sequence + 2) - 1 = r.sequence + 1
        BY ONLY <3>1
    <3> QED
        BY <2>2, <3>2, Zenon DEF endOf
  <2>5. CASE Becomes(e, [e EXCEPT !.status = "ok"])
    <3>1. PICK f : f = [e EXCEPT !.status = "ok"]
        BY Zenon
    <3>2. f.request = r /\ f.end = -1
        BY <1>1, <1>2, <2>1, <2>3, <3>1, Zenon
    <3>3. Answered(w, f, log)
        BY <2>3, <3>2, Zenon DEF Answered
    <3> QED
        BY <1>2, <1>3, <1>4, <2>3, <2>5, <3>1, <3>3, Zenon
  <2>6. ASSUME NEW p \in {"unknown", "none", "high"},
               Becomes(e, [e EXCEPT !.status = "ok", !.pressure = p, !.end = end])
        PROVE  UpsertInv'
    <3>1. PICK f : f = [e EXCEPT !.status = "ok", !.pressure = p, !.end = end]
        BY Zenon
    <3>2. /\ DOMAIN f = {"request", "end", "pressure", "status"} /\ f.request = e.request /\ f.status = "ok"
          /\ f.end = end
        BY <1>1, <3>1, Zenon
    <3>3. Answered(w, f, log)
        BY <2>1, <2>3, <2>4, <3>2, Zenon DEF Answered
    <3>4. LineInv(w', accepted, taken, fresh, log)
        BY <1>1, <2>6, <3>1, <3>2, <3>3, BecomesKeeps, Zenon DEF Becomes
    <3> QED
        BY <1>3, <2>3, <3>4, Zenon
  <2> QED
    BY <2>3, <2>5, <2>6, Zenon
<1> QED
    BY <1>5, <1>6, <1>7, <1>8, <1>9, Zenon

\* A step of a caller of Upsert, PartialUpsert or Delete.
LEMMA ItemKeeps ==
    ASSUME UpsertInv, NEW i \in Items, ItemStep(i)
    PROVE  UpsertInv'
<1>1. /\ i \in Calls /\ LineInv(w, accepted, taken, fresh, log)
      /\ pc \in [Calls -> {"start", "slot", "locked", "await", "join", "returned"}]
    BY Zenon DEF UpsertInv, Calls
<1>2. "ctx" # "nil" /\ "closed" # "nil"
    OBVIOUS
<1>3. CASE AcquireSlot(i)
  <2>1. pc' \in [Calls -> {"start", "slot", "locked", "await", "join", "returned"}]
    BY <1>1, <1>3, Zenon DEF AcquireSlot
  <2>2. \A q \in Calls : pc'[q] \in {"start", "slot", "locked"} <=> pc[q] \in {"start", "slot", "locked"}
    BY <1>1, <1>3, Zenon DEF AcquireSlot
  <2>3. fresh' = fresh
    BY <2>2, Zenon DEF fresh, Calls
  <2>4. SamePlaces(w, w') /\ w'.result = w.result
    BY <1>1, <1>3, Zenon DEF AcquireSlot, SamePlaces, LineInv, Shape, Fields
  <2>5. LineInv(w', accepted, taken, fresh', log)
    BY <1>1, <2>3, <2>4, IdleKeeps, Zenon
  <2> QED
    BY <1>3, <2>1, <2>2, <2>5, UpsertFrame, Zenon DEF AcquireSlot
<1>4. CASE RefuseSlot(i)
    BY <1>2, <1>4, RefuseKeeps, Zenon DEF RefuseSlot
<1>5. CASE LockItem(i)
  <2>1. CASE closed
    BY <1>2, <1>5, <2>1, RefuseKeeps, Zenon DEF LockItem
  <2>2. CASE ~closed
    BY <1>1, <1>5, <2>2, BarrierFrame, Zenon DEF LockItem
  <2> QED
    BY <2>1, <2>2, Zenon
<1>6. CASE AbandonItem(i)
    BY <1>2, <1>6, RefuseKeeps, Zenon DEF AbandonItem
<1>7. CASE Send(i)
    BY <1>1, <1>7, SendKeeps, Zenon
<1> QED
    BY <1>3, <1>4, <1>5, <1>6, <1>7, Zenon DEF ItemStep

\* A step of a caller of Flush or Close.
LEMMA BarrierKeeps ==
    ASSUME UpsertInv, NEW p \in Barriers, BarrierStep(p)
    PROVE  UpsertInv'
<1>1. /\ p \in Calls /\ pc \in [Calls -> {"start", "slot", "locked", "await", "join", "returned"}]
    BY Zenon DEF UpsertInv, Calls
<1>2. CASE Send(p)
    BY <1>1, <1>2, SendKeeps, Zenon
<1>3. CASE Abandon(p)
    BY <1>1, <1>3, BarrierFrame, Zenon DEF Abandon, Return
<1>4. CASE Await(p)
    BY <1>1, <1>4, BarrierFrame, Zenon DEF Await, Return
<1>5. CASE LockFlush(p)
    BY <1>1, <1>5, BarrierFrame, Zenon DEF LockFlush, Return
<1>6. CASE LockClose(p)
    BY <1>1, <1>6, BarrierFrame, Zenon DEF LockClose
<1> QED
    BY <1>2, <1>3, <1>4, <1>5, <1>6, Zenon DEF BarrierStep

\* A step of the loop goroutine.
LEMMA LoopKeeps ==
    ASSUME UpsertInv, LoopStep
    PROVE  UpsertInv'
<1>1. LineInv(w, accepted, taken, fresh, log)
    BY Zenon DEF UpsertInv
<1>2. CASE TakeItem
  <2>1. PICK i : i = Head(commands)
    BY Zenon
  <2>2. /\ commands # <<>> /\ i \in Items /\ commands' = Tail(commands) /\ w' = add(w, i, i \in canceled)
        /\ accepted' = accepted /\ pc' = pc /\ log' = log
    BY <1>2, <2>1, Zenon DEF TakeItem
  <2>3. taken + 1 <= Len(accepted) /\ accepted[taken + 1] = i
    BY <2>1, <2>2, NextCommand, Zenon
  <2>4. (i \in canceled) \in BOOLEAN
    OBVIOUS
  <2>5. LineInv(w', accepted, taken + 1, fresh, log)
    BY <1>1, <2>2, <2>3, <2>4, AddKeeps, Zenon
  <2> QED
    BY <2>2, <2>5, TakeFrame, Zenon
<1>3. CASE TakeBarrier
  <2>1. /\ commands # <<>> /\ Head(commands) \in Barriers /\ commands' = Tail(commands) /\ w' = queueAll(w)
        /\ accepted' = accepted /\ pc' = pc /\ log' = log
    BY <1>3, Zenon DEF TakeBarrier
  <2>2. Head(commands) \notin Items
    BY <2>1, UpsertAssumption, Zenon
  <2>3. taken + 1 <= Len(accepted) /\ accepted[taken + 1] \notin Items
    BY <2>1, <2>2, NextCommand, Zenon
  <2>4. LineInv(w, accepted, taken + 1, fresh, log)
    BY <1>1, <2>3, SkipKeeps, Zenon
  <2>5. LineInv(w', accepted, taken + 1, fresh, log)
    BY <2>1, <2>4, QueueAllKeeps, Zenon
  <2> QED
    BY <2>1, <2>5, TakeFrame, Zenon
<1>4. CASE TimerFires
  <2>1. LineInv(w', accepted, taken, fresh, log)
    BY <1>1, <1>4, QueueAllKeeps, Zenon DEF TimerFires
  <2> QED
    BY <1>4, <2>1, LoopFrame, Zenon DEF TimerFires
<1>5. CASE HandleCompletion
  <2>1. LineInv(w', accepted, taken, fresh, log)
    <3>1. PICK e \in w.running : e.status \in {"ok", "err"} /\ w' = handleCompletion(w, e)
        BY <1>5, Zenon DEF HandleCompletion
    <3> QED
        BY <1>1, <3>1, CompletionKeeps, Zenon
  <2> QED
    BY <1>5, <2>1, LoopFrame, Zenon DEF HandleCompletion
<1>6. CASE FlushDone
    BY <1>1, <1>6, LoopFrame, Zenon DEF FlushDone
<1>7. CASE CloseDone
    BY <1>1, <1>7, LoopFrame, Zenon DEF CloseDone
<1> QED
    BY <1>2, <1>3, <1>4, <1>5, <1>6, <1>7, Zenon DEF LoopStep

\* Every step keeps the invariant.
LEMMA UpsertStep == UpsertInv /\ [Next]_vars => UpsertInv'
<1> SUFFICES ASSUME UpsertInv, [Next]_vars PROVE UpsertInv'
    BY Zenon
<1>1. LineInv(w, accepted, taken, fresh, log)
    BY Zenon DEF UpsertInv
<1>2. ASSUME UNCHANGED <<pc, commands, w, log, accepted>>
      PROVE  UpsertInv'
    BY <1>1, <1>2, LoopFrame, Zenon
<1>3. CASE \E i \in Items : ItemStep(i)
    BY <1>3, ItemKeeps, Zenon
<1>4. CASE \E p \in Barriers : BarrierStep(p)
    BY <1>4, BarrierKeeps, Zenon
<1>5. CASE \E p \in Calls : Cancel(p)
    BY <1>2, <1>5, Zenon DEF Cancel
<1>6. CASE LoopStep
    BY <1>6, LoopKeeps, Zenon
<1>7. ASSUME NEW b \in Buckets, DeadlinePasses(b)
      PROVE  UpsertInv'
  <2>1. SamePlaces(w, w') /\ w'.result = w.result
    BY <1>1, <1>7, Zenon DEF DeadlinePasses, SamePlaces, LineInv, Shape, Fields
  <2>2. LineInv(w', accepted, taken, fresh, log)
    BY <1>1, <2>1, IdleKeeps, Zenon
  <2> QED
    BY <1>7, <2>2, LoopFrame, Zenon DEF DeadlinePasses, goroutineFrame
<1>8. ASSUME NEW r \in w.sent, ServerApply(r)
      PROVE  UpsertInv'
  <2>1. LineInv(w, accepted, taken, fresh, log')
    BY <1>1, <1>8, ApplyKeeps, Zenon DEF ServerApply
  <2> QED
    BY <1>8, <2>1, LoopFrame, Zenon DEF ServerApply, goroutineFrame
<1>9. CASE \E e \in w.running : ExecuteStep(e) \/ DelayEnds(e)
    BY <1>9, ExecuteKeeps, Zenon DEF ExecuteStep
<1>10. CASE Finished \/ UNCHANGED vars
    BY <1>2, <1>10, Zenon DEF Finished, vars
<1> QED
    BY <1>3, <1>4, <1>5, <1>6, <1>7, <1>8, <1>9, <1>10, Zenon DEF Next

\* The invariant of the primary-key writer holds for every number of buckets, calls and
\* batch limits: requests, batches, places in line, offsets and answers agree.
THEOREM UpsertInvariance == Spec => []UpsertInv
<1>1. Init => UpsertInv
    BY InitUpsertInv
<1>2. UpsertInv /\ [Next]_vars => UpsertInv'
    BY UpsertStep
<1> QED
    BY <1>1, <1>2, PTL DEF Spec

\* Every request that executeBatch sends has mutations with the same target columns,
\* within the limits: compatibleBatch and batchFullWith close the open batch in time.
THEOREM OneTargetPerRequestHolds == Spec => []OneTargetPerRequest
<1>1. UpsertInv => OneTargetPerRequest
  <2> SUFFICES ASSUME UpsertInv PROVE OneTargetPerRequest
    BY Zenon
  <2>1. \A r \in w.sent : BatchOK(accepted, taken, r.bucket, r.items)
    BY Zenon DEF UpsertInv, LineInv, BatchInv, requestsOf
  <2>2. ASSUME NEW r \in w.sent, NEW i \in Range(r.items), NEW j \in Range(r.items)
        PROVE  Write[i].targets = Write[j].targets
    <3>1. PICK p \in DOMAIN r.items : r.items[p] = i
        BY Zenon DEF Range
    <3>2. PICK q \in DOMAIN r.items : r.items[q] = j
        BY Zenon DEF Range
    <3>3. Write[r.items[p]].targets = Write[r.items[q]].targets
        BY <2>1, Zenon DEF BatchOK
    <3> QED
        BY <3>1, <3>2, <3>3, Zenon
  <2> QED
    BY <2>1, <2>2, Zenon DEF OneTargetPerRequest, BatchOK
<1> QED
    BY <1>1, UpsertInvariance, PTL

\* Every mutation whose future succeeded is in the changelog, and the offset that
\* completeKVBatch computed from the end of the changelog is that of its first entry
\* whenever the mutation and those behind it in its batch added one entry each: for
\* any number of entries of the other mutations.
THEOREM AcknowledgedOffsetsHolds == Spec => []AcknowledgedOffsets
<1>1. UpsertInv => AcknowledgedOffsets
    BY Zenon DEF UpsertInv, LineInv, AnswerInv, Reported, AcknowledgedOffsets
<1> QED
    BY <1>1, UpsertInvariance, PTL

-----------------------------------------------------------------------------
(* The order of the changelog *)

\* The request that was sent for a place holds the mutation that stands there.
LEMMA PlaceIsSent ==
    ASSUME NEW s, Shape(s), RequestInv(s), NEW b \in Buckets, NEW i, NEW k \in Nat, NEW p,
           At(s, b, i, k, p), NEW r \in s.sent, r.bucket = b, r.sequence = k
    PROVE  p \in DOMAIN r.items /\ r.items[p] = i
<1>1. CASE Sent(s, b, i, k, p)
  <2>1. PICK q \in requestsOf(s) : q.bucket = b /\ q.sequence = k /\ p \in DOMAIN q.items /\ q.items[p] = i
    BY <1>1, Zenon DEF Sent, SentIn
  <2>2. CASE q \in s.sent
    BY <2>1, <2>2, Zenon DEF RequestInv, SentOnce
  <2>3. ASSUME NEW e \in s.running, e.request = q
        PROVE  q = r
    <3>1. e.request.sequence = s.sequences[b] /\ OnlySent(s.sent, b, s.sequences[b], e.request)
        BY <2>1, <2>3, EndedRequests, Zenon
    <3> QED
        BY <2>1, <2>3, <3>1, Zenon DEF OnlySent
  <2> QED
    BY <2>1, <2>2, <2>3, Zenon DEF requestsOf
<1>2. CASE Waits(s, b, i, k, p)
  <2>1. PICK m \in DOMAIN waiting(s, b) : k + 1 = nextSequence(s, b) + m
    BY <1>2, Zenon DEF Waits, WaitsIn
  <2>2. s.sequences[b] \in Nat /\ s.pending[b] \in Seq(Seq(Items)) /\ s.batches[b] \in Seq(Items)
    BY Zenon DEF Shape
  <2>3. m \in Nat \ {0}
    <3>1. PICK x : x = waiting(s, b)
        BY Zenon
    <3>2. PICK z : z = s.pending[b]
        BY Zenon
    <3>3. PICK o : o = s.batches[b]
        BY Zenon
    <3>4. z \in Seq(Seq(Items)) /\ o \in Seq(Items) /\ m \in DOMAIN x /\ x = IF o = <<>> THEN z ELSE Append(z, o)
        BY <2>1, <2>2, <3>1, <3>2, <3>3, Zenon DEF waiting
    <3> QED
        BY ONLY <3>4
  <2>4. \/ k < s.sequences[b]
        \/ k = s.sequences[b] /\ b \in s.active
    <3>1. WasSent(r, s.sequences, s.poisoned, s.running) /\ b \notin s.poisoned
        BY <1>2, Zenon DEF RequestInv, Waits
    <3>2. ASSUME NEW e \in s.running, e.request = r PROVE b \in s.active
      <4>1. Executes(e, s.active, s.sequences)
        BY Zenon DEF RequestInv
      <4> QED
        BY <3>2, <4>1, Zenon DEF Executes
    <3> QED
        BY <3>1, <3>2, Zenon DEF WasSent
  <2>5. nextSequence(s, b) = IF b \in s.active THEN s.sequences[b] + 1 ELSE s.sequences[b]
    BY Zenon DEF nextSequence
  <2>6. FALSE
    <3>1. PICK n : n = s.sequences[b]
        BY Zenon
    <3>2. n \in Nat /\ (k < n \/ (k = n /\ b \in s.active)) /\ k + 1 = (IF b \in s.active THEN n + 1 ELSE n) + m
        BY <2>1, <2>2, <2>4, <2>5, <3>1, Zenon
    <3> QED
        BY ONLY <2>3, <3>2, k \in Nat
  <2> QED
    BY <2>6, Zenon
<1> QED
    BY <1>1, <1>2, Zenon DEF At

\* Batches that follow each other: the place of an earlier mutation is before that of a
\* later one.
LEMMA SpreadOrder ==
    ASSUME NEW x \in Seq(Seq(Items)), Spread(x), NEW k \in DOMAIN x, NEW l \in DOMAIN x,
           NEW p \in DOMAIN x[k], NEW q \in DOMAIN x[l], k < l \/ (k = l /\ p < q)
    PROVE  /\ offsetOf(x, k) + p \in DOMAIN mutationsIn(x)
           /\ offsetOf(x, k) + p < offsetOf(x, l) + q
<1>1. x[k] \in Seq(Items) /\ x[l] \in Seq(Items)
    OBVIOUS
<1>2. PICK c : c = offsetOf(x, k)
    BY Zenon
<1>3. PICK d : d = offsetOf(x, l)
    BY Zenon
<1>4. PICK y : y = mutationsIn(x)
    BY Zenon
<1>5. PICK g : g = offsetOf(x, k + 1)
    BY Zenon
<1>6. /\ y \in Seq(Items) /\ c \in Nat /\ d \in Nat /\ g = c + Len(x[k]) /\ g <= Len(y)
      /\ k < l => g <= d
      /\ k = l => c = d
    BY <1>2, <1>3, <1>4, <1>5, Zenon DEF Spread
<1>7. p \in Nat /\ 1 <= p /\ p <= Len(x[k]) /\ q \in Nat /\ 1 <= q /\ Len(x[k]) \in Nat
    BY ONLY <1>1, p \in DOMAIN x[k], q \in DOMAIN x[l]
<1>8. PICK n : n = Len(x[k])
    BY Zenon
<1>9. c + p \in DOMAIN y /\ c + p < d + q
  <2>1. /\ Len(y) \in Nat /\ DOMAIN y = 1 .. Len(y) /\ k \in Int /\ l \in Int
    BY <1>6
  <2>2. n \in Nat /\ g = c + n /\ p <= n
    BY <1>6, <1>7, <1>8, Zenon
  <2>3. k < l \/ (k = l /\ p < q)
    OBVIOUS
  <2> QED
    BY ONLY <1>6, <1>7, <2>1, <2>2, <2>3, SMTT(30)
<1> QED
    BY <1>2, <1>3, <1>4, <1>9, Zenon

\* The changelog of a bucket has the mutations in the order in which they were accepted
\* and without a gap: one whose predecessor failed is not in it.
THEOREM AppliedInOrderHolds == Spec => []AppliedInOrder
<1>1. UpsertInv => AppliedInOrder
  <2> SUFFICES ASSUME UpsertInv, NEW b \in Buckets, NEW i \in Items \cap Range(accepted),
                      NEW j \in Items \cap Range(accepted),
                      Write[i].bucket = b, Write[j].bucket = b, Accepted(i) < Accepted(j),
                      j \in Range(Changelog(b)), w.result[i].err # "ctx"
               PROVE  \E m, n \in DOMAIN Changelog(b) : m < n /\ Changelog(b)[m] = i /\ Changelog(b)[n] = j
    BY DEF AppliedInOrder
  <2>1. /\ Shape(w) /\ RequestInv(w) /\ BatchInv(w, accepted, taken) /\ OrderInv(w, accepted, taken)
        /\ History(accepted, taken, fresh) /\ LogInv(w, log)
    BY Zenon DEF UpsertInv, LineInv
  <2>2. PICK x : x = log[b]
    BY Zenon
  <2>3. /\ x \in Seq(Seq(Items)) /\ Spread(x) /\ \A k \in DOMAIN x : Request(b, x[k], k - 1) \in w.sent
    BY <2>1, <2>2, Zenon DEF LogInv
  <2>4. PICK y : y = mutationsIn(x)
    BY Zenon
  <2>5. Changelog(b) = y
    BY <2>2, <2>4, Zenon DEF Changelog
  <2>6. PICK n \in DOMAIN y : y[n] = j
    BY <2>5, Zenon DEF Range
  <2>7. PICK l \in DOMAIN x : \E q \in DOMAIN x[l] : n = offsetOf(x, l) + q
    BY <2>3, <2>4, <2>6, Zenon DEF Spread
  <2>8. PICK q \in DOMAIN x[l] : n = offsetOf(x, l) + q
    BY <2>7, Zenon
  <2>9. x[l][q] = j
    BY <2>3, <2>4, <2>6, <2>8, Zenon DEF Spread
  <2>10. /\ l \in Nat /\ 1 <= l /\ l <= Len(x) /\ l - 1 \in Nat /\ Len(x) \in Nat /\ q \in Nat
         /\ DOMAIN x = 1 .. Len(x)
    <3>1. x[l] \in Seq(Items)
        BY <2>3
    <3> QED
        BY <2>3, <3>1
  <2>11. PICK r \in w.sent : r.bucket = b /\ r.items = x[l] /\ r.sequence = l - 1
    BY <2>3, Zenon DEF Request
  <2>12. At(w, b, j, l - 1, q)
    BY <2>9, <2>11, Zenon DEF At, Sent, SentIn, requestsOf
  <2>13. PICK s \in 1 .. taken : accepted[s] = j
    <3>1. BatchOK(accepted, taken, b, x[l])
        BY <2>1, <2>11, Zenon DEF BatchInv, requestsOf
    <3>2. Taken(accepted, taken, j)
        BY <2>9, <3>1, Zenon DEF BatchOK
    <3> QED
        BY <3>2, Zenon DEF Taken
  <2>14. /\ accepted \in Seq(Calls) /\ taken \in Nat /\ taken <= Len(accepted)
         /\ \A c, d \in 1 .. Len(accepted) : accepted[c] = accepted[d] => c = d
    BY <2>1, Zenon DEF History
  <2>15. /\ Accepted(i) \in DOMAIN accepted /\ accepted[Accepted(i)] = i
         /\ Accepted(j) \in DOMAIN accepted /\ accepted[Accepted(j)] = j
    BY Zenon DEF Accepted, Range
  <2>16. DOMAIN accepted = 1 .. Len(accepted) /\ s \in 1 .. Len(accepted)
    BY <2>14
  <2>17. Accepted(j) = s
    BY <2>13, <2>14, <2>15, <2>16, Zenon
  <2>18. Accepted(i) \in 1 .. taken
    <3>1. PICK c : c = Accepted(i)
        BY Zenon
    <3>2. c < s /\ c \in 1 .. Len(accepted)
        BY <2>15, <2>16, <2>17, <3>1, Zenon
    <3>3. c \in 1 .. taken
        BY ONLY <2>14, <3>2, s \in 1 .. taken
    <3> QED
        BY <3>1, <3>3, Zenon
  <2>19. PICK k, p \in Nat : At(w, b, i, k, p) /\ (k < l - 1 \/ (k = l - 1 /\ p < q))
    <3>1. Ordered(w, i, j)
        BY <2>1, <2>13, <2>15, <2>17, <2>18, Zenon DEF OrderInv
    <3>2. Before(w, b, i, j)
        BY <3>1, Zenon DEF Ordered
    <3> QED
        BY <2>10, <2>12, <3>2, Zenon DEF Before
  <2>20. PICK c : c = k + 1
    BY Zenon
  <2>21. c \in DOMAIN x /\ c - 1 = k /\ (c < l \/ (c = l /\ p < q))
    BY ONLY <2>10, <2>19, <2>20, k \in Nat
  <2>22. PICK o \in w.sent : o.bucket = b /\ o.items = x[c] /\ o.sequence = k
    BY <2>3, <2>21, Zenon DEF Request
  <2>23. p \in DOMAIN x[c] /\ x[c][p] = i
    BY <2>1, <2>19, <2>22, PlaceIsSent
  <2>24. PICK m : m = offsetOf(x, c) + p
    BY Zenon
  <2>25. m \in DOMAIN y /\ m < n
    BY <2>3, <2>4, <2>8, <2>21, <2>23, <2>24, SpreadOrder, Zenon
  <2>26. y[m] = i
    BY <2>3, <2>4, <2>21, <2>23, <2>24, Zenon DEF Spread
  <2> QED
    BY <2>5, <2>6, <2>25, <2>26, Zenon
<1> QED
    BY <1>1, UpsertInvariance, PTL
=============================================================================
