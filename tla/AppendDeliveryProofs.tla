------------------------- MODULE AppendDeliveryProofs -------------------------
(***************************************************************************)
(* Proofs about Flush and Close of AppendWriter, for any calls, buckets,   *)
(* items and limits.  An append that was accepted and has no result is in  *)
(* commands, in an open or a pending batch or with a running goroutine;    *)
(* when Flush or Close has emptied these, every earlier append has its     *)
(* result.                                                                 *)
(***************************************************************************)
EXTENDS AppendWriterProofs

-----------------------------------------------------------------------------
(* Where an accepted item is until its future completes. *)

\* Item i is in an open batch, in a pending batch or in a running request.
Held(s, i) ==
    \/ \E b \in Buckets : i \in Range(s.batches[b].items)
    \/ \E b \in Buckets : \E n \in DOMAIN s.pending[b] : i \in Range(s.pending[b][n])
    \/ \E e \in s.running : i \in Range(e.request.items)

Stored(s) ==
    /\ DOMAIN s = Fields /\ DOMAIN s.batches = Buckets /\ DOMAIN s.pending = Buckets
    /\ \A b \in Buckets : s.batches[b].items \in Seq(Items) /\ s.pending[b] \in Seq(Seq(Items))

\* From s to t no result changes and no item is dropped without a result.
Kept(s, t) ==
    \A i \in Items :
      /\ s.result[i].err # "open" => t.result[i] = s.result[i]
      /\ Held(s, i) /\ t.result[i].err = "open" => Held(t, i)

\* Kept composes, as the methods of the loop do.
LEMMA KeptTransitive ==
    ASSUME NEW s, NEW t, NEW u, Kept(s, t), Kept(t, u)
    PROVE  Kept(s, u)
  BY Zenon DEF Kept

\* Steps that leave batches, requests and results alone.
LEMMA SameKept ==
    ASSUME NEW s, NEW t, Stored(s), SameSched(s, t), t.result = s.result
    PROVE  Stored(t) /\ Kept(s, t)
  BY Zenon DEF Stored, SameSched, Kept, Held

\* dispatch moves the first pending batch of a bucket into a request.
LEMMA DispatchKept ==
    ASSUME NEW s, Stored(s)
    PROVE  Stored(dispatch(s)) /\ Kept(s, dispatch(s))
<1> DEFINE t == dispatch(s)
           F == startable(s)
<1>1. /\ DOMAIN t = Fields /\ t.batches = s.batches /\ t.result = s.result
      /\ t.pending = popped(s, F)
      /\ t.running = s.running \union
            {[request |-> r, status |-> "run", base |-> -1] :
               r \in {[bucket |-> b, items |-> Head(s.pending[b]), sequence |-> s.sequences[b]] : b \in F}}
    BY DispatchFields, Zenon DEF Stored
<1>2. F \subseteq Buckets /\ \A b \in F : s.pending[b] # <<>>
    BY Zenon DEF startable, ready
<1> HIDE DEF t, F
<1>3. Stored(t)
    BY <1>1, <1>2 DEF Stored, popped
<1>4. ASSUME NEW i \in Items, NEW b \in Buckets, NEW n \in DOMAIN s.pending[b], i \in Range(s.pending[b][n])
      PROVE  Held(t, i)
  <2>1. s.pending[b] \in Seq(Seq(Items)) /\ n \in 1 .. Len(s.pending[b])
    BY <1>4 DEF Stored
  <2>2. CASE b \notin F
    <3>1. t.pending[b] = s.pending[b]
      BY <1>1, <2>2, Zenon DEF popped
    <3> QED
      BY <1>4, <3>1, Zenon DEF Held
  <2>3. CASE b \in F /\ n = 1
    <3> DEFINE e == [request |-> [bucket |-> b, items |-> Head(s.pending[b]), sequence |-> s.sequences[b]],
                     status |-> "run", base |-> -1]
    <3>1. e \in t.running
      BY <1>1, <2>3, Zenon
    <3>2. e.request.items = s.pending[b][n]
      BY <2>1, <2>3
    <3> HIDE DEF e
    <3> QED
      BY <1>4, <3>1, <3>2, Zenon DEF Held
  <2>4. CASE b \in F /\ n # 1
    <3>1. t.pending[b] = Tail(s.pending[b])
      BY <1>1, <2>4, Zenon DEF popped
    <3>2. n - 1 \in DOMAIN t.pending[b] /\ t.pending[b][n - 1] = s.pending[b][n]
      BY <1>2, <2>1, <2>4, <3>1, SMTT(30)
    <3> QED
      BY <1>4, <3>2, Zenon DEF Held
  <2> QED
    BY <2>2, <2>3, <2>4, Zenon
<1>5. \A i \in Items : Held(s, i) => Held(t, i)
    BY <1>1, <1>4, Zenon DEF Held
<1> QED
    BY <1>1, <1>3, <1>5, Zenon DEF Kept, t

\* Completing futures, with whatever result.
LEMMA CompleteEffect ==
    ASSUME NEW s, DOMAIN s = Fields, NEW items, NEW res
    PROVE  LET t == complete(s, items, res)
           IN  /\ SameSched(s, t)
               /\ \A i \in Items : t.result[i] = IF i \in items /\ s.result[i].err = "open" THEN res[i] ELSE s.result[i]
<1> DEFINE t == complete(s, items, res)
           r == [i \in Items |-> IF i \in items /\ s.result[i].err = "open" THEN res[i] ELSE s.result[i]]
<1>1. SameSched(s, t) /\ t.result = r
    BY Zenon DEF complete, Fields, SameSched
<1> HIDE DEF t
<1> QED
    BY <1>1, Zenon DEF t

\* What Append does to a sequence: the elements it has, and the new one.
LEMMA AppendKeeps ==
    ASSUME NEW S, NEW p \in Seq(S), NEW x \in S
    PROVE  /\ Append(p, x) \in Seq(S) /\ Len(Append(p, x)) = Len(p) + 1
           /\ \A n \in DOMAIN p : n \in DOMAIN Append(p, x) /\ Append(p, x)[n] = p[n]
           /\ Len(p) + 1 \in DOMAIN Append(p, x) /\ Append(p, x)[Len(p) + 1] = x
  OBVIOUS

\* flushBucket queues the open batch or, in a poisoned bucket, fails its items.
LEMMA FlushKept ==
    ASSUME NEW s, Stored(s), NEW B \in SUBSET Buckets
    PROVE  LET t == flushBuckets(s, B)
           IN  /\ Stored(t) /\ Kept(s, t)
               /\ (\A b \in B \cap s.poisoned : s.batches[b].items = <<>>) =>
                     \A i \in Items : t.result[i] = s.result[i]
<1> DEFINE full == {b \in B : s.batches[b].items # <<>>}
           dead == full \cap s.poisoned
           queued == [s EXCEPT
             !.batches = [b \in Buckets |-> IF b \in full THEN EmptyBatch ELSE @[b]],
             !.flushed = [b \in Buckets |-> IF b \in full THEN Append(@[b], s.batches[b].items) ELSE @[b]],
             !.pending = queue(s, full \ dead)]
           failing == UNION {Range(s.batches[b].items) : b \in dead}
           res == [i \in failing |-> [err |-> "poisoned", offset |-> -1,
                                      bucket |-> CHOOSE b \in dead : i \in Range(s.batches[b].items)]]
           q == complete(queued, failing, res)
<1>1. flushBuckets(s, B) = dispatch(q)
    BY Zenon DEF flushBuckets
<1>2. /\ DOMAIN queued = Fields
      /\ queued.batches = [b \in Buckets |-> IF b \in full THEN EmptyBatch ELSE s.batches[b]]
      /\ queued.pending = queue(s, full \ dead)
      /\ queued.running = s.running /\ queued.result = s.result
    BY Zenon DEF Stored, Fields
<1> HIDE DEF queued
<1>3. \A i \in failing : res[i].err = "poisoned"
    BY Zenon
<1> HIDE DEF res
<1>4. /\ SameSched(queued, q)
      /\ \A i \in Items : q.result[i] = IF i \in failing /\ s.result[i].err = "open" THEN res[i] ELSE s.result[i]
    BY <1>2, CompleteEffect
<1> HIDE DEF q
<1>5. Stored(q)
  <2>1. \A b \in Buckets : q.batches[b].items \in Seq(Items)
    BY <1>2, <1>4 DEF Stored, SameSched, EmptyBatch
  <2>2. \A b \in Buckets : q.pending[b] \in Seq(Seq(Items))
    BY <1>2, <1>4 DEF Stored, SameSched, queue
  <2> QED
    BY <1>2, <1>4, <2>1, <2>2 DEF Stored, SameSched, queue
<1>6. ASSUME NEW i \in Items, Held(s, i), q.result[i].err = "open"
      PROVE  Held(q, i)
  <2>1. i \notin failing
    BY <1>3, <1>4, <1>6
  <2>2. CASE \E b \in Buckets : i \in Range(s.batches[b].items)
    <3>1. PICK b \in Buckets : i \in Range(s.batches[b].items)
      BY <2>2, Zenon
    <3>2. CASE b \in full
      <4>1. b \in full \ dead
        BY <2>1, <3>1, <3>2
      <4>2. q.pending[b] = Append(s.pending[b], s.batches[b].items)
        BY <1>2, <1>4, <4>1 DEF queue, SameSched
      <4>3. s.pending[b] \in Seq(Seq(Items)) /\ s.batches[b].items \in Seq(Items)
        BY Zenon DEF Stored
      <4>4. Len(s.pending[b]) + 1 \in DOMAIN q.pending[b] /\ q.pending[b][Len(s.pending[b]) + 1] = s.batches[b].items
        BY <4>2, <4>3
      <4> QED
        BY <3>1, <4>4, Zenon DEF Held
    <3>3. CASE b \notin full
      BY <1>2, <1>4, <3>1, <3>3 DEF Held, SameSched
    <3> QED
      BY <3>2, <3>3, Zenon
  <2>3. CASE \E b \in Buckets : \E n \in DOMAIN s.pending[b] : i \in Range(s.pending[b][n])
    <3>1. PICK b \in Buckets : \E n \in DOMAIN s.pending[b] : i \in Range(s.pending[b][n])
      BY <2>3, Zenon
    <3>2. PICK n \in DOMAIN s.pending[b] : i \in Range(s.pending[b][n])
      BY <3>1, Zenon
    <3>3. s.pending[b] \in Seq(Seq(Items)) /\ s.batches[b].items \in Seq(Items)
      BY Zenon DEF Stored
    <3>4. q.pending[b] = s.pending[b] \/ q.pending[b] = Append(s.pending[b], s.batches[b].items)
      BY <1>2, <1>4 DEF queue, SameSched
    <3>5. n \in DOMAIN q.pending[b] /\ q.pending[b][n] = s.pending[b][n]
      BY <3>3, <3>4, AppendKeeps, SMTT(30)
    <3> QED
      BY <3>2, <3>5, Zenon DEF Held
  <2>4. CASE \E e \in s.running : i \in Range(e.request.items)
    BY <1>2, <1>4, <2>4, Zenon DEF Held, SameSched
  <2> QED
    BY <1>6, <2>2, <2>3, <2>4 DEF Held
<1>7. Kept(s, q)
    BY <1>4, <1>6, Zenon DEF Kept
<1>8. Stored(dispatch(q)) /\ Kept(s, dispatch(q)) /\ dispatch(q).result = q.result
    BY <1>5, <1>7, DispatchKept, KeptTransitive, DispatchFields DEF Stored
<1>9. (\A b \in B \cap s.poisoned : s.batches[b].items = <<>>) => \A i \in Items : q.result[i] = s.result[i]
    BY <1>4, Zenon
<1> QED
    BY <1>1, <1>8, <1>9, Zenon

\* queueAll keeps every item, leaves no open batch and no timer; without an
\* error it completes nothing.
LEMMA QueueAllKept ==
    ASSUME NEW s, Stored(s), Counted(s)
    PROVE  LET t == queueAll(s)
           IN  /\ Stored(t) /\ Kept(s, t) /\ t.timer = FALSE
               /\ \A b \in Buckets : t.batches[b].items = <<>>
               /\ queueAllErr(s) = "nil" => \A i \in Items : t.result[i] = s.result[i]
<1> DEFINE u == [s EXCEPT !.timer = FALSE]
<1>1. /\ DOMAIN u = Fields /\ u.batches = s.batches /\ u.pending = s.pending /\ u.running = s.running
      /\ u.roundRobin = s.roundRobin /\ u.sticky = s.sticky /\ u.active = s.active /\ u.inFlight = s.inFlight
      /\ u.result = s.result /\ u.poisoned = s.poisoned /\ u.timer = FALSE
    BY Zenon DEF Stored, Fields
<1> HIDE DEF u
<1>2. Stored(u) /\ Kept(s, u) /\ Counted(u)
    BY <1>1, Zenon DEF Stored, Kept, Held, Counted
<1>3. /\ Stored(flushBuckets(u, Buckets)) /\ Kept(u, flushBuckets(u, Buckets))
      /\ (\A b \in Buckets \cap u.poisoned : u.batches[b].items = <<>>) =>
            \A i \in Items : flushBuckets(u, Buckets).result[i] = u.result[i]
    BY <1>2, FlushKept, Zenon
<1>4. /\ flushBuckets(u, Buckets).timer = u.timer
      /\ \A b \in Buckets : flushBuckets(u, Buckets).batches[b].items = <<>>
    BY <1>2, FlushSched, Zenon
<1>5. queueAll(s) = flushBuckets(u, Buckets)
    BY Zenon DEF queueAll, u
<1>6. queueAllErr(s) = "nil" => \A b \in Buckets \cap u.poisoned : u.batches[b].items = <<>>
    BY <1>1, Zenon DEF queueAllErr
<1> QED
    BY <1>1, <1>2, <1>3, <1>4, <1>5, <1>6, KeptTransitive

\* put leaves the item in an open batch.
LEMMA PutKept ==
    ASSUME NEW s, Stored(s), NEW b \in Buckets, NEW i \in Items
    PROVE  Stored(put(s, b, i)) /\ Kept(s, put(s, b, i)) /\ Held(put(s, b, i), i)
<1> DEFINE t == put(s, b, i)
<1>1. /\ DOMAIN t = Fields /\ DOMAIN t.batches = Buckets /\ t.pending = s.pending
      /\ t.running = s.running /\ t.result = s.result
      /\ \A c \in Buckets \ {b} : t.batches[c] = s.batches[c]
      /\ t.batches[b].items = Append(s.batches[b].items, i)
    BY Zenon DEF Stored, Fields, put
<1>2. s.batches[b].items \in Seq(Items)
    BY DEF Stored
<1> HIDE DEF t
<1>3. /\ t.batches[b].items \in Seq(Items) /\ i \in Range(t.batches[b].items)
      /\ Range(s.batches[b].items) \subseteq Range(t.batches[b].items)
    BY <1>1, <1>2, AppendKeeps, SMTT(30) DEF Range
<1>4. \A c \in Buckets : /\ t.batches[c].items \in Seq(Items)
                         /\ Range(s.batches[c].items) \subseteq Range(t.batches[c].items)
  <2> SUFFICES ASSUME NEW c \in Buckets
               PROVE  /\ t.batches[c].items \in Seq(Items)
                      /\ Range(s.batches[c].items) \subseteq Range(t.batches[c].items)
    BY Zenon
  <2>1. CASE c = b
    BY <1>3, <2>1, Zenon
  <2>2. CASE c # b
    <3>1. t.batches[c] = s.batches[c]
      BY <1>1, <2>2, Zenon
    <3> QED
      BY <3>1, Zenon DEF Stored
  <2> QED
    BY <2>1, <2>2, Zenon
<1>5. Stored(t)
    BY <1>1, <1>4, Zenon DEF Stored
<1>6. Held(t, i)
    BY <1>3, Zenon DEF Held
<1>7. \A j : Held(s, j) => Held(t, j)
    BY <1>1, <1>4, Zenon DEF Held
<1> QED
    BY <1>1, <1>5, <1>6, <1>7 DEF Kept, t

\* The counters and the timer have no part in it.
LEMMA RotateKept ==
    ASSUME NEW s, Stored(s), NEW i
    PROVE  /\ Stored(advanceSticky(s)) /\ Kept(s, advanceSticky(s))
           /\ Stored(assigned(s, i)) /\ Kept(s, assigned(s, i))
           /\ Stored(armTimer(s)) /\ Kept(s, armTimer(s))
<1> DEFINE Same(t) == DOMAIN t = Fields /\ t.batches = s.batches /\ t.pending = s.pending
                      /\ t.running = s.running /\ t.result = s.result
<1>1. Same(s) /\ Same([s EXCEPT !.sticky = (@ + 1) % NumBuckets])
    BY Zenon DEF Stored, Fields
<1>2. Same([s EXCEPT !.roundRobin = (@ + 1) % NumBuckets]) /\ Same([s EXCEPT !.timer = ~Immediate])
    BY Zenon DEF Stored, Fields
<1> HIDE DEF Same
<1>3. Same(advanceSticky(s)) /\ Same(assigned(s, i)) /\ Same(armTimer(s))
    BY <1>1, <1>2, Zenon DEF advanceSticky, assigned, armTimer
<1>4. \A t : Same(t) => Stored(t) /\ Kept(s, t)
    BY DEF Same, Stored, Kept, Held
<1> QED
    BY <1>3, <1>4, Zenon

\* add: the item is held by the loop unless it failed.
LEMMA AddKept ==
    ASSUME NEW s, Stored(s), SchedInv(s), NEW i \in Items, NEW ctxDone
    PROVE  LET t == add(s, i, ctxDone)
           IN  /\ Stored(t) /\ Kept(s, t)
               /\ t.result[i].err = "open" => Held(t, i)
<1> DEFINE Good(t) == Stored(t) /\ Kept(s, t) /\ (t.result[i].err = "open" => Held(t, i))
<1>1. \A err \in {"ctx", "key"} : Good(fail(s, {i}, err, 0))
  <2> SUFFICES ASSUME NEW err \in {"ctx", "key"} PROVE Good(fail(s, {i}, err, 0))
    BY Zenon
  <2> DEFINE t == fail(s, {i}, err, 0)
             res == [j \in {i} |-> [err |-> err, bucket |-> 0, offset |-> -1]]
  <2>1. /\ SameSched(s, t)
        /\ \A j \in Items : t.result[j] = IF j \in {i} /\ s.result[j].err = "open" THEN res[j] ELSE s.result[j]
    BY CompleteEffect DEF fail, Stored
  <2>2. res[i].err = err
    BY Zenon
  <2> HIDE DEF t, res
  <2>3. Stored(t) /\ (\A j : Held(s, j) => Held(t, j)) /\ t.result[i].err # "open"
    BY <2>1, <2>2, Zenon DEF Stored, SameSched, Held
  <2> QED
    BY <2>1, <2>3, Zenon DEF Kept, t
<1>2. ASSUME NEW r, Stored(r), Kept(s, r), NEW b \in Buckets
      PROVE  LET a == put(r, b, i)
             IN  /\ Good(advanceSticky(flushBuckets(a, {b}))) /\ Good(flushBuckets(a, {b}))
                 /\ Good(armTimer(a))
  <2> DEFINE a == put(r, b, i)
             f == flushBuckets(a, {b})
  <2>1. Stored(a) /\ Kept(s, a) /\ Held(a, i)
    BY <1>2, PutKept, KeptTransitive, Zenon
  <2> HIDE DEF a
  <2>2. Stored(f) /\ Kept(a, f)
    BY <2>1, FlushKept, Zenon
  <2> HIDE DEF f
  <2>3. \A t : Stored(t) /\ Kept(a, t) => Good(t)
    BY <2>1, KeptTransitive, Zenon DEF Kept
  <2>4. Stored(advanceSticky(f)) /\ Kept(a, advanceSticky(f)) /\ Stored(armTimer(a)) /\ Kept(a, armTimer(a))
    BY <2>1, <2>2, RotateKept, KeptTransitive, Zenon
  <2> HIDE DEF Good
  <2> QED
    BY <2>2, <2>3, <2>4, Zenon DEF a, f
<1>3. Good(addArrow(s, i))
  <2>1. PICK b \in Buckets : b = assignBucket(s, i)
    BY AssignSched, Zenon
  <2>2. PICK r : r = flushBuckets(s, {b})
    BY Zenon
  <2>3. Stored(r) /\ Kept(s, r)
    BY <2>2, FlushKept, Zenon
  <2>4. addArrow(s, i) = flushBuckets(put(r, b, i), {b})
    BY <2>1, <2>2, Zenon DEF addArrow
  <2> HIDE DEF Good
  <2> QED
    BY <1>2, <2>3, <2>4, Zenon
<1>4. Good(addRow(s, i))
  <2>1. PICK first \in Buckets : first = assignBucket(s, i)
    BY AssignSched, Zenon
  <2>2. PICK s1 : s1 = assigned(s, i)
    BY Zenon
  <2>3. Stored(s1) /\ Kept(s, s1) /\ SchedInv(s1)
    BY <2>2, RotateKept, AssignSched
  <2>4. PICK room : room = makeRoom(s1, first, i)
    BY Zenon
  <2>5. Stored(flushBuckets(s1, {first})) /\ Kept(s, flushBuckets(s1, {first}))
    BY <2>3, FlushKept, KeptTransitive, Zenon
  <2>6. Stored(room) /\ Kept(s, room) /\ SchedInv(room)
    BY <2>3, <2>4, <2>5, RotateKept, KeptTransitive, MakeRoomSched DEF makeRoom
  <2>7. PICK b \in Buckets : b = IF Assigner = "sticky" THEN assignBucket(room, i) ELSE first
    BY <2>6, AssignSched, Zenon
  <2>8. addRow(s, i) = IF batchFull(put(room, b, i).batches[b]) \/ Immediate
                         THEN advanceSticky(flushBuckets(put(room, b, i), {b})) ELSE armTimer(put(room, b, i))
    BY <2>1, <2>2, <2>4, <2>7 DEF addRow
  <2> HIDE DEF Good
  <2> QED
    BY <1>2, <2>6, <2>8
<1> QED
    BY <1>1, <1>3, <1>4, Zenon DEF add

\* completeBatch and failPending: the items of the request that ended, and with
\* an error those pending for its bucket, get a result; nothing else moves.
LEMMA CompletedKept ==
    ASSUME NEW s, Stored(s), NEW e \in s.running, NEW b \in Buckets,
           NEW u, DOMAIN u = Fields, u.batches = s.batches, u.pending = s.pending,
           u.running = s.running \ {e}, u.result = s.result
    PROVE  LET t == completedBatch(u, e, b)
           IN  /\ Stored(t) /\ Kept(s, t)
               /\ e.status # "err" => \A i \in Items : t.result[i] = s.result[i] \/ t.result[i].err = "nil"
<1> DEFINE t == completedBatch(u, e, b)
           mine == Range(e.request.items)
<1>2. \A i : Held(s, i) => Held(u, i) \/ i \in mine
    BY Zenon DEF Held
<1>3. CASE e.status # "err"
  <2> DEFINE v == [u EXCEPT !.sequences[b] = @ + 1]
             at(i) == RowsIn(SubSeq(e.request.items, 1, (CHOOSE n \in DOMAIN e.request.items : e.request.items[n] = i) - 1))
             res == [i \in mine |-> [err |-> "nil", bucket |-> b, offset |-> IF e.base = -1 THEN -1 ELSE e.base + at(i)]]
  <2>1. DOMAIN v = Fields /\ v.batches = u.batches /\ v.pending = u.pending /\ v.running = u.running /\ v.result = u.result
    BY Zenon DEF Fields
  <2> HIDE DEF v
  <2>2. t = complete(v, mine, res)
    BY <1>3, Zenon DEF completedBatch, acknowledge, v
  <2>3. \A i \in mine : res[i].err = "nil"
    BY Zenon
  <2> HIDE DEF res
  <2>4. /\ SameSched(v, t)
        /\ \A i \in Items : t.result[i] = IF i \in mine /\ v.result[i].err = "open" THEN res[i] ELSE v.result[i]
    BY <2>1, <2>2, CompleteEffect
  <2> HIDE DEF t, mine
  <2>5. Stored(t) /\ \A i : Held(u, i) => Held(t, i)
    BY <2>1, <2>4 DEF Stored, SameSched, Held
  <2>6. Kept(s, t)
    BY <1>2, <2>1, <2>3, <2>4, <2>5 DEF Kept
  <2>7. \A i \in Items : t.result[i] = s.result[i] \/ t.result[i].err = "nil"
    BY <2>1, <2>3, <2>4
  <2> QED
    BY <1>3, <2>5, <2>6, <2>7 DEF t
<1>4. CASE e.status = "err"
  <2> DEFINE v == [u EXCEPT !.poisoned = @ \union {b}, !.pending[b] = <<>>]
             rest == UNION {Range(u.pending[b][n]) : n \in DOMAIN u.pending[b]}
             res1 == [i \in mine |-> [err |-> "failed", bucket |-> b, offset |-> -1]]
             res2 == [i \in rest |-> [err |-> "poisoned", bucket |-> b, offset |-> -1]]
             x == complete(v, mine, res1)
  <2>1. /\ DOMAIN v = Fields /\ v.batches = u.batches /\ v.running = u.running /\ v.result = u.result
        /\ v.pending = [u.pending EXCEPT ![b] = <<>>]
    BY Zenon DEF Fields
  <2> HIDE DEF v
  <2>2. t = complete(x, rest, res2)
    BY <1>4, Zenon DEF completedBatch, failedBatch, fail, v
  <2>3. (\A i \in mine : res1[i].err = "failed") /\ (\A i \in rest : res2[i].err = "poisoned")
    BY Zenon
  <2> HIDE DEF res1, res2
  <2>4. /\ SameSched(v, x)
        /\ \A i \in Items : x.result[i] = IF i \in mine /\ v.result[i].err = "open" THEN res1[i] ELSE v.result[i]
    BY <2>1, CompleteEffect
  <2> HIDE DEF x
  <2>5. /\ SameSched(x, t)
        /\ \A i \in Items : t.result[i] = IF i \in rest /\ x.result[i].err = "open" THEN res2[i] ELSE x.result[i]
    <3>1. DOMAIN x = Fields
      BY <2>4, Zenon DEF SameSched
    <3> QED
      BY <2>2, <3>1, CompleteEffect
  <2> HIDE DEF t
  <2>6. \A i : Held(u, i) => Held(v, i) \/ i \in rest
    <3>1. \A c \in Buckets \ {b} : v.pending[c] = u.pending[c]
      BY <2>1, Zenon DEF Stored
    <3> QED
      BY <2>1, <3>1 DEF Held
  <2> HIDE DEF rest, mine
  <2>7. \A i : Held(v, i) => Held(t, i)
    BY <2>4, <2>5 DEF SameSched, Held
  <2>8. Stored(t)
    BY <2>1, <2>4, <2>5 DEF Stored, SameSched
  <2>9. Kept(s, t)
    <3>1. ASSUME NEW i \in Items, s.result[i].err # "open" PROVE t.result[i] = s.result[i]
      BY <2>1, <2>4, <2>5, <3>1
    <3>2. ASSUME NEW i, Held(s, i) PROVE Held(t, i) \/ i \in mine \/ i \in rest
      BY ONLY <1>2, <2>6, <2>7, <3>2, Zenon
    <3>3. ASSUME NEW i \in Items, t.result[i].err = "open" PROVE i \notin mine /\ i \notin rest
      BY <2>1, <2>3, <2>4, <2>5, <3>3
    <3> QED
      BY ONLY <3>1, <3>2, <3>3, Zenon DEF Kept
  <2> QED
    BY <1>4, <2>8, <2>9, Zenon DEF t
<1> QED
    BY <1>3, <1>4, Zenon

\* handleCompletion, with the dispatch that ends it.
LEMMA HandleKept ==
    ASSUME NEW s, Stored(s), SchedInv(s), NEW e \in s.running
    PROVE  LET t == handleCompletion(s, e)
           IN  /\ Stored(t) /\ Kept(s, t) /\ t.batches = s.batches /\ t.timer = s.timer
               /\ e.status # "err" => \A i \in Items : t.result[i] = s.result[i] \/ t.result[i].err = "nil"
<1> DEFINE b == e.request.bucket
           u == [s EXCEPT !.active = @ \ {b}, !.inFlight = @ - 1, !.running = @ \ {e}]
           q == completedBatch(u, e, b)
<1>1. b \in Buckets
    BY Zenon DEF SchedInv, Counted
<1>2. /\ DOMAIN u = Fields /\ u.batches = s.batches /\ u.timer = s.timer /\ u.pending = s.pending
      /\ u.running = s.running \ {e} /\ u.result = s.result
    BY Zenon DEF Stored, Fields
<1> HIDE DEF u
<1>3. /\ Stored(q) /\ Kept(s, q)
      /\ e.status # "err" => \A i \in Items : q.result[i] = s.result[i] \/ q.result[i].err = "nil"
    BY <1>1, <1>2, CompletedKept
<1>4. handleCompletion(s, e) = dispatch(q)
    BY Zenon DEF handleCompletion, u
<1>5. q.batches = s.batches /\ q.timer = s.timer
    BY <1>2, CompletedFields
<1> HIDE DEF q
<1>6. /\ Stored(dispatch(q)) /\ Kept(q, dispatch(q)) /\ dispatch(q).result = q.result
      /\ dispatch(q).batches = q.batches /\ dispatch(q).timer = q.timer
    BY <1>3, DispatchKept, DispatchFields, Zenon DEF Stored
<1> QED
    BY <1>3, <1>4, <1>5, <1>6, KeptTransitive, Zenon

\* A goroutine that reports its result keeps its items.
LEMMA FinishKept ==
    ASSUME NEW s, Stored(s), SchedInv(s), NEW e \in s.running, NEW status, NEW base
    PROVE  LET t == [s EXCEPT !.running = (@ \ {e}) \union {[e EXCEPT !.status = status, !.base = base]}]
           IN  Stored(t) /\ Kept(s, t) /\ t.result = s.result /\ t.batches = s.batches /\ t.timer = s.timer
<1> DEFINE f == [e EXCEPT !.status = status, !.base = base]
           t == [s EXCEPT !.running = (@ \ {e}) \union {f}]
<1>1. f.request = e.request
    BY Zenon DEF SchedInv, Counted
<1> HIDE DEF f
<1>2. /\ DOMAIN t = Fields /\ t.batches = s.batches /\ t.timer = s.timer
      /\ t.pending = s.pending /\ t.result = s.result /\ t.running = (s.running \ {e}) \union {f}
    BY Zenon DEF Stored, Fields
<1> HIDE DEF t
<1>3. \A i : Held(s, i) => Held(t, i)
    BY <1>1, <1>2, Zenon DEF Held
<1>4. Stored(t) /\ Kept(s, t)
    BY <1>2, <1>3 DEF Stored, Kept
<1> QED
    BY <1>2, <1>4, Zenon DEF t, f

-----------------------------------------------------------------------------
(* Flush and Close. *)

Barriers == Flushers \union Closers

\* How many of the accepted commands the loop has taken.
Taken == Len(accepted) - Len(commands)

\* The n-th accepted command is not an append that still waits for a result.
Complete(n) == accepted[n] \in Items => w.result[accepted[n]].err # "open"

CallTypes ==
    /\ DOMAIN pc = Calls
    /\ commands \in Seq(Calls) /\ accepted \in Seq(Calls)
    /\ DOMAIN barrier = Barriers /\ DOMAIN ret = Barriers /\ covered \in [Barriers -> SUBSET Items]
    /\ loop \in [pc : {"select", "flush", "close", "exited"}, call : Calls \union {None}, err : {"nil", "err"}]

\* The commands channel holds the end of what was accepted, a call sends one
\* command, and what a Flush covers the loop has taken.
QueueInv ==
    /\ Len(commands) <= Len(accepted)
    /\ \A m \in DOMAIN commands : commands[m] = accepted[Taken + m]
    /\ \A m, n \in DOMAIN accepted : accepted[m] = accepted[n] => m = n
    /\ \A n \in DOMAIN accepted : pc[accepted[n]] \in {"await", "returned"}
    /\ \A p \in Barriers : \A i \in covered[p] : \E n \in 1 .. Taken : accepted[n] = i

\* appendMu, and that nothing is accepted after a Close.
LockInv ==
    /\ \A p \in Calls : pc[p] = "locked" => mu = p /\ (p \in Closers => closed)
    /\ \A n \in DOMAIN accepted : accepted[n] \in Closers => n = Len(accepted) /\ closed /\ mu = None

\* The loop holds every append that it took and that has no result yet.
HeldInv ==
    /\ Stored(w)
    /\ \A n \in 1 .. Taken : ~Complete(n) => Held(w, accepted[n])

\* What flushAll knows of the Flush or Close it works for.
BarrierWork ==
    /\ Taken >= 1 /\ accepted[Taken] = loop.call /\ loop.call \in Barriers
    /\ loop.call \in Closers <=> loop.pc = "close"
    /\ \A b \in Buckets : w.batches[b].items = <<>>
    /\ ~w.timer
    /\ loop.err = "nil" => \A i \in covered[loop.call] : w.result[i].err \in {"open", "nil"}

LoopInv ==
    /\ loop.pc \in {"flush", "close"} => BarrierWork
    /\ done <=> loop.pc = "exited"
    /\ done => /\ commands = <<>> /\ w.running = {} /\ ~w.timer
               /\ \E n \in DOMAIN accepted : accepted[n] \in Closers
               /\ \A n \in DOMAIN accepted : Complete(n)

\* What the answer of a Flush or Close means.
Answered(p) ==
    /\ \E n \in 1 .. Taken : accepted[n] = p /\ \A m \in 1 .. n - 1 : Complete(m)
    /\ barrier[p] = "nil" => \A i \in covered[p] : w.result[i].err = "nil"

BarrierInv == \A p \in Barriers : barrier[p] # None => Answered(p)

CloseInv ==
    \A c \in Closers :
      /\ barrier[c] # None => done /\ barrier[c] = closeErr
      /\ pc[c] = "returned" => ret[c] = "ctx" \/ (done /\ ret[c] = closeErr)

DeliveryInv == CallTypes /\ QueueInv /\ LockInv /\ HeldInv /\ LoopInv /\ BarrierInv /\ CloseInv

\* The number of commands taken, as an index into accepted.
LEMMA TakenFacts ==
    ASSUME CallTypes, QueueInv
    PROVE  /\ Len(accepted) \in Nat /\ Len(commands) \in Nat /\ Taken \in Nat /\ Taken <= Len(accepted)
           /\ DOMAIN accepted = 1 .. Len(accepted) /\ DOMAIN commands = 1 .. Len(commands)
           /\ \A n \in 1 .. Taken : n \in DOMAIN accepted
           /\ \A n \in DOMAIN accepted : accepted[n] \in Calls
  BY DEF CallTypes, QueueInv, Taken

\* A new writer satisfies the invariant.
LEMMA InitDelivery == Init => DeliveryInv
<1> SUFFICES ASSUME Init PROVE DeliveryInv
    OBVIOUS
<1> USE ConfigAssumption DEF Init, Barriers
<1>1. commands = <<>> /\ accepted = <<>> /\ Len(<<>>) = 0 /\ Taken = 0 /\ DOMAIN accepted = {} /\ DOMAIN commands = {}
    BY DEF Taken
<1>2. CallTypes
  <2>1. loop \in [pc : {"select", "flush", "close", "exited"}, call : Calls \union {None}, err : {"nil", "err"}]
    BY Zenon
  <2>2. covered \in [Barriers -> SUBSET Items]
    BY Zenon
  <2> QED
    BY <1>1, <2>1, <2>2 DEF CallTypes
<1>3. QueueInv
    BY <1>1 DEF QueueInv, Barriers
<1>4. LockInv
    BY <1>1, Zenon DEF LockInv
<1>5. HeldInv
  <2>1. DOMAIN w = Fields /\ w.batches = [b \in Buckets |-> EmptyBatch] /\ w.pending = [b \in Buckets |-> <<>>]
    BY Zenon DEF Fields
  <2> HIDE DEF Init
  <2>2. ASSUME NEW b \in Buckets
        PROVE  w.batches[b].items \in Seq(Items) /\ w.pending[b] \in Seq(Seq(Items))
    <3>1. w.batches[b] = EmptyBatch /\ w.pending[b] = <<>>
      BY <2>1, Zenon
    <3>2. w.batches[b].items = <<>>
      BY <3>1 DEF EmptyBatch
    <3> QED
      BY <3>1, <3>2
  <2>3. Stored(w)
    BY <2>1, <2>2, Zenon DEF Stored
  <2> QED
    BY <1>1, <2>3 DEF HeldInv
<1>6. LoopInv /\ BarrierInv /\ CloseInv
    BY Zenon DEF LoopInv, BarrierInv, CloseInv, Calls
<1> QED
    BY <1>2, <1>3, <1>4, <1>5, <1>6, Zenon DEF DeliveryInv

\* A step of the loop or of a goroutine on w that takes no command.
LEMMA WorkDelivery ==
    ASSUME DeliveryInv, UNCHANGED <<pc, mu, closed, ret, accepted, commands, barrier, covered, done, closeErr>>,
           Stored(w'), Kept(w, w'),
           loop' \in [pc : {"select", "flush", "close", "exited"}, call : Calls \union {None}, err : {"nil", "err"}],
           loop'.pc = loop.pc, loop'.call = loop.call,
           loop.pc \in {"flush", "close"} => w'.batches = w.batches /\ w'.timer = w.timer,
           loop.pc \in {"flush", "close"} /\ loop'.err = "nil" =>
             loop.err = "nil" /\ \A i \in Items : w'.result[i] = w.result[i] \/ w'.result[i].err = "nil",
           done => w'.running = w.running /\ w'.timer = w.timer
    PROVE  DeliveryInv'
<1> USE DEF DeliveryInv
<1>1. /\ Taken' = Taken /\ Taken \in Nat /\ Taken <= Len(accepted) /\ DOMAIN accepted = 1 .. Len(accepted)
      /\ Len(accepted) \in Nat
    BY TakenFacts, Zenon DEF Taken
<1>2. \A i \in Items : w.result[i].err # "open" => w'.result[i] = w.result[i]
    BY Zenon DEF Kept
<1>3. \A n \in DOMAIN accepted : Complete(n) => Complete(n)'
    BY <1>2, Zenon DEF Complete
<1>4. CallTypes' /\ QueueInv' /\ LockInv' /\ CloseInv'
    BY <1>1, ZenonT(40) DEF CallTypes, QueueInv, LockInv, CloseInv
<1>5. HeldInv'
  <2>1. ASSUME NEW n \in 1 .. Taken, ~Complete(n)'
        PROVE  Held(w', accepted[n])
    <3>1. n \in DOMAIN accepted /\ ~Complete(n)
      <4>1. n \in DOMAIN accepted
        BY ONLY <1>1, <2>1
      <4> QED
        BY ONLY <1>3, <2>1, <4>1, Zenon
    <3>2. Held(w, accepted[n])
      BY <3>1, Zenon DEF HeldInv
    <3>3. accepted[n] \in Items /\ w'.result[accepted[n]].err = "open"
      BY <2>1, Zenon DEF Complete
    <3> QED
      BY <3>2, <3>3, Zenon DEF Kept
  <2> QED
    BY <1>1, <2>1, Zenon DEF HeldInv, Held
<1>6. LoopInv'
  <2>1. ASSUME loop.pc \in {"flush", "close"} PROVE BarrierWork'
    <3>1. BarrierWork
      BY <2>1, Zenon DEF LoopInv
    <3>2. covered[loop.call] \subseteq Items
      BY <3>1, Zenon DEF BarrierWork, CallTypes
    <3>3. loop'.err = "nil" => \A i \in covered[loop.call] : w'.result[i].err \in {"open", "nil"}
      BY <2>1, <3>1, <3>2 DEF BarrierWork
    <3> QED
      BY <1>1, <2>1, <3>1, <3>3 DEF BarrierWork
  <2>2. done => \A n \in DOMAIN accepted : Complete(n)'
    BY <1>3, Zenon DEF LoopInv
  <2> QED
    BY <2>1, <2>2 DEF LoopInv, Complete
<1>7. BarrierInv'
  <2> SUFFICES ASSUME NEW p \in Barriers, barrier[p] # None PROVE Answered(p)'
    BY Zenon DEF BarrierInv
  <2>1. Answered(p) /\ covered[p] \subseteq Items
    BY Zenon DEF BarrierInv, CallTypes
  <2>2. PICK n \in 1 .. Taken : accepted[n] = p /\ \A m \in 1 .. n - 1 : Complete(m)
    BY <2>1, Zenon DEF Answered
  <2>3. \A m \in 1 .. n - 1 : Complete(m)'
    <3>1. \A m \in 1 .. n - 1 : m \in DOMAIN accepted
      BY ONLY <1>1, <2>2
    <3> QED
      BY ONLY <1>3, <2>2, <3>1, Zenon
  <2>4. barrier[p] = "nil" => \A i \in covered[p] : w'.result[i].err = "nil"
    BY <1>2, <2>1 DEF Answered
  <2> QED
    BY <1>1, <2>2, <2>3, <2>4 DEF Answered, Complete
<1> QED
    BY <1>4, <1>5, <1>6, <1>7

\* A step of a caller that sends nothing: it touches only its own future, which
\* the loop does not know yet.
LEMMA CallerDelivery ==
    ASSUME DeliveryInv, NEW p \in Calls,
           UNCHANGED <<accepted, commands, barrier, covered, done, closeErr, loop>>,
           DOMAIN pc' = Calls, DOMAIN ret' = Barriers,
           \A q \in Calls : q # p => pc'[q] = pc[q],
           \A q \in Barriers : q # p => ret'[q] = ret[q],
           pc[p] \in {"await", "returned"} => pc'[p] \in {"await", "returned"} /\ w' = w,
           p \in Closers /\ pc'[p] = "returned" => ret'[p] = "ctx" \/ (done /\ ret'[p] = closeErr),
           LockInv', SameSched(w, w'),
           \A i \in Items : i # p => w'.result[i] = w.result[i]
    PROVE  DeliveryInv'
<1> USE DEF DeliveryInv
<1>1. /\ Taken' = Taken /\ Taken \in Nat /\ Taken <= Len(accepted) /\ DOMAIN accepted = 1 .. Len(accepted)
      /\ Len(accepted) \in Nat /\ \A n \in DOMAIN accepted : accepted[n] \in Calls
    BY TakenFacts DEF Taken
<1>2. \A n \in DOMAIN accepted : accepted[n] \in Items => w'.result[accepted[n]] = w.result[accepted[n]]
    BY Zenon DEF QueueInv
<1>3. \A n \in DOMAIN accepted : Complete(n)' <=> Complete(n)
    BY <1>2, Zenon DEF Complete
<1>4. CallTypes'
    BY Zenon DEF CallTypes
<1>5. QueueInv'
    BY <1>1, ZenonT(40) DEF QueueInv
<1>6. HeldInv'
  <2>1. Stored(w') /\ \A i : Held(w, i) => Held(w', i)
    BY Zenon DEF HeldInv, Stored, SameSched, Held
  <2>2. ASSUME NEW n \in 1 .. Taken, ~Complete(n)'
        PROVE  Held(w', accepted[n])
    <3>1. n \in DOMAIN accepted
      BY ONLY <1>1, <2>2
    <3>2. ~Complete(n)
      BY ONLY <1>3, <2>2, <3>1, Zenon
    <3>3. Held(w, accepted[n])
      BY <3>2, Zenon DEF HeldInv
    <3> QED
      BY ONLY <2>1, <3>3, Zenon
  <2> QED
    BY <1>1, <2>1, <2>2, Zenon DEF HeldInv, Held
<1>7. ASSUME NEW n \in 1 .. Taken, accepted[n] \in Items
      PROVE  w'.result[accepted[n]] = w.result[accepted[n]]
  <2>1. n \in DOMAIN accepted
    BY ONLY <1>1, <1>7
  <2> QED
    BY ONLY <1>2, <1>7, <2>1, Zenon
<1>8. LoopInv'
  <2>1. ASSUME loop.pc \in {"flush", "close"} PROVE BarrierWork'
    <3>1. BarrierWork
      BY <2>1, Zenon DEF LoopInv
    <3>2. covered[loop.call] \subseteq Items
      BY <3>1, Zenon DEF BarrierWork, CallTypes
    <3>3. \A i \in covered[loop.call] : w'.result[i] = w.result[i]
      BY <1>7, <3>1, <3>2 DEF BarrierWork, QueueInv
    <3> QED
      BY <1>1, <3>1, <3>3 DEF BarrierWork, SameSched
  <2>2. done => \A n \in DOMAIN accepted : Complete(n)'
    BY <1>3, Zenon DEF LoopInv
  <2> QED
    BY <2>1, <2>2, Zenon DEF LoopInv, Complete, SameSched
<1>9. BarrierInv'
  <2> SUFFICES ASSUME NEW q \in Barriers, barrier[q] # None PROVE Answered(q)'
    BY Zenon DEF BarrierInv
  <2>1. Answered(q) /\ covered[q] \subseteq Items
    BY Zenon DEF BarrierInv, CallTypes
  <2>2. PICK n \in 1 .. Taken : accepted[n] = q /\ \A m \in 1 .. n - 1 : Complete(m)
    BY <2>1 DEF Answered
  <2>3. \A m \in 1 .. n - 1 : Complete(m)'
    <3>1. \A m \in 1 .. n - 1 : m \in DOMAIN accepted
      BY ONLY <1>1, <2>2
    <3> QED
      BY ONLY <1>3, <2>2, <3>1, Zenon
  <2>4. barrier[q] = "nil" => \A i \in covered[q] : w'.result[i].err = "nil"
    <3> SUFFICES ASSUME barrier[q] = "nil", NEW i \in covered[q] PROVE w'.result[i].err = "nil"
      BY Zenon
    <3>1. w.result[i].err = "nil" /\ i \in Items
      BY ONLY <2>1, barrier[q] = "nil", i \in covered[q], Zenon DEF Answered
    <3>2. PICK k \in 1 .. Taken : accepted[k] = i
      BY Zenon DEF QueueInv
    <3>3. w'.result[i] = w.result[i]
      BY ONLY <1>7, <3>1, <3>2, Zenon
    <3> QED
      BY ONLY <3>1, <3>3, Zenon
  <2> QED
    BY <1>1, <2>2, <2>3, <2>4 DEF Answered, Complete
<1>10. CloseInv'
    BY SMTT(60) DEF CloseInv, Barriers, Calls
<1> QED
    BY <1>4, <1>5, <1>6, <1>8, <1>9, <1>10, Zenon

\* An Append that has not sent its item.
LEMMA AppendDelivery ==
    ASSUME DeliveryInv, NEW i \in Items,
           AcquireSlot(i) \/ RefuseSlot(i) \/ LockAppend(i) \/ AbandonAppend(i)
    PROVE  DeliveryInv'
<1> USE DEF DeliveryInv
<1>1. i \in Calls /\ i \notin Closers /\ i \notin Barriers /\ i # None /\ DOMAIN w = Fields
    BY ConfigAssumption, Zenon DEF Calls, Barriers, HeldInv, Stored
<1>2. \A err : /\ SameSched(w, fail(w, {i}, err, 0))
               /\ \A j \in Items : j # i => fail(w, {i}, err, 0).result[j] = w.result[j]
  <2> SUFFICES ASSUME NEW err
               PROVE  /\ SameSched(w, fail(w, {i}, err, 0))
                      /\ \A j \in Items : j # i => fail(w, {i}, err, 0).result[j] = w.result[j]
    BY Zenon
  <2>1. PICK res : fail(w, {i}, err, 0) = complete(w, {i}, res)
    BY Zenon DEF fail
  <2>2. \A j \in Items : complete(w, {i}, res).result[j] =
                           IF j \in {i} /\ w.result[j].err = "open" THEN res[j] ELSE w.result[j]
    BY <1>1, CompleteEffect
  <2>3. SameSched(w, fail(w, {i}, err, 0))
    BY <1>1, FailSame, Zenon
  <2>4. \A j \in Items : j # i => fail(w, {i}, err, 0).result[j] = w.result[j]
    BY <2>1, <2>2, Zenon
  <2> QED
    BY <2>3, <2>4, Zenon
<1>3. SameSched(w, w)
    BY <1>1, Zenon DEF SameSched
<1>4. AcquireSlot(i) => SameSched(w, w') /\ w'.result = w.result
    BY <1>1 DEF AcquireSlot, SameSched, Fields
<1>5. SameSched(w, w') /\ \A j \in Items : j # i => w'.result[j] = w.result[j]
  <2>1. CASE w' = w \/ AcquireSlot(i)
    BY <1>3, <1>4, <2>1
  <2>2. ASSUME NEW err, w' = fail(w, {i}, err, 0)
        PROVE  SameSched(w, w') /\ \A j \in Items : j # i => w'.result[j] = w.result[j]
    BY <1>2, <2>2, Zenon
  <2>3. w' = w \/ AcquireSlot(i) \/ w' = fail(w, {i}, "ctx", 0) \/ w' = fail(w, {i}, "closed", 0)
    BY Zenon DEF RefuseSlot, LockAppend, AbandonAppend
  <2> QED
    BY <2>1, <2>2, <2>3, Zenon
<1>6. /\ UNCHANGED <<accepted, commands, barrier, covered, done, closeErr, loop, ret, closed>>
      /\ pc[i] \in {"start", "slot", "locked"} /\ pc'[i] \in {"slot", "locked", "returned"}
      /\ DOMAIN pc' = Calls /\ \A q \in Calls : q # i => pc'[q] = pc[q]
    BY <1>1, Zenon DEF AcquireSlot, RefuseSlot, LockAppend, AbandonAppend, CallTypes
<1>7. LockInv'
  <2>1. CASE AcquireSlot(i) \/ RefuseSlot(i)
    <3>1. pc'[i] # "locked" /\ mu' = mu
      BY <1>1, <2>1 DEF AcquireSlot, RefuseSlot, CallTypes
    <3> QED
      BY <1>6, <3>1, Zenon DEF LockInv
  <2>2. CASE LockAppend(i)
    <3>1. mu = None /\ IF closed THEN pc'[i] = "returned" /\ mu' = mu ELSE pc'[i] = "locked" /\ mu' = i
      BY <1>1, <2>2 DEF LockAppend, CallTypes
    <3>2. \A q \in Calls : pc[q] # "locked"
      BY <3>1, ConfigAssumption, Zenon DEF LockInv
    <3> QED
      BY <1>1, <1>6, <3>1, <3>2 DEF LockInv
  <2>3. CASE AbandonAppend(i)
    <3>1. pc[i] = "locked" /\ pc'[i] = "returned" /\ mu' = None
      BY <1>1, <2>3 DEF AbandonAppend, CallTypes
    <3> QED
      BY <1>1, <1>6, <3>1 DEF LockInv
  <2> QED
    BY <2>1, <2>2, <2>3
<1>8. DOMAIN ret' = Barriers
    BY <1>6, Zenon DEF CallTypes
<1> QED
    BY <1>1, <1>5, <1>6, <1>7, <1>8, CallerDelivery, Zenon

\* Flush and Close before their command is sent, and when they return.
LEMMA WaitDelivery ==
    ASSUME DeliveryInv, NEW p \in Barriers,
           \/ p \in Flushers /\ LockFlush(p)
           \/ p \in Closers /\ (LockClose(p) \/ Join(p))
           \/ Abandon(p) \/ Await(p)
    PROVE  DeliveryInv'
<1> USE DEF DeliveryInv
<1>1. p \in Calls /\ p # None /\ p \notin Items /\ (p \in Flushers => p \notin Closers) /\ DOMAIN w = Fields
    BY ConfigAssumption, Zenon DEF Calls, Barriers, HeldInv, Stored
<1>2. UNCHANGED <<accepted, commands, barrier, covered, done, closeErr, loop, w>> /\ SameSched(w, w')
    BY <1>1, Zenon DEF LockFlush, LockClose, Join, Abandon, Await, SameSched
<1>3. /\ DOMAIN pc' = Calls /\ \A q \in Calls : q # p => pc'[q] = pc[q]
      /\ DOMAIN ret' = Barriers /\ \A q \in Barriers : q # p => ret'[q] = ret[q]
    BY <1>1, Zenon DEF LockFlush, LockClose, Join, Abandon, Await, Return, CallTypes
<1>4. /\ pc[p] \in {"start", "locked", "join", "await"} /\ pc'[p] \in {"locked", "join", "returned"}
      /\ pc[p] = "await" => pc'[p] = "returned"
    BY <1>1, Zenon DEF LockFlush, LockClose, Join, Abandon, Await, Return, CallTypes
<1>5. p \in Closers /\ pc'[p] = "returned" => ret'[p] = "ctx" \/ (done /\ ret'[p] = closeErr)
  <2>1. CASE p \in Flushers \/ LockClose(p)
    BY <1>1, <2>1 DEF LockClose, CallTypes
  <2>2. CASE p \in Closers /\ (Join(p) \/ Abandon(p) \/ Await(p))
    BY <2>2, Zenon DEF Join, Abandon, Await, Return, CallTypes, CloseInv, Barriers
  <2> QED
    BY <1>1, <2>1, <2>2, Zenon DEF Barriers
<1>6. LockInv'
  <2>1. CASE p \in Flushers /\ LockFlush(p)
    <3>1. /\ mu = None /\ closed' = closed
          /\ IF closed THEN pc'[p] = "returned" /\ mu' = mu ELSE pc'[p] = "locked" /\ mu' = p
      BY <1>1, <2>1, Zenon DEF LockFlush, Return, CallTypes
    <3>2. \A q \in Calls : pc[q] # "locked"
      BY <3>1, ConfigAssumption, Zenon DEF LockInv
    <3> QED
      BY <1>1, <1>2, <1>3, <2>1, <3>1, <3>2, Zenon DEF LockInv
  <2>2. CASE p \in Closers /\ LockClose(p)
    <3>1. /\ mu = None
          /\ IF closed THEN pc'[p] = "join" /\ mu' = mu /\ closed' = closed
             ELSE pc'[p] = "locked" /\ mu' = p /\ closed' = TRUE
      BY <1>1, <2>2, Zenon DEF LockClose, CallTypes
    <3>2. \A q \in Calls : pc[q] # "locked"
      BY <3>1, ConfigAssumption, Zenon DEF LockInv
    <3> QED
      BY <1>1, <1>2, <1>3, <3>1, <3>2, Zenon DEF LockInv
  <2>3. CASE Join(p) \/ Await(p)
    <3>1. pc'[p] = "returned" /\ mu' = mu /\ closed' = closed
      BY <1>1, <2>3, Zenon DEF Join, Await, Return, CallTypes
    <3> QED
      BY <1>2, <1>3, <3>1, Zenon DEF LockInv
  <2>4. CASE Abandon(p)
    <3>1. pc[p] = "locked" /\ pc'[p] = "returned" /\ mu' = None
      BY <1>1, <2>4 DEF Abandon, Return, CallTypes
    <3>2. mu = p
      BY <1>1, <3>1 DEF LockInv
    <3>3. \A q \in Calls : q # p => pc'[q] # "locked"
      BY <1>3, <3>2 DEF LockInv
    <3>4. \A n \in DOMAIN accepted : accepted[n] \notin Closers
      BY <1>1, <3>2 DEF LockInv
    <3> QED
      BY <1>2, <3>1, <3>3, <3>4, Zenon DEF LockInv
  <2> QED
    BY <2>1, <2>2, <2>3, <2>4
<1> QED
    BY <1>1, <1>2, <1>3, <1>4, <1>5, <1>6, CallerDelivery, Zenon

\* Sending a command.  The loop cannot have stopped, as it stops after a Close,
\* after which nobody gets past the check of closed under appendMu.
LEMMA SendDelivery ==
    ASSUME DeliveryInv, NEW p \in Calls, Send(p)
    PROVE  DeliveryInv'
<1> USE DEF DeliveryInv
<1>1. /\ Len(accepted) \in Nat /\ Len(commands) \in Nat /\ Taken \in Nat /\ Taken <= Len(accepted)
      /\ DOMAIN accepted = 1 .. Len(accepted) /\ DOMAIN commands = 1 .. Len(commands)
    BY TakenFacts, Zenon
<1>2. /\ pc[p] = "locked" /\ commands' = Append(commands, p) /\ accepted' = Append(accepted, p) /\ mu' = None
      /\ pc'[p] \in {"await", "returned"} /\ (p \notin Items => pc'[p] = "await")
      /\ DOMAIN pc' = Calls /\ \A q \in Calls : q # p => pc'[q] = pc[q]
      /\ UNCHANGED <<closed, closeErr, done, barrier, ret, loop, w, covered>>
    BY Zenon DEF Send, CallTypes
<1>3. /\ commands' \in Seq(Calls) /\ Len(commands') = Len(commands) + 1 /\ DOMAIN commands' = 1 .. Len(commands) + 1
      /\ \A n \in DOMAIN commands : commands'[n] = commands[n]
      /\ commands'[Len(commands) + 1] = p
    BY <1>1, <1>2 DEF CallTypes
<1>4. /\ accepted' \in Seq(Calls) /\ Len(accepted') = Len(accepted) + 1 /\ DOMAIN accepted' = 1 .. Len(accepted) + 1
      /\ \A n \in DOMAIN accepted : accepted'[n] = accepted[n]
      /\ accepted'[Len(accepted) + 1] = p
    BY <1>1, <1>2 DEF CallTypes
<1>5. Taken' = Taken /\ Taken = Len(accepted) - Len(commands)
    BY <1>1, <1>3, <1>4 DEF Taken
<1>6. mu = p /\ p # None /\ (p \in Closers => closed)
    BY <1>2, ConfigAssumption, Zenon DEF LockInv
<1>7. \A n \in DOMAIN accepted : accepted[n] # p /\ accepted[n] \notin Closers
    BY <1>2, <1>6 DEF QueueInv, LockInv
<1>8. ~done
    BY <1>7, Zenon DEF LoopInv
<1>9. \A n \in 1 .. Taken : n \in DOMAIN accepted /\ accepted'[n] = accepted[n] /\ (Complete(n)' <=> Complete(n))
  <2>1. \A n \in 1 .. Taken : n \in DOMAIN accepted
    BY ONLY <1>1
  <2>2. \A n \in DOMAIN accepted : accepted'[n] = accepted[n] /\ w' = w
    BY ONLY <1>2, <1>4, Zenon
  <2>3. \A n \in 1 .. Taken : accepted'[n] = accepted[n] /\ w' = w
    BY ONLY <2>1, <2>2, Zenon
  <2>4. \A n \in 1 .. Taken : Complete(n)' <=> Complete(n)
    BY ONLY <2>3, Zenon DEF Complete
  <2> QED
    BY ONLY <2>1, <2>3, <2>4, Zenon
<1>10. CallTypes'
    BY <1>2, <1>3, <1>4, Zenon DEF CallTypes
<1>11. QueueInv'
  <2>1. ASSUME NEW m \in DOMAIN commands' PROVE commands'[m] = accepted'[Taken + m]
    <3>1. CASE m \in DOMAIN commands
      <4>1. Taken + m \in DOMAIN accepted
        BY <1>1, <1>5, <3>1
      <4> QED
        BY <1>3, <1>4, <3>1, <4>1, Zenon DEF QueueInv
    <3>2. CASE m = Len(commands) + 1
      BY <1>1, <1>3, <1>4, <1>5, <3>2
    <3> QED
      BY <1>1, <1>3, <3>1, <3>2
  <2>2. \A m, n \in DOMAIN accepted' : accepted'[m] = accepted'[n] => m = n
    <3> SUFFICES ASSUME NEW m \in DOMAIN accepted', NEW n \in DOMAIN accepted', accepted'[m] = accepted'[n]
                 PROVE  m = n
      BY Zenon
    <3>1. m \in DOMAIN accepted \/ m = Len(accepted) + 1
      BY <1>1, <1>4
    <3>2. n \in DOMAIN accepted \/ n = Len(accepted) + 1
      BY <1>1, <1>4
    <3> QED
      BY <1>4, <1>7, <3>1, <3>2 DEF QueueInv
  <2>3. ASSUME NEW n \in DOMAIN accepted' PROVE pc'[accepted'[n]] \in {"await", "returned"}
    <3>1. CASE n \in DOMAIN accepted
      BY <1>2, <1>4, <1>7, <3>1 DEF QueueInv, CallTypes
    <3>2. CASE n = Len(accepted) + 1
      BY <1>2, <1>4, <3>2
    <3> QED
      BY <1>1, <1>4, <3>1, <3>2
  <2>4. \A q \in Barriers : \A i \in covered[q] : \E n \in 1 .. Taken : accepted'[n] = i
    BY <1>9, Zenon DEF QueueInv
  <2>5. Len(commands') <= Len(accepted')
    BY <1>1, <1>3, <1>4 DEF QueueInv
  <2> QED
    BY <1>2, <1>5, <2>1, <2>2, <2>3, <2>4, <2>5, SMTT(30) DEF QueueInv
<1>12. LockInv'
  <2>1. \A q \in Calls : pc'[q] # "locked"
    BY <1>2, <1>6, Zenon DEF LockInv
  <2>2. ASSUME NEW n \in DOMAIN accepted', accepted'[n] \in Closers
        PROVE  n = Len(accepted') /\ closed'
    <3>1. n = Len(accepted) + 1
      BY <1>1, <1>4, <1>7, <2>2
    <3> QED
      BY <1>2, <1>4, <1>6, <2>2, <3>1
  <2> QED
    BY <1>2, <2>1, <2>2, Zenon DEF LockInv
<1>13. HeldInv'
  <2>1. Stored(w')
    BY <1>2, Zenon DEF HeldInv, Stored
  <2>2. ASSUME NEW n \in 1 .. Taken, ~Complete(n)'
        PROVE  Held(w', accepted'[n])
    <3>1. Held(w, accepted[n]) /\ w' = w /\ accepted'[n] = accepted[n]
      BY <1>2, <1>9, <2>2 DEF HeldInv
    <3> QED
      BY <3>1, Zenon
  <2>3. \A n \in 1 .. Taken' : ~Complete(n)' => Held(w', accepted'[n])
    BY <1>5, <2>2
  <2> QED
    BY <2>1, <2>3, Zenon DEF HeldInv
<1>14. LoopInv'
  <2>1. ASSUME loop.pc \in {"flush", "close"} PROVE BarrierWork'
    <3>1. BarrierWork
      BY <2>1, Zenon DEF LoopInv
    <3>2. accepted'[Taken] = accepted[Taken]
      BY <1>1, <1>9, <3>1 DEF BarrierWork
    <3> QED
      BY <1>2, <1>5, <3>1, <3>2, Zenon DEF BarrierWork
  <2> QED
    BY <1>2, <1>8, <2>1 DEF LoopInv
<1>15. BarrierInv'
  <2> SUFFICES ASSUME NEW q \in Barriers, barrier[q] # None PROVE Answered(q)'
    BY <1>2, Zenon DEF BarrierInv
  <2>1. Answered(q)
    BY Zenon DEF BarrierInv
  <2>2. PICK n \in 1 .. Taken : accepted[n] = q /\ \A m \in 1 .. n - 1 : Complete(m)
    BY <2>1, Zenon DEF Answered
  <2>3. accepted'[n] = q /\ \A m \in 1 .. n - 1 : Complete(m)'
    BY <1>1, <1>9, <2>2
  <2>4. \E k \in 1 .. Taken' : accepted'[k] = q /\ \A m \in 1 .. k - 1 : Complete(m)'
    BY <1>5, <2>2, <2>3, Zenon
  <2>5. barrier'[q] = "nil" => \A i \in covered'[q] : w'.result[i].err = "nil"
    BY <1>2, <2>1 DEF Answered
  <2> QED
    BY <2>4, <2>5, Zenon DEF Answered
<1>16. CloseInv'
  <2> SUFFICES ASSUME NEW c \in Closers PROVE (barrier[c] # None => done /\ barrier[c] = closeErr)
                /\ (pc'[c] = "returned" => ret[c] = "ctx" \/ (done /\ ret[c] = closeErr))
    BY <1>2, Zenon DEF CloseInv
  <2>1. c \in Calls /\ c \notin Items
    BY ConfigAssumption, Zenon DEF Calls
  <2>2. pc'[c] = "returned" => pc[c] = "returned"
    BY <1>2, <2>1
  <2> QED
    BY <2>2, Zenon DEF CloseInv
<1> QED
    BY <1>10, <1>11, <1>12, <1>13, <1>14, <1>15, <1>16

\* Taking a command from the channel.
LEMMA TakeDelivery ==
    ASSUME DeliveryInv, commands # <<>>, commands' = Tail(commands),
           UNCHANGED <<pc, mu, closed, ret, accepted, barrier, done, closeErr>>,
           covered' \in [Barriers -> SUBSET Items],
           \A q \in Barriers : q # Head(commands) => covered'[q] = covered[q],
           Stored(w'), Kept(w, w'),
           Head(commands) \in Items /\ w'.result[Head(commands)].err = "open" => Held(w', Head(commands))
    PROVE  /\ Taken \in Nat /\ Taken' = Taken + 1 /\ accepted[Taken + 1] = Head(commands) /\ Head(commands) \in Calls
           /\ commands' \in Seq(Calls) /\ Len(commands') <= Len(accepted)
           /\ \A m \in DOMAIN commands' : commands'[m] = accepted[Taken' + m]
           /\ \A q \in Barriers : barrier[q] # None => q # Head(commands)
           /\ HeldInv' /\ BarrierInv'
<1> USE DEF DeliveryInv
<1>1. /\ Len(accepted) \in Nat /\ Len(commands) \in Nat /\ Taken \in Nat /\ Taken <= Len(accepted)
      /\ DOMAIN accepted = 1 .. Len(accepted) /\ DOMAIN commands = 1 .. Len(commands)
      /\ Taken = Len(accepted) - Len(commands)
    BY TakenFacts, Zenon DEF Taken
<1>2. /\ commands' \in Seq(Calls) /\ Len(commands') = Len(commands) - 1 /\ Len(commands) >= 1
      /\ \A m \in DOMAIN commands' : m \in 1 .. Len(commands) - 1 /\ commands'[m] = commands[m + 1]
      /\ Head(commands) = commands[1] /\ Head(commands) \in Calls
    BY <1>1 DEF CallTypes
<1>3. Taken' = Taken + 1
    BY <1>1, <1>2 DEF Taken
<1>4. accepted[Taken + 1] = Head(commands) /\ Taken + 1 \in DOMAIN accepted
    BY <1>1, <1>2 DEF QueueInv
<1>5. \A m \in DOMAIN commands' : commands'[m] = accepted[Taken' + m]
  <2> SUFFICES ASSUME NEW m \in DOMAIN commands' PROVE commands'[m] = accepted[Taken' + m]
    BY Zenon
  <2>1. m \in Nat /\ m + 1 \in DOMAIN commands /\ commands'[m] = commands[m + 1]
    BY <1>1, <1>2
  <2>2. commands[m + 1] = accepted[Taken + (m + 1)]
    BY <2>1, Zenon DEF QueueInv
  <2>3. Taken + (m + 1) = Taken' + m
    BY <1>1, <1>3, <2>1
  <2> QED
    BY <2>1, <2>2, <2>3, Zenon
<1>6. \A n \in 1 .. Taken : n \in DOMAIN accepted /\ accepted[n] # Head(commands)
    BY <1>1, <1>4, SMTT(30) DEF QueueInv
<1>7. \A q \in Barriers : barrier[q] # None => q # Head(commands)
    BY <1>6, Zenon DEF BarrierInv, Answered
<1>8. \A i \in Items : w.result[i].err # "open" => w'.result[i] = w.result[i]
    BY Zenon DEF Kept
<1>9. \A n \in DOMAIN accepted : Complete(n) => Complete(n)'
    BY <1>8, Zenon DEF Complete
<1>10. HeldInv'
  <2>1. ASSUME NEW n \in 1 .. Taken + 1, ~Complete(n)'
        PROVE  Held(w', accepted[n])
    <3>1. accepted[n] \in Items /\ w'.result[accepted[n]].err = "open"
      BY <2>1, Zenon DEF Complete
    <3>2. CASE n = Taken + 1
      BY <1>4, <3>1, <3>2, Zenon
    <3>3. CASE n \in 1 .. Taken
      <4>1. Held(w, accepted[n])
        BY <1>6, <1>9, <2>1, <3>3 DEF HeldInv
      <4> QED
        BY <3>1, <4>1, Zenon DEF Kept
    <3> QED
      BY <1>1, <3>2, <3>3, SMTT(30)
  <2>2. \A n \in 1 .. Taken' : ~Complete(n)' => Held(w', accepted'[n])
    BY <1>3, <2>1
  <2> QED
    BY <2>2 DEF HeldInv
<1>11. BarrierInv'
  <2> SUFFICES ASSUME NEW q \in Barriers, barrier[q] # None PROVE Answered(q)'
    BY Zenon DEF BarrierInv
  <2>1. Answered(q) /\ covered[q] \subseteq Items /\ covered'[q] = covered[q]
    BY <1>7, Zenon DEF BarrierInv, CallTypes
  <2>2. PICK n \in 1 .. Taken : accepted[n] = q /\ \A m \in 1 .. n - 1 : Complete(m)
    BY <2>1, Zenon DEF Answered
  <2>3. \A m \in 1 .. n - 1 : Complete(m)'
    <3>1. \A m \in 1 .. n - 1 : m \in DOMAIN accepted
      BY ONLY <1>1, <2>2
    <3> QED
      BY ONLY <1>9, <2>2, <3>1, Zenon
  <2>4. \E k \in 1 .. Taken' : accepted'[k] = q /\ \A m \in 1 .. k - 1 : Complete(m)'
    <3>1. n \in 1 .. Taken'
      BY ONLY <1>1, <1>3, <2>2
    <3> QED
      BY <2>2, <2>3, <3>1, Zenon
  <2>5. barrier'[q] = "nil" => \A i \in covered'[q] : w'.result[i].err = "nil"
    BY <1>8, <2>1, Zenon DEF Answered
  <2> QED
    BY <2>4, <2>5, Zenon DEF Answered
<1> QED
    BY <1>1, <1>2, <1>3, <1>4, <1>5, <1>7, <1>10, <1>11

\* The loop takes an append.
LEMMA TakeItemDelivery ==
    ASSUME DeliveryInv, IInv, TakeItem
    PROVE  DeliveryInv'
<1> USE DEF DeliveryInv
<1>1. /\ commands # <<>> /\ commands' = Tail(commands) /\ loop.pc = "select" /\ loop' = loop
      /\ UNCHANGED <<pc, mu, closed, ret, accepted, barrier, done, closeErr, covered>>
      /\ Head(commands) \in Items /\ w' = add(w, Head(commands), Head(commands) \in canceled)
    BY Zenon DEF TakeItem, loopFrame
<1>2. /\ Stored(w') /\ Kept(w, w')
      /\ w'.result[Head(commands)].err = "open" => Held(w', Head(commands))
    BY <1>1, AddKept, Zenon DEF HeldInv, IInv
<1>3. covered' \in [Barriers -> SUBSET Items]
    BY <1>1, Zenon DEF CallTypes
<1>4. /\ Taken \in Nat /\ Taken' = Taken + 1 /\ commands' \in Seq(Calls) /\ Len(commands') <= Len(accepted)
      /\ \A m \in DOMAIN commands' : commands'[m] = accepted[Taken' + m]
      /\ HeldInv' /\ BarrierInv'
    BY <1>1, <1>2, <1>3, TakeDelivery, Zenon
<1>5. CallTypes'
    BY <1>1, <1>4, Zenon DEF CallTypes
<1>6. QueueInv'
  <2>1. \A q \in Barriers : \A i \in covered[q] : \E n \in 1 .. Taken' : accepted[n] = i
    BY <1>4 DEF QueueInv
  <2> QED
    BY <1>1, <1>4, <2>1 DEF QueueInv
<1>7. LockInv' /\ LoopInv' /\ CloseInv'
    BY <1>1, Zenon DEF LockInv, LoopInv, CloseInv
<1> QED
    BY <1>4, <1>5, <1>6, <1>7

\* The loop takes a Flush or a Close and queues what the open batches hold.
LEMMA TakeBarrierDelivery ==
    ASSUME DeliveryInv, IInv, TakeBarrier
    PROVE  DeliveryInv'
<1> USE DEF DeliveryInv
<1>0. PICK p : p = Head(commands)
    BY Zenon
<1>1. /\ commands # <<>> /\ commands' = Tail(commands) /\ loop.pc = "select" /\ p \notin Items
      /\ UNCHANGED <<pc, mu, closed, ret, accepted, barrier, done, closeErr>>
      /\ w' = queueAll(w)
      /\ loop' = [pc |-> IF p \in Closers THEN "close" ELSE "flush", call |-> p, err |-> queueAllErr(w)]
      /\ covered' = [covered EXCEPT ![p] =
           {i \in Items : w.result[i].err = "open" /\ i \in Range(accepted) \ Range(commands)}]
    BY <1>0, Zenon DEF TakeBarrier, loopFrame
<1>2. /\ Stored(w') /\ Kept(w, w') /\ w'.timer = FALSE /\ \A b \in Buckets : w'.batches[b].items = <<>>
      /\ queueAllErr(w) = "nil" => \A i \in Items : w'.result[i] = w.result[i]
  <2>1. Stored(w) /\ Counted(w)
    BY Zenon DEF HeldInv, IInv, SchedInv
  <2>2. /\ Stored(queueAll(w)) /\ Kept(w, queueAll(w)) /\ queueAll(w).timer = FALSE
        /\ \A b \in Buckets : queueAll(w).batches[b].items = <<>>
        /\ queueAllErr(w) = "nil" => \A i \in Items : queueAll(w).result[i] = w.result[i]
    BY ONLY <2>1, QueueAllKept, Zenon
  <2> QED
    BY <1>1, <2>2, Zenon
<1>3. p \in Calls /\ p \in Barriers
  <2>1. p \in Calls
    <3>1. commands \in Seq(Calls) /\ commands # <<>>
      BY <1>1, Zenon DEF CallTypes
    <3> QED
      BY ONLY <1>0, <3>1
  <2> QED
    BY ONLY <1>1, <2>1, Zenon DEF Calls, Barriers
<1>4. /\ covered' \in [Barriers -> SUBSET Items] /\ \A q \in Barriers : q # p => covered'[q] = covered[q]
      /\ covered'[p] = {i \in Items : w.result[i].err = "open" /\ i \in Range(accepted) \ Range(commands)}
    BY <1>1, <1>3, Zenon DEF CallTypes
<1>5. /\ Taken \in Nat /\ Taken' = Taken + 1 /\ commands' \in Seq(Calls) /\ Len(commands') <= Len(accepted)
      /\ accepted[Taken + 1] = p
      /\ \A m \in DOMAIN commands' : commands'[m] = accepted[Taken' + m]
      /\ HeldInv' /\ BarrierInv'
  <2>1. Head(commands) \notin Items /\ \A q \in Barriers : q # Head(commands) => covered'[q] = covered[q]
    BY <1>0, <1>1, <1>4, Zenon
  <2>2. covered' \in [Barriers -> SUBSET Items]
    BY <1>4, Zenon
  <2> QED
    BY <1>0, <1>1, <1>2, <2>1, <2>2, TakeDelivery, Zenon
<1>6. loop' \in [pc : {"select", "flush", "close", "exited"}, call : Calls \union {None}, err : {"nil", "err"}]
    BY <1>1, <1>3, Zenon DEF queueAllErr
<1>7. CallTypes'
    BY <1>1, <1>4, <1>5, <1>6, Zenon DEF CallTypes
<1>8. \A i \in covered'[p] : \E n \in 1 .. Taken : accepted[n] = i
  <2> SUFFICES ASSUME NEW i \in covered'[p] PROVE \E n \in 1 .. Taken : accepted[n] = i
    BY Zenon
  <2>1. /\ Len(accepted) \in Nat /\ Len(commands) \in Nat /\ Taken = Len(accepted) - Len(commands)
        /\ DOMAIN accepted = 1 .. Len(accepted) /\ DOMAIN commands = 1 .. Len(commands)
    BY TakenFacts, Zenon DEF Taken
  <2>2. PICK n \in DOMAIN accepted : accepted[n] = i
    BY <1>4, Zenon DEF Range
  <2>3. \A m \in DOMAIN commands : commands[m] # i
    BY <1>4, Zenon DEF Range
  <2>4. ASSUME n > Taken PROVE FALSE
    <3>1. PICK m \in 1 .. Len(commands) : n = Taken + m
      <4>1. n - Taken \in 1 .. Len(commands) /\ n = Taken + (n - Taken)
        BY <2>1, <2>2, <2>4
      <4> QED
        BY <4>1, Zenon
    <3>2. commands[m] = accepted[n]
      BY <2>1, <3>1 DEF QueueInv
    <3> QED
      BY <2>1, <2>2, <2>3, <3>2
  <2>5. n \in 1 .. Taken
    BY <2>1, <2>2, <2>4
  <2> QED
    BY <2>2, <2>5, Zenon
<1>9. QueueInv'
  <2>1. \A q \in Barriers : \A i \in covered'[q] : \E n \in 1 .. Taken' : accepted[n] = i
    <3>1. \A n \in 1 .. Taken : n \in 1 .. Taken'
      BY ONLY <1>5
    <3>2. ASSUME NEW q \in Barriers, NEW i \in covered'[q] PROVE \E n \in 1 .. Taken : accepted[n] = i
      BY <1>4, <1>8, Zenon DEF QueueInv
    <3> QED
      BY ONLY <3>1, <3>2, Zenon
  <2> QED
    BY <1>1, <1>5, <2>1 DEF QueueInv
<1>10. BarrierWork'
  <2>1. loop'.call = p /\ (loop'.pc = "close" <=> p \in Closers) /\ loop'.err = queueAllErr(w)
    BY <1>1, Zenon
  <2>2. loop'.err = "nil" => \A i \in covered'[p] : w'.result[i].err \in {"open", "nil"}
    BY <1>2, <1>4, <2>1, Zenon
  <2> QED
    <3>1. Taken' >= 1 /\ accepted'[Taken'] = p
      BY ONLY <1>1, <1>5
    <3>2. ~w'.timer /\ \A b \in Buckets : w'.batches[b].items = <<>>
      BY ONLY <1>2, Zenon
    <3> QED
      BY ONLY <1>3, <2>1, <2>2, <3>1, <3>2, Zenon DEF BarrierWork
<1>11. LoopInv'
  <2>1. loop'.pc # "exited" /\ ~done /\ done' = done
    BY <1>1, Zenon DEF LoopInv
  <2> QED
    BY <1>10, <2>1, Zenon DEF LoopInv
<1>12. LockInv' /\ CloseInv'
    BY <1>1, Zenon DEF LockInv, CloseInv
<1> QED
    BY <1>5, <1>7, <1>9, <1>11, <1>12, Zenon

\* When nothing is in flight and no batch is open, the loop holds nothing.
LEMMA NothingHeld ==
    ASSUME IInv, HeldInv, w.inFlight = 0, \A b \in Buckets : w.batches[b].items = <<>>
    PROVE  w.running = {} /\ \A n \in 1 .. Taken : Complete(n)
<1>1. w.active = {}
  <2>1. IsFiniteSet(w.active) /\ Cardinality(w.active) = 0
    BY BucketsFinite, FS_Subset, Zenon DEF IInv, SchedInv, Counted
  <2> QED
    BY <2>1, FS_EmptySet, Zenon
<1>2. w.running = {}
  <2>1. \A e \in w.running : e.request.bucket \in w.active
    BY Zenon DEF IInv, SchedInv, Counted
  <2> QED
    BY <1>1, <2>1, Zenon
<1>3. \A b \in Buckets : w.pending[b] = <<>>
  <2>1. Saturated(w)
    BY Zenon DEF IInv, SchedInv
  <2>2. w.inFlight < MaxConcurrentRequests
    BY ConfigAssumption
  <2> QED
    BY ONLY <1>1, <2>1, <2>2, Zenon DEF Saturated, ready
<1>4. DOMAIN <<>> = {} /\ \A i : i \notin Range(<<>>)
    BY DEF Range
<1>5. \A i : ~Held(w, i)
    BY <1>2, <1>3, <1>4, Zenon DEF Held
<1> QED
    BY <1>2, <1>5, Zenon DEF HeldInv

\* The answer of a Flush or Close, when nothing is in flight any more.
LEMMA AnswerDelivery ==
    ASSUME DeliveryInv, IInv, loop.pc \in {"flush", "close"}, w.inFlight = 0,
           barrier' = [barrier EXCEPT ![loop.call] = loop.err],
           UNCHANGED <<accepted, commands, covered, w>>
    PROVE  /\ BarrierWork /\ Taken' = Taken /\ Taken \in Nat /\ w.running = {} /\ \A n \in 1 .. Taken : Complete(n)
           /\ DOMAIN barrier' = Barriers /\ barrier'[loop.call] = loop.err
           /\ \A q \in Barriers : q # loop.call => barrier'[q] = barrier[q]
           /\ BarrierInv'
<1> USE DEF DeliveryInv
<1>1. BarrierWork
    BY Zenon DEF LoopInv
<1>2. Taken \in Nat /\ Taken' = Taken
    BY TakenFacts, Zenon DEF Taken
<1>3. w.running = {} /\ \A n \in 1 .. Taken : Complete(n)
    BY <1>1, NothingHeld, Zenon DEF BarrierWork
<1>4. /\ DOMAIN barrier' = Barriers /\ barrier'[loop.call] = loop.err
      /\ \A q \in Barriers : q # loop.call => barrier'[q] = barrier[q]
    BY <1>1, Zenon DEF BarrierWork, CallTypes
<1>5. ASSUME NEW q \in Barriers, barrier'[q] # None PROVE Answered(q)'
  <2>1. \A n \in 1 .. Taken : Complete(n)' <=> Complete(n)
    BY Zenon DEF Complete
  <2>2. CASE q = loop.call
    <3>1. Taken \in 1 .. Taken /\ accepted[Taken] = q /\ \A m \in 1 .. Taken - 1 : Complete(m)'
      <4>1. Taken >= 1 /\ accepted[Taken] = q
        BY <1>1, <2>2, Zenon DEF BarrierWork
      <4>2. Taken \in 1 .. Taken /\ \A m \in 1 .. Taken - 1 : m \in 1 .. Taken
        BY ONLY <1>2, <4>1
      <4> QED
        BY ONLY <1>3, <2>1, <4>1, <4>2, Zenon
    <3>2. \E n \in 1 .. Taken' : accepted'[n] = q /\ \A m \in 1 .. n - 1 : Complete(m)'
      BY <1>2, <3>1, Zenon
    <3>3. ASSUME barrier'[q] = "nil", NEW i \in covered[q] PROVE w.result[i].err = "nil"
      <4>1. i \in Items /\ w.result[i].err \in {"open", "nil"}
        BY <1>1, <1>4, <2>2, <3>3 DEF BarrierWork, CallTypes
      <4>2. PICK n \in 1 .. Taken : accepted[n] = i
        BY <3>3, Zenon DEF QueueInv
      <4> QED
        BY <1>3, <4>1, <4>2, Zenon DEF Complete
    <3> QED
      BY <3>2, <3>3, Zenon DEF Answered
  <2>3. CASE q # loop.call
    <3>1. Answered(q) /\ barrier'[q] = barrier[q]
      BY <1>4, <1>5, <2>3, Zenon DEF BarrierInv
    <3>2. PICK n \in 1 .. Taken : accepted[n] = q /\ \A m \in 1 .. n - 1 : Complete(m)
      BY <3>1, Zenon DEF Answered
    <3>3. \A m \in 1 .. n - 1 : Complete(m)'
      BY <1>2, <2>1, <3>2
    <3>4. \E k \in 1 .. Taken' : accepted'[k] = q /\ \A m \in 1 .. k - 1 : Complete(m)'
      BY <1>2, <3>2, <3>3, Zenon
    <3> QED
      BY <3>1, <3>4, Zenon DEF Answered
  <2> QED
    BY <2>2, <2>3, Zenon
<1> QED
    BY <1>1, <1>2, <1>3, <1>4, <1>5, Zenon DEF BarrierInv

\* The end of flushAll: a Flush is answered, or the loop stops.
LEMMA DoneDelivery ==
    ASSUME DeliveryInv, IInv, FlushDone \/ CloseDone
    PROVE  DeliveryInv'
<1> USE DEF DeliveryInv
<1>1. /\ loop.pc \in {"flush", "close"} /\ w.inFlight = 0
      /\ barrier' = [barrier EXCEPT ![loop.call] = loop.err]
      /\ UNCHANGED <<pc, mu, closed, ret, accepted, commands, covered, w>>
      /\ loop' \in [pc : {"select", "flush", "close", "exited"}, call : Calls \union {None}, err : {"nil", "err"}]
      /\ loop.pc = "flush" => loop'.pc = "select" /\ UNCHANGED <<done, closeErr>>
      /\ loop.pc = "close" => loop'.pc = "exited" /\ done' = TRUE /\ closeErr' = loop.err
    BY DEF FlushDone, CloseDone, loopFrame
<1>2. /\ BarrierWork /\ Taken' = Taken /\ Taken \in Nat /\ w.running = {} /\ \A n \in 1 .. Taken : Complete(n)
      /\ DOMAIN barrier' = Barriers /\ barrier'[loop.call] = loop.err
      /\ \A q \in Barriers : q # loop.call => barrier'[q] = barrier[q]
      /\ BarrierInv'
    BY <1>1, AnswerDelivery, Zenon
<1>3. CallTypes'
    BY <1>1, <1>2, Zenon DEF CallTypes
<1>4. QueueInv' /\ LockInv'
  <2>1. QueueInv /\ LockInv
    BY Zenon
  <2>2. QueueInv'
    <3>1. accepted' = accepted /\ commands' = commands /\ covered' = covered /\ pc' = pc /\ Taken' = Taken
      BY ONLY <1>1, <1>2, Zenon
    <3> QED
      BY ONLY <2>1, <3>1, Zenon DEF QueueInv
  <2> QED
    BY ONLY <1>1, <2>1, <2>2, Zenon DEF LockInv
<1>5. HeldInv'
  <2>1. Stored(w') /\ \A n \in 1 .. Taken' : Complete(n)'
    BY <1>1, <1>2, Zenon DEF Complete, HeldInv
  <2> QED
    BY <2>1, Zenon DEF HeldInv
<1>6. ~done
    BY <1>1, Zenon DEF LoopInv
<1>7. LoopInv'
  <2>1. CASE loop.pc = "flush"
    <3>0. loop'.pc = "select" /\ done' = done
      BY ONLY <1>1, <2>1, Zenon
    <3>1. loop'.pc = "select" /\ ~done'
      BY ONLY <1>6, <3>0, Zenon
    <3> QED
      BY ONLY <3>1, Zenon DEF LoopInv
  <2>2. CASE loop.pc = "close"
    <3>1. accepted[Taken] \in Closers /\ Taken >= 1 /\ ~w.timer
      BY <1>2, <2>2, Zenon DEF BarrierWork
    <3>2. /\ Len(accepted) \in Nat /\ Len(commands) \in Nat /\ Taken <= Len(accepted)
          /\ DOMAIN accepted = 1 .. Len(accepted) /\ Taken = Len(accepted) - Len(commands)
      BY TakenFacts, Zenon DEF Taken
    <3>3. Taken = Len(accepted)
      <4>1. Taken \in DOMAIN accepted
        BY <1>2, <3>1, <3>2
      <4> QED
        BY <3>1, <4>1, Zenon DEF LockInv
    <3>4. commands = <<>>
      BY <3>2, <3>3 DEF CallTypes
    <3>5. \A n \in DOMAIN accepted : Complete(n)'
      BY <1>1, <1>2, <3>2, <3>3, Zenon DEF Complete
    <3>6. \E n \in DOMAIN accepted : accepted[n] \in Closers
      BY <1>2, <3>1, <3>2, <3>3
    <3>7. loop'.pc = "exited" /\ done' = TRUE /\ commands' = <<>> /\ w'.running = {} /\ ~w'.timer
      BY <1>1, <1>2, <2>2, <3>1, <3>4, Zenon
    <3>8. (\E n \in DOMAIN accepted' : accepted'[n] \in Closers) /\ \A n \in DOMAIN accepted' : Complete(n)'
      BY <1>1, <3>5, <3>6, Zenon
    <3> QED
      BY <3>7, <3>8, Zenon DEF LoopInv
  <2> QED
    BY <1>1, <2>1, <2>2
<1>8. CloseInv'
  <2> SUFFICES ASSUME NEW c \in Closers
               PROVE  /\ barrier'[c] # None => done' /\ barrier'[c] = closeErr'
                      /\ pc[c] = "returned" => ret[c] = "ctx" \/ (done' /\ ret[c] = closeErr')
    BY <1>1, Zenon DEF CloseInv
  <2>1. c \in Barriers /\ barrier[c] = None /\ (pc[c] = "returned" => ret[c] = "ctx")
    BY <1>6, Zenon DEF CloseInv, Barriers
  <2>2. c = loop.call => loop.pc = "close"
    BY <1>2, Zenon DEF BarrierWork
  <2> QED
    BY <1>1, <1>2, <2>1, <2>2, Zenon
<1> QED
    BY <1>2, <1>3, <1>4, <1>5, <1>7, <1>8

\* A completion, the timer and the goroutines.
LEMMA LoopDelivery ==
    ASSUME DeliveryInv, IInv, TimerFires \/ HandleCompletion
    PROVE  DeliveryInv'
<1> USE DEF DeliveryInv
<1>0. Stored(w) /\ SchedInv(w) /\ Counted(w)
    BY Zenon DEF HeldInv, IInv, SchedInv
<1>1. CASE TimerFires
  <2>1. /\ UNCHANGED <<pc, mu, closed, ret, accepted, commands, barrier, covered, done, closeErr, loop>>
        /\ loop.pc = "select" /\ w' = queueAll(w)
    BY <1>1, Zenon DEF TimerFires, loopFrame
  <2>2. Stored(queueAll(w)) /\ Kept(w, queueAll(w))
    BY ONLY <1>0, QueueAllKept, Zenon
  <2>3. loop.pc \notin {"flush", "close"} /\ ~done
    BY <2>1, Zenon DEF LoopInv
  <2>4. loop' \in [pc : {"select", "flush", "close", "exited"}, call : Calls \union {None}, err : {"nil", "err"}]
    BY <2>1, Zenon DEF CallTypes
  <2> QED
    BY <2>1, <2>2, <2>3, <2>4, WorkDelivery, Zenon
<1>2. CASE HandleCompletion
  <2>1. PICK e \in w.running :
          /\ w' = handleCompletion(w, e)
          /\ loop' = [loop EXCEPT !.err = IF @ = "err" \/ (e.status = "err" /\ loop.pc # "select")
                                           THEN "err" ELSE "nil"]
    BY <1>2, Zenon DEF HandleCompletion
  <2>2. UNCHANGED <<pc, mu, closed, ret, accepted, commands, barrier, covered, done, closeErr>> /\ loop.pc # "exited"
    BY <1>2, Zenon DEF HandleCompletion, loopFrame
  <2>3. ~done
    BY <2>2, Zenon DEF LoopInv
  <2>4. /\ Stored(w') /\ Kept(w, w') /\ w'.batches = w.batches /\ w'.timer = w.timer
        /\ e.status # "err" => \A i \in Items : w'.result[i] = w.result[i] \/ w'.result[i].err = "nil"
    BY <1>0, <2>1, HandleKept
  <2>5. /\ loop' \in [pc : {"select", "flush", "close", "exited"}, call : Calls \union {None}, err : {"nil", "err"}]
        /\ loop'.pc = loop.pc /\ loop'.call = loop.call
        /\ loop'.err = "nil" => loop.err = "nil" /\ (loop.pc # "select" => e.status # "err")
    BY <2>1, SMTT(30) DEF CallTypes
  <2>6. loop.pc \in {"flush", "close"} /\ loop'.err = "nil" =>
             loop.err = "nil" /\ \A i \in Items : w'.result[i] = w.result[i] \/ w'.result[i].err = "nil"
    BY <2>4, <2>5, Zenon
  <2> QED
    BY <2>2, <2>3, <2>4, <2>5, <2>6, WorkDelivery, Zenon
<1> QED
    BY <1>1, <1>2, Zenon

\* A goroutine reports the result of its request.
LEMMA GoroutineDelivery ==
    ASSUME DeliveryInv, IInv, NEW e \in w.running, NEW status, NEW base, Finish(e, status, base)
    PROVE  DeliveryInv'
<1> USE DEF DeliveryInv
<1>0. Stored(w) /\ SchedInv(w)
    BY Zenon DEF HeldInv, IInv
<1>1. /\ UNCHANGED <<pc, mu, closed, ret, accepted, commands, barrier, covered, done, closeErr, loop>>
      /\ w' = [w EXCEPT !.running = (@ \ {e}) \union {[e EXCEPT !.status = status, !.base = base]}]
    BY Zenon DEF Finish, goroutineFrame
<1>2. Stored(w') /\ Kept(w, w') /\ w'.result = w.result /\ w'.batches = w.batches /\ w'.timer = w.timer
  <2> DEFINE t == [w EXCEPT !.running = (@ \ {e}) \union {[e EXCEPT !.status = status, !.base = base]}]
  <2>1. Stored(t) /\ Kept(w, t) /\ t.result = w.result /\ t.batches = w.batches /\ t.timer = w.timer
    BY <1>0, FinishKept
  <2> HIDE DEF t
  <2>2. w' = t
    BY <1>1, Zenon DEF t
  <2> QED
    BY <2>1, <2>2, Zenon
<1>3. ~done
    BY Zenon DEF LoopInv
<1>4. loop' \in [pc : {"select", "flush", "close", "exited"}, call : Calls \union {None}, err : {"nil", "err"}]
    BY <1>1, Zenon DEF CallTypes
<1> QED
    BY <1>1, <1>2, <1>3, <1>4, WorkDelivery, Zenon

\* Cancellations and the server touch nothing the invariant speaks of.
LEMMA SameDelivery ==
    ASSUME DeliveryInv, UNCHANGED <<pc, mu, closed, closeErr, done, commands, barrier, ret, loop, w, accepted, covered>>
    PROVE  DeliveryInv'
<1> USE DEF DeliveryInv
<1>1. Stored(w') /\ Kept(w, w')
    BY Zenon DEF HeldInv, Stored, Kept, Held
<1>2. loop' \in [pc : {"select", "flush", "close", "exited"}, call : Calls \union {None}, err : {"nil", "err"}]
    BY Zenon DEF CallTypes
<1> QED
    BY <1>1, <1>2, WorkDelivery, Zenon

\* Every step of a caller, the loop, a goroutine or the server keeps it.
LEMMA NextDelivery == IInv /\ DeliveryInv /\ [Next]_vars => DeliveryInv'
<1> SUFFICES ASSUME IInv, DeliveryInv, [Next]_vars PROVE DeliveryInv'
    BY Zenon
<1>1. ASSUME NEW i \in Items, AppendStep(i) PROVE DeliveryInv'
  <2>1. i \in Calls
    BY Zenon DEF Calls
  <2> QED
    BY <1>1, <2>1, AppendDelivery, SendDelivery DEF AppendStep
<1>2. ASSUME NEW f \in Flushers, FlushStep(f) PROVE DeliveryInv'
  <2>1. f \in Calls /\ f \in Barriers
    BY Zenon DEF Calls, Barriers
  <2> QED
    BY <1>2, <2>1, WaitDelivery, SendDelivery DEF FlushStep
<1>3. ASSUME NEW c \in Closers, CloseStep(c) PROVE DeliveryInv'
  <2>1. c \in Calls /\ c \in Barriers
    BY Zenon DEF Calls, Barriers
  <2> QED
    BY <1>3, <2>1, WaitDelivery, SendDelivery DEF CloseStep
<1>4. CASE LoopStep
    BY <1>4, TakeItemDelivery, TakeBarrierDelivery, LoopDelivery, DoneDelivery DEF LoopStep
<1>5. ASSUME NEW e \in w.running, ExecuteOk(e) \/ ExecuteErr(e) PROVE DeliveryInv'
  <2>1. \E status, base : Finish(e, status, base)
    BY <1>5, Zenon DEF ExecuteOk, ExecuteErr
  <2> QED
    BY <2>1, GoroutineDelivery, Zenon
<1>6. CASE (\E p \in Calls : Cancel(p)) \/ (\E r \in w.sent : ServerAppend(r)) \/ Finished \/ UNCHANGED vars
  <2>1. UNCHANGED <<pc, mu, closed, closeErr, done, commands, barrier, ret, loop, w, accepted, covered>>
    BY <1>6, Zenon DEF Cancel, ServerAppend, goroutineFrame, Finished, vars
  <2> QED
    BY <2>1, SameDelivery, Zenon
<1> QED
    BY <1>1, <1>2, <1>3, <1>4, <1>5, <1>6 DEF Next

\* It holds in every state of the writer.
LEMMA Delivery == Spec => []DeliveryInv
<1> QED
    BY InitDelivery, NextDelivery, Scheduling, PTL DEF Spec

\* A Flush or Close is answered when every append accepted before it has its
\* result, and without an error only when those it found incomplete were all
\* acknowledged, for any number of callers, buckets and concurrent requests.
THEOREM FlushWaits == Spec => []FlushBarrier
<1>1. DeliveryInv => FlushBarrier
  <2> SUFFICES ASSUME DeliveryInv, NEW p \in Barriers, barrier[p] # None
               PROVE  /\ \A i \in Items \cap Range(accepted) : Accepted(i) < Accepted(p) => w.result[i].err # "open"
                      /\ barrier[p] = "nil" => \A i \in covered[p] : w.result[i].err = "nil"
    BY Zenon DEF FlushBarrier, Barriers
  <2> USE DEF DeliveryInv
  <2>1. Answered(p)
    BY Zenon DEF BarrierInv
  <2>2. PICK n \in 1 .. Taken : accepted[n] = p /\ \A m \in 1 .. n - 1 : Complete(m)
    BY <2>1, Zenon DEF Answered
  <2>3. /\ Len(accepted) \in Nat /\ Taken \in Nat /\ Taken <= Len(accepted) /\ DOMAIN accepted = 1 .. Len(accepted)
    BY TakenFacts, Zenon
  <2>4. \A m \in DOMAIN accepted : Accepted(accepted[m]) = m
    BY Zenon DEF Accepted, QueueInv
  <2>5. ASSUME NEW i \in Items \cap Range(accepted), Accepted(i) < Accepted(p)
        PROVE  w.result[i].err # "open"
    <3>1. PICK m \in DOMAIN accepted : accepted[m] = i
      BY Zenon DEF Range
    <3>2. m < n
      BY <2>2, <2>3, <2>4, <2>5, <3>1
    <3> QED
      BY <2>2, <2>3, <3>1, <3>2 DEF Complete
  <2> QED
    BY <2>1, <2>5, Zenon DEF Answered
<1> QED
    BY <1>1, Delivery, PTL

\* When the loop of a writer has stopped, no accepted append is without a result,
\* no goroutine or timer is left, and all calls of Close that waited for the
\* shutdown return the same error.
THEOREM Drained == Spec => []CloseDrains
<1>1. DeliveryInv => CloseDrains
  <2> SUFFICES ASSUME DeliveryInv, done PROVE CloseDrains
    BY Zenon DEF CloseDrains
  <2>1. \A c \in Closers : pc[c] = "returned" /\ ret[c] # "ctx" => ret[c] = closeErr
    BY Zenon DEF DeliveryInv, CloseInv
  <2>2. commands = <<>> /\ w.running = {} /\ ~w.timer /\ \A n \in DOMAIN accepted : Complete(n)
    BY Zenon DEF DeliveryInv, LoopInv
  <2>3. Range(commands) \cap Items = {}
    BY <2>2 DEF Range
  <2>4. \A i \in Items \cap Range(accepted) : w.result[i].err # "open"
    BY <2>2, Zenon DEF Range, Complete
  <2> QED
    BY <2>1, <2>2, <2>3, <2>4, Zenon DEF CloseDrains
<1> QED
    BY <1>1, Delivery, PTL
=============================================================================
