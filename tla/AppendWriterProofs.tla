-------------------------- MODULE AppendWriterProofs --------------------------
(***************************************************************************)
(* Proofs about the scheduling of AppendWriter, for any calls, buckets,    *)
(* items and limits: everything the loop does to the state of the requests *)
(* goes through dispatch, which starts idle buckets only, one batch each,  *)
(* and stops exactly at MaxConcurrentRequests or when no bucket is ready.  *)
(***************************************************************************)
EXTENDS AppendWriter, TLAPS, FiniteSetTheorems, WellFoundedInduction

\* The n smallest elements of a set of buckets: those with fewer than n below.
FirstOf(R, n) == {b \in R : Cardinality({c \in R : c < b}) < n}

\* A nonempty set of naturals has a least element.
LEMMA LeastNatural ==
    ASSUME NEW S \in SUBSET Nat, S # {}
    PROVE  \E m \in S : \A b \in S : m <= b
<1>1. PICK m \in S : \A b \in S : <<b, m>> \notin OpToRel(<, Nat)
    BY NatLessThanWellFounded, WFMin, Zenon
<1>2. \A b \in S : ~(b < m)
    BY <1>1, Zenon DEF OpToRel
<1> QED
    BY <1>2

\* A nonempty set of buckets has a least and a greatest element.
LEMMA BucketExtremes ==
    ASSUME NEW S \in SUBSET Buckets, S # {}
    PROVE  /\ \E m \in S : \A b \in S : m <= b
           /\ \E m \in S : \A b \in S : b <= m
<1>0. NumBuckets \in Nat /\ \A b \in S : b \in Nat /\ b <= NumBuckets
    BY ConfigAssumption DEF Buckets
<1>1. \E m \in S : \A b \in S : m <= b
    BY <1>0, LeastNatural, Zenon
<1>2. \E m \in S : \A b \in S : b <= m
  <2> DEFINE T == {NumBuckets - b : b \in S}
  <2>1. T \in SUBSET Nat /\ T # {}
    BY <1>0
  <2> HIDE DEF T
  <2>2. PICK t \in T : \A u \in T : t <= u
    BY <2>1, LeastNatural, Zenon
  <2> USE DEF T
  <2>3. PICK m \in S : t = NumBuckets - m
    BY Zenon
  <2>4. \A b \in S : NumBuckets - m <= NumBuckets - b
    BY <2>2, <2>3, Zenon
  <2> QED
    BY <1>0, <2>3, <2>4
<1> QED
    BY <1>1, <1>2, Zenon

\* Sets of buckets are finite.
LEMMA BucketsFinite ==
    ASSUME NEW S \in SUBSET Buckets
    PROVE  IsFiniteSet(S) /\ Cardinality(S) \in Nat
<1>1. NumBuckets \in Int
    BY ConfigAssumption
<1>2. IsFiniteSet(Buckets)
    BY <1>1, FS_Interval DEF Buckets
<1> QED
    BY <1>2, FS_Subset, FS_CardinalityType, Zenon

\* dispatch starts no more buckets than there is room for.
LEMMA FirstOfBounded ==
    ASSUME NEW R \in SUBSET Buckets, NEW n \in Nat
    PROVE  Cardinality(FirstOf(R, n)) <= n
<1> DEFINE F == FirstOf(R, n)
<1>0. F \in SUBSET Buckets
    BY Zenon DEF FirstOf
<1>1. CASE F = {}
    BY <1>1, FS_EmptySet
<1>2. CASE F # {}
  <2>1. PICK m \in F : \A b \in F : b <= m
    BY <1>0, <1>2, BucketExtremes, Zenon
  <2> DEFINE Below == {c \in R : c < m}
  <2>2. Below \in SUBSET Buckets /\ Cardinality(Below) < n
    BY <2>1, Zenon DEF FirstOf
  <2>3. IsFiniteSet(Below) /\ Cardinality(Below) \in Nat
    BY <2>2, BucketsFinite, Zenon
  <2>4. F \subseteq Below \union {m}
    BY <1>0, <2>1, ConfigAssumption DEF FirstOf, Buckets
  <2>5. IsFiniteSet(Below \union {m}) /\ Cardinality(Below \union {m}) <= Cardinality(Below) + 1
    BY <2>3, FS_AddElement
  <2>6. Cardinality(F) <= Cardinality(Below \union {m}) /\ Cardinality(F) \in Nat /\ Cardinality(Below \union {m}) \in Nat
    BY <1>0, <2>4, <2>5, FS_Subset, FS_CardinalityType, BucketsFinite, Zenon
  <2> QED
    BY <2>2, <2>3, <2>5, <2>6
<1> QED
    BY <1>1, <1>2, Zenon

\* If some ready bucket is not started, the room is used up.
LEMMA FirstOfFills ==
    ASSUME NEW R \in SUBSET Buckets, NEW n \in Nat, FirstOf(R, n) # R
    PROVE  Cardinality(FirstOf(R, n)) >= n
<1> DEFINE F == FirstOf(R, n)
<1>1. R \ F # {} /\ R \ F \in SUBSET Buckets /\ F \in SUBSET Buckets
    BY SMTT(30) DEF FirstOf
<1>2. PICK m \in R \ F : \A b \in R \ F : m <= b
    BY <1>1, BucketExtremes, Zenon
<1> DEFINE Below == {c \in R : c < m}
<1>3. Below \subseteq F
    BY <1>1, <1>2, ConfigAssumption DEF Buckets
<1>4. ~(Cardinality(Below) < n)
    BY <1>2, Zenon DEF FirstOf
<1>5. Cardinality(Below) <= Cardinality(F) /\ Cardinality(Below) \in Nat /\ Cardinality(F) \in Nat
    BY <1>1, <1>3, BucketsFinite, FS_Subset, Zenon
<1> QED
    BY <1>4, <1>5

-----------------------------------------------------------------------------
(* The invariant of the loop's state. *)

Fields == {"batches", "pending", "active", "inFlight", "sequences", "poisoned",
           "timer", "roundRobin", "sticky", "running", "sent", "flushed",
           "slots", "result"}

\* The counters agree with the goroutines.
Counted(s) ==
    /\ DOMAIN s = Fields /\ DOMAIN s.batches = Buckets
    /\ s.roundRobin \in 0 .. NumBuckets - 1 /\ s.sticky \in 0 .. NumBuckets - 1
    /\ s.active = {e.request.bucket : e \in s.running} /\ s.active \subseteq Buckets
    /\ s.inFlight = Cardinality(s.active) /\ s.inFlight <= MaxConcurrentRequests
    /\ \A e \in s.running : "request" \in DOMAIN e
    /\ \A d, e \in s.running : d.request.bucket = e.request.bucket => d = e

\* Nothing that could run waits.
Saturated(s) == s.inFlight < MaxConcurrentRequests => ready(s) = {}

\* Open batches have a timer.
Armed(s) == \A b \in Buckets : s.batches[b].items # <<>> => s.timer

SchedInv(s) == Counted(s) /\ Saturated(s) /\ Armed(s)

\* What dispatch leaves alone, and what it does to the rest.
LEMMA DispatchFields ==
    ASSUME NEW s, DOMAIN s = Fields
    PROVE  LET t == dispatch(s)
               F == startable(s)
           IN  /\ DOMAIN t = Fields
               /\ t.batches = s.batches /\ t.timer = s.timer
               /\ t.roundRobin = s.roundRobin /\ t.sticky = s.sticky
               /\ t.poisoned = s.poisoned /\ t.slots = s.slots /\ t.result = s.result
               /\ t.active = s.active \union F
               /\ t.inFlight = s.inFlight + Cardinality(F)
               /\ t.pending = popped(s, F)
               /\ t.running = s.running \union
                     {[request |-> r, status |-> "run", base |-> -1] :
                        r \in {[bucket |-> b, items |-> Head(s.pending[b]), sequence |-> s.sequences[b]] : b \in F}}
  BY Zenon DEF Fields, dispatch

\* dispatch keeps the counters right and leaves nothing waiting.
LEMMA DispatchSched ==
    ASSUME NEW s, Counted(s)
    PROVE  Counted(dispatch(s)) /\ Saturated(dispatch(s))
<1> DEFINE t == dispatch(s)
           R == ready(s)
           n == MaxConcurrentRequests - s.inFlight
           F == startable(s)
           new == {[request |-> r, status |-> "run", base |-> -1] :
                     r \in {[bucket |-> b, items |-> Head(s.pending[b]), sequence |-> s.sequences[b]] : b \in F}}
<1>0. /\ DOMAIN t = Fields /\ t.batches = s.batches
      /\ t.roundRobin = s.roundRobin /\ t.sticky = s.sticky
      /\ t.active = s.active \union F
      /\ t.inFlight = s.inFlight + Cardinality(F)
      /\ t.pending = popped(s, F)
      /\ t.running = s.running \union new
    BY DispatchFields DEF Counted
<1> HIDE DEF t, new
<1>1. R \in SUBSET Buckets /\ F = FirstOf(R, n) /\ F \subseteq R /\ F \in SUBSET Buckets
    BY Zenon DEF ready, startable, FirstOf
<1>2. s.inFlight \in Nat /\ n \in Nat /\ MaxConcurrentRequests \in Nat
    BY BucketsFinite, ConfigAssumption DEF Counted
<1>3. Cardinality(F) <= n /\ Cardinality(F) \in Nat
    BY <1>1, <1>2, FirstOfBounded, BucketsFinite, Zenon
<1>4. s.active \cap F = {}
    BY <1>1, Zenon DEF ready
<1>5. Cardinality(t.active) = s.inFlight + Cardinality(F)
  <2>1. IsFiniteSet(s.active) /\ IsFiniteSet(F)
    BY <1>1, BucketsFinite, Zenon DEF Counted
  <2>2. Cardinality(s.active \union F) = Cardinality(s.active) + Cardinality(F) - Cardinality(s.active \cap F)
    BY <2>1, FS_Union, Zenon
  <2>3. Cardinality(s.active \cap F) = 0
    BY <1>4, FS_EmptySet, Zenon
  <2>4. Cardinality(s.active) = s.inFlight /\ t.active = s.active \union F
    BY <1>0, Zenon DEF Counted
  <2> HIDE DEF F
  <2> QED
    BY <1>2, <1>3, <2>2, <2>3, <2>4
<1>6. /\ {e.request.bucket : e \in new} = F /\ \A e \in new : "request" \in DOMAIN e
      /\ \A d, e \in new : d.request.bucket = e.request.bucket => d = e
  <2> DEFINE exec(b) ==
        [request |-> [bucket |-> b, items |-> Head(s.pending[b]), sequence |-> s.sequences[b]],
         status |-> "run", base |-> -1]
  <2>1. \A b : exec(b).request.bucket = b /\ "request" \in DOMAIN exec(b)
    BY Zenon
  <2>2. \A e \in new : \E b \in F : e = exec(b)
    BY Zenon DEF new
  <2>3. \A b \in F : exec(b) \in new
    BY Zenon DEF new
  <2> HIDE DEF exec, F
  <2> QED
    BY <2>1, <2>2, <2>3
<1>7. t.active = {e.request.bucket : e \in t.running} /\ t.active \subseteq Buckets
    BY <1>0, <1>1, <1>6 DEF Counted
<1>8. \A d, e \in t.running : d.request.bucket = e.request.bucket => d = e
  <2>1. \A d \in s.running : d.request.bucket \in s.active
    BY Zenon DEF Counted
  <2>2. \A d \in new : d.request.bucket \in F
    BY <1>6, Zenon
  <2> QED
    BY <1>0, <1>4, <1>6, <2>1, <2>2 DEF Counted
<1>9. Counted(t)
    BY <1>0, <1>2, <1>3, <1>5, <1>6, <1>7, <1>8 DEF Counted
<1>10. Saturated(t)
  <2> SUFFICES ASSUME t.inFlight < MaxConcurrentRequests PROVE ready(t) = {}
    BY Zenon DEF Saturated
  <2>1. Cardinality(F) < n
    BY <1>0, <1>2, <1>3
  <2>2. F = R
    BY <1>1, <1>2, <1>3, <2>1, FirstOfFills
  <2> QED
    BY <1>0, <2>2, Zenon DEF ready, popped
<1> QED
    BY <1>9, <1>10, Zenon DEF t

\* What the scheduling state consists of, and that the invariant depends on
\* nothing else.
SameSched(s, t) ==
    /\ DOMAIN t = Fields /\ t.batches = s.batches /\ t.timer = s.timer
    /\ t.roundRobin = s.roundRobin /\ t.sticky = s.sticky /\ t.pending = s.pending
    /\ t.active = s.active /\ t.inFlight = s.inFlight /\ t.running = s.running

\* The invariant speaks of the scheduling fields only.
LEMMA SameSchedInv ==
    ASSUME NEW s, NEW t, SchedInv(s), SameSched(s, t)
    PROVE  SchedInv(t)
  BY Zenon DEF SchedInv, Counted, Saturated, ready, Armed, SameSched

\* flushBucket, for one or for all buckets, leaves their batches empty and the
\* requests consistent.
LEMMA FlushSched ==
    ASSUME NEW s, Counted(s), NEW B \in SUBSET Buckets
    PROVE  LET t == flushBuckets(s, B)
           IN  /\ Counted(t) /\ Saturated(t) /\ t.timer = s.timer
               /\ t.roundRobin = s.roundRobin /\ t.sticky = s.sticky
               /\ \A b \in Buckets : \/ t.batches[b].items = <<>>
                                     \/ b \notin B /\ t.batches[b] = s.batches[b]
<1> DEFINE full == {b \in B : s.batches[b].items # <<>>}
           dead == full \cap s.poisoned
           queued == [s EXCEPT
             !.batches = [b \in Buckets |-> IF b \in full THEN EmptyBatch ELSE @[b]],
             !.flushed = [b \in Buckets |-> IF b \in full THEN Append(@[b], s.batches[b].items) ELSE @[b]],
             !.pending = queue(s, full \ dead)]
           failing == UNION {Range(s.batches[b].items) : b \in dead}
           q == complete(queued, failing,
                  [i \in failing |-> [err |-> "poisoned", offset |-> -1,
                                      bucket |-> CHOOSE b \in dead : i \in Range(s.batches[b].items)]])
<1>1. flushBuckets(s, B) = dispatch(q)
    BY Zenon DEF flushBuckets
<1>2. /\ DOMAIN queued = Fields
      /\ queued.batches = [b \in Buckets |-> IF b \in full THEN EmptyBatch ELSE s.batches[b]]
      /\ queued.timer = s.timer /\ queued.roundRobin = s.roundRobin /\ queued.sticky = s.sticky
      /\ queued.active = s.active /\ queued.inFlight = s.inFlight /\ queued.running = s.running
    BY Zenon DEF Counted, Fields
<1> HIDE DEF queued
<1>3. /\ DOMAIN q = Fields
      /\ q.batches = queued.batches
      /\ q.timer = queued.timer /\ q.roundRobin = queued.roundRobin /\ q.sticky = queued.sticky
      /\ q.active = queued.active /\ q.inFlight = queued.inFlight /\ q.running = queued.running
    BY <1>2, Zenon DEF complete, Fields
<1> HIDE DEF q
<1>4. Counted(q)
    BY <1>2, <1>3 DEF Counted
<1>5. /\ Counted(dispatch(q)) /\ Saturated(dispatch(q))
      /\ dispatch(q).timer = s.timer /\ dispatch(q).batches = q.batches
      /\ dispatch(q).roundRobin = s.roundRobin /\ dispatch(q).sticky = s.sticky
    BY <1>2, <1>3, <1>4, DispatchSched, DispatchFields
<1>6. \A b \in Buckets : q.batches[b].items = <<>> \/ (b \notin B /\ q.batches[b] = s.batches[b])
    BY <1>2, <1>3 DEF EmptyBatch
<1> QED
    BY <1>1, <1>5, <1>6, Zenon

\* The consequence used for every flush: from a state in which only batches of B
\* may lack a timer it leads to one in which none does.
LEMMA FlushArms ==
    ASSUME NEW s, Counted(s), NEW B \in SUBSET Buckets,
           \A b \in Buckets \ B : s.batches[b].items # <<>> => s.timer
    PROVE  SchedInv(flushBuckets(s, B))
<1> DEFINE t == flushBuckets(s, B)
<1>1. /\ Counted(t) /\ Saturated(t) /\ t.timer = s.timer
      /\ \A b \in Buckets : \/ t.batches[b].items = <<>>
                            \/ b \notin B /\ t.batches[b] = s.batches[b]
    BY FlushSched
<1> HIDE DEF t
<1>2. Armed(t)
    BY <1>1, Zenon DEF Armed
<1> QED
    BY <1>1, <1>2, Zenon DEF SchedInv, t

\* queueAll stops the timer because it leaves no batch open.
LEMMA QueueAllSched ==
    ASSUME NEW s, SchedInv(s)
    PROVE  SchedInv(queueAll(s))
<1> DEFINE u == [s EXCEPT !.timer = FALSE]
<1>1. Counted(u)
    BY Zenon DEF SchedInv, Counted, Fields
<1> HIDE DEF u
<1>2. SchedInv(flushBuckets(u, Buckets))
    BY <1>1, FlushArms, Zenon
<1> QED
    BY <1>2, Zenon DEF queueAll, u

\* Adding an item to the open batch of b, before that batch is flushed or the
\* timer is armed.
LEMMA PutSched ==
    ASSUME NEW s, SchedInv(s), NEW b \in Buckets, NEW i
    PROVE  LET t == put(s, b, i)
           IN  /\ Counted(t) /\ Saturated(t)
               /\ \A c \in Buckets \ {b} : t.batches[c].items # <<>> => t.timer
<1> DEFINE t == put(s, b, i)
<1>1. /\ DOMAIN t = Fields /\ DOMAIN t.batches = Buckets /\ t.timer = s.timer
      /\ t.roundRobin = s.roundRobin /\ t.sticky = s.sticky
      /\ t.active = s.active /\ t.inFlight = s.inFlight /\ t.running = s.running
      /\ t.pending = s.pending
      /\ \A c \in Buckets \ {b} : t.batches[c] = s.batches[c]
    BY Zenon DEF SchedInv, Counted, Fields, put
<1> HIDE DEF t
<1>2. Counted(t) /\ Saturated(t)
    BY <1>1, Zenon DEF SchedInv, Counted, Saturated, ready
<1>3. \A c \in Buckets \ {b} : t.batches[c].items # <<>> => t.timer
    BY <1>1, Zenon DEF SchedInv, Armed
<1> QED
    BY <1>2, <1>3, Zenon DEF t

\* Arming the batch timer.
LEMMA ArmSched ==
    ASSUME NEW s, Counted(s), Saturated(s), ~Immediate
    PROVE  SchedInv(armTimer(s))
<1> DEFINE t == armTimer(s)
<1>1. /\ DOMAIN t = Fields /\ t.batches = s.batches
      /\ t.roundRobin = s.roundRobin /\ t.sticky = s.sticky
      /\ t.active = s.active /\ t.inFlight = s.inFlight /\ t.running = s.running
      /\ t.pending = s.pending
    BY Zenon DEF Counted, Fields, armTimer
<1>2. t.timer
    BY Zenon DEF Counted, Fields, armTimer
<1> HIDE DEF t
<1>3. Counted(t) /\ Saturated(t) /\ Armed(t)
    BY <1>1, <1>2, Zenon DEF Counted, Saturated, ready, Armed
<1> QED
    BY <1>3, Zenon DEF SchedInv, t

\* Moving one of the two rotating bucket counters on.
LEMMA RotateSched ==
    ASSUME NEW s, SchedInv(s)
    PROVE  /\ SchedInv([s EXCEPT !.sticky = (@ + 1) % NumBuckets])
           /\ SchedInv([s EXCEPT !.roundRobin = (@ + 1) % NumBuckets])
<1>0. \A x \in 0 .. NumBuckets - 1 : (x + 1) % NumBuckets \in 0 .. NumBuckets - 1
    BY ConfigAssumption
<1> DEFINE t == [s EXCEPT !.sticky = (@ + 1) % NumBuckets]
           u == [s EXCEPT !.roundRobin = (@ + 1) % NumBuckets]
<1>1. /\ DOMAIN t = Fields /\ t.batches = s.batches /\ t.timer = s.timer
      /\ t.roundRobin = s.roundRobin /\ t.sticky = (s.sticky + 1) % NumBuckets
      /\ t.active = s.active /\ t.inFlight = s.inFlight /\ t.running = s.running
      /\ t.pending = s.pending
    BY Zenon DEF SchedInv, Counted, Fields
<1>2. /\ DOMAIN u = Fields /\ u.batches = s.batches /\ u.timer = s.timer
      /\ u.roundRobin = (s.roundRobin + 1) % NumBuckets /\ u.sticky = s.sticky
      /\ u.active = s.active /\ u.inFlight = s.inFlight /\ u.running = s.running
      /\ u.pending = s.pending
    BY Zenon DEF SchedInv, Counted, Fields
<1> HIDE DEF t, u
<1>3. SchedInv(t)
    BY <1>0, <1>1, Zenon DEF SchedInv, Counted, Saturated, ready, Armed
<1>4. SchedInv(u)
    BY <1>0, <1>2, Zenon DEF SchedInv, Counted, Saturated, ready, Armed
<1> QED
    BY <1>3, <1>4, Zenon DEF t, u

\* A sticky writer moving to its next bucket.
LEMMA AdvanceSched ==
    ASSUME NEW s, SchedInv(s)
    PROVE  SchedInv(advanceSticky(s))
  BY RotateSched, Zenon DEF advanceSticky

\* assignBucket names an existing bucket and moves round robin on.
LEMMA AssignSched ==
    ASSUME NEW s, SchedInv(s), NEW i \in Items
    PROVE  assignBucket(s, i) \in Buckets /\ SchedInv(assigned(s, i))
<1>1. Write[i].bucket \in Buckets
    BY ConfigAssumption, Zenon
<1>2. s.roundRobin + 1 \in Buckets /\ s.sticky + 1 \in Buckets
    BY ConfigAssumption, SMTT(30) DEF SchedInv, Counted, Buckets
<1> QED
    BY <1>1, <1>2, RotateSched, Zenon DEF assignBucket, assigned

\* availableBatch keeps the invariant.
LEMMA MakeRoomSched ==
    ASSUME NEW s, SchedInv(s), NEW b \in Buckets, NEW i
    PROVE  SchedInv(makeRoom(s, b, i))
<1>1. SchedInv(flushBuckets(s, {b}))
    BY FlushArms, Zenon DEF SchedInv, Armed
<1> QED
    BY <1>1, AdvanceSched, Zenon DEF makeRoom

\* So does adding a row.
LEMMA AddRowSched ==
    ASSUME NEW s, SchedInv(s), NEW i \in Items
    PROVE  SchedInv(addRow(s, i))
<1> DEFINE first == assignBucket(s, i)
           room  == makeRoom(assigned(s, i), first, i)
           b     == IF Assigner = "sticky" THEN assignBucket(room, i) ELSE first
           added == put(room, b, i)
<1>1. first \in Buckets /\ SchedInv(room)
    BY AssignSched, MakeRoomSched, Zenon
<1> HIDE DEF room
<1>2. b \in Buckets
    BY <1>1, AssignSched, Zenon
<1> HIDE DEF first, b
<1>3. /\ Counted(added) /\ Saturated(added)
      /\ \A c \in Buckets \ {b} : added.batches[c].items # <<>> => added.timer
    BY <1>1, <1>2, PutSched, Zenon
<1> HIDE DEF added
<1>4. SchedInv(advanceSticky(flushBuckets(added, {b})))
    BY <1>2, <1>3, FlushArms, AdvanceSched, Zenon
<1>5. ~Immediate => SchedInv(armTimer(added))
    BY <1>3, ArmSched, Zenon
<1>6. addRow(s, i) = IF batchFull(added.batches[b]) \/ Immediate
                       THEN advanceSticky(flushBuckets(added, {b})) ELSE armTimer(added)
    BY Zenon DEF addRow, added, b, room, first
<1> QED
    BY <1>4, <1>5, <1>6, Zenon

\* And an Arrow batch, which is flushed at once.
LEMMA AddArrowSched ==
    ASSUME NEW s, SchedInv(s), NEW i \in Items
    PROVE  SchedInv(addArrow(s, i))
<1> DEFINE b == assignBucket(s, i)
           room == flushBuckets(s, {b})
           added == put(room, b, i)
<1>1. b \in Buckets
    BY AssignSched, Zenon
<1> HIDE DEF b
<1>2. SchedInv(room)
    BY <1>1, FlushArms, Zenon DEF SchedInv, Armed
<1> HIDE DEF room
<1>3. /\ Counted(added)
      /\ \A c \in Buckets \ {b} : added.batches[c].items # <<>> => added.timer
    BY <1>1, <1>2, PutSched, Zenon
<1> HIDE DEF added
<1>4. SchedInv(flushBuckets(added, {b}))
    BY <1>1, <1>3, FlushArms, Zenon
<1> QED
    BY <1>4, Zenon DEF addArrow, added, room, b

\* Completing a future changes results and slots only.
LEMMA FailSame ==
    ASSUME NEW s, DOMAIN s = Fields, NEW items, NEW err, NEW b
    PROVE  SameSched(s, fail(s, items, err, b)) /\ fail(s, items, err, b).poisoned = s.poisoned
  BY Zenon DEF fail, complete, Fields, SameSched

\* Acknowledging a batch changes futures and slots only.
LEMMA AcknowledgeSame ==
    ASSUME NEW s, DOMAIN s = Fields, NEW items, NEW b, NEW base
    PROVE  SameSched(s, acknowledge(s, items, b, base))
  BY Zenon DEF acknowledge, complete, Fields, SameSched

\* add, with all its paths.
LEMMA AddSched ==
    ASSUME NEW s, SchedInv(s), NEW i \in Items, NEW ctxDone
    PROVE  SchedInv(add(s, i, ctxDone))
<1>1. \A err : SchedInv(fail(s, {i}, err, 0))
    BY FailSame, SameSchedInv, Zenon DEF SchedInv, Counted
<1> QED
    BY <1>1, AddArrowSched, AddRowSched, Zenon DEF add

\* A batch that ends, with or without an error, may only shorten pending.
LEMMA CompletedFields ==
    ASSUME NEW s, DOMAIN s = Fields, NEW e, NEW b
    PROVE  LET t == completedBatch(s, e, b)
           IN  /\ DOMAIN t = Fields /\ t.batches = s.batches /\ t.timer = s.timer
               /\ t.roundRobin = s.roundRobin /\ t.sticky = s.sticky
               /\ t.active = s.active /\ t.inFlight = s.inFlight /\ t.running = s.running
<1> DEFINE acked == [s EXCEPT !.sequences[b] = @ + 1]
           failed == [s EXCEPT !.poisoned = @ \union {b}, !.pending[b] = <<>>]
           first == fail(failed, Range(e.request.items), "failed", b)
           Same(t) == /\ DOMAIN t = Fields /\ t.batches = s.batches /\ t.timer = s.timer
                      /\ t.roundRobin = s.roundRobin /\ t.sticky = s.sticky
                      /\ t.active = s.active /\ t.inFlight = s.inFlight /\ t.running = s.running
<1>1. Same(acked) /\ Same(failed)
    BY Zenon DEF Fields
<1> HIDE DEF acked, failed
<1>2. Same(acknowledge(acked, e.request.items, b, e.base))
    BY <1>1, AcknowledgeSame DEF SameSched
<1>3. Same(first)
    BY <1>1, FailSame DEF SameSched
<1> HIDE DEF first
<1>4. Same(failedBatch(s, e, b))
  <2> DEFINE rest == UNION {Range(s.pending[b][n]) : n \in DOMAIN s.pending[b]}
  <2>1. failedBatch(s, e, b) = fail(first, rest, "poisoned", b)
    BY Zenon DEF failedBatch, first, failed
  <2> QED
    BY <1>3, <2>1, FailSame DEF SameSched
<1> QED
    BY <1>2, <1>4, Zenon DEF completedBatch, acked

\* handleCompletion takes the goroutine, its bucket and its count away together.
LEMMA HandleCompletionSched ==
    ASSUME NEW s, SchedInv(s), NEW e \in s.running
    PROVE  SchedInv(handleCompletion(s, e))
<1> DEFINE b == e.request.bucket
           u == [s EXCEPT !.active = @ \ {b}, !.inFlight = @ - 1, !.running = @ \ {e}]
           t == completedBatch(u, e, b)
<1>1. /\ DOMAIN u = Fields /\ u.batches = s.batches /\ u.timer = s.timer
      /\ u.roundRobin = s.roundRobin /\ u.sticky = s.sticky
      /\ u.active = s.active \ {b} /\ u.inFlight = s.inFlight - 1 /\ u.running = s.running \ {e}
    BY Zenon DEF SchedInv, Counted, Fields
<1> HIDE DEF u
<1>2. b \in s.active
    BY Zenon DEF SchedInv, Counted
<1>3. u.active = {d.request.bucket : d \in u.running} /\ u.active \subseteq Buckets
    BY <1>1, <1>2 DEF SchedInv, Counted
<1>4. u.inFlight = Cardinality(u.active) /\ u.inFlight <= MaxConcurrentRequests
  <2>1. IsFiniteSet(s.active) /\ Cardinality(s.active) \in Nat
    BY BucketsFinite, Zenon DEF SchedInv, Counted
  <2>2. Cardinality(s.active \ {b}) = Cardinality(s.active) - 1
    BY <1>2, <2>1, FS_RemoveElement, Zenon
  <2> QED
    BY <1>1, <2>1, <2>2, ConfigAssumption DEF SchedInv, Counted
<1>5. Counted(u)
    BY <1>1, <1>3, <1>4, Zenon DEF SchedInv, Counted
<1>6. /\ DOMAIN t = Fields /\ t.batches = u.batches /\ t.timer = u.timer
      /\ t.roundRobin = u.roundRobin /\ t.sticky = u.sticky
      /\ t.active = u.active /\ t.inFlight = u.inFlight /\ t.running = u.running
    BY <1>1, CompletedFields
<1>7. handleCompletion(s, e) = dispatch(t)
    BY Zenon DEF handleCompletion, u
<1> HIDE DEF t
<1>8. Counted(t)
    BY <1>5, <1>6, Zenon DEF Counted
<1>9. Counted(dispatch(t)) /\ Saturated(dispatch(t))
    BY <1>8, DispatchSched, Zenon
<1>10. Armed(dispatch(t))
    BY <1>1, <1>6, DispatchFields DEF SchedInv, Armed
<1> QED
    BY <1>7, <1>9, <1>10, Zenon DEF SchedInv

\* A goroutine that reports its result keeps its request.
LEMMA FinishSched ==
    ASSUME NEW s, SchedInv(s), NEW e \in s.running, NEW status, NEW base
    PROVE  SchedInv([s EXCEPT !.running = (@ \ {e}) \union {[e EXCEPT !.status = status, !.base = base]}])
<1> DEFINE f == [e EXCEPT !.status = status, !.base = base]
           t == [s EXCEPT !.running = (@ \ {e}) \union {f}]
<1>1. f.request = e.request /\ "request" \in DOMAIN f
    BY Zenon DEF SchedInv, Counted
<1> HIDE DEF f
<1>2. /\ DOMAIN t = Fields /\ t.batches = s.batches /\ t.timer = s.timer
      /\ t.roundRobin = s.roundRobin /\ t.sticky = s.sticky /\ t.pending = s.pending
      /\ t.active = s.active /\ t.inFlight = s.inFlight /\ t.running = (s.running \ {e}) \union {f}
    BY Zenon DEF SchedInv, Counted, Fields
<1> HIDE DEF t
<1>3. t.active = {d.request.bucket : d \in t.running}
    BY <1>1, <1>2 DEF SchedInv, Counted
<1>4. \A d, g \in t.running : d.request.bucket = g.request.bucket => d = g
    BY <1>1, <1>2 DEF SchedInv, Counted
<1> QED
    BY <1>2, <1>3, <1>4, ZenonT(40) DEF SchedInv, Counted, Saturated, ready, Armed, t, f

-----------------------------------------------------------------------------
(* The invariant is inductive. *)

\* A new writer has nothing to schedule.
LEMMA InitSched == Init => SchedInv(w)
<1> SUFFICES ASSUME Init PROVE SchedInv(w)
    BY Zenon
<1>1. /\ DOMAIN w = Fields /\ w.batches = [b \in Buckets |-> EmptyBatch]
      /\ w.pending = [b \in Buckets |-> <<>>]
      /\ w.active = {} /\ w.inFlight = 0 /\ w.running = {}
      /\ w.roundRobin = 0 /\ w.sticky = 0
    BY Zenon DEF Init, Fields
<1>2. Cardinality({}) = 0
    BY FS_EmptySet, Zenon
<1>3. Counted(w)
    BY <1>1, <1>2, ConfigAssumption DEF Counted
<1>4. Saturated(w) /\ Armed(w)
    BY <1>1 DEF Saturated, ready, Armed, EmptyBatch
<1> QED
    BY <1>3, <1>4, Zenon DEF SchedInv

\* Every step of a caller, the loop, a goroutine or the server keeps it.
LEMMA NextSched == SchedInv(w) /\ [Next]_vars => SchedInv(w')
<1> SUFFICES ASSUME SchedInv(w), [Next]_vars PROVE SchedInv(w')
    BY Zenon
<1>0. DOMAIN w = Fields
    BY Zenon DEF SchedInv, Counted
<1>f. \A items, err, b : SchedInv(fail(w, items, err, b))
    BY <1>0, FailSame, SameSchedInv, Zenon
<1>1. ASSUME NEW i \in Items, AppendStep(i) PROVE SchedInv(w')
  <2>1. CASE AcquireSlot(i)
    <3>1. SameSched(w, w')
      BY <1>0, <2>1, Zenon DEF AcquireSlot, SameSched, Fields
    <3> QED
      BY <3>1, SameSchedInv, Zenon
  <2>2. CASE RefuseSlot(i) \/ LockAppend(i) \/ AbandonAppend(i) \/ Send(i)
    BY <1>f, <2>2 DEF RefuseSlot, LockAppend, AbandonAppend, Send
  <2> QED
    BY <1>1, <2>1, <2>2, Zenon DEF AppendStep
<1>2. ASSUME NEW f \in Flushers, FlushStep(f) PROVE SchedInv(w')
    BY <1>2, Zenon DEF FlushStep, LockFlush, Send, Abandon, Await
<1>3. ASSUME NEW c \in Closers, CloseStep(c) PROVE SchedInv(w')
    BY <1>3, Zenon DEF CloseStep, LockClose, Send, Abandon, Await, Join
<1>4. CASE TakeItem
    BY <1>4, AddSched, Zenon DEF TakeItem
<1>5. CASE TakeBarrier
    BY <1>5, QueueAllSched, Zenon DEF TakeBarrier
<1>6. CASE TimerFires
    BY <1>6, QueueAllSched, Zenon DEF TimerFires
<1>7. CASE HandleCompletion
    BY <1>7, HandleCompletionSched DEF HandleCompletion
<1>8. CASE FlushDone \/ CloseDone
    BY <1>8, Zenon DEF FlushDone, CloseDone
<1>9. ASSUME NEW e \in w.running, ExecuteOk(e) \/ ExecuteErr(e) PROVE SchedInv(w')
  <2>1. \E status, base : Finish(e, status, base)
    BY <1>9, Zenon DEF ExecuteOk, ExecuteErr
  <2>2. PICK status, base : Finish(e, status, base)
    BY <2>1, Zenon
  <2> QED
    BY <2>2, FinishSched, Zenon DEF Finish
<1>10. CASE \/ \E p \in Calls : Cancel(p)
            \/ \E r \in w.sent : ServerAppend(r)
            \/ Finished \/ UNCHANGED vars
    BY <1>10, Zenon DEF Cancel, ServerAppend, Finished, vars
<1> QED
    BY <1>1, <1>2, <1>3, <1>4, <1>5, <1>6, <1>7, <1>8, <1>9, <1>10, Zenon DEF Next, LoopStep

IInv == SchedInv(w)

\* The invariant holds in every state of the writer.
LEMMA Scheduling == Spec => []IInv
<1>1. Init => IInv
    BY InitSched, Zenon DEF IInv
<1>2. IInv /\ [Next]_vars => IInv'
    BY NextSched, Zenon DEF IInv
<1> QED
    BY <1>1, <1>2, PTL DEF Spec

\* However the appends, flushes, timers and completions interleave, no two
\* requests of a bucket are active at once, the limit on concurrent requests
\* holds, and active and inFlight agree with the executeBatch goroutines.
THEOREM ActiveRequests == Spec => []OneRequestPerBucket
<1>1. IInv => OneRequestPerBucket
    BY Zenon DEF IInv, SchedInv, Counted, OneRequestPerBucket
<1> QED
    BY <1>1, Scheduling, PTL

\* dispatch never leaves a bucket with a pending batch idle below the limit, and
\* no row is left in an open batch without a timer that will flush it.
THEOREM NothingStranded == Spec => []WorkConserving
<1>1. IInv => WorkConserving
    BY Zenon DEF IInv, SchedInv, Saturated, Armed, ready, WorkConserving
<1> QED
    BY <1>1, Scheduling, PTL
=============================================================================
