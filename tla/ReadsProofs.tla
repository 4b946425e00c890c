----------------------------- MODULE ReadsProofs -----------------------------
(***************************************************************************)
(* Proofs about the routing of requests, for any callers, attempts,        *)
(* elections and faults, and about the bounded readers that are routed,    *)
(* for any number of goroutines, calls, keys and rows.                     *)
(*                                                                         *)
(* Router: a request that was applied ends its call at once, and no flight *)
(* can move that caller on, since the waiters of a flight are callers that *)
(* wait for it: only the next call of the caller sends again.  And every   *)
(* leader that is cached, or on its way into the cache with a flight or a  *)
(* stray one, was elected: a creator that found a route has seen a leader, *)
(* and only a partition that exists has one.  Readers: a batch scan        *)
(* returns every row once and leaves no session behind, and a lookup       *)
(* returns the value of its own key.                                       *)
(***************************************************************************)
EXTENDS Router, BatchScanner, Lookuper, TLAPS

-----------------------------------------------------------------------------
(* The router *)

Flights == {NoFlight} \union
    [pc : {"check", "fetch", "apply"}, force : BOOLEAN, seen : Int, parts : BOOLEAN, waiters : SUBSET Callers]

Joining == {"joinTable", "joinTableForced", "joinPartition", "joinForced"}
Awaiting == {"awaitTable", "awaitTableForced", "awaitPartition", "awaitForced"}
Steps == {"idle", "route", "prepare", "prepareForced", "required", "send", "returned"} \union Joining \union Awaiting
Errors == {"none", "nil", "noLeader", "unknownBucket", "metadata", "connection", "unknownPartition", "unknownTable", "request", "context"}
RouterTasks == [pc : Steps, attempt : {1, 2}, node : Int, ret : Errors]
Ensures == [pc : Errors \union {"start", "first", "create", "again", "checking", "createFailed"}, checks : Nat]

\* Where the waiters of a flight are.
Awaits(k) == IF k = "table" THEN {"awaitTable", "awaitTableForced"} ELSE {"awaitPartition", "awaitForced"}

RouterTypes ==
    /\ flights \in [Keys -> Flights]
    /\ task \in [Callers -> RouterTasks] /\ ensuring \in [Creators -> Ensures]
    /\ applied \in [Callers -> {0, 1}] /\ partitioned \in BOOLEAN /\ exists \in BOOLEAN

\* Only leaders that were elected are cached or on their way into the cache.
ElectedInv ==
    /\ elections \in Nat /\ leader \in 0 .. elections /\ (elections > 0 => exists)
    /\ route \in Int /\ route <= elections
    /\ \A k \in Keys : flights[k].pc = "apply" => flights[k].seen <= elections
    /\ \A f \in strays : f.seen \in Int /\ f.seen <= elections

WaiterInv == \A k \in Keys : flights[k] # NoFlight => \A c \in flights[k].waiters : task[c].pc \in Awaits(k)

\* A caller whose request was applied has returned; a creator sends nothing.
SentInv ==
    /\ \A c \in Callers : applied[c] = 1 => c \in Requesters /\ task[c].pc = "returned"
    /\ \A c \in Creators : task[c].pc # "send"

\* A creator that found a route, or was told so, has seen a leader.
SeenInv ==
    /\ \A c \in Creators : task[c].ret = "nil" => elections > 0
    /\ \A c \in Creators : partitioned /\ ensuring[c].pc = "nil" => elections > 0

\* A creator is in checkPartition only while ensure waits for that check.
IdleInv == \A c \in Creators : ensuring[c].pc \notin {"first", "checking"} => task[c].pc = "idle"

RouterInv == RouterTypes /\ ElectedInv /\ WaiterInv /\ SentInv /\ SeenInv /\ IdleInv

-----------------------------------------------------------------------------
\* A router with an empty cache satisfies the invariant.
LEMMA InitRouterInv == Init => RouterInv
<1> SUFFICES ASSUME Init PROVE RouterInv
    BY Zenon
<1> USE RouterAssumption DEF Init
<1>1. RouterTypes
  <2>1. flights \in [Keys -> Flights]
    BY Zenon DEF Flights
  <2>2. task \in [Callers -> RouterTasks]
    BY DEF RouterTasks, Steps, Errors
  <2>3. ensuring \in [Creators -> Ensures]
    BY Zenon DEF Ensures
  <2>4. applied \in [Callers -> {0, 1}]
    BY Zenon
  <2>5. partitioned \in BOOLEAN /\ exists \in BOOLEAN
    BY Zenon
  <2> QED
    BY <2>1, <2>2, <2>3, <2>4, <2>5, Zenon DEF RouterTypes
<1>2. ElectedInv
    BY DEF ElectedInv, NoFlight, Missing, Keys
<1>3. WaiterInv
    BY Zenon DEF WaiterInv
<1>4. SentInv /\ SeenInv /\ IdleInv
    BY DEF SentInv, SeenInv, IdleInv, Callers
<1> QED
    BY <1>1, <1>2, <1>3, <1>4, Zenon DEF RouterInv

\* A step that changes neither flights nor the server, in which one caller moves
\* on to where it is no waiter.
LEMMA CallerMoves ==
    ASSUME RouterInv, NEW c \in Callers,
           \A k \in Keys : flights[k] # NoFlight => c \notin flights[k].waiters,
           NEW t \in RouterTasks, task' = [task EXCEPT ![c] = t],
           c \in Creators => t.pc # "send" /\ (t.ret = "nil" => elections > 0),
           applied' = applied \/ (c \in Requesters /\ t.pc = "returned" /\ applied' = [applied EXCEPT ![c] = 1])
             \/ applied' = [applied EXCEPT ![c] = 0],
           applied'[c] = 1 => t.pc = "returned",
           UNCHANGED <<partitioned, exists, leader, elections, flights, strays>>,
           route' \in Int, route' <= elections,
           ensuring' \in [Creators -> Ensures],
           \A d \in Creators : partitioned /\ ensuring'[d].pc = "nil" => elections > 0,
           \A d \in Creators \ {c} : ensuring'[d] = ensuring[d],
           c \in Creators => (ensuring'[c].pc \notin {"first", "checking"} => t.pc = "idle")
    PROVE  RouterInv'
<1> USE RouterAssumption DEF RouterInv
<1>1. task' \in [Callers -> RouterTasks] /\ task'[c] = t /\ \A d \in Callers : d # c => task'[d] = task[d]
    BY Zenon DEF RouterTypes
<1>2. applied' \in [Callers -> {0, 1}] /\ \A d \in Callers : d # c => applied'[d] = applied[d]
    BY Zenon DEF RouterTypes
<1>3. RouterTypes'
    BY <1>1, <1>2, Zenon DEF RouterTypes
<1>4. ElectedInv'
    BY Zenon DEF ElectedInv
<1>5. WaiterInv'
  <2>1. \A k \in Keys : flights[k] # NoFlight => flights[k].waiters \subseteq Callers
    BY Zenon DEF RouterTypes, Flights
  <2> QED
    BY <1>1, <2>1 DEF WaiterInv
<1>6. SentInv'
    BY <1>1, <1>2 DEF SentInv, RouterTypes
<1>7. SeenInv'
    BY <1>1 DEF SeenInv
<1>8. IdleInv'
    BY <1>1, Zenon DEF IdleInv, Callers
<1> QED
    BY <1>3, <1>4, <1>5, <1>6, <1>7, <1>8, Zenon

\* What Goes and Returns make of the caller's state.
LEMMA TaskSteps ==
    ASSUME RouterTypes, NEW c \in Callers
    PROVE  /\ \A pc \in Steps : Goes(c, pc) =>
                \E t \in RouterTasks : task' = [task EXCEPT ![c] = t] /\ t.pc = pc /\ t.ret = task[c].ret
           /\ \A err \in Errors : Returns(c, err) =>
                \E t \in RouterTasks : task' = [task EXCEPT ![c] = t] /\ t.pc = "returned" /\ t.ret = err
<1>1. task[c] \in RouterTasks
    BY Zenon DEF RouterTypes
<1>2. ASSUME NEW pc \in Steps, Goes(c, pc)
      PROVE  \E t \in RouterTasks : task' = [task EXCEPT ![c] = t] /\ t.pc = pc /\ t.ret = task[c].ret
  <2> DEFINE t == [task[c] EXCEPT !.pc = pc]
  <2>1. t \in RouterTasks /\ t.pc = pc /\ t.ret = task[c].ret
    BY <1>1, Zenon DEF RouterTasks
  <2>2. task' = [task EXCEPT ![c] = t]
    BY <1>2, Zenon DEF Goes
  <2> QED
    BY <2>1, <2>2, Zenon
<1>3. ASSUME NEW err \in Errors, Returns(c, err)
      PROVE  \E t \in RouterTasks : task' = [task EXCEPT ![c] = t] /\ t.pc = "returned" /\ t.ret = err
  <2> DEFINE t == [task[c] EXCEPT !.pc = "returned", !.ret = err]
  <2>1. "returned" \in Steps
    BY Zenon DEF Steps
  <2>2. t \in RouterTasks /\ t.pc = "returned" /\ t.ret = err
    BY <1>1, <2>1, Zenon DEF RouterTasks
  <2>3. task' = [task EXCEPT ![c] = t]
    BY <1>3, Zenon DEF Returns
  <2> QED
    BY <2>2, <2>3, Zenon
<1> QED
    BY <1>2, <1>3, Zenon

\* Only a caller that awaits a flight is among the waiters.
LEMMA NoWaiter ==
    ASSUME RouterInv, NEW c \in Callers, task[c].pc \notin Awaiting
    PROVE  \A k \in Keys : flights[k] # NoFlight => c \notin flights[k].waiters
    BY Zenon DEF RouterInv, WaiterInv, Awaits, Awaiting

\* routePhysical and lookupPhysicalRequired: a route that is found was elected.
LEMMA LookupRouterInv ==
    ASSUME RouterInv, NEW c \in Callers, RoutePhysical(c) \/ LookupRequired(c)
    PROVE  RouterInv'
<1> USE RouterAssumption DEF RouterInv
<1>1. /\ task[c].pc \in {"route", "required"}
      /\ UNCHANGED <<partitioned, exists, leader, elections, route, flights, strays, ensuring, applied>>
    BY Zenon DEF RoutePhysical, LookupRequired, server, cache
<1>2. \A k \in Keys : flights[k] # NoFlight => c \notin flights[k].waiters
    BY <1>1, NoWaiter, Zenon DEF Awaiting
<1>3. /\ lookupPhysical > 0 => elections > 0
      /\ applied[c] # 1 /\ (c \in Creators => (task[c].ret = "nil" => elections > 0))
    BY <1>1 DEF lookupPhysical, Missing, ElectedInv, SentInv, SeenInv
<1>4. PICK t \in RouterTasks :
        /\ task' = [task EXCEPT ![c] = t]
        /\ c \in Creators => t.pc # "send" /\ (t.ret = "nil" => elections > 0)
  <2>1. CASE lookupPhysical > 0
    <3>0. lookupPhysical \in Int
      BY DEF lookupPhysical, Missing, ElectedInv
    <3> DEFINE pc == IF c \in Creators THEN "returned" ELSE "send"
               t == [task[c] EXCEPT !.pc = pc, !.node = route, !.ret = "nil"]
    <3>1. task[c] \in RouterTasks /\ pc \in Steps /\ "nil" \in Errors /\ route \in Int
      BY Zenon DEF RouterTypes, Steps, Errors, ElectedInv
    <3>2. t \in RouterTasks /\ t.pc = pc /\ t.ret = "nil"
      BY <3>1, Zenon DEF RouterTasks
    <3>3. task' = [task EXCEPT ![c].pc = pc, ![c].node = route, ![c].ret = "nil"]
      BY <2>1, <3>0 DEF RoutePhysical, LookupRequired
    <3>4. task' = [task EXCEPT ![c] = t]
      BY <3>3, Zenon
    <3>5. c \in Creators => t.pc # "send" /\ (t.ret = "nil" => elections > 0)
      BY <1>3, <2>1, <3>2
    <3> HIDE DEF t
    <3> QED
      BY <3>2, <3>4, <3>5, Zenon
  <2>2. CASE ~(lookupPhysical > 0)
    <3>1. \/ Returns(c, "noLeader") \/ Returns(c, "unknownBucket")
          \/ Goes(c, "prepare") \/ Goes(c, "joinTable")
      BY <2>2, Zenon DEF RoutePhysical, LookupRequired
    <3>2. {"noLeader", "unknownBucket"} \subseteq Errors \ {"nil"} /\ {"prepare", "joinTable"} \subseteq Steps \ {"send"}
      BY Zenon DEF Errors, Steps, Joining
    <3> QED
      BY <1>3, <3>1, <3>2, TaskSteps
  <2> QED
    BY <2>1, <2>2, Zenon
<1>5. route' \in Int /\ route' <= elections /\ ensuring' \in [Creators -> Ensures]
      /\ \A d \in Creators : partitioned /\ ensuring'[d].pc = "nil" => elections > 0
    BY <1>1, Zenon DEF ElectedInv, RouterTypes, SeenInv
<1>6. c \in Creators => ensuring'[c].pc \in {"first", "checking"}
    BY <1>1, Zenon DEF IdleInv
<1> QED
    BY <1>1, <1>2, <1>3, <1>4, <1>5, <1>6, CallerMoves, Zenon

\* RequestBucket: an applied request ends the call, and one whose connection
\* broke is not sent again.
LEMMA SendRouterInv ==
    ASSUME RouterInv, NEW c \in Callers, SendOk(c) \/ (\E b \in BOOLEAN : SendStale(c, b)) \/ SendBroken(c) \/ NextRequest(c)
    PROVE  RouterInv'
<1> USE RouterAssumption DEF RouterInv
<1>1. /\ task[c].pc \in {"send", "returned"} /\ (task[c].pc = "returned" => NextRequest(c))
      /\ UNCHANGED <<partitioned, exists, leader, elections, flights, strays, ensuring>>
      /\ route' = route \/ route' = Missing
    BY Zenon DEF SendOk, SendStale, SendBroken, NextRequest, InvalidatePhysical, server, cache
<1>2. \A k \in Keys : flights[k] # NoFlight => c \notin flights[k].waiters
    BY <1>1, NoWaiter, Zenon DEF Awaiting
<1>3. c \in Requesters /\ c \notin Creators
    BY <1>1, Zenon DEF NextRequest, SentInv, Callers
<1>4. PICK t \in RouterTasks : task' = [task EXCEPT ![c] = t] /\ (applied'[c] = 1 => t.pc = "returned")
  <2>1. CASE NextRequest(c)
    <3> DEFINE t == [pc |-> "route", attempt |-> 1, node |-> 0, ret |-> "none"]
    <3>1. t \in RouterTasks
      BY DEF RouterTasks, Steps, Errors
    <3>2. applied'[c] # 1 /\ task' = [task EXCEPT ![c] = t]
      BY <2>1 DEF NextRequest, RouterTypes
    <3> HIDE DEF t
    <3> QED
      BY <3>1, <3>2, Zenon
  <2>2. CASE SendOk(c) \/ SendBroken(c)
    <3>1. Returns(c, "nil") \/ Returns(c, "connection")
      BY <2>2, Zenon DEF SendOk, SendBroken, broken
    <3>2. {"nil", "connection"} \subseteq Errors
      BY Zenon DEF Errors
    <3> QED
      BY <3>1, <3>2, TaskSteps
  <2>3. CASE \E b \in BOOLEAN : SendStale(c, b)
    <3>1. applied' = applied /\ applied[c] # 1
      BY <2>3, Zenon DEF SendStale, SentInv
    <3>2. CASE Returns(c, "metadata")
      BY <3>1, <3>2, TaskSteps DEF Errors
    <3>3. CASE task' = [task EXCEPT ![c].pc = "route", ![c].attempt = 2]
      <4>1. task[c] \in RouterTasks /\ "route" \in Steps
        BY Zenon DEF RouterTypes, Steps
      <4>2. [task[c] EXCEPT !.pc = "route", !.attempt = 2] \in RouterTasks
        BY <4>1, Zenon DEF RouterTasks
      <4> QED
        BY <3>1, <3>3, <4>2, Zenon
    <3> QED
      BY <2>3, <3>2, <3>3, Zenon DEF SendStale
  <2> QED
    BY <2>1, <2>2, <2>3, Zenon
<1>5. \/ applied' = applied
      \/ t.pc = "returned" /\ applied' = [applied EXCEPT ![c] = 1]
      \/ applied' = [applied EXCEPT ![c] = 0]
  <2>1. CASE task[c].pc = "send"
    <3>1. applied[c] = 0
      BY <2>1, Zenon DEF SentInv, RouterTypes
    <3>2. applied' = applied \/ applied' = [applied EXCEPT ![c] = 1]
      BY <2>1, <3>1 DEF SendOk, SendStale, SendBroken, NextRequest
    <3> QED
      BY <1>4, <3>2, Zenon DEF RouterTypes
  <2>2. CASE NextRequest(c)
    BY <2>2, Zenon DEF NextRequest
  <2> QED
    BY <1>1, <2>1, <2>2, Zenon
<1>6. route' \in Int /\ route' <= elections /\ ensuring' \in [Creators -> Ensures]
      /\ \A d \in Creators : partitioned /\ ensuring'[d].pc = "nil" => elections > 0
    BY <1>1 DEF ElectedInv, RouterTypes, SeenInv, Missing
<1> QED
    BY <1>1, <1>2, <1>3, <1>4, <1>5, <1>6, CallerMoves, Zenon

\* refreshPhysical's first look at the cache moves only the caller.
LEMMA PrepareRouterInv ==
    ASSUME RouterInv, NEW c \in Callers, PrepareRefresh(c)
    PROVE  RouterInv'
<1> USE RouterAssumption DEF RouterInv
<1>1. /\ task[c].pc \in {"prepare", "prepareForced"}
      /\ UNCHANGED <<partitioned, exists, leader, elections, route, flights, strays, ensuring, applied>>
    BY Zenon DEF PrepareRefresh, server, cache
<1>2. \A k \in Keys : flights[k] # NoFlight => c \notin flights[k].waiters
    BY <1>1, NoWaiter, Zenon DEF Awaiting
<1>3. applied[c] # 1 /\ (c \in Creators => ensuring[c].pc \in {"first", "checking"} /\ (task[c].ret = "nil" => elections > 0))
    BY <1>1, Zenon DEF SentInv, IdleInv, SeenInv
<1>4. PICK pc \in Joining : Goes(c, pc)
    BY Zenon DEF PrepareRefresh, Joining
<1>5. pc \in Steps /\ pc # "send"
    BY Zenon DEF Steps, Joining
<1>6. PICK t \in RouterTasks : task' = [task EXCEPT ![c] = t] /\ t.pc = pc /\ t.ret = task[c].ret
    BY <1>4, <1>5, TaskSteps
<1>7. route' \in Int /\ route' <= elections /\ ensuring' \in [Creators -> Ensures]
      /\ \A d \in Creators : partitioned /\ ensuring'[d].pc = "nil" => elections > 0
    BY <1>1, Zenon DEF ElectedInv, RouterTypes, SeenInv
<1> QED
    BY <1>1, <1>2, <1>3, <1>5, <1>6, <1>7, CallerMoves, Zenon

\* What a step of ensure writes into the creator's state.
LEMMA EnsureSteps ==
    ASSUME RouterTypes, NEW c \in Creators, NEW e \in Ensures, ensuring' = [ensuring EXCEPT ![c] = e]
    PROVE  /\ ensuring' \in [Creators -> Ensures] /\ ensuring'[c] = e
           /\ \A d \in Creators \ {c} : ensuring'[d] = ensuring[d]
    BY Zenon DEF RouterTypes

\* The steps of ensure that start and evaluate a check: ensure returns what
\* the check found, and nil only with a leader that was seen.
LEMMA CheckRouterInv ==
    ASSUME RouterInv, NEW c \in Creators, CheckPartition(c) \/ FirstChecked(c) \/ Checked(c)
    PROVE  RouterInv'
<1> USE RouterAssumption DEF RouterInv
<1>0. c \in Callers /\ c \notin Requesters /\ task[c] \in RouterTasks /\ ensuring[c] \in Ensures
    BY Zenon DEF Callers, RouterTypes
<1>1. /\ UNCHANGED <<partitioned, exists, leader, elections, flights, strays, applied>>
      /\ route' = route \/ route' = Missing
    BY Zenon DEF CheckPartition, FirstChecked, Checked, InvalidatePhysical, server, cache
<1>2. task[c].pc \in {"idle", "returned"}
    BY Zenon DEF CheckPartition, FirstChecked, Checked, IdleInv
<1>3. \A k \in Keys : flights[k] # NoFlight => c \notin flights[k].waiters
    BY <1>0, <1>2, NoWaiter, Zenon DEF Awaiting
<1>4. applied[c] # 1 /\ (task[c].ret = "nil" => elections > 0)
    BY <1>0, Zenon DEF SentInv, SeenInv
<1>5. PICK t \in RouterTasks :
        /\ task' = [task EXCEPT ![c] = t] /\ t.ret = task[c].ret
        /\ t.pc = "idle" \/ (t.pc = "prepareForced" /\ CheckPartition(c) /\ partitioned)
  <2>1. \/ Goes(c, "idle") \/ (Goes(c, "prepareForced") /\ CheckPartition(c) /\ partitioned)
        \/ (task' = task /\ CheckPartition(c))
    BY Zenon DEF CheckPartition, FirstChecked, Checked
  <2>2. CASE task' = task /\ CheckPartition(c)
    <3>1. task[c].pc = "idle" /\ task' = [task EXCEPT ![c] = task[c]]
      BY <1>0, <2>2, Zenon DEF CheckPartition, IdleInv, RouterTypes
    <3> QED
      BY <1>0, <3>1, Zenon
  <2> QED
    BY <1>0, <2>1, <2>2, TaskSteps DEF Steps
<1>6. PICK e \in Ensures :
        /\ ensuring' = [ensuring EXCEPT ![c] = e]
        /\ e.pc \notin {"first", "checking"} => t.pc = "idle"
        /\ partitioned /\ e.pc = "nil" => elections > 0
  <2> DEFINE Set(pc) == [ensuring[c] EXCEPT !.pc = pc]
  <2>1. \A pc \in Errors \union {"start", "first", "create", "again", "checking", "createFailed"} :
          Set(pc) \in Ensures /\ Set(pc).pc = pc
    BY <1>0, Zenon DEF Ensures
  <2>2. CASE CheckPartition(c)
    <3>1. CASE ~partitioned
      <4>1. ensuring' = [ensuring EXCEPT ![c] = Set("nil")] /\ task' = task
        BY <2>2, <3>1, Zenon DEF CheckPartition, EnsureEnds
      <4>2. t.pc = "idle"
        BY <1>5, <3>1, Zenon
      <4>3. Set("nil") \in Ensures
        BY <2>1, Zenon DEF Errors
      <4> HIDE DEF Set
      <4> QED
        BY <3>1, <4>1, <4>2, <4>3, Zenon
    <3>2. CASE partitioned
      <4>1. PICK pc \in {"first", "checking"} : ensuring' = [ensuring EXCEPT ![c] = Set(pc)]
        BY <2>2, <3>2, Zenon DEF CheckPartition
      <4> HIDE DEF Set
      <4> QED
        BY <2>1, <4>1, Zenon
    <3> QED
      BY <3>1, <3>2, Zenon
  <2>3. CASE FirstChecked(c)
    <3>1. PICK pc \in Errors \union {"create", "again"} :
            ensuring' = [ensuring EXCEPT ![c] = Set(pc)] /\ (pc = "nil" => task[c].ret = "nil")
      BY <1>0, <2>3 DEF FirstChecked, RouterTasks
    <3>2. t.pc = "idle"
      BY <1>5, <2>3, Zenon DEF FirstChecked, CheckPartition
    <3> HIDE DEF Set
    <3> QED
      BY <1>4, <2>1, <3>1, <3>2, Zenon
  <2>4. CASE Checked(c)
    <3>1. t.pc = "idle"
      BY <1>5, <2>4, Zenon DEF Checked, CheckPartition
    <3>2. CASE pendingPartitionMetadata(task[c].ret) /\ ensuring[c].checks + 1 < MetadataAttempts
      <4>1. PICK pc \in {"context", "again"} : ensuring' = [ensuring EXCEPT ![c] = [pc |-> pc, checks |-> ensuring[c].checks + 1]]
        BY <2>4, <3>2, Zenon DEF Checked, RouterTypes
      <4> DEFINE e == [pc |-> pc, checks |-> ensuring[c].checks + 1]
      <4>2. e \in Ensures /\ e.pc \notin {"nil"}
        BY <1>0 DEF Ensures, Errors
      <4> HIDE DEF e
      <4> QED
        BY <3>1, <4>1, <4>2, Zenon DEF e
    <3>3. CASE ~(pendingPartitionMetadata(task[c].ret) /\ ensuring[c].checks + 1 < MetadataAttempts)
      <4>1. ensuring' = [ensuring EXCEPT ![c] = Set(task[c].ret)] /\ task[c].ret \in Errors
        BY <1>0, <2>4, <3>3, Zenon DEF Checked, EnsureEnds, RouterTasks
      <4> HIDE DEF Set
      <4> QED
        BY <1>4, <2>1, <3>1, <4>1, Zenon
    <3> QED
      BY <3>2, <3>3, Zenon
  <2> QED
    BY <2>2, <2>3, <2>4, Zenon
<1>7. /\ ensuring' \in [Creators -> Ensures] /\ ensuring'[c] = e
      /\ \A d \in Creators \ {c} : ensuring'[d] = ensuring[d]
    BY <1>6, EnsureSteps, Zenon
<1>8. \A d \in Creators : partitioned /\ ensuring'[d].pc = "nil" => elections > 0
    BY <1>6, <1>7, Zenon DEF SeenInv
<1>9. route' \in Int /\ route' <= elections
    BY <1>1 DEF ElectedInv, Missing
<1> QED
    BY <1>0, <1>1, <1>3, <1>4, <1>5, <1>6, <1>7, <1>8, <1>9, CallerMoves, Zenon

\* A step that moves no caller and no flight, and undoes no election.
LEMMA ServerMoves ==
    ASSUME RouterInv, UNCHANGED <<partitioned, task, flights, applied>>,
           exists' \in BOOLEAN, elections' \in Nat, elections <= elections', leader' \in 0 .. elections',
           elections' > 0 => exists', strays' \subseteq strays, route' \in Int, route' <= elections',
           ensuring' \in [Creators -> Ensures],
           \A d \in Creators : ensuring'[d] = ensuring[d]
             \/ (ensuring[d].pc = "create" /\ ensuring'[d].pc \in {"again", "createFailed"})
    PROVE  RouterInv'
<1> USE RouterAssumption DEF RouterInv
<1>1. RouterTypes'
    BY Zenon DEF RouterTypes
<1>2. ElectedInv'
  <2>1. \A k \in Keys : flights[k].pc = "apply" => flights[k].seen \in Int /\ flights[k].seen <= elections
    BY DEF RouterTypes, Flights, NoFlight, ElectedInv
  <2>2. elections \in Nat
    BY Zenon DEF ElectedInv
  <2>3. \A k \in Keys : flights'[k].pc = "apply" => flights'[k].seen <= elections'
    BY <2>1, <2>2
  <2>4. \A f \in strays' : f.seen \in Int /\ f.seen <= elections'
    BY <2>2 DEF ElectedInv
  <2> QED
    BY <2>3, <2>4, Zenon DEF ElectedInv
<1>3. WaiterInv' /\ SentInv'
    BY Zenon DEF WaiterInv, SentInv
<1>4. SeenInv'
    BY DEF SeenInv, ElectedInv
<1>5. IdleInv'
    BY Zenon DEF IdleInv
<1> QED
    BY <1>1, <1>2, <1>3, <1>4, <1>5, Zenon

\* Elections, the creation of the partition, a late answer of a flight that
\* nobody waits for, and the end of a context.
LEMMA ServerRouterInv ==
    ASSUME RouterInv,
           \/ Elect \/ LoseLeader \/ (\E f \in strays : StrayApplies(f))
           \/ (\E c \in Creators : CreatePartition(c)) \/ (\E c \in Callers : Cancel(c)) \/ UNCHANGED vars
    PROVE  RouterInv'
<1> USE RouterAssumption DEF RouterInv
<1>0. /\ elections \in Nat /\ leader \in 0 .. elections /\ (elections > 0 => exists) /\ exists \in BOOLEAN
      /\ route \in Int /\ route <= elections /\ ensuring \in [Creators -> Ensures]
    BY Zenon DEF ElectedInv, RouterTypes
<1>1. CASE Elect \/ LoseLeader
  <2>1. /\ UNCHANGED <<partitioned, exists, task, flights, applied, strays, route, ensuring>>
        /\ exists /\ elections' \in Nat /\ elections <= elections' /\ leader' \in 0 .. elections'
    BY <1>0, <1>1 DEF Elect, LoseLeader, cache
  <2> QED
    BY <1>0, <2>1, ServerMoves
<1>2. CASE \E f \in strays : StrayApplies(f)
  <2>1. PICK f \in strays : StrayApplies(f)
    BY <1>2, Zenon
  <2>2. UNCHANGED <<partitioned, exists, leader, elections, task, flights, applied, ensuring>> /\ strays' \subseteq strays
    BY <2>1, Zenon DEF StrayApplies, server
  <2>3. route' \in Int /\ route' <= elections
    BY <1>0, <2>1 DEF StrayApplies, Applies, ElectedInv, Missing
  <2> QED
    BY <1>0, <2>2, <2>3, ServerMoves
<1>3. CASE \E c \in Creators : CreatePartition(c)
  <2>1. PICK c \in Creators : CreatePartition(c)
    BY <1>3, Zenon
  <2>2. /\ UNCHANGED <<partitioned, leader, elections, task, flights, applied, strays, route>>
        /\ exists' \in BOOLEAN /\ (exists => exists')
    BY <1>0, <2>1, Zenon DEF CreatePartition, cache
  <2>3. ensuring[c].pc = "create" /\ ensuring[c] \in Ensures
    BY <1>0, <2>1, Zenon DEF CreatePartition
  <2>4. PICK pc \in {"again", "createFailed"} : ensuring' = [ensuring EXCEPT ![c].pc = pc]
    BY <2>1, Zenon DEF CreatePartition
  <2> DEFINE e == [ensuring[c] EXCEPT !.pc = pc]
  <2>5. e \in Ensures /\ e.pc = pc /\ ensuring' = [ensuring EXCEPT ![c] = e]
    BY <2>3, <2>4, Zenon DEF Ensures
  <2> HIDE DEF e
  <2>6. ensuring' \in [Creators -> Ensures] /\ ensuring'[c] = e /\ \A d \in Creators \ {c} : ensuring'[d] = ensuring[d]
    BY <2>5, EnsureSteps, Zenon
  <2> QED
    BY <1>0, <2>2, <2>3, <2>4, <2>5, <2>6, ServerMoves
<1>4. CASE (\E c \in Callers : Cancel(c)) \/ UNCHANGED vars
  <2>1. UNCHANGED <<partitioned, exists, leader, elections, task, flights, applied, strays, route, ensuring>>
    BY <1>4, Zenon DEF Cancel, vars, server, cache
  <2> QED
    BY <1>0, <2>1, ServerMoves
<1> QED
    BY <1>1, <1>2, <1>3, <1>4, Zenon

-----------------------------------------------------------------------------
\* A flight changes, and those among its waiters that it ends for move on:
\* they return, or go to their next step, which is never a request.
LEMMA FlightMoves ==
    ASSUME RouterInv, NEW k \in Keys, NEW fl \in Flights, flights' = [flights EXCEPT ![k] = fl],
           fl.pc = "apply" => fl.seen <= elections,
           NEW Moved \in SUBSET Callers,
           \A c \in Moved : task[c].pc \in Awaits(k),
           task' \in [Callers -> RouterTasks],
           \A c \in Callers \ Moved : task'[c] = task[c],
           \A c \in Moved : task'[c].pc \notin {"send", "idle"} /\ (task'[c].ret = "nil" => task[c].ret = "nil"),
           fl # NoFlight => \A c \in fl.waiters : c \notin Moved /\ task[c].pc \in Awaits(k),
           strays' \subseteq strays \union {f \in [key : Keys, seen : Int, parts : BOOLEAN] : f.seen <= elections},
           UNCHANGED <<partitioned, exists, leader, elections, ensuring, applied>>,
           route' \in Int, route' <= elections
    PROVE  RouterInv'
<1> USE RouterAssumption DEF RouterInv
<1>1. flights' \in [Keys -> Flights] /\ flights'[k] = fl /\ \A j \in Keys \ {k} : flights'[j] = flights[j]
    BY Zenon DEF RouterTypes
<1>2. RouterTypes'
    BY <1>1, Zenon DEF RouterTypes
<1>3. ElectedInv'
  <2>1. \A j \in Keys : flights'[j].pc = "apply" => flights'[j].seen <= elections'
    BY <1>1, Zenon DEF ElectedInv
  <2>2. \A f \in strays' : f.seen \in Int /\ f.seen <= elections'
    BY Zenon DEF ElectedInv
  <2> QED
    BY <2>1, <2>2, Zenon DEF ElectedInv
<1>4. WaiterInv'
  <2>1. SUFFICES ASSUME NEW j \in Keys, flights'[j] # NoFlight, NEW c \in flights'[j].waiters
                 PROVE  task'[c].pc \in Awaits(j)
    BY Zenon DEF WaiterInv, Awaits
  <2>2. c \in Callers
    BY <1>1, <2>1, Zenon DEF Flights
  <2>3. CASE j = k
    BY <1>1, <2>1, <2>2, <2>3, Zenon
  <2>4. CASE j # k
    <3>1. task[c].pc \in Awaits(j)
      BY <1>1, <2>1, <2>4, Zenon DEF WaiterInv
    <3>2. c \notin Moved
      BY <2>4, <3>1, Zenon DEF Awaits, Keys
    <3> QED
      BY <2>2, <3>1, <3>2, Zenon
  <2> QED
    BY <2>3, <2>4, Zenon
<1>5. SentInv'
  <2>1. \A c \in Moved : applied[c] # 1
    BY Zenon DEF SentInv, Awaits
  <2> QED
    BY <2>1, Zenon DEF SentInv, Callers
<1>6. SeenInv'
    BY Zenon DEF SeenInv, Callers
<1>7. IdleInv'
  <2>1. \A c \in Moved \cap Creators : ensuring[c].pc \in {"first", "checking"}
    BY Zenon DEF IdleInv, Awaits
  <2> QED
    BY <2>1, Zenon DEF IdleInv, Callers
<1> QED
    BY <1>2, <1>3, <1>4, <1>5, <1>6, <1>7, Zenon

\* The end of a flight, whatever it stored.
LEMMA EndsRouterInv ==
    ASSUME RouterInv, NEW k \in Keys, flights[k] # NoFlight, NEW err \in Errors, Ends(k, err),
           UNCHANGED <<partitioned, exists, leader, elections, ensuring, applied, strays>>,
           route' \in Int, route' <= elections
    PROVE  RouterInv'
<1> USE RouterAssumption DEF RouterInv
<1>1. PICK W \in SUBSET Callers : W = flights[k].waiters
    BY Zenon DEF RouterTypes, Flights
<1>2. NoFlight \in Flights /\ NoFlight.pc # "apply"
    BY Zenon DEF Flights, NoFlight
<1>3. \A c \in W : task[c].pc \in Awaits(k)
    BY <1>1, Zenon DEF WaiterInv
<1>4. /\ task' \in [Callers -> RouterTasks]
      /\ \A c \in Callers \ W : task'[c] = task[c]
      /\ \A c \in W : task'[c].pc \notin {"send", "idle"} /\ (task'[c].ret = "nil" => task[c].ret = "nil")
  <2>1. DOMAIN task' = Callers /\ task' = [c \in Callers |-> task'[c]] /\ \A c \in Callers \ W : task'[c] = task[c]
    BY <1>1, Zenon DEF Ends
  <2>2. ASSUME NEW c \in W
        PROVE  /\ task'[c] \in RouterTasks /\ task'[c].pc \notin {"send", "idle"}
               /\ task'[c].ret = "nil" => task[c].ret = "nil"
    <3>1. task[c] \in RouterTasks
      BY Zenon DEF RouterTypes
    <3>2. CASE err # "nil"
      <4>1. task'[c] = [task[c] EXCEPT !.pc = "returned", !.ret = err]
        BY <1>1, <3>2, Zenon DEF Ends
      <4>2. "returned" \in Steps
        BY Zenon DEF Steps
      <4> QED
        BY <3>1, <3>2, <4>1, <4>2, Zenon DEF RouterTasks
    <3>3. CASE err = "nil"
      <4>1. PICK pc \in {"joinPartition", "joinForced", "route", "required"} : task'[c] = [task[c] EXCEPT !.pc = pc]
        BY <1>1, <3>3, Zenon DEF Ends
      <4>2. pc \in Steps
        BY Zenon DEF Steps, Joining
      <4> QED
        BY <3>1, <4>1, <4>2, Zenon DEF RouterTasks
    <3> QED
      BY <3>2, <3>3, Zenon
  <2> QED
    BY <2>1, <2>2, Zenon DEF RouterTypes
<1> QED
    BY <1>2, <1>3, <1>4, FlightMoves, Zenon DEF Ends

\* The steps of a flight: check, fetch, failure and the storing of the answer.
LEMMA FlightRouterInv ==
    ASSUME RouterInv, NEW k \in Keys,
           FlightStep(k) \/ \E err \in {"request", "metadata", "noLeader"} : FlightFails(k, err)
    PROVE  RouterInv'
<1> USE RouterAssumption DEF RouterInv
<1>1. /\ flights[k].pc \in {"check", "fetch", "apply"}
      /\ UNCHANGED <<partitioned, exists, leader, elections, ensuring, applied, strays>>
    BY Zenon DEF FlightStep, FlightChecks, FlightAnswered, FlightApplies, FlightFails, server
<1>2. flights[k] # NoFlight /\ flights[k] \in Flights \ {NoFlight}
    BY <1>1 DEF NoFlight, RouterTypes
<1>3. /\ elections \in Nat /\ leader \in 0 .. elections /\ route \in Int /\ route <= elections
      /\ flights[k].pc = "apply" => flights[k].seen <= elections
    BY Zenon DEF ElectedInv
<1>4. flights[k].seen \in Int /\ flights[k].waiters \subseteq Callers
    BY <1>2, Zenon DEF Flights
<1>5. route' \in Int /\ route' <= elections
    BY <1>3, <1>4 DEF FlightStep, FlightChecks, FlightAnswered, FlightApplies, FlightFails, Applies, cache, Missing
<1>6. CASE \E err \in Errors : Ends(k, err)
    BY <1>1, <1>2, <1>5, <1>6, EndsRouterInv, Zenon
<1>7. CASE task' = task /\ \E fl \in Flights \ {NoFlight} :
             /\ flights' = [flights EXCEPT ![k] = fl] /\ fl.waiters = flights[k].waiters
             /\ fl.pc = "apply" => fl.seen <= elections
  <2>1. PICK fl \in Flights \ {NoFlight} :
             /\ flights' = [flights EXCEPT ![k] = fl] /\ fl.waiters = flights[k].waiters
             /\ fl.pc = "apply" => fl.seen <= elections
    BY <1>7, Zenon
  <2>2. task' \in [Callers -> RouterTasks] /\ {} \in SUBSET Callers /\ \A c \in Callers \ {} : task'[c] = task[c]
    BY <1>7, Zenon DEF RouterTypes
  <2>3. \A c \in fl.waiters : task[c].pc \in Awaits(k)
    BY <1>2, <2>1, Zenon DEF WaiterInv
  <2>4. strays' \subseteq strays \union {f \in [key : Keys, seen : Int, parts : BOOLEAN] : f.seen <= elections}
    BY <1>1, Zenon
  <2> QED
    BY <1>1, <1>5, <2>1, <2>2, <2>3, <2>4, FlightMoves, Zenon
<1>8. (\E err \in Errors : Ends(k, err)) \/
      (task' = task /\ \E fl \in Flights \ {NoFlight} :
             /\ flights' = [flights EXCEPT ![k] = fl] /\ fl.waiters = flights[k].waiters
             /\ fl.pc = "apply" => fl.seen <= elections)
  <2>1. CASE FlightChecks(k)
    <3>1. CASE Ends(k, "nil")
      BY <3>1, Zenon DEF Errors
    <3>2. CASE ~Ends(k, "nil")
      <4> DEFINE fl == [flights[k] EXCEPT !.pc = "fetch"]
      <4>1. task' = task /\ flights' = [flights EXCEPT ![k] = fl]
        BY <2>1, <3>2, Zenon DEF FlightChecks
      <4>2. fl \in Flights \ {NoFlight} /\ fl.waiters = flights[k].waiters /\ fl.pc = "fetch"
        BY <1>2, Zenon DEF Flights, NoFlight
      <4> HIDE DEF fl
      <4> QED
        BY <4>1, <4>2, Zenon
    <3> QED
      BY <3>1, <3>2, Zenon
  <2>2. ASSUME NEW parts \in BOOLEAN, FlightAnswered(k, parts)
        PROVE  (\E err \in Errors : Ends(k, err)) \/
               (task' = task /\ \E fl \in Flights \ {NoFlight} :
                 /\ flights' = [flights EXCEPT ![k] = fl] /\ fl.waiters = flights[k].waiters
                 /\ fl.pc = "apply" => fl.seen <= elections)
    <3>1. CASE Ends(k, "unknownPartition")
      BY <3>1, Zenon DEF Errors
    <3>2. CASE ~Ends(k, "unknownPartition")
      <4>1. PICK b \in BOOLEAN : b = (parts /\ exists)
        BY Zenon
      <4> DEFINE fl == [flights[k] EXCEPT !.pc = "apply", !.seen = leader, !.parts = b]
      <4>2. task' = task /\ flights' = [flights EXCEPT ![k].pc = "apply", ![k].seen = leader, ![k].parts = b]
        BY <2>2, <3>2, <4>1, Zenon DEF FlightAnswered
      <4>3. flights' = [flights EXCEPT ![k] = fl]
        BY <4>2, Zenon
      <4> DEFINE Full == [pc : {"check", "fetch", "apply"}, force : BOOLEAN, seen : Int, parts : BOOLEAN, waiters : SUBSET Callers]
      <4>4. flights[k] \in Full /\ leader \in Int /\ leader <= elections
        BY <1>2, <1>3 DEF Flights
      <4>5. fl \in Full /\ fl.waiters = flights[k].waiters /\ fl.seen = leader /\ fl.pc = "apply"
        BY <4>1, <4>4, Zenon
      <4>6. fl \in Flights \ {NoFlight} /\ fl.waiters = flights[k].waiters /\ fl.seen <= elections
        BY <4>4, <4>5, Zenon DEF Flights, NoFlight
      <4> HIDE DEF fl
      <4> QED
        BY <4>2, <4>3, <4>6, Zenon
    <3> QED
      BY <3>1, <3>2, Zenon
  <2>3. CASE FlightApplies(k) \/ \E err \in {"request", "metadata", "noLeader"} : FlightFails(k, err)
    BY <2>3, Zenon DEF FlightApplies, FlightFails, Errors
  <2> QED
    BY <2>1, <2>2, <2>3, Zenon DEF FlightStep
<1> QED
    BY <1>6, <1>7, <1>8, Zenon

\* A caller whose context ended leaves its flight; the answer that the flight
\* already has stays on its way into the cache.
LEMMA GiveUpRouterInv ==
    ASSUME RouterInv, NEW c \in Callers, NEW k \in Keys, GiveUp(c, k)
    PROVE  RouterInv'
<1> USE RouterAssumption DEF RouterInv
<1> DEFINE Full == [pc : {"check", "fetch", "apply"}, force : BOOLEAN, seen : Int, parts : BOOLEAN, waiters : SUBSET Callers]
<1>1. /\ flights[k] \in Full /\ c \in flights[k].waiters
      /\ UNCHANGED <<partitioned, exists, leader, elections, route, ensuring, applied>>
    BY Zenon DEF GiveUp, server, cache, RouterTypes, Flights
<1>2. PICK left \in SUBSET Callers : left = flights[k].waiters \ {c}
    BY <1>1, Zenon
<1>3. route' \in Int /\ route' <= elections
    BY <1>1, Zenon DEF ElectedInv
<1>4. \A d \in flights[k].waiters : task[d].pc \in Awaits(k)
    BY Zenon DEF GiveUp, WaiterInv
<1>5. PICK t \in RouterTasks : task' = [task EXCEPT ![c] = t] /\ t.pc = "returned" /\ t.ret = "context"
    BY TaskSteps, Zenon DEF GiveUp, Errors
<1>6. /\ task' \in [Callers -> RouterTasks] /\ \A d \in Callers \ {c} : task'[d] = task[d]
      /\ task'[c].pc = "returned" /\ task'[c].ret = "context"
    BY <1>5, Zenon DEF RouterTypes
<1>7. strays' \subseteq strays \union {f \in [key : Keys, seen : Int, parts : BOOLEAN] : f.seen <= elections}
  <2>1. CASE strays' = strays
    BY <2>1, Zenon
  <2>2. CASE strays' # strays
    <3> DEFINE f == [key |-> k, seen |-> flights[k].seen, parts |-> flights[k].parts]
    <3>1. flights[k].pc = "apply" /\ strays' = strays \union {f}
      BY <2>2, Zenon DEF GiveUp
    <3>2. f \in [key : Keys, seen : Int, parts : BOOLEAN]
      BY <1>1, Zenon
    <3>3. f.seen <= elections
      BY <3>1, Zenon DEF ElectedInv
    <3> QED
      BY <3>1, <3>2, <3>3, Zenon
  <2> QED
    BY <2>1, <2>2, Zenon
<1>8. PICK fl \in Flights :
        /\ flights' = [flights EXCEPT ![k] = fl]
        /\ fl.pc = "apply" => fl.seen <= elections
        /\ fl # NoFlight => fl.waiters = left
  <2>1. CASE left = {}
    <3>1. NoFlight \in Flights /\ NoFlight.pc # "apply"
      BY Zenon DEF Flights, NoFlight
    <3>2. flights' = [flights EXCEPT ![k] = NoFlight]
      BY <1>2, <2>1, Zenon DEF GiveUp
    <3> QED
      BY <3>1, <3>2, Zenon
  <2>2. CASE left # {}
    <3> DEFINE fl == [flights[k] EXCEPT !.waiters = left]
    <3>1. flights' = [flights EXCEPT ![k] = fl]
      BY <1>2, <2>2, Zenon DEF GiveUp
    <3>2. fl \in Full /\ fl.waiters = left /\ fl.pc = flights[k].pc /\ fl.seen = flights[k].seen
      BY <1>1, <1>2, Zenon
    <3>3. fl \in Flights /\ (fl.pc = "apply" => fl.seen <= elections)
      BY <3>2, Zenon DEF Flights, ElectedInv
    <3> HIDE DEF fl
    <3> QED
      BY <3>1, <3>2, <3>3, Zenon
  <2> QED
    BY <2>1, <2>2, Zenon
<1>9. PICK Moved \in SUBSET Callers : Moved = {c}
    BY Zenon
<1>10. fl # NoFlight => \A d \in fl.waiters : d \notin Moved /\ task[d].pc \in Awaits(k)
    BY <1>2, <1>4, <1>8, <1>9, Zenon
<1>11. /\ \A d \in Moved : task[d].pc \in Awaits(k)
       /\ \A d \in Moved : task'[d].pc \notin {"send", "idle"} /\ (task'[d].ret = "nil" => task[d].ret = "nil")
       /\ \A d \in Callers \ Moved : task'[d] = task[d]
    BY <1>1, <1>4, <1>6, <1>9, Zenon
<1> QED
    BY <1>1, <1>3, <1>6, <1>7, <1>8, <1>10, <1>11, FlightMoves, Zenon

\* flights.Do: the caller waits for the flight of its key, a new one or the one
\* under way.
LEMMA JoinRouterInv ==
    ASSUME RouterInv, NEW c \in Callers, Join(c)
    PROVE  RouterInv'
<1> USE RouterAssumption DEF RouterInv
<1> DEFINE Full == [pc : {"check", "fetch", "apply"}, force : BOOLEAN, seen : Int, parts : BOOLEAN, waiters : SUBSET Callers]
<1>1. /\ task[c].pc \in Joining
      /\ UNCHANGED <<partitioned, exists, leader, elections, route, strays, ensuring, applied>>
    BY Zenon DEF Join, server, cache, Joining
<1>2. PICK k \in Keys, force \in BOOLEAN, pc \in Awaiting : pc \in Awaits(k) /\ Joins(k, c, force) /\ Goes(c, pc)
  <2>1. (~partitioned) \in BOOLEAN
    BY Zenon
  <2> QED
    BY <2>1, Zenon DEF Join, Keys, Awaits, Awaiting
<1>3. pc \in Steps \ {"send", "idle"}
    BY Zenon DEF Steps, Awaiting
<1>4. PICK t \in RouterTasks : task' = [task EXCEPT ![c] = t] /\ t.pc = pc /\ t.ret = task[c].ret
    BY <1>2, <1>3, TaskSteps
<1>5. task' \in [Callers -> RouterTasks] /\ task'[c] = t /\ \A d \in Callers \ {c} : task'[d] = task[d]
    BY <1>4, Zenon DEF RouterTypes
<1>6. \A j \in Keys : flights[j] # NoFlight => flights[j].waiters \subseteq Callers /\ c \notin flights[j].waiters
  <2>1. task[c].pc \notin Awaiting
    BY <1>1, Zenon DEF Joining, Awaiting
  <2> QED
    BY <2>1, NoWaiter, Zenon DEF RouterTypes, Flights
<1>7. PICK fl \in Full :
        /\ flights' = [flights EXCEPT ![k] = fl]
        /\ fl.pc = "apply" => fl.seen <= elections
        /\ \A d \in fl.waiters : d = c \/ (flights[k] # NoFlight /\ d \in flights[k].waiters)
  <2>1. CASE flights[k] = NoFlight
    <3> DEFINE fl == [pc |-> "check", force |-> force, seen |-> Missing, parts |-> FALSE, waiters |-> {c}]
    <3>1. fl \in Full /\ fl.pc = "check" /\ fl.waiters = {c}
      BY DEF Missing
    <3>2. flights' = [flights EXCEPT ![k] = fl]
      BY <1>2, <2>1, Zenon DEF Joins
    <3> HIDE DEF fl
    <3> QED
      BY <3>1, <3>2, Zenon
  <2>2. CASE flights[k] # NoFlight
    <3> DEFINE fl == [flights[k] EXCEPT !.waiters = @ \union {c}]
    <3>1. flights[k] \in Full
      BY <2>2, Zenon DEF RouterTypes, Flights
    <3>2. fl \in Full /\ fl.waiters = flights[k].waiters \union {c} /\ fl.pc = flights[k].pc /\ fl.seen = flights[k].seen
      BY <3>1, Zenon
    <3>3. flights' = [flights EXCEPT ![k] = fl]
      BY <1>2, <2>2, Zenon DEF Joins
    <3>4. fl.pc = "apply" => fl.seen <= elections
      BY <3>2, Zenon DEF ElectedInv
    <3> HIDE DEF fl
    <3> QED
      BY <2>2, <3>2, <3>3, <3>4, Zenon
  <2> QED
    BY <2>1, <2>2, Zenon
<1>8. flights' \in [Keys -> Flights] /\ flights'[k] = fl /\ \A j \in Keys \ {k} : flights'[j] = flights[j]
  <2>1. fl \in Flights
    BY Zenon DEF Flights
  <2> QED
    BY <1>7, <2>1, Zenon DEF RouterTypes
<1>9. RouterTypes'
    BY <1>1, <1>5, <1>8, Zenon DEF RouterTypes
<1>10. ElectedInv'
    BY <1>1, <1>7, <1>8, Zenon DEF ElectedInv
<1>11. WaiterInv'
  <2>1. \A j \in Keys \ {k} : flights'[j] # NoFlight => \A d \in flights'[j].waiters : task'[d].pc \in Awaits(j)
    BY <1>5, <1>6, <1>8 DEF WaiterInv
  <2>2. \A d \in fl.waiters : task'[d].pc \in Awaits(k)
    BY <1>2, <1>4, <1>5, <1>6, <1>7, Zenon DEF WaiterInv
  <2> QED
    BY <1>8, <2>1, <2>2 DEF WaiterInv, Awaits
<1>12. SentInv'
    BY <1>1, <1>3, <1>4, <1>5, Zenon DEF SentInv, Joining, Callers
<1>13. SeenInv'
    BY <1>1, <1>4, <1>5, Zenon DEF SeenInv, Callers
<1>14. IdleInv'
  <2>1. c \in Creators => ensuring[c].pc \in {"first", "checking"}
    BY <1>1, Zenon DEF IdleInv, Joining
  <2> QED
    BY <1>1, <1>5, <2>1, Zenon DEF IdleInv, Callers
<1> QED
    BY <1>9, <1>10, <1>11, <1>12, <1>13, <1>14, Zenon

-----------------------------------------------------------------------------
\* Every step of the callers, the flights and the servers keeps the invariant.
LEMMA StepRouterInv == RouterInv /\ [Next]_vars => RouterInv'
<1> SUFFICES ASSUME RouterInv, [Next]_vars PROVE RouterInv'
    BY Zenon
<1>1. ASSUME NEW c \in Callers, CallerStep(c) \/ SendStale(c, TRUE) \/ SendBroken(c)
      PROVE  RouterInv'
    BY <1>1, LookupRouterInv, PrepareRouterInv, JoinRouterInv, GiveUpRouterInv, SendRouterInv, Zenon DEF CallerStep
<1>2. ASSUME NEW c \in Creators, CreatorStep(c)
      PROVE  RouterInv'
    BY <1>2, CheckRouterInv, ServerRouterInv, Zenon DEF CreatorStep
<1>3. ASSUME NEW k \in Keys, FlightStep(k) \/ \E err \in {"request", "metadata", "noLeader"} : FlightFails(k, err)
      PROVE  RouterInv'
    BY <1>3, FlightRouterInv, Zenon
<1>4. CASE Elect \/ LoseLeader \/ (\E f \in strays : StrayApplies(f)) \/ (\E c \in Callers : Cancel(c)) \/ UNCHANGED vars
    BY <1>4, ServerRouterInv, Zenon
<1> QED
    BY <1>1, <1>2, <1>3, <1>4, Zenon DEF Next

\* The invariant holds throughout.
LEMMA RouterInvariant == Spec => []RouterInv
    BY InitRouterInv, StepRouterInv, PTL DEF Spec

\* RequestBucket applies the request of a call at most once, for any number of
\* requesters: a request whose connection broke, which may have been applied,
\* is not sent again.
THEOREM NoReplay == Spec => []AppliedOnce
<1>1. RouterInv => AppliedOnce
    BY DEF RouterInv, RouterTypes, AppliedOnce
<1> QED
    BY <1>1, RouterInvariant, PTL

\* dynamicPartitionCreator.ensure returns nil only for a partition that exists
\* and has had a leader, however its checks interleave with the elections, with
\* shared refreshes and with answers that were fetched before the creation.
THEOREM PartitionEnsured == Spec => []EnsuredExists
<1>1. RouterInv => EnsuredExists
    BY Zenon DEF RouterInv, ElectedInv, SeenInv, EnsuredExists
<1> QED
    BY <1>1, RouterInvariant, PTL

-----------------------------------------------------------------------------
(* The batch scanner: pollMu and the session. *)

Answers == [rows : Seq(Nat), id : BOOLEAN, more : BOOLEAN]
PollStates == [pc : {"idle", "sent", "answered", "over"}, answer : Answers, err : BOOLEAN]

ScanTypes ==
    /\ kind \in {"session", "limit", "snapshot"} /\ total \in {0, NumRows}
    /\ polls \in [Pollers -> PollStates]
    /\ closer \in [pc : {"idle", "lock", "release", "returned"}, err : BOOLEAN]
    /\ scanner \in [known : BOOLEAN, sequence : Nat, done : BOOLEAN, closed : BOOLEAN]
    /\ session \in [open : BOOLEAN, at : Nat, sequence : Nat] /\ session.at <= total

\* A poll is active while it holds pollMu; so is the release of the session.
MuInv ==
    /\ \A p \in Pollers : polls[p].pc \in {"sent", "answered"} <=> pollMu = p
    /\ \A p \in Pollers : pollMu = p => ~scanner.done
    /\ closer.pc = "release" <=> pollMu = "closer"

\* Whether the server's session is open, for those who know.
SessionInv ==
    /\ kind # "session" => ~scanner.known /\ ~session.open
    /\ \A p \in Pollers : kind = "session" /\ polls[p].pc = "answered" =>
         (session.open => polls[p].answer.more /\ polls[p].answer.id)
    /\ scanner.done => ~session.open

\* After Close no poll is active, and what it released stays released.
CloserInv ==
    /\ closer.pc # "idle" => scanner.closed
    /\ closer.pc = "returned" /\ kind # "snapshot" => pollMu = Nobody
    /\ NoSessionLeft

ScanInv == ScanTypes /\ MuInv /\ SessionInv /\ CloserInv

\* What a goroutine that polls may be, with its answer.
LEMMA PollState ==
    ASSUME NEW at \in {"idle", "sent", "answered", "over"}, NEW a \in Answers, NEW e \in BOOLEAN
    PROVE  [pc |-> at, answer |-> a, err |-> e] \in PollStates
  BY Zenon DEF PollStates

\* A new scanner.
LEMMA InitScan == ScanInit => ScanInv
<1> SUFFICES ASSUME ScanInit PROVE ScanInv
    BY Zenon
<1> USE ScanAssumption DEF ScanInit
<1>1. NoAnswer \in Answers
    BY DEF NoAnswer, Answers
<1>2. PICK s \in PollStates : s = [pc |-> "idle", answer |-> NoAnswer, err |-> FALSE]
    BY <1>1, PollState, Zenon
<1>3. ScanTypes
  <2>1. polls = [p \in Pollers |-> s]
    BY <1>2, Zenon
  <2>2. polls \in [Pollers -> PollStates]
    BY ONLY <1>2, <2>1, Zenon
  <2>3. closer \in [pc : {"idle", "lock", "release", "returned"}, err : BOOLEAN]
    BY Zenon
  <2>4. scanner \in [known : BOOLEAN, sequence : Nat, done : BOOLEAN, closed : BOOLEAN]
    BY Zenon
  <2>5. /\ kind \in {"session", "limit", "snapshot"} /\ total \in {0, NumRows} /\ session.at <= total
        /\ session \in [open : BOOLEAN, at : Nat, sequence : Nat]
    OBVIOUS
  <2> HIDE DEF ScanInit
  <2> QED
    BY <2>2, <2>3, <2>4, <2>5, Zenon DEF ScanTypes
<1>4. MuInv /\ SessionInv /\ CloserInv
    BY Zenon DEF MuInv, SessionInv, CloserInv, NoSessionLeft
<1> QED
    BY <1>3, <1>4, Zenon DEF ScanInv

\* The rows of an answer.
LEMMA RowsFacts ==
    ASSUME NEW from \in Nat, NEW count \in Nat, total \in Nat, from <= total
    PROVE  /\ Rows(from, count) \in Seq(Nat) /\ Len(Rows(from, count)) \in Nat
           /\ Len(Rows(from, count)) <= count /\ from + Len(Rows(from, count)) <= total
           /\ from + Len(Rows(from, count)) < total => Len(Rows(from, count)) = count
           /\ from + count >= total => from + Len(Rows(from, count)) = total
           /\ \A n \in 1 .. Len(Rows(from, count)) : Rows(from, count)[n] = from + n
<1>1. PICK k \in Nat : k = IF from + count > total THEN total - from ELSE count
    OBVIOUS
<1>2. Rows(from, count) = [n \in 1 .. k |-> from + n]
    BY <1>1, Zenon DEF Rows
<1>3. Rows(from, count) \in Seq(Nat) /\ Len(Rows(from, count)) = k
    BY <1>2
<1> QED
    BY <1>1, <1>2, <1>3

\* A step of one goroutine that polls.
LEMMA PollMoves ==
    ASSUME ScanTypes, NEW p \in Pollers, NEW s \in PollStates, polls' = [polls EXCEPT ![p] = s]
    PROVE  polls' \in [Pollers -> PollStates] /\ polls'[p] = s /\ \A q \in Pollers : q # p => polls'[q] = polls[q]
  BY Zenon DEF ScanTypes

\* Poll takes pollMu, or finds the scan over.
LEMMA LockPollScan == ASSUME ScanInv, NEW p \in Pollers, LockPoll(p) PROVE ScanInv'
<1> USE DEF ScanInv
<1>1. NoAnswer \in Answers /\ scanner.closed \in BOOLEAN
    BY DEF NoAnswer, Answers, ScanTypes
<1>2. /\ polls[p].pc = "idle" /\ pollMu = Nobody
      /\ UNCHANGED <<kind, total, closer, scanner, session>>
    BY Zenon DEF LockPoll
<1>3. CASE scanner.closed \/ scanner.done
  <2>1. PICK s \in PollStates : s = [pc |-> "over", answer |-> NoAnswer, err |-> scanner.closed]
    BY <1>1, PollState, Zenon
  <2>2. polls' = [polls EXCEPT ![p] = s] /\ pollMu' = pollMu /\ s.pc = "over"
    BY <1>3, <2>1, Zenon DEF LockPoll
  <2>3. polls' \in [Pollers -> PollStates] /\ polls'[p].pc = "over" /\ \A q \in Pollers : q # p => polls'[q] = polls[q]
    BY <2>2, PollMoves, Zenon
  <2>4. ScanTypes' /\ SessionInv' /\ CloserInv'
    BY <1>2, <2>2, <2>3 DEF ScanTypes, SessionInv, CloserInv, NoSessionLeft
  <2>5. MuInv'
    BY <1>2, <2>2, <2>3, Zenon DEF MuInv
  <2> QED
    BY <2>4, <2>5, Zenon
<1>4. CASE ~(scanner.closed \/ scanner.done)
  <2>1. PICK s \in PollStates : s = [pc |-> "sent", answer |-> NoAnswer, err |-> FALSE]
    BY <1>1, PollState, Zenon
  <2>2. polls' = [polls EXCEPT ![p] = s] /\ pollMu' = p /\ s.pc = "sent"
    BY <1>4, <2>1, Zenon DEF LockPoll
  <2>3. polls' \in [Pollers -> PollStates] /\ polls'[p].pc = "sent" /\ \A q \in Pollers : q # p => polls'[q] = polls[q]
    BY <2>2, PollMoves, Zenon
  <2>4. ScanTypes' /\ SessionInv' /\ CloserInv'
    BY <1>2, <1>4, <2>2, <2>3 DEF ScanTypes, SessionInv, CloserInv, NoSessionLeft
  <2>5. MuInv'
    BY <1>2, <1>4, <2>2, <2>3, ScanAssumption, Zenon DEF MuInv
  <2> QED
    BY <2>4, <2>5, Zenon
<1> QED
    BY <1>3, <1>4, Zenon

\* Poll returns and gives pollMu back.
LEMMA UnlockFacts ==
    ASSUME ScanInv, NEW p \in Pollers, polls[p].pc \in {"sent", "answered"}, NEW e \in BOOLEAN, Unlock(p, e)
    PROVE  /\ polls' \in [Pollers -> PollStates] /\ polls'[p].pc = "idle"
           /\ \A q \in Pollers : q # p => polls'[q] = polls[q] /\ polls[q].pc \notin {"sent", "answered"}
           /\ pollMu = p /\ pollMu' = Nobody /\ closer.pc # "release"
           /\ \A q \in Pollers : polls'[q].pc \notin {"sent", "answered"}
           /\ closer.pc = "returned" => kind = "snapshot"
<1> USE DEF ScanInv
<1>1. NoAnswer \in Answers
    BY DEF NoAnswer, Answers
<1>2. PICK s \in PollStates : s = [pc |-> "idle", answer |-> NoAnswer, err |-> e]
    BY <1>1, PollState, Zenon
<1>3. polls' = [polls EXCEPT ![p] = s] /\ pollMu' = Nobody /\ s.pc = "idle"
    BY <1>2, Zenon DEF Unlock
<1>4. polls' \in [Pollers -> PollStates] /\ polls'[p].pc = "idle" /\ \A q \in Pollers : q # p => polls'[q] = polls[q]
    BY <1>3, PollMoves, Zenon
<1>5. pollMu = p /\ closer.pc # "release" /\ \A q \in Pollers : q # p => polls[q].pc \notin {"sent", "answered"}
    BY ScanAssumption, Zenon DEF MuInv
<1>6. closer.pc = "returned" => kind = "snapshot"
    BY <1>5, ScanAssumption, Zenon DEF CloserInv
<1> QED
    BY <1>3, <1>4, <1>5, <1>6, Zenon

\* A request or an answer that is lost.
LEMMA PollFailsScan == ASSUME ScanInv, NEW p \in Pollers, PollFails(p) PROVE ScanInv'
<1> USE DEF ScanInv
<1>1. polls[p].pc \in {"sent", "answered"} /\ Unlock(p, TRUE) /\ UNCHANGED <<kind, total, closer, scanner, session>>
    BY Zenon DEF PollFails
<1>2. /\ polls' \in [Pollers -> PollStates] /\ polls'[p].pc = "idle"
      /\ pollMu = p /\ pollMu' = Nobody /\ closer.pc # "release"
      /\ \A q \in Pollers : polls'[q].pc \notin {"sent", "answered"}
    BY <1>1, UnlockFacts, Zenon
<1>3. MuInv'
    BY <1>1, <1>2, ScanAssumption, Zenon DEF MuInv
<1>4. SessionInv' /\ CloserInv'
    BY <1>1, <1>2, Zenon DEF SessionInv, CloserInv, NoSessionLeft
<1> QED
    BY <1>1, <1>2, <1>3, <1>4 DEF ScanTypes

\* An answer is taken.
LEMMA PollAnsweredScan ==
    ASSUME ScanInv, NEW p \in Pollers, NEW decoded \in BOOLEAN, PollAnswered(p, decoded)
    PROVE  ScanInv'
<1> USE DEF ScanInv
<1>1. polls[p].pc = "answered" /\ UNCHANGED <<kind, total, closer, session>>
    BY Zenon DEF PollAnswered, PollSession, PollRows
<1>2. \E e \in BOOLEAN : Unlock(p, e)
    BY Zenon DEF PollAnswered, PollSession, PollRows
<1>3. /\ polls' \in [Pollers -> PollStates] /\ polls'[p].pc = "idle"
      /\ pollMu = p /\ pollMu' = Nobody /\ closer.pc # "release"
      /\ \A q \in Pollers : polls'[q].pc \notin {"sent", "answered"}
      /\ closer.pc = "returned" => kind = "snapshot"
    BY <1>1, <1>2, UnlockFacts, Zenon
<1>4. PICK last \in BOOLEAN : last = isLast(polls[p].answer)
    BY Zenon DEF isLast
<1>5. /\ scanner' \in [known : BOOLEAN, sequence : Nat, done : BOOLEAN, closed : BOOLEAN]
      /\ scanner'.closed = scanner.closed
      /\ kind # "session" => scanner'.known = scanner.known
      /\ scanner'.done => ~polls[p].answer.more \/ ~polls[p].answer.id
  <2>1. CASE PollSession(p, decoded)
    <3>1. CASE ~polls[p].answer.id
      BY <2>1, <3>1, Zenon DEF PollSession, ScanTypes
    <3>2. CASE polls[p].answer.id
      <4>1. scanner' = [scanner EXCEPT !.known = TRUE, !.sequence = @ + 1, !.done = decoded /\ last]
        BY <1>4, <2>1, <3>2, Zenon DEF PollSession
      <4>2. PICK d \in BOOLEAN : d = (decoded /\ last)
        BY Zenon
      <4>3. scanner' = [scanner EXCEPT !.known = TRUE, !.sequence = @ + 1, !.done = d]
        BY <4>1, <4>2, Zenon
      <4>a. scanner.sequence + 1 \in Nat /\ scanner.closed \in BOOLEAN
        BY DEF ScanTypes
      <4>b. scanner' = [known |-> TRUE, sequence |-> scanner.sequence + 1, done |-> d, closed |-> scanner.closed]
        BY <4>3, Zenon DEF ScanTypes
      <4>4. scanner' \in [known : BOOLEAN, sequence : Nat, done : BOOLEAN, closed : BOOLEAN]
            /\ scanner'.closed = scanner.closed /\ scanner'.done = d
        BY <4>a, <4>b, Zenon
      <4>5. d => ~polls[p].answer.more
        BY <1>4, <4>2, Zenon DEF isLast
      <4>6. kind = "session"
        BY <2>1, Zenon DEF PollSession
      <4> QED
        BY <4>4, <4>5, <4>6, Zenon
    <3> QED
      BY <3>1, <3>2, Zenon
  <2>2. CASE PollRows(p, decoded)
    <3>1. PICK d \in BOOLEAN : d = (decoded /\ last)
      BY Zenon
    <3>2. scanner' = [scanner EXCEPT !.done = d]
      BY <1>4, <2>2, <3>1, Zenon DEF PollRows
    <3>3. scanner' \in [known : BOOLEAN, sequence : Nat, done : BOOLEAN, closed : BOOLEAN]
          /\ scanner'.closed = scanner.closed /\ scanner'.done = d /\ scanner'.known = scanner.known
      BY <3>2, Zenon DEF ScanTypes
    <3> QED
      BY <1>4, <3>1, <3>3, Zenon DEF isLast
  <2> QED
    BY <2>1, <2>2, Zenon DEF PollAnswered
<1>6. ScanTypes'
    BY <1>1, <1>3, <1>5, Zenon DEF ScanTypes
<1>7. MuInv'
    BY <1>1, <1>3, ScanAssumption, Zenon DEF MuInv
<1>8. SessionInv'
    BY <1>1, <1>3, <1>5, Zenon DEF SessionInv
<1>9. CloserInv'
    BY <1>1, <1>3, <1>5, Zenon DEF CloserInv, NoSessionLeft, SessionInv
<1> QED
    BY <1>6, <1>7, <1>8, <1>9, Zenon

\* The server answers a poll.
LEMMA ServeScan ==
    ASSUME ScanInv, NEW p \in Pollers, ServeSession(p) \/ ServeRows(p)
    PROVE  /\ ScanInv' /\ polls[p].pc = "sent" /\ polls'[p].pc = "answered"
           /\ \A q \in Pollers : q # p => polls'[q] = polls[q]
<1> USE DEF ScanInv
<1>0. total \in Nat /\ BatchRows \in Nat /\ session.at \in Nat /\ session.at <= total /\ scanner.sequence \in Nat
    BY ScanAssumption DEF ScanTypes
<1>1. polls[p].pc = "sent" /\ pollMu = p /\ UNCHANGED <<kind, total, closer, pollMu, scanner>>
    BY Zenon DEF ServeSession, ServeRows, MuInv
<1>2. closer.pc = "returned" => kind = "snapshot"
    BY <1>1, ScanAssumption, Zenon DEF CloserInv
<1>3. ASSUME NEW a \in Answers, NEW s \in [open : BOOLEAN, at : Nat, sequence : Nat], s.at <= total,
             polls' = [polls EXCEPT ![p].pc = "answered", ![p].answer = a], session' = s,
             s.open => kind = "session" /\ a.more /\ a.id
      PROVE  /\ ScanInv' /\ polls[p].pc = "sent" /\ polls'[p].pc = "answered"
             /\ \A q \in Pollers : q # p => polls'[q] = polls[q]
  <2>1. PICK t : t = [polls[p] EXCEPT !.pc = "answered", !.answer = a]
    BY Zenon
  <2>2. t \in PollStates /\ t.pc = "answered" /\ t.answer = a /\ polls' = [polls EXCEPT ![p] = t]
    <3>1. polls[p] \in PollStates
      BY Zenon DEF ScanTypes
    <3>2. t \in PollStates /\ t.pc = "answered" /\ t.answer = a
      BY <2>1, <3>1, Zenon DEF PollStates
    <3>3. polls' = [polls EXCEPT ![p] = t]
      BY <1>3, <2>1, Zenon DEF ScanTypes
    <3> QED
      BY <3>2, <3>3, Zenon
  <2>3. polls' \in [Pollers -> PollStates] /\ polls'[p] = t /\ \A q \in Pollers : q # p => polls'[q] = polls[q]
    BY <2>2, PollMoves, Zenon
  <2>4. \A q \in Pollers : q # p => polls[q].pc \notin {"sent", "answered"}
    BY <1>1, Zenon DEF MuInv
  <2>5. ScanTypes'
    BY <1>1, <1>3, <2>3 DEF ScanTypes
  <2>6. MuInv'
    BY <1>1, <2>2, <2>3, <2>4, Zenon DEF MuInv
  <2>7. ~scanner.done
    BY <1>1, Zenon DEF MuInv
  <2>8. SessionInv'
    BY <1>1, <1>3, <2>2, <2>3, <2>4, <2>7 DEF SessionInv
  <2>9. CloserInv'
    BY <1>1, <1>2, <1>3, Zenon DEF CloserInv, NoSessionLeft, SessionInv
  <2> QED
    BY <1>1, <2>2, <2>3, <2>5, <2>6, <2>8, <2>9, Zenon
<1>4. CASE ServeSession(p)
  <2>1. PICK from \in Nat : from = IF scanner.known THEN session.at ELSE 0
    BY <1>0, Zenon
  <2>2. PICK rows : rows = Rows(from, BatchRows)
    BY Zenon
  <2>3. rows \in Seq(Nat) /\ Len(rows) \in Nat /\ from + Len(rows) <= total
    <3>1. from <= total
      BY <1>0, <2>1
    <3> QED
      BY <1>0, <2>2, <3>1, RowsFacts, Zenon
  <2>4. PICK more \in BOOLEAN : more <=> from + Len(rows) < total
    <3>1. CASE from + Len(rows) < total
      BY <3>1, Zenon
    <3>2. CASE ~(from + Len(rows) < total)
      BY <3>2, Zenon
    <3> QED
      BY <3>1, <3>2, Zenon
  <2>5. PICK id \in BOOLEAN : id <=> total > 0
    <3>1. CASE total > 0
      BY <3>1, Zenon
    <3>2. CASE ~(total > 0)
      BY <3>2, Zenon
    <3> QED
      BY <3>1, <3>2, Zenon
  <2>6. PICK a \in Answers : a = [rows |-> rows, id |-> id, more |-> more]
    BY <2>3, Zenon DEF Answers
  <2>7. PICK s \in [open : BOOLEAN, at : Nat, sequence : Nat] :
          s = [open |-> more, at |-> from + Len(rows), sequence |-> scanner.sequence + 1]
    <3>1. from + Len(rows) \in Nat /\ scanner.sequence + 1 \in Nat
      BY <1>0, <2>3
    <3> QED
      BY <3>1, Zenon
  <2>8. polls' = [polls EXCEPT ![p].pc = "answered", ![p].answer = a] /\ session' = s /\ kind = "session"
    <3>1. id = (total > 0) /\ more = (from + Len(rows) < total)
      BY ONLY <2>4, <2>5
    <3>2. /\ kind = "session"
          /\ session' = [open |-> from + Len(rows) < total, at |-> from + Len(rows), sequence |-> scanner.sequence + 1]
          /\ polls' = [polls EXCEPT ![p].pc = "answered",
                         ![p].answer = [rows |-> rows, id |-> total > 0, more |-> from + Len(rows) < total]]
      BY <1>4, <2>1, <2>2, Zenon DEF ServeSession
    <3> QED
      BY <2>6, <2>7, <3>1, <3>2, Zenon
  <2>9. s.at <= total /\ (s.open => a.more)
    BY <2>3, <2>6, <2>7, Zenon
  <2>10. more => id
    BY <1>0, <2>1, <2>3, <2>4, <2>5
  <2>11. s.open => a.more /\ a.id
    BY <2>6, <2>7, <2>10, Zenon
  <2> QED
    BY <1>3, <2>8, <2>9, <2>11, Zenon
<1>5. CASE ServeRows(p)
  <2>1. PICK rows : rows = IF kind = "limit" THEN Rows(0, total) ELSE Rows(session.at, BatchRows)
    BY Zenon
  <2>2. rows \in Seq(Nat) /\ Len(rows) \in Nat /\ (kind # "limit" => session.at + Len(rows) <= total)
    <3>1. CASE kind = "limit"
      BY <1>0, <2>1, <3>1, RowsFacts
    <3>2. CASE kind # "limit"
      BY <1>0, <2>1, <3>2, RowsFacts, Zenon
    <3> QED
      BY <3>1, <3>2, Zenon
  <2>3. PICK s : s = IF kind = "limit" THEN session ELSE [session EXCEPT !.at = @ + Len(rows)]
    BY Zenon
  <2>4. s \in [open : BOOLEAN, at : Nat, sequence : Nat] /\ s.at <= total /\ s.open = session.open
    BY <1>0, <2>2, <2>3 DEF ScanTypes
  <2>5. PICK more \in BOOLEAN : more = (kind = "snapshot" /\ s.at < total)
    BY Zenon
  <2>6. PICK a \in Answers : a = [rows |-> rows, id |-> FALSE, more |-> more]
    BY <2>2, Zenon DEF Answers
  <2>7. session' = s /\ kind # "session"
    BY <1>5, <2>1, <2>3, Zenon DEF ServeRows
  <2>8. polls' = [polls EXCEPT ![p].pc = "answered", ![p].answer = a]
    BY <1>5, <2>1, <2>5, <2>6, <2>7, Zenon DEF ServeRows
  <2>9. ~s.open
    BY <2>4, <2>7, Zenon DEF SessionInv
  <2> QED
    BY <1>3, <2>4, <2>7, <2>8, <2>9, Zenon
<1> QED
    BY <1>4, <1>5, Zenon

\* Close marks the scanner, takes pollMu and releases the session.
LEMMA CloseScan ==
    ASSUME ScanInv, CloseScanner \/ CloseSession \/ \E ok \in BOOLEAN : SessionReleased(ok)
    PROVE  ScanInv'
<1> USE DEF ScanInv
<1>1. CASE CloseScanner
  <2>1. /\ closer' \in [pc : {"idle", "lock", "release", "returned"}, err : BOOLEAN]
        /\ closer'.pc = (IF kind = "snapshot" THEN "returned" ELSE "lock") /\ closer.pc = "idle"
    BY <1>1, Zenon DEF CloseScanner, ScanTypes
  <2>2. /\ scanner' \in [known : BOOLEAN, sequence : Nat, done : BOOLEAN, closed : BOOLEAN]
        /\ scanner'.closed = TRUE /\ scanner'.known = scanner.known /\ scanner'.done = scanner.done
    BY <1>1, Zenon DEF CloseScanner, ScanTypes
  <2>3. UNCHANGED <<kind, total, polls, pollMu, session>>
    BY <1>1, Zenon DEF CloseScanner
  <2>4. ScanTypes' /\ MuInv' /\ SessionInv'
    BY <2>1, <2>2, <2>3, Zenon DEF ScanTypes, MuInv, SessionInv
  <2>5. CloserInv'
    BY <2>1, <2>2, <2>3, Zenon DEF CloserInv, NoSessionLeft, SessionInv
  <2> QED
    BY <2>4, <2>5, Zenon
<1>2. CASE CloseSession
  <2>1. /\ closer.pc = "lock" /\ pollMu = Nobody /\ closer'.err = closer.err
        /\ closer' \in [pc : {"idle", "lock", "release", "returned"}, err : BOOLEAN]
        /\ closer'.pc = (IF scanner.known /\ ~scanner.done THEN "release" ELSE "returned")
    BY <1>2, Zenon DEF CloseSession, ScanTypes
  <2>2. /\ UNCHANGED <<kind, total, polls, scanner, session>>
        /\ pollMu' = IF closer'.pc = "release" THEN "closer" ELSE pollMu
    BY <1>2, Zenon DEF CloseSession
  <2>3. ScanTypes' /\ SessionInv'
    BY <2>1, <2>2, Zenon DEF ScanTypes, SessionInv
  <2>4. MuInv'
    BY <2>1, <2>2, ScanAssumption, Zenon DEF MuInv
  <2>5. CloserInv'
    BY <2>1, <2>2, Zenon DEF CloserInv, NoSessionLeft, SessionInv
  <2> QED
    BY <2>3, <2>4, <2>5, Zenon
<1>3. ASSUME NEW ok \in BOOLEAN, SessionReleased(ok) PROVE ScanInv'
  <2>1. /\ closer.pc = "release" /\ pollMu' = Nobody /\ UNCHANGED <<kind, total, polls, scanner>>
        /\ closer' = [pc |-> "returned", err |-> ~ok]
        /\ session' = IF ok THEN [session EXCEPT !.open = FALSE] ELSE session
    BY <1>3, Zenon DEF SessionReleased
  <2>2. /\ closer' \in [pc : {"idle", "lock", "release", "returned"}, err : BOOLEAN]
        /\ closer'.pc = "returned" /\ (closer'.err <=> ~ok)
    BY <2>1, Zenon
  <2>3. /\ session' \in [open : BOOLEAN, at : Nat, sequence : Nat] /\ session'.at = session.at
        /\ (ok => ~session'.open) /\ (session'.open => session.open)
    BY <2>1, Zenon DEF ScanTypes
  <2>4. pollMu = "closer" /\ \A p \in Pollers : polls[p].pc \notin {"sent", "answered"}
    BY <2>1, ScanAssumption, Zenon DEF MuInv
  <2>5. ScanTypes' /\ SessionInv'
    BY <2>1, <2>2, <2>3, Zenon DEF ScanTypes, SessionInv
  <2>6. MuInv'
    BY <2>1, <2>2, <2>4, ScanAssumption DEF MuInv
  <2>7. CloserInv'
    BY <2>1, <2>2, <2>3, Zenon DEF CloserInv, NoSessionLeft
  <2> QED
    BY <2>5, <2>6, <2>7, Zenon
<1> QED
    BY <1>1, <1>2, <1>3, Zenon

\* Every step of the goroutines that poll, of Close and of the server.
LEMMA NextScan == ScanInv /\ [ScanNext]_scanVars => ScanInv'
<1> SUFFICES ASSUME ScanInv, [ScanNext]_scanVars PROVE ScanInv'
    BY Zenon
<1>1. ASSUME NEW p \in Pollers,
             \/ LockPoll(p) \/ PollAnswered(p, TRUE) \/ PollAnswered(p, FALSE) \/ PollFails(p)
             \/ ServeSession(p) \/ ServeRows(p)
      PROVE  ScanInv'
    BY <1>1, LockPollScan, PollAnsweredScan, PollFailsScan, ServeScan, Zenon
<1>2. CASE CloseScanner \/ CloseSession \/ SessionReleased(TRUE) \/ SessionReleased(FALSE)
    BY <1>2, CloseScan, Zenon
<1>3. CASE UNCHANGED scanVars
    BY <1>3 DEF scanVars, ScanInv, ScanTypes, MuInv, SessionInv, CloserInv, NoSessionLeft
<1>4. ASSUME NEW p \in Pollers, PollCanceled(p) PROVE PollFails(p)
    BY <1>4, Zenon DEF PollCanceled
<1> QED
    BY <1>1, <1>2, <1>3, <1>4, Zenon DEF ScanNext, ScannerStep, ScanFinished

\* The invariant of a scan.
LEMMA ScanInvariant == ScanSpec => []ScanInv
<1> QED
    BY InitScan, NextScan, PTL DEF ScanSpec

\* Close of a batch scanner releases the session of the server that any poll was
\* told of, also by an answer it took while Close was waiting for it.  A session
\* whose first answer no poll took, lost or canceled by Close, is not meant: the
\* scanner never learns its ID, and leaves it to the server.
THEOREM SessionReleasedByClose == ScanSpec => []NoSessionLeft
<1>1. ScanInv => NoSessionLeft
    BY Zenon DEF ScanInv, CloserInv
<1> QED
    BY <1>1, ScanInvariant, PTL

-----------------------------------------------------------------------------
(* The batch scanner: the rows. *)

\* The polls returned, in order, the rows up to a position that were not lost.
Contents(pos) ==
    /\ scanned \in Seq(Nat) /\ lost \subseteq 1 .. pos /\ Range(scanned) = (1 .. pos) \ lost
    /\ \A m, n \in DOMAIN scanned : m < n => scanned[m] < scanned[n]

\* How that position, the scanner and the server are related.
Position(pos) ==
    /\ scanner.done => pos = total
    /\ kind = "limit" /\ ~scanner.done => pos = 0
    /\ kind = "session" /\ ~scanner.known => pos = 0
    /\ (\A p \in Pollers : polls[p].pc # "answered") =>
         /\ kind = "session" /\ scanner.known /\ session.sequence = scanner.sequence => session.at = pos
         /\ kind = "snapshot" => session.at = pos
    /\ \A p \in Pollers : polls[p].pc = "answered" =>
         /\ polls[p].answer.rows = Rows(pos, IF kind = "limit" THEN total ELSE BatchRows)
         /\ kind # "limit" => session.at = pos + Len(polls[p].answer.rows)
         /\ polls[p].answer.more <=> kind # "limit" /\ pos + Len(polls[p].answer.rows) < total
         /\ kind = "session" => session.sequence = scanner.sequence + 1 /\ (polls[p].answer.id <=> total > 0)

ExactInv == \E pos \in 0 .. total : Contents(pos) /\ Position(pos)

\* The set of rows of an answer.
LEMMA RowsSet ==
    ASSUME NEW from \in Nat, NEW count \in Nat, total \in Nat, from <= total
    PROVE  Range(Rows(from, count)) = (from + 1) .. (from + Len(Rows(from, count)))
<1>1. PICK rows : rows = Rows(from, count)
    BY Zenon
<1>2. rows \in Seq(Nat) /\ Len(rows) \in Nat /\ \A n \in 1 .. Len(rows) : rows[n] = from + n
    BY <1>1, RowsFacts, Zenon
<1>3. DOMAIN rows = 1 .. Len(rows)
    BY <1>2
<1>4. ASSUME NEW x \in Range(rows) PROVE x \in (from + 1) .. (from + Len(rows))
  <2>1. PICK n \in 1 .. Len(rows) : rows[n] = x
    BY <1>3, Zenon DEF Range
  <2> QED
    BY <1>2, <2>1
<1>5. ASSUME NEW x \in (from + 1) .. (from + Len(rows)) PROVE x \in Range(rows)
  <2>1. x - from \in 1 .. Len(rows) /\ x = from + (x - from)
    BY <1>2
  <2>2. rows[x - from] = x
    BY <1>2, <2>1, Zenon
  <2> QED
    BY <1>3, <2>1, <2>2, Zenon DEF Range
<1> QED
    BY <1>1, <1>4, <1>5, Zenon

\* The rows after the position extend what was returned.
LEMMA RowsExtend ==
    ASSUME NEW pos \in Nat, NEW count \in Nat, total \in Nat, pos <= total, Contents(pos),
           NEW rows, rows = Rows(pos, count), scanned' = scanned \o rows, lost' = lost
    PROVE  Contents(pos + Len(rows))'
<1>1. rows \in Seq(Nat) /\ Len(rows) \in Nat /\ \A n \in 1 .. Len(rows) : rows[n] = pos + n
    BY RowsFacts, Zenon
<1>2. /\ scanned \in Seq(Nat) /\ Len(scanned) \in Nat /\ DOMAIN scanned = 1 .. Len(scanned)
      /\ lost \subseteq 1 .. pos /\ Range(scanned) = (1 .. pos) \ lost
    BY DEF Contents
<1>3. /\ scanned' \in Seq(Nat) /\ DOMAIN scanned' = 1 .. Len(scanned) + Len(rows)
      /\ \A n \in 1 .. Len(scanned) : scanned'[n] = scanned[n]
      /\ \A n \in 1 .. Len(rows) : scanned'[Len(scanned) + n] = rows[n]
    BY <1>1, <1>2
<1>4. \A n \in DOMAIN scanned : scanned[n] \in 1 .. pos
    BY <1>2, Zenon DEF Range
<1>5. ASSUME NEW n \in DOMAIN scanned'
      PROVE  \/ n \in DOMAIN scanned /\ scanned'[n] = scanned[n]
             \/ n > Len(scanned) /\ scanned'[n] = pos + (n - Len(scanned)) /\ n - Len(scanned) \in 1 .. Len(rows)
  <2>1. CASE n <= Len(scanned)
    BY <1>2, <1>3, <2>1
  <2>2. CASE n > Len(scanned)
    <3>1. n - Len(scanned) \in 1 .. Len(rows) /\ n = Len(scanned) + (n - Len(scanned))
      BY <1>1, <1>2, <1>3, <2>2
    <3>2. scanned'[n] = rows[n - Len(scanned)]
      BY <1>3, <3>1, Zenon
    <3> QED
      BY <1>1, <2>2, <3>1, <3>2, SMTT(30)
  <2> QED
    BY <1>2, <1>3, <2>1, <2>2
<1>6. ASSUME NEW m \in DOMAIN scanned', NEW n \in DOMAIN scanned', m < n PROVE scanned'[m] < scanned'[n]
  <2>1. CASE n \in DOMAIN scanned
    <3>1. m \in DOMAIN scanned
      BY <1>2, <1>3, <1>6, <2>1
    <3> QED
      BY <1>2, <1>3, <1>6, <2>1, <3>1, Zenon DEF Contents
  <2>2. CASE n \notin DOMAIN scanned /\ m \in DOMAIN scanned
    <3>1. scanned'[n] = pos + (n - Len(scanned)) /\ n - Len(scanned) \in 1 .. Len(rows)
      BY <1>5, <2>2, Zenon
    <3>2. scanned'[m] = scanned[m] /\ scanned[m] \in 1 .. pos
      BY <1>2, <1>3, <1>4, <2>2, Zenon
    <3> QED
      BY <3>1, <3>2, SMTT(30)
  <2>3. CASE n \notin DOMAIN scanned /\ m \notin DOMAIN scanned
    <3>1. scanned'[n] = pos + (n - Len(scanned)) /\ scanned'[m] = pos + (m - Len(scanned))
      BY <1>5, <2>3, SMTT(30)
    <3> QED
      BY <1>2, <1>3, <1>6, <3>1
  <2> QED
    BY <2>1, <2>2, <2>3, Zenon
<1>7. Range(scanned') = Range(scanned) \union Range(rows)
  <2>1. ASSUME NEW x \in Range(scanned') PROVE x \in Range(scanned) \union Range(rows)
    <3>1. PICK n \in DOMAIN scanned' : scanned'[n] = x
      BY Zenon DEF Range
    <3>2. CASE n \in DOMAIN scanned
      <4>1. scanned[n] = x
        BY <1>2, <1>3, <3>1, <3>2, Zenon
      <4> QED
        BY <3>2, <4>1, Zenon DEF Range
    <3>3. CASE n \notin DOMAIN scanned
      <4>1. PICK k \in 1 .. Len(rows) : scanned'[n] = rows[k]
        BY <1>1, <1>5, <3>3, Zenon
      <4> QED
        BY <1>1, <3>1, <4>1, SMTT(30) DEF Range
    <3> QED
      BY <3>2, <3>3, Zenon
  <2>2. ASSUME NEW x \in Range(scanned) PROVE x \in Range(scanned')
    BY <1>1, <1>2, <1>3 DEF Range
  <2>3. ASSUME NEW x \in Range(rows) PROVE x \in Range(scanned')
    <3>1. PICK k \in 1 .. Len(rows) : rows[k] = x
      <4>1. DOMAIN rows = 1 .. Len(rows)
        BY <1>1
      <4> QED
        BY <4>1, Zenon DEF Range
    <3>2. Len(scanned) + k \in DOMAIN scanned' /\ scanned'[Len(scanned) + k] = x
      BY <1>1, <1>2, <1>3, <3>1, SMTT(30)
    <3> QED
      BY <3>2, Zenon DEF Range
  <2> QED
    BY <2>1, <2>2, <2>3, Zenon
<1>8. Range(rows) = (pos + 1) .. (pos + Len(rows))
    BY RowsSet, Zenon
<1>9. lost' \subseteq 1 .. pos + Len(rows) /\ Range(scanned') = (1 .. pos + Len(rows)) \ lost'
    BY <1>1, <1>2, <1>7, <1>8
<1> QED
    BY <1>3, <1>6, <1>9, SMTT(30) DEF Contents

\* Rows that could not be decoded count as lost.
LEMMA RowsLost ==
    ASSUME NEW pos \in Nat, NEW count \in Nat, total \in Nat, pos <= total, Contents(pos),
           NEW rows, rows = Rows(pos, count), scanned' = scanned, lost' = lost \union Range(rows)
    PROVE  Contents(pos + Len(rows))'
<1>0. lost \subseteq 1 .. pos /\ Range(scanned) = (1 .. pos) \ lost
    BY Zenon DEF Contents
<1>1. Len(rows) \in Nat /\ Range(rows) = (pos + 1) .. (pos + Len(rows))
    BY RowsFacts, RowsSet, Zenon
<1>2. lost' \subseteq 1 .. pos + Len(rows) /\ Range(scanned') = (1 .. pos + Len(rows)) \ lost'
  <2>1. /\ 1 .. pos + Len(rows) = (1 .. pos) \union ((pos + 1) .. (pos + Len(rows)))
        /\ (1 .. pos) \intersect ((pos + 1) .. (pos + Len(rows))) = {}
    BY <1>1
  <2> QED
    BY <1>0, <1>1, <2>1, Zenon
<1> QED
    BY <1>2, Zenon DEF Contents

\* Nothing was returned yet.
LEMMA InitExact == ScanInit => ExactInv
<1> SUFFICES ASSUME ScanInit PROVE ExactInv
    BY Zenon
<1> USE ScanAssumption DEF ScanInit
<1>1. total \in Nat /\ 0 \in 0 .. total
    OBVIOUS
<1>2. Range(<<>>) = {} /\ <<>> \in Seq(Nat) /\ DOMAIN <<>> = {} /\ 1 .. 0 = {}
    BY DEF Range
<1>3. Contents(0)
    BY <1>2, Zenon DEF Contents
<1>4. Position(0)
    BY <1>1, Zenon DEF Position
<1> QED
    BY <1>1, <1>3, <1>4, Zenon DEF ExactInv

\* A step that returns nothing: only an answer may come or go.
LEMMA QuietExact ==
    ASSUME ScanInv, NEW pos \in 0 .. total, Contents(pos), UNCHANGED <<kind, total, scanned, lost>>, Position(pos)'
    PROVE  ExactInv'
  BY Zenon DEF ExactInv, Contents

\* The server answers with the rows after the position.
LEMMA ServeExact ==
    ASSUME ScanInv, ExactInv, NEW p \in Pollers, ServeSession(p) \/ ServeRows(p)
    PROVE  ExactInv'
<1> USE DEF ScanInv
<1>0. PICK pos \in 0 .. total : Contents(pos) /\ Position(pos)
    BY Zenon DEF ExactInv
<1>1. /\ polls[p].pc = "sent" /\ polls'[p].pc = "answered" /\ \A q \in Pollers : q # p => polls'[q] = polls[q]
    BY ServeScan, Zenon
<1>2. \A q \in Pollers : q # p => polls[q].pc \notin {"sent", "answered"}
    BY <1>1, Zenon DEF MuInv
<1>3. \A q \in Pollers : polls[q].pc # "answered"
    BY <1>1, <1>2, Zenon
<1>4. /\ total \in Nat /\ BatchRows \in Nat /\ pos \in Nat /\ pos <= total /\ scanner.sequence \in Nat /\ ~scanner.done
      /\ polls \in [Pollers -> PollStates] /\ polls[p] \in PollStates
    BY <1>1, ScanAssumption DEF ScanTypes, MuInv
<1>5. UNCHANGED <<kind, total, scanner, scanned, lost>>
    BY Zenon DEF ServeSession, ServeRows
<1>6. CASE ServeSession(p)
  <2>1. pos = IF scanner.known THEN session.at ELSE 0
    BY <1>0, <1>3, <1>6, Zenon DEF Position, ServeSession
  <2>2. PICK rows : rows = Rows(pos, BatchRows)
    BY Zenon
  <2>3. /\ kind = "session"
        /\ session' = [open |-> pos + Len(rows) < total, at |-> pos + Len(rows), sequence |-> scanner.sequence + 1]
        /\ polls' = [polls EXCEPT ![p].pc = "answered",
                       ![p].answer = [rows |-> rows, id |-> total > 0, more |-> pos + Len(rows) < total]]
    BY <1>6, <2>1, <2>2, Zenon DEF ServeSession
  <2>4. polls'[p].answer = [rows |-> rows, id |-> total > 0, more |-> pos + Len(rows) < total]
    BY <1>4, <2>3, Zenon DEF PollStates
  <2>5. /\ polls'[p].answer.rows = rows /\ (polls'[p].answer.id <=> total > 0)
        /\ polls'[p].answer.more <=> pos + Len(rows) < total
    <3>1. PICK id, more : id = (total > 0) /\ more = (pos + Len(rows) < total)
      BY Zenon
    <3>2. polls'[p].answer = [rows |-> rows, id |-> id, more |-> more]
      BY ONLY <2>4, <3>1, Zenon
    <3>3. polls'[p].answer.rows = rows /\ polls'[p].answer.id = id /\ polls'[p].answer.more = more
      BY ONLY <3>2
    <3> QED
      BY ONLY <3>1, <3>3, Zenon
  <2>6. session'.at = pos + Len(rows) /\ session'.sequence = scanner.sequence + 1
    BY <2>3, Zenon
  <2>7. Position(pos)'
    <3>1. kind = "session"
      BY <2>3, Zenon
    <3> QED
      BY <1>0, <1>1, <1>3, <1>5, <2>2, <2>5, <2>6, <3>1, ZenonT(40) DEF Position, Rows
  <2> QED
    BY <1>0, <1>5, <2>7, QuietExact, Zenon
<1>7. CASE ServeRows(p)
  <2>1. kind # "session" /\ (kind = "limit" => pos = 0) /\ (kind = "snapshot" => pos = session.at)
    BY <1>0, <1>3, <1>4, <1>7, Zenon DEF Position, ServeRows
  <2>2. PICK rows : rows = Rows(pos, IF kind = "limit" THEN total ELSE BatchRows)
    BY Zenon
  <2>3. rows = IF kind = "limit" THEN Rows(0, total) ELSE Rows(session.at, BatchRows)
    BY <2>1, <2>2, Zenon DEF ScanTypes
  <2>4. /\ session' = IF kind = "limit" THEN session ELSE [session EXCEPT !.at = @ + Len(rows)]
        /\ polls' = [polls EXCEPT ![p].pc = "answered",
                         ![p].answer = [rows |-> rows, id |-> FALSE, more |-> kind = "snapshot" /\ session'.at < total]]
    BY <1>7, <2>3, Zenon DEF ServeRows
  <2>5. polls'[p].answer = [rows |-> rows, id |-> FALSE, more |-> kind = "snapshot" /\ session'.at < total]
    BY <1>4, <2>4, Zenon DEF PollStates
  <2>6. /\ polls'[p].answer.rows = rows
        /\ polls'[p].answer.more <=> kind = "snapshot" /\ session'.at < total
    <3>1. PICK more : more = (kind = "snapshot" /\ session'.at < total)
      BY Zenon
    <3>2. polls'[p].answer = [rows |-> rows, id |-> FALSE, more |-> more]
      BY ONLY <2>5, <3>1, Zenon
    <3>3. polls'[p].answer.rows = rows /\ polls'[p].answer.more = more
      BY ONLY <3>2
    <3> QED
      BY ONLY <3>1, <3>3, Zenon
  <2>7. kind # "limit" => session'.at = pos + Len(rows) /\ kind = "snapshot"
    BY <2>1, <2>4, Zenon DEF ScanTypes
  <2>8. Position(pos)'
    BY <1>0, <1>1, <1>3, <1>5, <2>1, <2>2, <2>6, <2>7, ZenonT(40) DEF Position, Rows
  <2> QED
    BY <1>0, <1>5, <2>8, QuietExact, Zenon
<1> QED
    BY <1>6, <1>7, Zenon

\* An answer is taken: its rows are returned or lost, and the position moves on.
LEMMA PollAnsweredExact ==
    ASSUME ScanInv, ExactInv, NEW p \in Pollers, NEW decoded \in BOOLEAN, PollAnswered(p, decoded)
    PROVE  ExactInv'
<1> USE DEF ScanInv
<1>0. PICK pos \in 0 .. total : Contents(pos) /\ Position(pos)
    BY Zenon DEF ExactInv
<1>1. polls[p].pc = "answered" /\ UNCHANGED <<kind, total, closer, session>>
    BY Zenon DEF PollAnswered, PollSession, PollRows
<1>2. \A q \in Pollers : polls'[q].pc # "answered"
  <2>1. \E e \in BOOLEAN : Unlock(p, e)
    BY Zenon DEF PollAnswered, PollSession, PollRows
  <2> QED
    BY <1>1, <2>1, UnlockFacts, Zenon
<1>3. /\ total \in Nat /\ BatchRows \in Nat /\ pos \in Nat /\ pos <= total /\ scanner.sequence \in Nat
      /\ session.at \in Nat /\ ~scanner.done
      /\ scanner \in [known : BOOLEAN, sequence : Nat, done : BOOLEAN, closed : BOOLEAN]
    BY <1>1, ScanAssumption DEF ScanTypes, MuInv
<1>4. PICK count \in Nat : count = IF kind = "limit" THEN total ELSE BatchRows
    BY <1>3, Zenon
<1>5. PICK rows : rows = Rows(pos, count) /\ polls[p].answer.rows = rows
    BY <1>0, <1>1, <1>4, Zenon DEF Position
<1>6. /\ kind # "limit" => session.at = pos + Len(rows)
      /\ polls[p].answer.more <=> kind # "limit" /\ pos + Len(rows) < total
      /\ kind = "session" => session.sequence = scanner.sequence + 1 /\ (polls[p].answer.id <=> total > 0)
    BY <1>0, <1>1, <1>5, SMTT(30) DEF Position
<1>7. /\ Len(rows) \in Nat /\ pos + Len(rows) \in 0 .. total
      /\ ~(pos + Len(rows) < total) => pos + Len(rows) = total
      /\ kind = "limit" /\ pos = 0 => Len(rows) = total
  <2>1. /\ Len(rows) \in Nat /\ pos + Len(rows) <= total
        /\ pos + count >= total => pos + Len(rows) = total
    <3>1. count \in Nat /\ rows = Rows(pos, count)
      BY <1>4, <1>5, Zenon
    <3>2. /\ Len(Rows(pos, count)) \in Nat /\ pos + Len(Rows(pos, count)) <= total
          /\ pos + count >= total => pos + Len(Rows(pos, count)) = total
      BY ONLY <1>3, <3>1, RowsFacts, Zenon
    <3> QED
      BY <3>1, <3>2, Zenon
  <2> QED
    BY <1>3, <1>4, <2>1
<1>8. ASSUME scanner'.done => pos + Len(rows) = total, Contents(pos + Len(rows))',
             kind = "limit" => scanner'.done,
             kind = "session" => scanner'.known /\ scanner'.sequence = scanner.sequence + 1
      PROVE  ExactInv'
  <2>1. Position(pos + Len(rows))'
    BY <1>1, <1>2, <1>3, <1>6, <1>8, Zenon DEF Position
  <2> QED
    BY <1>1, <1>7, <1>8, <2>1, Zenon DEF ExactInv
<1>9. CASE PollSession(p, decoded) /\ polls[p].answer.id
  <2>1. /\ kind = "session"
        /\ scanner' = [scanner EXCEPT !.known = TRUE, !.sequence = @ + 1, !.done = decoded /\ isLast(polls[p].answer)]
        /\ scanned' = IF decoded THEN scanned \o rows ELSE scanned
        /\ lost' = IF decoded THEN lost ELSE lost \union Range(rows)
    BY <1>5, <1>9, Zenon DEF PollSession
  <2>2. Contents(pos + Len(rows))'
    <3>1. CASE decoded
      BY <1>0, <1>3, <1>5, <2>1, <3>1, RowsExtend, Zenon
    <3>2. CASE ~decoded
      BY <1>0, <1>3, <1>5, <2>1, <3>2, RowsLost, Zenon
    <3> QED
      BY <3>1, <3>2, Zenon
  <2>3. PICK d : d = (decoded /\ isLast(polls[p].answer))
    BY Zenon
  <2>4. scanner'.known = TRUE /\ scanner'.sequence = scanner.sequence + 1 /\ scanner'.done = d
    BY <1>3, <2>1, <2>3, Zenon
  <2>5. d => pos + Len(rows) = total
    BY <1>6, <1>7, <2>1, <2>3, Zenon DEF isLast
  <2> QED
    BY <1>8, <2>1, <2>2, <2>4, <2>5, Zenon
<1>10. CASE PollSession(p, decoded) /\ ~polls[p].answer.id
  <2>1. kind = "session" /\ scanner' = [scanner EXCEPT !.done = TRUE] /\ UNCHANGED <<scanned, lost>>
    BY <1>10, Zenon DEF PollSession
  <2>2. total = 0 /\ pos = 0 /\ Len(rows) = 0
    BY <1>3, <1>6, <1>7, <1>10, <2>1, SMTT(30)
  <2>3. scanner'.done = TRUE /\ scanner'.known = scanner.known /\ scanner'.sequence = scanner.sequence
    BY <1>3, <2>1, Zenon
  <2>4. Position(pos)'
    BY <1>1, <1>2, <1>3, <1>6, <2>1, <2>2, <2>3 DEF Position
  <2> QED
    BY <1>0, <1>1, <2>1, <2>4, QuietExact, Zenon
<1>11. CASE PollRows(p, decoded)
  <2>1. /\ kind # "session"
        /\ scanner' = [scanner EXCEPT !.done = decoded /\ isLast(polls[p].answer)]
        /\ scanned' = IF decoded THEN scanned \o rows ELSE scanned
        /\ lost' = IF kind = "snapshot" /\ ~decoded THEN lost \union Range(rows) ELSE lost
    BY <1>5, <1>11, Zenon DEF PollRows
  <2>2. PICK d : d = (decoded /\ isLast(polls[p].answer))
    BY Zenon
  <2>3. scanner'.known = scanner.known /\ scanner'.sequence = scanner.sequence /\ scanner'.done = d
    BY <1>3, <2>1, <2>2, Zenon
  <2>4. CASE decoded
    <3>1. Contents(pos + Len(rows))'
      BY <1>0, <1>3, <1>5, <2>1, <2>4, RowsExtend, Zenon
    <3>2. d <=> ~polls[p].answer.more
      BY <2>2, <2>4, Zenon DEF isLast
    <3>3. kind = "limit" => pos = 0
      BY <1>0, <1>3, Zenon DEF Position
    <3>4. d => pos + Len(rows) = total
      BY <1>3, <1>6, <1>7, <3>2, <3>3
    <3>5. kind = "limit" => d
      BY <1>6, <3>2, Zenon
    <3> QED
      BY <1>8, <2>1, <2>3, <3>1, <3>4, <3>5, Zenon
  <2>5. CASE ~decoded /\ kind = "snapshot"
    <3>1. Contents(pos + Len(rows))'
      BY <1>0, <1>3, <1>5, <2>1, <2>5, RowsLost, Zenon
    <3> QED
      BY <1>8, <2>2, <2>3, <2>5, <3>1, Zenon
  <2>6. CASE ~decoded /\ kind # "snapshot"
    <3>1. kind = "limit" /\ ~d /\ UNCHANGED <<scanned, lost>>
      BY <2>1, <2>2, <2>6, Zenon DEF ScanTypes
    <3>2. Position(pos)'
      BY <1>0, <1>1, <1>2, <1>3, <2>3, <3>1, Zenon DEF Position
    <3> QED
      BY <1>0, <1>1, <3>1, <3>2, QuietExact, Zenon
  <2> QED
    BY <2>4, <2>5, <2>6, Zenon
<1> QED
    BY <1>9, <1>10, <1>11, Zenon DEF PollAnswered

\* The other steps return nothing and keep the position.
LEMMA IdleExact ==
    ASSUME ScanInv, ExactInv, UNCHANGED <<kind, total, scanned, lost>>,
           scanner'.known = scanner.known, scanner'.sequence = scanner.sequence, scanner'.done = scanner.done,
           session'.at = session.at, session'.sequence = session.sequence,
           \A q \in Pollers : polls'[q].pc = "answered" => polls[q].pc = "answered" /\ polls'[q].answer = polls[q].answer,
           \/ \A q \in Pollers : polls[q].pc = "answered" => polls'[q].pc = "answered"
           \/ kind # "snapshot"
    PROVE  ExactInv'
<1> USE DEF ScanInv
<1>0. PICK pos \in 0 .. total : Contents(pos) /\ Position(pos)
    BY Zenon DEF ExactInv
<1>1. ASSUME NEW q \in Pollers, polls[q].pc = "answered", kind = "session"
      PROVE  session.sequence # scanner.sequence
  <2>1. session.sequence = scanner.sequence + 1 /\ scanner.sequence \in Nat
    BY <1>0, <1>1, Zenon DEF Position, ScanTypes
  <2> QED
    BY <2>1
<1>2. Position(pos)'
  <2>1. ASSUME \A q \in Pollers : polls'[q].pc # "answered"
        PROVE  /\ kind = "session" /\ scanner.known /\ session.sequence = scanner.sequence => session.at = pos
               /\ kind = "snapshot" => session.at = pos
    <3>1. CASE \A q \in Pollers : polls[q].pc # "answered"
      BY <1>0, <3>1, Zenon DEF Position
    <3>2. CASE \E q \in Pollers : polls[q].pc = "answered"
      BY <1>1, <2>1, <3>2, Zenon
    <3> QED
      BY <3>1, <3>2, Zenon
  <2>2. ASSUME NEW q \in Pollers, polls'[q].pc = "answered"
        PROVE  /\ polls'[q].answer.rows = Rows(pos, IF kind = "limit" THEN total ELSE BatchRows)
               /\ kind # "limit" => session.at = pos + Len(polls'[q].answer.rows)
               /\ polls'[q].answer.more <=> kind # "limit" /\ pos + Len(polls'[q].answer.rows) < total
               /\ kind = "session" => session.sequence = scanner.sequence + 1 /\ (polls'[q].answer.id <=> total > 0)
    BY <1>0, <2>2, Zenon DEF Position
  <2>3. /\ scanner.done => pos = total
        /\ kind = "limit" /\ ~scanner.done => pos = 0
        /\ kind = "session" /\ ~scanner.known => pos = 0
    BY <1>0, Zenon DEF Position
  <2> QED
    BY <2>1, <2>2, <2>3, Zenon DEF Position, Rows
<1> QED
    BY <1>0, <1>2, QuietExact, Zenon

\* Every step of the goroutines that poll, of Close and of the server.
LEMMA NextExact == ScanInv /\ ExactInv /\ [ScanNext]_scanVars => ExactInv'
<1> SUFFICES ASSUME ScanInv, ExactInv, [ScanNext]_scanVars PROVE ExactInv'
    BY Zenon
<1> USE DEF ScanInv
<1>1. ASSUME NEW p \in Pollers, PollAnswered(p, TRUE) \/ PollAnswered(p, FALSE) \/ ServeSession(p) \/ ServeRows(p)
      PROVE  ExactInv'
    BY <1>1, PollAnsweredExact, ServeExact, Zenon
<1>2. ASSUME NEW p \in Pollers, LockPoll(p) \/ PollFails(p) PROVE ExactInv'
  <2>1. UNCHANGED <<kind, total, scanner, session, scanned, lost>>
    BY <1>2, Zenon DEF LockPoll, PollFails
  <2>2. /\ \A q \in Pollers : q # p => polls'[q] = polls[q]
        /\ polls'[p].pc # "answered"
    BY <1>2 DEF LockPoll, PollFails, Unlock, ScanTypes
  <2>3. (\A q \in Pollers : polls[q].pc = "answered" => polls'[q].pc = "answered") \/ kind # "snapshot"
    BY <1>2, <2>2, Zenon DEF LockPoll, PollFails
  <2> QED
    BY <2>1, <2>2, <2>3, IdleExact, Zenon
<1>3. CASE CloseScanner \/ CloseSession \/ SessionReleased(TRUE) \/ SessionReleased(FALSE)
  <2>1. UNCHANGED <<kind, total, polls, scanned, lost>>
    BY <1>3, Zenon DEF CloseScanner, CloseSession, SessionReleased
  <2>2. scanner'.known = scanner.known /\ scanner'.sequence = scanner.sequence /\ scanner'.done = scanner.done
    BY <1>3, Zenon DEF CloseScanner, CloseSession, SessionReleased, ScanTypes
  <2>3. session'.at = session.at /\ session'.sequence = session.sequence
    BY <1>3, Zenon DEF CloseScanner, CloseSession, SessionReleased, ScanTypes
  <2> QED
    BY <2>1, <2>2, <2>3, IdleExact, Zenon
<1>4. CASE UNCHANGED scanVars
    BY <1>4, IdleExact, Zenon DEF scanVars
<1>5. ASSUME NEW p \in Pollers, PollCanceled(p) PROVE PollFails(p)
    BY <1>5, Zenon DEF PollCanceled
<1> QED
    BY <1>1, <1>2, <1>3, <1>4, <1>5, Zenon DEF ScanNext, ScannerStep, ScanFinished

\* A batch scan returns its rows in order and once each, whichever goroutines
\* poll and whichever requests, answers and decodings fail, and when it reports
\* the end only rows are missing for which a Poll reported an error.
THEOREM EveryRowOnce == ScanSpec => []ScanExact
<1>1. ScanSpec => []ExactInv
    BY InitExact, NextExact, ScanInvariant, PTL DEF ScanSpec
<1>2. ExactInv => ScanExact
  <2> SUFFICES ASSUME ExactInv PROVE ScanExact
    BY Zenon
  <2>1. PICK pos \in 0 .. total : Contents(pos) /\ Position(pos)
    BY Zenon DEF ExactInv
  <2> QED
    BY <2>1, Zenon DEF Contents, Position, ScanExact
<1> QED
    BY <1>1, <1>2, PTL

-----------------------------------------------------------------------------
(* Lookups *)

\* What may be the result of a key: nothing yet, an error, or the server's answer
\* for that key.
ResultsOf(t) == {"none", "ctx", "closed", "err", IF Key(t) \in Stored THEN Key(t) ELSE "notFound"}

\* The results on the way from the worker to the caller are as good as the ones
\* the callers recorded.
ResultInv ==
    /\ raw = [t \in Tasks |-> raw[t]] /\ out = [t \in Tasks |-> out[t]]
    /\ \A t \in Tasks : raw[t] \in ResultsOf(t) /\ out[t] \in ResultsOf(t)

\* complete with an error, whoever the tasks belong to.
LEMMA CompleteErrResult ==
    ASSUME ResultInv, NEW tasks, NEW err \in {"ctx", "closed", "err"}, CompleteErr(tasks, err)
    PROVE  raw' = [t \in Tasks |-> raw'[t]] /\ \A t \in Tasks : raw'[t] \in ResultsOf(t)
BY Zenon DEF ResultInv, CompleteErr, Complete, ResultsOf

\* Recording a result that is one of the key's own.
LEMMA AdvanceResult ==
    ASSUME ResultInv, NEW c \in Lookups, NEW pc, NEW res, Advance(c, pc, res),
           Task(c) \in Tasks => res \in ResultsOf(Task(c))
    PROVE  out' = [t \in Tasks |-> out'[t]] /\ \A t \in Tasks : out'[t] \in ResultsOf(t)
<1>1. \A t \in Tasks : out'[t] = out[t] \/ (t = Task(c) /\ out'[t] = res)
    BY Zenon DEF ResultInv, Advance
<1>2. out' = [t \in Tasks |-> out'[t]]
    BY Zenon DEF ResultInv, Advance
<1> QED
    BY <1>1, <1>2, Zenon DEF ResultInv

\* A worker's answer: the value at the index of a task is the one of its key,
\* because the keys of the request were taken from the same list of tasks.
LEMMA AnswerResult ==
    ASSUME ResultInv, NEW j \in busy, WorkerAnswered(j)
    PROVE  ResultInv'
<1>1. ASSUME NEW t \in {answered(j)[n] : n \in DOMAIN j.tasks}
      PROVE  j.tasks[CHOOSE n \in DOMAIN j.tasks : answered(j)[n] = t] = t
    BY <1>1, Zenon DEF answered
<1>2. ASSUME NEW t \in Tasks
      PROVE  raw'[t] = raw[t] \/ raw'[t] = (IF Key(t) \in Stored THEN Key(t) ELSE "notFound")
  <2>1. CASE t \notin {answered(j)[n] : n \in DOMAIN j.tasks}
    BY <2>1, Zenon DEF WorkerAnswered, Complete
  <2>2. CASE t \in {answered(j)[n] : n \in DOMAIN j.tasks}
    <3>1. PICK n : n = (CHOOSE m \in DOMAIN j.tasks : answered(j)[m] = t)
      BY Zenon
    <3>2. j.tasks[n] = t
      BY <1>1, <2>2, <3>1, Zenon
    <3>3. raw'[t] = raw[t] \/ raw'[t] = (IF Key(j.tasks[n]) \in Stored THEN Key(j.tasks[n]) ELSE "notFound")
      BY <2>2, <3>1 DEF WorkerAnswered, Complete
    <3> QED
      BY <3>2, <3>3, Zenon
  <2> QED
    BY <2>1, <2>2, Zenon
<1>3. raw' = [t \in Tasks |-> raw'[t]] /\ UNCHANGED out
    BY DEF WorkerAnswered, Complete, workerFrame
<1> QED
    BY <1>2, <1>3, Zenon DEF ResultInv, ResultsOf

\* Every step of the callers, the scheduler and the workers.
LEMMA NextResult == ResultInv /\ [LookupNext]_lookupVars => ResultInv'
<1> SUFFICES ASSUME ResultInv, [LookupNext]_lookupVars PROVE ResultInv'
    BY Zenon
<1>1. ASSUME NEW c \in Lookups, EnqueueRefused(c) \/ EnqueueClosed(c) \/ EnqueueTask(c) \/ AwaitKey(c)
      PROVE  ResultInv'
  <2>1. UNCHANGED raw \/ CompleteErr({Task(c)}, "closed") \/ CompleteErr({Task(c)}, "ctx")
    BY <1>1, Zenon DEF EnqueueRefused, EnqueueClosed, EnqueueTask, AwaitKey
  <2>2. \E pc, res : Advance(c, pc, res) /\ (Task(c) \in Tasks => res \in ResultsOf(Task(c)))
    BY <1>1, Zenon DEF EnqueueRefused, EnqueueClosed, EnqueueTask, AwaitKey, ResultInv, ResultsOf
  <2>3. out' = [t \in Tasks |-> out'[t]] /\ \A t \in Tasks : out'[t] \in ResultsOf(t)
    BY <2>2, AdvanceResult, Zenon
  <2> QED
    BY <2>1, <2>3, CompleteErrResult, Zenon DEF ResultInv
<1>2. CASE ScheduleTask \/ Shutdown \/ WorkerTakes \/ \E j \in busy : WorkerFails(j)
  <2>1. UNCHANGED out
    BY <1>2, Zenon DEF ScheduleTask, Shutdown, WorkerTakes, WorkerFails, schedFrame, workerFrame
  <2>2. UNCHANGED raw \/ \E tasks : \E err \in {"ctx", "closed", "err"} : CompleteErr(tasks, err)
    BY <1>2, Zenon DEF ScheduleTask, Shutdown, WorkerTakes, WorkerFails
  <2> QED
    BY <2>1, <2>2, CompleteErrResult, Zenon DEF ResultInv
<1>3. CASE \E j \in busy : WorkerAnswered(j)
    BY <1>3, AnswerResult, Zenon
<1>4. CASE UNCHANGED <<raw, out>>
    BY <1>4, Zenon DEF ResultInv
<1>5. UNCHANGED lookupVars => UNCHANGED <<raw, out>>
    BY Zenon DEF lookupVars
<1>6. ASSUME NEW c \in Lookups, AcquireLookupSlot(c) \/ LookupCancel(c) PROVE UNCHANGED <<raw, out>>
    BY <1>6, Zenon DEF AcquireLookupSlot, LookupCancel
<1>7. BatchTimeout \/ DispatchChunk \/ DispatchNext \/ SchedulerExits \/ CloseLookuper => UNCHANGED <<raw, out>>
    BY Zenon DEF BatchTimeout, DispatchChunk, DispatchNext, SchedulerExits, CloseLookuper, schedFrame
<1>8. ASSUME NEW j \in busy, WorkerRetries(j) PROVE UNCHANGED <<raw, out>>
    BY <1>8, Zenon DEF WorkerRetries, workerFrame
<1> QED
    BY <1>1, <1>2, <1>3, <1>4, <1>5, <1>6, <1>7, <1>8, Zenon
    DEF LookupNext, LookupStep, SchedulerStep, WorkerStep, LookupFinished

\* The value a call of Lookup or PrefixLookup records for a key is the server's
\* answer for that key, for any number of calls, keys and workers, whichever
\* keys share a request, drop out of it, or are completed by Close before the
\* answer comes.
THEOREM EveryKeyItsValue == LookupSpec => []OwnValue
<1>1. LookupInit => ResultInv
    BY Zenon DEF LookupInit, ResultInv, ResultsOf
<1>2. ResultInv => OwnValue
    BY Zenon DEF ResultInv, ResultsOf, OwnValue
<1> QED
    BY <1>1, <1>2, NextResult, PTL DEF LookupSpec
=============================================================================
