------------------------------- MODULE Router -------------------------------
(***************************************************************************)
(* The cache of bucket leaders, the requests that are routed by it, and    *)
(* the creation of missing partitions that refreshes it.  One bucket of    *)
(* one table: a bucket of the table itself or of its partition.  A leader  *)
(* is the number of its election; the requester of an older leader learns  *)
(* that it is stale only from the answer.  Refreshes are shared through    *)
(* two coalescers, one for tables and one for partitions; here a flight    *)
(* is what the coalescer promises: one per key, joined by later callers,   *)
(* taken out of the map and canceled when its last waiter leaves, but      *)
(* possibly finishing all the same.                                        *)
(***************************************************************************)
EXTENDS Integers, FiniteSets

CONSTANTS
    Requesters,        \* goroutines that send requests to the bucket, again and again
    Creators,          \* goroutines that create a writer: they ensure the partition first
    Cancelable,        \* those whose context may end
    MetadataAttempts,  \* DynamicPartitionCreationConfig.MetadataAttempts
    MaxElections,      \* bound on the elections of the bucket's leader
    MaxFaults          \* bound on failed requests, lost answers and leaderless periods

Callers == Requesters \union Creators

ASSUME RouterAssumption ==
    /\ IsFiniteSet(Callers) /\ Requesters \intersect Creators = {} /\ Cancelable \subseteq Callers
    /\ MetadataAttempts \in Nat \ {0} /\ MaxElections \in Nat \ {0} /\ MaxFaults \in Nat

VARIABLES
    partitioned,  \* whether the bucket belongs to a partition
    exists,       \* server: the partition, or the unpartitioned table, was created
    leader,       \* server: the elected leader, 0 while there is none
    elections,    \* server: the elections so far
    faults,       \* the failures so far
    cached,       \* Tables has the table
    route,        \* the cached leader of the bucket: 0 for a bucket without one, Missing
    flights,      \* the flight of each key, NoFlight if there is none
    strays,       \* flights whose waiters have all left
    task,         \* where each caller is in RequestBucket, or in checkPartition
    ensuring,     \* where each creator is in ensure
    applied,      \* how often the bucket's leader applied the request of a caller's call
    canceled      \* callers whose context is done

vars == <<partitioned, exists, leader, elections, faults, cached, route, flights, strays, task, ensuring, applied, canceled>>
server == <<partitioned, exists, leader, elections>>
cache == <<cached, route>>

Missing == -1
Keys == {"table", "partition"}
NoFlight == [pc |-> "none"]
Entries == {Missing} \union 0 .. MaxElections

Init ==
    /\ partitioned \in BOOLEAN /\ exists = ~partitioned
    /\ leader \in {0, 1} /\ (leader = 1 => exists) /\ elections = leader
    /\ faults = 0 /\ cached = FALSE /\ route = Missing
    /\ flights = [k \in Keys |-> NoFlight] /\ strays = {} /\ canceled = {}
    /\ task = [c \in Callers |-> [pc |-> IF c \in Creators THEN "idle" ELSE "route", attempt |-> 1, node |-> 0, ret |-> "none"]]
    /\ ensuring = [c \in Creators |-> [pc |-> "start", checks |-> 0]]
    /\ applied = [c \in Callers |-> 0]

-----------------------------------------------------------------------------
(* The servers *)

Elect ==
    /\ exists /\ leader = 0 /\ elections < MaxElections
    /\ leader' = elections + 1 /\ elections' = elections + 1
    /\ UNCHANGED <<partitioned, exists, faults, cache, flights, strays, task, ensuring, applied, canceled>>

\* The leader moves at once, or the bucket is without one for a while.
LoseLeader ==
    /\ leader # 0 /\ elections < MaxElections
    /\ \/ leader' = elections + 1 /\ elections' = elections + 1 /\ UNCHANGED faults
       \/ faults < MaxFaults /\ faults' = faults + 1 /\ leader' = 0 /\ UNCHANGED elections
    /\ UNCHANGED <<partitioned, exists, cache, flights, strays, task, ensuring, applied, canceled>>

-----------------------------------------------------------------------------
(* The cache *)

\* lookupPhysical: what the read under mu finds.
lookupPhysical == IF cached THEN route ELSE Missing

\* Mutant: stale metadata stay.
InvalidatePhysicalNot == UNCHANGED cache

InvalidatePhysical ==
    IF partitioned
      THEN route' = (IF cached THEN Missing ELSE route) /\ UNCHANGED cached
      ELSE cached' = FALSE /\ route' = Missing

Goes(c, pc) == task' = [task EXCEPT ![c].pc = pc]
\* The call, or the check of a creator, is over.
Returns(c, err) == task' = [task EXCEPT ![c].pc = "returned", ![c].ret = err]

-----------------------------------------------------------------------------
(* routePhysical and RequestBucket *)

RoutePhysical(c) ==
    /\ task[c].pc = "route"
    /\ CASE lookupPhysical > 0 -> task' = [task EXCEPT ![c].pc = IF c \in Creators THEN "returned" ELSE "send",
                                                       ![c].node = route, ![c].ret = "nil"]
         [] lookupPhysical = 0 -> Returns(c, "noLeader")
         [] OTHER -> Goes(c, IF partitioned THEN "prepare" ELSE "joinTable")
    /\ UNCHANGED <<server, faults, cache, flights, strays, ensuring, applied, canceled>>

\* refreshPhysical: preparePhysicalRefresh looks for the table first.  checking
\* is the forced refresh of checkPartition.
PrepareRefresh(c) ==
    /\ task[c].pc \in {"prepare", "prepareForced"}
    /\ Goes(c, CASE task[c].pc = "prepare" /\ cached -> "joinPartition"
                 [] task[c].pc = "prepare" /\ ~cached -> "joinTable"
                 [] task[c].pc = "prepareForced" /\ cached -> "joinForced"
                 [] OTHER -> "joinTableForced")
    /\ UNCHANGED <<server, faults, cache, flights, strays, ensuring, applied, canceled>>

Joins(k, c, force) ==
    flights' = [flights EXCEPT ![k] =
        IF flights[k] = NoFlight THEN [pc |-> "check", force |-> force, seen |-> Missing, parts |-> FALSE, waiters |-> {c}]
                                 ELSE [flights[k] EXCEPT !.waiters = @ \union {c}]]

\* flights.Do: Refresh is forced for an unpartitioned table, and only fills a
\* gap for a partitioned one; partitionFlights.Do is forced in RefreshPhysical.
Join(c) ==
    /\ \/ task[c].pc = "joinTable" /\ Joins("table", c, ~partitioned) /\ Goes(c, "awaitTable")
       \/ task[c].pc = "joinTableForced" /\ Joins("table", c, FALSE) /\ Goes(c, "awaitTableForced")
       \/ task[c].pc = "joinPartition" /\ Joins("partition", c, FALSE) /\ Goes(c, "awaitPartition")
       \/ task[c].pc = "joinForced" /\ Joins("partition", c, TRUE) /\ Goes(c, "awaitForced")
    /\ UNCHANGED <<server, faults, cache, strays, ensuring, applied, canceled>>

\* lookupPhysicalRequired, after the refresh.
LookupRequired(c) ==
    /\ task[c].pc = "required"
    /\ CASE lookupPhysical > 0 -> task' = [task EXCEPT ![c].pc = IF c \in Creators THEN "returned" ELSE "send",
                                                       ![c].node = route, ![c].ret = "nil"]
         [] lookupPhysical = 0 -> Returns(c, "noLeader")
         [] OTHER -> Returns(c, "unknownBucket")
    /\ UNCHANGED <<server, faults, cache, flights, strays, ensuring, applied, canceled>>

\* The leader applies the request and answers.
SendOk(c) ==
    /\ task[c].pc = "send" /\ task[c].node = leader
    /\ applied' = [applied EXCEPT ![c] = @ + 1]
    /\ Returns(c, "nil")
    /\ UNCHANGED <<server, faults, cache, flights, strays, ensuring, canceled>>

\* A server that is not the leader refuses the request: with an RPC error, which
\* is rerouted once, or in the body of the answer, which the backend passes on
\* after it invalidated the route.
SendStale(c, inBody) ==
    /\ task[c].pc = "send" /\ task[c].node # leader
    /\ IF inBody THEN InvalidatePhysical /\ Returns(c, "metadata")
       ELSE IF task[c].attempt = 1
         THEN InvalidatePhysical /\ task' = [task EXCEPT ![c].pc = "route", ![c].attempt = 2]
         ELSE Returns(c, "metadata") /\ UNCHANGED cache
    /\ UNCHANGED <<server, faults, flights, strays, ensuring, applied, canceled>>

\* Mutant: a request whose connection broke is sent again.
brokenReplayed(c) == IF task[c].attempt = 1 THEN task' = [task EXCEPT ![c].pc = "route", ![c].attempt = 2]
                                            ELSE Returns(c, "connection")

\* A connection that breaks invalidates the route for the next call, and the
\* request is not replayed: it may have been applied.
broken(c) == Returns(c, "connection")

\* The connection breaks before or after the request was applied.
SendBroken(c) ==
    /\ task[c].pc = "send" /\ faults < MaxFaults /\ faults' = faults + 1
    /\ \/ UNCHANGED applied
       \/ task[c].node = leader /\ applied' = [applied EXCEPT ![c] = @ + 1]
    /\ IF task[c].attempt = 1 THEN InvalidatePhysical ELSE UNCHANGED cache
    /\ broken(c)
    /\ UNCHANGED <<server, flights, strays, ensuring, canceled>>

\* The application, a writer or a scanner sends its next request.
NextRequest(c) ==
    /\ c \in Requesters \ canceled /\ task[c].pc = "returned"
    /\ task' = [task EXCEPT ![c] = [pc |-> "route", attempt |-> 1, node |-> 0, ret |-> "none"]]
    /\ applied' = [applied EXCEPT ![c] = 0]
    /\ UNCHANGED <<server, faults, cache, flights, strays, ensuring, canceled>>

-----------------------------------------------------------------------------
(* Flights *)

Ends(k, err) ==
    /\ flights' = [flights EXCEPT ![k] = NoFlight]
    /\ task' = [c \in Callers |-> IF c \notin flights[k].waiters THEN task[c]
         ELSE IF err # "nil" THEN [task[c] EXCEPT !.pc = "returned", !.ret = err]
         ELSE [task[c] EXCEPT !.pc = CASE @ = "awaitTable" /\ partitioned -> "joinPartition"
                                       [] @ = "awaitTableForced" -> "joinForced"
                                       [] @ = "awaitForced" -> "route"
                                       [] OTHER -> "required"]]

\* An unforced refresh looks at the cache again before it fetches.
FlightChecks(k) ==
    /\ flights[k].pc = "check"
    /\ IF ~flights[k].force /\ (IF k = "table" THEN cached ELSE lookupPhysical # Missing)
         THEN Ends(k, "nil")
         ELSE flights' = [flights EXCEPT ![k].pc = "fetch"] /\ UNCHANGED task
    /\ UNCHANGED <<server, faults, cache, strays, ensuring, applied, canceled>>

\* The coordinator answers with what it knows now.  The answer for a table may
\* list its partitions; one for a missing partition is an error.
FlightAnswered(k, parts) ==
    /\ flights[k].pc = "fetch"
    /\ IF k = "partition" /\ ~exists
         THEN Ends(k, "unknownPartition")
         ELSE /\ flights' = [flights EXCEPT ![k].pc = "apply", ![k].seen = leader, ![k].parts = parts /\ exists]
              /\ UNCHANGED task
    /\ UNCHANGED <<server, faults, cache, strays, ensuring, applied, canceled>>

\* The request fails, the coordinator refuses it, or its answer names a leader
\* that is not among the servers it lists.
FlightFails(k, err) ==
    /\ flights[k].pc = "fetch" /\ faults < MaxFaults /\ faults' = faults + 1
    /\ Ends(k, err)
    /\ UNCHANGED <<server, cache, strays, ensuring, applied, canceled>>

\* The table's entry is replaced as a whole, a partition's within its table.
Applies(k, seen, parts) ==
    IF k = "table" THEN cached' = TRUE /\ route' = IF partitioned /\ ~parts THEN Missing ELSE seen
                   ELSE route' = (IF cached THEN seen ELSE route) /\ UNCHANGED cached

FlightApplies(k) ==
    /\ flights[k].pc = "apply"
    /\ Applies(k, flights[k].seen, flights[k].parts)
    /\ Ends(k, IF k = "partition" /\ ~cached THEN "unknownTable" ELSE "nil")
    /\ UNCHANGED <<server, faults, strays, ensuring, applied, canceled>>

\* A caller whose context ends leaves its flight; the last one abandons it.
GiveUp(c, k) ==
    /\ c \in canceled /\ flights[k] # NoFlight /\ c \in flights[k].waiters
    /\ LET left == flights[k].waiters \ {c} IN
         /\ flights' = [flights EXCEPT ![k] = IF left = {} THEN NoFlight ELSE [flights[k] EXCEPT !.waiters = left]]
         /\ strays' = IF left = {} /\ flights[k].pc = "apply"
                        THEN strays \union {[key |-> k, seen |-> flights[k].seen, parts |-> flights[k].parts]} ELSE strays
    /\ Returns(c, "context")
    /\ UNCHANGED <<server, faults, cache, ensuring, applied, canceled>>

\* An abandoned flight that has its answer still stores it.
StrayApplies(f) ==
    /\ Applies(f.key, f.seen, f.parts) /\ strays' = strays \ {f}
    /\ UNCHANGED <<server, faults, flights, task, ensuring, applied, canceled>>

Cancel(c) ==
    /\ c \in Cancelable \ canceled /\ canceled' = canceled \union {c}
    /\ UNCHANGED <<server, faults, cache, flights, strays, task, ensuring, applied>>

-----------------------------------------------------------------------------
(* dynamicPartitionCreator.ensure; an unpartitioned table has nothing to do *)

pendingPartitionMetadata(err) == err \in {"unknownPartition", "noLeader", "metadata"}

\* Mutant: metadata that are still pending count as success.
EnsureEndsAnyway(c, err) ==
    ensuring' = [ensuring EXCEPT ![c].pc = IF pendingPartitionMetadata(err) THEN "nil" ELSE err]

EnsureEnds(c, err) == ensuring' = [ensuring EXCEPT ![c].pc = err]

\* checkPartition: invalidate, then refresh and route.
CheckPartition(c) ==
    /\ ensuring[c].pc \in {"start", "again"}
    /\ IF ~partitioned
         THEN EnsureEnds(c, "nil") /\ UNCHANGED <<task, cache>>
         ELSE /\ InvalidatePhysical /\ Goes(c, "prepareForced")
              /\ ensuring' = [ensuring EXCEPT ![c].pc = IF ensuring[c].pc = "start" THEN "first" ELSE "checking"]
    /\ UNCHANGED <<server, faults, flights, strays, applied, canceled>>

\* The first check decides whether the partition is created.
FirstChecked(c) ==
    /\ ensuring[c].pc = "first" /\ task[c].pc = "returned" /\ Goes(c, "idle")
    /\ CASE task[c].ret = "unknownPartition" -> ensuring' = [ensuring EXCEPT ![c].pc = "create"]
         [] pendingPartitionMetadata(task[c].ret) /\ task[c].ret # "unknownPartition" -> ensuring' = [ensuring EXCEPT ![c].pc = "again"]
         [] OTHER -> ensuring' = [ensuring EXCEPT ![c].pc = task[c].ret]
    /\ UNCHANGED <<server, faults, cache, flights, strays, applied, canceled>>

\* createPartition asks to ignore a partition that exists by now; the answer may
\* be an error whether or not the partition was created.
CreatePartition(c) ==
    /\ ensuring[c].pc = "create"
    /\ \/ exists' = TRUE /\ ensuring' = [ensuring EXCEPT ![c].pc = "again"] /\ UNCHANGED faults
       \/ /\ faults < MaxFaults /\ faults' = faults + 1 /\ ensuring' = [ensuring EXCEPT ![c].pc = "createFailed"]
          /\ exists' \in {exists, TRUE}
    /\ UNCHANGED <<partitioned, leader, elections, cache, flights, strays, task, applied, canceled>>

\* A later check: done, or pending until MetadataAttempts checks have been made.
Checked(c) ==
    /\ ensuring[c].pc = "checking" /\ task[c].pc = "returned" /\ Goes(c, "idle")
    /\ IF pendingPartitionMetadata(task[c].ret) /\ ensuring[c].checks + 1 < MetadataAttempts
         THEN ensuring' = [ensuring EXCEPT ![c] = [pc |-> IF c \in canceled THEN "context" ELSE "again", checks |-> @.checks + 1]]
         ELSE EnsureEnds(c, task[c].ret)
    /\ UNCHANGED <<server, faults, cache, flights, strays, applied, canceled>>

-----------------------------------------------------------------------------
CallerStep(c) ==
    \/ RoutePhysical(c) \/ PrepareRefresh(c) \/ Join(c) \/ LookupRequired(c)
    \/ \E k \in Keys : GiveUp(c, k)
    \/ SendOk(c) \/ SendStale(c, FALSE) \/ NextRequest(c)

CreatorStep(c) == CheckPartition(c) \/ FirstChecked(c) \/ CreatePartition(c) \/ Checked(c)

FlightStep(k) == FlightChecks(k) \/ (\E parts \in BOOLEAN : FlightAnswered(k, parts)) \/ FlightApplies(k)

Next ==
    \/ \E c \in Callers : CallerStep(c) \/ SendStale(c, TRUE) \/ SendBroken(c) \/ Cancel(c)
    \/ \E c \in Creators : CreatorStep(c)
    \/ \E k \in Keys : FlightStep(k) \/ \E err \in {"request", "metadata", "noLeader"} : FlightFails(k, err)
    \/ \E f \in strays : StrayApplies(f)
    \/ Elect \/ LoseLeader

Spec == Init /\ [][Next]_vars

\* Goroutines keep running, the coordinator answers, and a bucket that exists
\* gets a leader.
FairSpec ==
    /\ Spec
    /\ \A c \in Callers : WF_vars(CallerStep(c))
    /\ \A c \in Creators : WF_vars(CreatorStep(c))
    /\ \A k \in Keys : WF_vars(FlightStep(k))
    /\ WF_vars(Elect)

-----------------------------------------------------------------------------
FlightTypes == {NoFlight} \union
    [pc : {"check", "fetch", "apply"}, force : BOOLEAN, seen : Entries, parts : BOOLEAN, waiters : SUBSET Callers]

RouterTypeOK ==
    /\ leader \in 0 .. elections /\ elections <= MaxElections /\ faults <= MaxFaults
    /\ route \in Entries /\ (route # Missing => cached)
    /\ \A k \in Keys : flights[k] \in FlightTypes /\ (flights[k] # NoFlight => flights[k].waiters # {})
    /\ canceled \subseteq Cancelable

\* One call of RequestBucket applies its request at most once: only a request
\* that a server refused is rerouted, never one whose connection broke.
AppliedOnce == \A c \in Callers : applied[c] <= 1

\* A creator whose ensure returned nil has a partition that exists and had a
\* leader: metadata of before the creation never satisfy it.
EnsuredExists ==
    \A c \in Creators : partitioned /\ ensuring[c].pc = "nil" => exists /\ elections > 0

\* Routing heals: however leaders moved, connections broke and refreshes that
\* began earlier stored what they had seen, once that stops every caller that
\* goes on gets through to the leader again, unless a bucket was cached while it
\* had no leader.
RoutingHeals ==
    [](lookupPhysical # 0) => \A c \in Requesters : []<>(applied[c] = 1 \/ c \in canceled \/ ~exists)

\* Routing heals also from metadata that were fetched during an election.
LeaderlessRouteHeals ==
    <>[](leader # 0) => \A c \in Requesters : []<>(applied[c] = 1 \/ c \in canceled)
=============================================================================
