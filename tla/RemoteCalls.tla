----------------------------- MODULE RemoteCalls -----------------------------
(***************************************************************************)
(* The remote operations end to end: a connection is opened (Session), and   *)
(* a call then builds its request (AdminRequests, DataRequests), sends it    *)
(* with the negotiated version, and turns the answer of the servers          *)
(* (FlussServer) into what the caller gets.  A request or its answer may be  *)
(* lost, before or after the servers acted on it, and other clients change   *)
(* the cluster in between.  GetTable is two requests around the schema       *)
(* cache, WaitRebalance polls, and ListOffsets and GetTableStats ask for     *)
(* one bucket after the other.                                              *)
(***************************************************************************)
EXTENDS Session, DataRequests

CONSTANTS
  Clusters, Calls, Others,   \* as in FlussService
  MaxSchemas,                \* defaultSchemaCacheEntries
  MaxCalls                   \* bound: calls of one behaviour

VARIABLES
  cluster, area, current, results, done, last, late,   \* as in FlussService
  wire,       \* <<>>, or the request in flight with its answer, if any yet
  info,       \* <<>>, or the GetTableInfo answer whose schema is being fetched
  cache,      \* schemaCache.entries, the one used longest ago first
  calls       \* how many calls there were

Server == INSTANCE FlussServer
Service == INSTANCE FlussService WITH late <- [i \in DOMAIN late |-> late[i].part]

serviceVars == <<cluster, area, current, results, done, last, late>>
remoteVars == <<sessionVars, serviceVars, wire, info, cache, calls>>
-----------------------------------------------------------------------------
(* Requests and answers of every operation                                 *)

WaitRebalance(c) == IF c.interval =< 0 THEN Refused ELSE ListRebalanceProgress(c)

GetTableInfo(c) == SendIf(validPath(c.path), "GetTableInfo", [table_path |-> pbTablePath(c.path)])

TableRequest(c) ==
  CASE c.op = "CreateDatabase" -> CreateDatabase(c)
    [] c.op = "AlterDatabase" -> AlterDatabase(c)
    [] c.op = "DropDatabase" -> DropDatabase(c)
    [] c.op = "DatabaseExists" -> DatabaseExists(c)
    [] c.op = "GetDatabaseInfo" -> GetDatabaseInfo(c)
    [] c.op = "ListDatabaseSummaries" -> ListDatabaseSummaries(c)
    [] c.op = "CreateTable" -> CreateTable(c)
    [] c.op = "DropTable" -> DropTable(c)
    [] c.op = "AlterTable" -> AlterTable(c)
    [] c.op = "ListTables" -> ListTables(c)
    [] c.op = "TableExists" -> TableExists(c)
    [] c.op = "GetTable" -> GetTableInfo(c)
    [] c.op = "GetTableSchema" -> GetTableSchema(c)
    [] c.op = "CreatePartition" -> CreatePartition(c)
    [] c.op = "DropPartition" -> DropPartition(c)
    [] c.op = "ListPartitionInfos" -> ListPartitionInfos(c)

TableValue(c, m) ==
  CASE c.op \in {"DatabaseExists", "TableExists"} -> Returns(m.exists)
    [] c.op = "GetDatabaseInfo" -> Returns(DatabaseInfo(c, m))
    [] c.op = "ListDatabaseSummaries" -> Returns(DatabaseSummaries(m))
    [] c.op = "ListTables" -> Returns(TablePaths(c, m))
    [] c.op = "GetTableSchema" -> parsedSchema(m)
    [] c.op = "ListPartitionInfos" -> Returns(PartitionInfos(m))
    [] OTHER -> Done

ReadRequest(c) ==
  CASE c.op = "ListOffset" -> listOffset(c, c.bucket)
    [] c.op = "TableStats" -> tableStats(c, c.bucket)
    [] c.op = "GetLatestKVSnapshots" -> GetLatestKVSnapshots(c)
    [] c.op = "ListKVSnapshots" -> ListKVSnapshots(c)
    [] c.op = "GetKVSnapshotMetadata" -> GetKVSnapshotMetadata(c)
    [] c.op = "ListRemoteLogManifests" -> ListRemoteLogManifests(c)
    [] c.op = "GetLakeSnapshot" -> getLakeSnapshot(c)

ReadValue(c, m) ==
  CASE c.op = "ListOffset" -> Returns(OffsetResult(m, c.bucket))
    [] c.op = "TableStats" -> Returns(TableStats(c, m, c.bucket))
    [] c.op = "GetLatestKVSnapshots" -> Returns(LatestKVSnapshots(m))
    [] c.op = "ListKVSnapshots" -> Returns(ActiveKVSnapshots(m))
    [] c.op = "GetKVSnapshotMetadata" -> Returns(KVSnapshotMetadata(m))
    [] c.op = "ListRemoteLogManifests" -> Returns(RemoteLogManifests(m))
    [] c.op = "GetLakeSnapshot" -> Returns(LakeSnapshot(m))

AdminRequest(c) ==
  CASE c.op = "AcquireKVSnapshotLease" -> AcquireKVSnapshotLease(c)
    [] c.op = "RenewKVSnapshotLease" -> RenewKVSnapshotLease(c)
    [] c.op = "ReleaseKVSnapshotLease" -> ReleaseKVSnapshotLease(c)
    [] c.op = "DropKVSnapshotLease" -> DropKVSnapshotLease(c)
    [] c.op = "RegisterProducerOffsets" -> RegisterProducerOffsets(c)
    [] c.op = "GetProducerOffsets" -> GetProducerOffsets(c)
    [] c.op = "DeleteProducerOffsets" -> DeleteProducerOffsets(c)
    [] c.op = "CreateACLs" -> CreateACLs(c)
    [] c.op = "ListACLs" -> ListACLs(c)
    [] c.op = "DropACLs" -> DropACLs(c)
    [] c.op = "DescribeClusterConfigs" -> DescribeClusterConfigs(c)
    [] c.op = "AlterClusterConfigs" -> AlterClusterConfigs(c)
    [] c.op = "AddServerTag" -> AddServerTag(c)
    [] c.op = "RemoveServerTag" -> RemoveServerTag(c)
    [] c.op = "GetClusterHealth" -> GetClusterHealth(c)
    [] c.op = "GetServerNodes" -> GetServerNodes(c)
    [] c.op = "GetFileSystemSecurityToken" -> GetFileSystemSecurityToken(c)
    [] c.op = "Rebalance" -> Rebalance(c)
    [] c.op = "ListRebalanceProgress" -> ListRebalanceProgress(c)
    [] c.op = "WaitRebalance" -> WaitRebalance(c)
    [] c.op = "CancelRebalance" -> CancelRebalance(c)

AdminValue(c, m) ==
  CASE c.op = "AcquireKVSnapshotLease" -> Returns(UnavailableSnapshots(m))
    [] c.op = "RegisterProducerOffsets" -> Returns(Registered(m))
    [] c.op = "GetProducerOffsets" -> Returns(ProducerOffsets(m))
    [] c.op = "CreateACLs" -> CreatedACLs(c, m)
    [] c.op = "ListACLs" -> ListedACLs(m)
    [] c.op = "DropACLs" -> DroppedACLs(c, m)
    [] c.op = "DescribeClusterConfigs" -> Returns(ConfigEntries(m))
    [] c.op = "GetClusterHealth" -> Returns(ClusterHealth(m))
    [] c.op = "GetServerNodes" -> ServerNodes(m)
    [] c.op = "GetFileSystemSecurityToken" -> Returns(FileSystemSecurityToken(m))
    [] c.op = "Rebalance" -> RebalanceID(m)
    [] c.op \in {"ListRebalanceProgress", "WaitRebalance"} -> Returns(RebalanceProgress(m))
    [] OTHER -> Done

DataRequest(c) ==
  CASE c.op = "InitWriter" -> initWriter(c)
    [] c.op = "ProduceLog" -> produce(c)
    [] c.op = "PutKv" -> put(c)
    [] c.op = "Lookup" -> lookup(c)
    [] c.op = "PrefixLookup" -> prefixLookup(c)
    [] c.op = "FetchLog" -> fetch(c)
    [] c.op = "LimitScan" -> limitScan(c)
    [] c.op = "ScanKv" -> scanKV(c)
    [] c.op = "TableMetadata" -> fetchTableMetadata(c)
    [] c.op = "PartitionMetadata" -> fetchPartitionMetadata(c)

\* Remote storage: the tiered prefix of every log, in one segment.
segmentStore == [id \in DOMAIN cluster.logs |-> SubSeq(cluster.logs[id], 1, cluster.tiered)]

DataValue(c, m) ==
  CASE c.op = "InitWriter" -> Returns(Get(m, "writer_id", 0))
    [] c.op = "ProduceLog" -> produced(c, m)
    [] c.op = "PutKv" -> putResult(c, m)
    [] c.op = "Lookup" -> lookedUp(c, m)
    [] c.op = "PrefixLookup" -> prefixes(c, m)
    [] c.op = "FetchLog" -> fetched(c, m, segmentStore)
    [] c.op = "LimitScan" -> limitScanned(m)
    [] c.op = "ScanKv" -> scannedKV(m)
    [] c.op = "TableMetadata" -> tableMetadataFromResponse(c, m)
    [] c.op = "PartitionMetadata" -> partitionMetadataFromResponse(c, m)

TableOps == {"CreateDatabase", "AlterDatabase", "DropDatabase", "DatabaseExists", "GetDatabaseInfo",
             "ListDatabaseSummaries", "CreateTable", "DropTable", "AlterTable", "ListTables",
             "TableExists", "GetTable", "GetTableSchema", "CreatePartition", "DropPartition",
             "ListPartitionInfos"}
ReadOps == {"ListOffset", "TableStats", "GetLatestKVSnapshots", "ListKVSnapshots",
            "GetKVSnapshotMetadata", "ListRemoteLogManifests", "GetLakeSnapshot"}
DataOps == {"InitWriter", "ProduceLog", "PutKv", "Lookup", "PrefixLookup", "FetchLog", "LimitScan",
            "ScanKv", "TableMetadata", "PartitionMetadata"}

RequestOf(c) ==
  CASE c.op \in TableOps -> TableRequest(c)
    [] c.op \in ReadOps -> ReadRequest(c)
    [] c.op \in DataOps -> DataRequest(c)
    [] c.op \notin TableOps \cup ReadOps \cup DataOps -> AdminRequest(c)

ValueOf(c, m) ==
  CASE c.op \in TableOps -> TableValue(c, m)
    [] c.op \in ReadOps -> ReadValue(c, m)
    [] c.op \in DataOps -> DataValue(c, m)
    [] c.op \notin TableOps \cup ReadOps \cup DataOps -> AdminValue(c, m)

-----------------------------------------------------------------------------
(* The schema cache                                                        *)

found(entries, key) == {i \in DOMAIN entries : entries[i].key = key}
unused(entries, key) == SelectSeq(entries, LAMBDA e : e.key # key)

\* A lookup that hits makes the entry the one used last.
cached(entries, key) ==
  LET hit == found(entries, key)
  IN IF hit = {} THEN entries
     ELSE Append(unused(entries, key), entries[CHOOSE i \in hit : TRUE])

\* An entry that is added beyond the limit drops the one used longest ago.
store(entries, key, schema) ==
  LET all == Append(unused(entries, key), [key |-> key, schema |-> schema])
  IN IF Len(all) > MaxSchemas THEN Tail(all) ELSE all

\* GetTable puts the keys of the table's descriptor into the schema.
tableOf(m, schema) ==
  LET keyed == [schema EXCEPT !.bucketKey = m.table_json.bucket_key,
                              !.partitionKey = m.table_json.partition_key]
  IN IF ~S!validSchema(keyed) THEN Failed("ErrInvalidSchema")
     ELSE Returns([ID |-> m.table_id, SchemaID |-> m.schema_id, Schema |-> keyed,
                   BucketCount |-> m.table_json.bucket_count, Properties |-> m.table_json.properties])

\* fetchSchema: the answer must be about the schema that was asked for.
fetchSchema(m, id) ==
  IF m.schema_id # id THEN Failed("ErrInvalidSchema")
  ELSE LET schema == parsedSchema(m)
       IN IF schema.err = "none" /\ ~S!validSchema(schema.value) THEN Failed("ErrInvalidSchema")
          ELSE schema
-----------------------------------------------------------------------------
(* The steps of a call                                                     *)

Parts(c) ==
  CASE c.op = "ListOffsets" -> [i \in DOMAIN c.buckets |-> [op |-> "ListOffset", bucket |-> c.buckets[i]] @@ c]
    [] c.op = "GetTableStats" -> [i \in DOMAIN c.buckets |-> [op |-> "TableStats", bucket |-> c.buckets[i]] @@ c]
    [] c.op \notin {"ListOffsets", "GetTableStats"} -> <<c>>

Part == Parts(current[2])[1 + Len(results)]

\* The part in progress is over; the call returns with its last part.
Return(ended) ==
  LET outcome == <<ended.err, ended.value>> IN
  /\ IF Len(results) + 1 < Len(Parts(current[2]))
     THEN results' = Append(results, outcome) /\ UNCHANGED <<current, last>>
     ELSE /\ last' = Append(current, Append(results, outcome))
          /\ current' = <<>> /\ results' = <<>>
  /\ done' = <<>>
  /\ wire' = <<>> /\ info' = <<>>

Invoke ==
  /\ phase = "ready" /\ current = <<>>
  /\ calls < MaxCalls /\ calls' = calls + 1
  /\ \E i \in DOMAIN Calls[area] : current' = <<Calls[area][i].op, Calls[area][i]>>
  /\ last' = <<>>
  /\ UNCHANGED <<cluster, area, results, done, late, wire, info, cache, sessionVars>>

RoutedOps == {"InitWriter", "ProduceLog", "PutKv", "Lookup", "PrefixLookup", "FetchLog", "ListOffset",
              "TableStats"}

\* The next request of the call: the schema of the table that GetTable asked
\* for, or the request of the part.
NextRequest ==
  IF info # <<>>
  THEN Send("GetTableSchema", [table_path |-> pbTablePath(Part.path), schema_id |-> info[1].schema_id])
  ELSE RequestOf(Part)

\* RequestBucket adds the routing bucket count, request the version.
Outgoing(built) ==
  LET message == IF Part.op \in RoutedOps
                 THEN setRoutingBucketCount(built.APIKey, built.Message, Part.bucketCount)
                 ELSE built.Message
  IN SetVersion(NewRequest(built.APIKey, message), versions[built.APIKey])

\* The calls that check their arguments differ only in the error they report.
refusal(c) == IF c.op = "ScanKv" THEN "ErrMetadata" ELSE "ErrInvalidConfig"

SendRequest ==
  /\ current # <<>> /\ wire = <<>>
  /\ \E built \in {NextRequest} :
       CASE ~built.ok -> Return(Failed(refusal(Part)))
         [] built.ok /\ built.APIKey \notin DOMAIN versions -> Return(Failed("ErrUnsupportedAPI"))
         [] built.ok /\ built.APIKey \in DOMAIN versions ->
              \E request \in {Outgoing(built)} :
                IF ~Marshals(request) THEN Return(Failed("proto: required field not set"))
                ELSE /\ wire' = <<[request |-> request, answer |-> <<>>]>>
                     /\ UNCHANGED <<current, results, done, last, info>>
  /\ UNCHANGED <<cluster, area, late, cache, sessionVars, calls>>

\* A server acts on the request and answers it.  What GetTable returns was
\* the state of the table when its first request was served.
Serve ==
  /\ wire # <<>> /\ wire[1].answer = <<>>
  /\ \E call \in {Server!CallOf(cluster, wire[1].request.APIKey, wire[1].request.Message)} :
     \E does \in {Service!Does(cluster, call)} :
       /\ cluster' = does.cluster
       /\ wire' = [wire EXCEPT ![1].answer =
                     <<Server!AnswerOf(cluster, wire[1].request.APIKey, call, does)>>]
       /\ done' = IF info = <<>> THEN <<Service!Outcome(call, does)>> ELSE done
  /\ UNCHANGED <<area, current, results, last, late, info, cache, sessionVars, calls>>

\* The connection breaks or the context ends: the client does not learn
\* whether the servers acted, and they may still act later.
Lose ==
  /\ wire # <<>>
  /\ \/ UNCHANGED late
     \/ wire[1].answer = <<>> /\ late = <<>> /\ late' = <<[request |-> wire[1].request, part |-> Part]>>
  /\ \E error \in {"ErrTransport", "canceled"} : Return(Failed(error))
  /\ UNCHANGED <<cluster, area, cache, sessionVars, calls>>

ServeLate ==
  /\ late # <<>>
  /\ LET call == Server!CallOf(cluster, late[1].request.APIKey, late[1].request.Message)
     IN cluster' = Service!Does(cluster, call).cluster
  /\ late' = <<>>
  /\ UNCHANGED <<area, current, results, done, last, wire, info, cache, sessionVars, calls>>

\* The table is complete: it is returned, and its schema kept.
GotTable(m, schema, entries) ==
  \E table \in {tableOf(m, schema)} :
    /\ Return(table)
    /\ cache' = IF table.err = "none"
                THEN store(entries, <<Part.path, m.schema_id>>, table.value.Schema) ELSE entries

\* The answer to GetTableInfo: the schema may be in the cache.
GotTableInfo(m) ==
  \E entries \in {cached(cache, <<Part.path, m.schema_id>>)} :
    IF found(cache, <<Part.path, m.schema_id>>) # {}
    THEN GotTable(m, entries[Len(entries)].schema, entries)
    ELSE /\ info' = <<m>> /\ wire' = <<>>
         /\ UNCHANGED <<current, results, done, last, cache>>

GotSchema(m) ==
  \E schema \in {fetchSchema(m, info[1].schema_id)} :
    IF schema.err # "none" THEN Return(schema) /\ UNCHANGED cache
    ELSE GotTable(info[1], schema.value,
                  store(cache, <<Part.path, info[1].schema_id>>, schema.value))

\* A rebalance that still runs is asked for again after the interval.
PollAgain == wire' = <<>> /\ UNCHANGED <<current, results, done, last, info, cache>>

Receive ==
  /\ wire # <<>> /\ wire[1].answer # <<>>
  /\ \E answer \in {wire[1].answer[1]} :
       CASE answer.err # "none" -> Return(Failed(answer.err)) /\ UNCHANGED cache
         [] answer.err = "none" /\ ~Unmarshals(wire[1].request.APIKey, answer.message) ->
              Return(Failed("proto: required field not set")) /\ UNCHANGED cache
         [] answer.err = "none" /\ Unmarshals(wire[1].request.APIKey, answer.message) ->
              CASE Part.op = "GetTable" /\ info = <<>> -> GotTableInfo(answer.message)
                [] Part.op = "GetTable" /\ info # <<>> -> GotSchema(answer.message)
                [] Part.op # "GetTable" ->
                     \E outcome \in {ValueOf(Part, answer.message)} :
                       IF Part.op = "WaitRebalance" /\ outcome.err = "none" /\ outcome.value.Status = 0
                       THEN PollAgain
                       ELSE Return(outcome) /\ UNCHANGED cache
  /\ UNCHANGED <<cluster, area, late, sessionVars, calls>>

\* The context of WaitRebalance ends between two polls.
StopWaiting ==
  /\ current # <<>> /\ Part.op = "WaitRebalance" /\ wire = <<>> /\ done # <<>>
  /\ Return(Failed("canceled"))
  /\ UNCHANGED <<cluster, area, late, cache, sessionVars, calls>>

Elsewhere ==
  /\ phase = "ready"
  /\ cluster' \in Service!Changed(cluster)
  /\ UNCHANGED <<area, current, results, done, last, late, wire, info, cache, sessionVars, calls>>

Opening ==
  /\ SessionNext
  /\ UNCHANGED <<serviceVars, wire, info, cache, calls>>

RemoteInit ==
  /\ SessionInit
  /\ area \in DOMAIN Calls /\ cluster \in Clusters[area]
  /\ current = <<>> /\ results = <<>> /\ done = <<>> /\ last = <<>> /\ late = <<>>
  /\ wire = <<>> /\ info = <<>> /\ cache = <<>> /\ calls = 0
  /\ auth.used => Calls[area] = <<>>

RemoteNext ==
  \/ Opening \/ Invoke \/ SendRequest \/ Serve \/ Lose \/ ServeLate \/ Receive \/ StopWaiting \/ Elsewhere

\* Opening a connection goes on (Session).
RemoteSpec == RemoteInit /\ [][RemoteNext]_remoteVars /\ WF_remoteVars(Opening /\ SessionStep)

\* Every remote operation does what its caller asked for, once, and returns
\* what the servers computed, or an error of the client: nothing is lost or
\* changed on the way to and from the messages (pkg/fadm, the backends of
\* pkg/fgo, model.go GetTable).
ImplementsService == Service!Spec

\* The table that GetTable returned has the schema the table has, when it is
\* still the same table (model.go:524, GetTable loads authoritative metadata
\* and schema).
TableIsAuthoritative ==
  last # <<>> /\ last[1] = "GetTable" /\ last[3][1][1] = "none" =>
      LET got == last[3][1][2]
          path == last[2].path
      IN path \in DOMAIN cluster.tables /\ cluster.tables[path].id = got.ID =>
           got.Schema = cluster.tables[path].schemas[got.SchemaID]
=============================================================================
