---------------------------- MODULE MCRemoteCalls ----------------------------
(***************************************************************************)
(* A small cluster, a few calls of every operation grouped by what they are *)
(* about, and what other clients do meanwhile.                              *)
(***************************************************************************)
EXTENDS RemoteCalls

NoMap == [x \in {} |-> x]
P1 == [Database |-> "db1", Table |-> "t1"]
P2 == [Database |-> "db1", Table |-> "t2"]
NoPath == [Database |-> "db1", Table |-> ""]

Integer == S!LogicalType("INTEGER")
Text == [S!LogicalType("STRING") EXCEPT !.nullable = TRUE]
column(name, type, id) ==
  [name |-> name, kind |-> S!dataTypeForLogicalType(type), nullable |-> type.nullable,
   logical |-> <<type>>, id |-> id]
Keyed == [S!Schema(<<column("a", Integer, 0), column("b", Text, 1)>>)
            EXCEPT !.primaryKey = <<"a">>, !.bucketKey = <<"a">>, !.highest = 1]
Plain2 == [S!Schema(<<column("b", Text, 0)>>) EXCEPT !.highest = 0]

snapshot(b, id) == [Bucket |-> b, SnapshotID |-> id, LogOffset |-> 7, Available |-> TRUE]
NoSnapshot == [Bucket |-> 1, SnapshotID |-> 0, LogOffset |-> 0, Available |-> FALSE]
lease(t, p, b) == [TableID |-> t, PartitionID |-> p, Bucket |-> b, SnapshotID |-> 3]
server(id, host, type, rack) == [ID |-> id, Host |-> host, Port |-> 9123, ServerType |-> type, Rack |-> rack]
binding(name, host) ==
  [ResourceName |-> name, ResourceType |-> 3, PrincipalName |-> "u", PrincipalType |-> "User",
   Host |-> host, Operation |-> 3, Permission |-> 2]
moved(p) ==
  [PartitionID |-> p, Bucket |-> 0, Status |-> 1, OriginalLeader |-> 1, NewLeader |-> 2,
   OriginalReplicas |-> <<1>>, NewReplicas |-> <<2, 3>>]

\* Rows by field ID; the bucket <<5, -1, 0>> is unpartitioned.
row(a, b) == (0 :> <<a>>) @@ (1 :> b)
B0 == <<5, -1, 0>>
B1 == <<5, 9, 1>>

Cluster ==
  [databases |-> ("db1" :> [comment |-> "", properties |-> ("p" :> {"w"}), created |-> 5, modified |-> 0]),
   summaries |-> TRUE,
   tables |-> (P1 :> [id |-> 1, schemas |-> <<Keyed>>, bucketCount |-> 2, properties |-> NoMap]),
   nextTable |-> 2,
   partitions |-> (P1 :> <<[ID |-> 8, Spec |-> [day |-> "1", region |-> "x"]]>>), nextPartition |-> 9,
   offsets |-> (B0 :> [earliest |-> 2, latest |-> 6]) @@ (B1 :> [earliest |-> 0, latest |-> 0]),
   latestSnapshots |-> (<<P1, "">> :> [TableID |-> 5, PartitionID |-> -1,
                                       Snapshots |-> <<snapshot(0, 3), NoSnapshot>>])
                       @@ (<<P1, "d1">> :> [TableID |-> 5, PartitionID |-> 9, Snapshots |-> <<>>]),
   activeSnapshots |-> (<<5, 9>> :> [TableID |-> 5, PartitionID |-> 9, Snapshots |-> <<snapshot(1, 4)>>])
                       @@ (<<5, -1>> :> [TableID |-> 5, PartitionID |-> -1, Snapshots |-> <<snapshot(0, 0)>>]),
   snapshotFiles |-> (<<5, 9, 1, 4>> :> [LogOffset |-> 7, Files |-> <<[RemotePath |-> "r", LocalName |-> "l"]>>])
                     @@ (<<5, -1, 0, 0>> :> [LogOffset |-> 0, Files |-> <<>>]),
   manifests |-> (<<5, 9>> :> <<[TableID |-> 5, PartitionID |-> 9, Bucket |-> 1, Path |-> "m", LogEndOffset |-> 4]>>)
                 @@ (<<5, -1>> :> <<[TableID |-> 5, PartitionID |-> -1, Bucket |-> 0, Path |-> "m", LogEndOffset |-> 0]>>),
   lake |-> (<<P1, <<>>, FALSE>> :>
               [TableID |-> 5, SnapshotID |-> 2,
                Buckets |-> <<[PartitionID |-> 9, PartitionName |-> "d1", Bucket |-> 0, LogOffset |-> 3],
                              [PartitionID |-> -1, PartitionName |-> "", Bucket |-> 1, LogOffset |-> 0]>>])
            @@ (<<P1, <<1>>, FALSE>> :> [TableID |-> 5, SnapshotID |-> 1, Buckets |-> <<>>])
            @@ (<<P1, <<>>, TRUE>> :> [TableID |-> 5, SnapshotID |-> 0, Buckets |-> <<>>]),
   leases |-> NoMap, available |-> {lease(5, -1, 0), lease(5, -1, 1), lease(6, 9, 0)},
   producers |-> NoMap, busy |-> {"p2"},
   acls |-> <<binding("t1", "*")>>,
   configs |-> ("a" :> {"w"}), tags |-> {},
   health |-> [Replicas |-> 3, InSyncReplicas |-> 2, LeaderReplicas |-> 1, ActiveLeaderReplicas |-> 0, Status |-> 1],
   nodes |-> <<server(0, "h1", "coordinator", ""), server(1, "h1", "tablet", "r"),
               server(2, "h2", "tablet", ""), server(3, "h1", "tablet", "r")>>,
   token |-> [Schema |-> "s3", Token |-> "secret", ExpiresAt |-> 9, AdditionalInfo |-> [endpoint |-> "e"]],
   rebalance |-> [ID |-> "", Status |-> 0, Tables |-> <<[TableID |-> 5, Buckets |-> <<moved(9), moved(-1)>>]>>],
   logs |-> (B0 :> <<row(1, <<"x">>), row(2, <<>>), row(3, <<"y">>)>>) @@ (B1 :> <<row(4, <<>>)>>),
   maps |-> (B0 :> ("k1" :> <<7, 8>>)) @@ (B1 :> NoMap),
   counts |-> (5 :> 2), tiered |-> 1, pressure |-> <<50>>, nextWriter |-> 4,
   filterSchemas |-> (1 :> Keyed),
   layout |-> (P1 :> [id |-> 5, schemaID |-> 1, epoch |-> <<3>>, leaders |-> (0 :> <<1>>) @@ (1 :> <<>>),
                      partitions |-> ("d1" :> [id |-> 9, leaders |-> (1 :> <<2>>), count |-> <<>>])
                                     @@ ("d2" :> [id |-> 10, leaders |-> (0 :> <<7>>), count |-> <<4>>])])
              @@ (P2 :> [id |-> 6, schemaID |-> 2, epoch |-> <<>>, leaders |-> (0 :> <<2>>) @@ (1 :> <<3>>),
                         partitions |-> ("d1" :> [id |-> 11, leaders |-> (0 :> <<1>>), count |-> <<2>>])]),
   tablets |-> (1 :> <<"h1", 9123>>) @@ (2 :> <<"h2", 9123>>) @@ (3 :> <<"h1", 9123>>)]

-----------------------------------------------------------------------------
(* Calls                                                                   *)

RECURSIVE list(_)
list(all) ==
  IF all = {} THEN <<>> ELSE LET c == CHOOSE c \in all : TRUE IN <<c>> \o list(all \ {c})

set(key, word) == [key |-> key, op |-> 0, value |-> <<word>>]
append(key, word) == [key |-> key, op |-> 2, value |-> <<word>>]
delete(key) == [key |-> key, op |-> 1, value |-> <<>>]

createDatabase(name, comment, ignore) ==
  [op |-> "CreateDatabase", name |-> name, comment |-> comment, properties |-> NoMap, ignore |-> ignore]
alterDatabase(name, comment, config, ignore) ==
  [op |-> "AlterDatabase", name |-> name, comment |-> comment, config |-> config, ignore |-> ignore]
dropDatabase(name, cascade) ==
  [op |-> "DropDatabase", name |-> name, ignore |-> cascade, cascade |-> cascade]

DatabaseCalls ==
  <<createDatabase("db2", "words", FALSE), createDatabase("db1", "", TRUE), createDatabase(" db", "", TRUE),
   alterDatabase("db1", <<"new">>, <<append("p", "v")>>, FALSE), alterDatabase("db2", <<"">>, <<>>, TRUE),
   alterDatabase("db1", <<>>, <<delete("p")>>, FALSE), alterDatabase("db1", <<>>, <<[set("q", "v") EXCEPT !.value = <<>>]>>, FALSE),
   dropDatabase("db1", TRUE), dropDatabase("db1", FALSE), dropDatabase("db2", FALSE),
   [op |-> "ListDatabaseSummaries"]>>
  \o list({[op |-> op, name |-> name] : op \in {"DatabaseExists", "GetDatabaseInfo"}, name \in {"db1", "db2"}})

createTable(path, schema, ignore) ==
  [op |-> "CreateTable", path |-> path, schema |-> schema, bucketCount |-> 2, properties |-> NoMap,
   customProperties |-> NoMap, comment |-> "", ignore |-> ignore]
dropTable(path, ignore) == [op |-> "DropTable", path |-> path, ignore |-> ignore]
alterTable(path) ==
  [op |-> "AlterTable", path |-> path, config |-> <<>>, add |-> <<>>, drop |-> <<>>, rename |-> <<>>,
   bucketCount |-> <<>>, ignore |-> FALSE]
addColumn(name, first) ==
  [name |-> name, kind |-> "STRING", type |-> Text, description |-> "", first |-> first]
AddFirst == [alterTable(P1) EXCEPT !.add = <<addColumn("c", TRUE)>>]
Reshape == [alterTable(P1) EXCEPT !.add = <<addColumn("d", FALSE)>>, !.drop = <<"b">>,
                                  !.rename = <<[old |-> "c", new |-> "e"]>>]
Resize == [alterTable(P1) EXCEPT !.bucketCount = <<4>>, !.config = <<set("q", "v")>>]
getTable(path) == [op |-> "GetTable", path |-> path]

TableCalls ==
  <<createTable(P2, Keyed, FALSE), createTable(P1, Plain2, TRUE), createTable(NoPath, Keyed, TRUE),
   dropTable(P1, FALSE), dropTable(P2, TRUE), AddFirst, Resize,
   [AddFirst EXCEPT !.path = P2, !.ignore = TRUE], alterTable(P1)>>
  \o list({[op |-> "TableExists", path |-> path] : path \in {P1, P2}})
  \o list({[op |-> "ListTables", name |-> name] : name \in {"db1", "db2"}})

SchemaCalls ==
  <<getTable(P1), AddFirst, Reshape>>
  \o list({[op |-> "GetTableSchema", path |-> P1, schemaID |-> id] : id \in {-1, 1, 2}})

partition(op, spec, ignore) == [op |-> op, path |-> P1, spec |-> spec, ignore |-> ignore]
Day1 == [day |-> "1", region |-> "x"]
Day2 == [day |-> "2", region |-> "x"]

PartitionCalls ==
  list({partition(op, spec, ignore) : op \in {"CreatePartition", "DropPartition"}, spec \in {Day1, Day2},
                                 ignore \in BOOLEAN})
  \o <<partition("CreatePartition", [day |-> ""], FALSE)>>
  \o list({[op |-> "ListPartitionInfos", path |-> P1, spec |-> spec] : spec \in {NoMap, [day |-> "2"]}})

offsets(partitionID, kind) ==
  [op |-> "ListOffsets", table |-> 5, partition |-> partitionID, buckets |-> <<0, 1>>, kind |-> kind,
   time |-> 3, bucketCount |-> 2]
stats(partitionID) ==
  [op |-> "GetTableStats", table |-> 5, partition |-> partitionID, buckets |-> <<1, 0>>, bucketCount |-> 2]
lakeSnapshot(id, readable) ==
  [op |-> "GetLakeSnapshot", path |-> P1, snapshot |-> id, readable |-> readable]

ReadCalls ==
  <<offsets(-1, "earliest"), offsets(9, "latest"), offsets(-1, "timestamp"), offsets(-1, "offset"),
   stats(-1), stats(9), lakeSnapshot(<<>>, FALSE), lakeSnapshot(<<1>>, FALSE), lakeSnapshot(<<>>, TRUE),
   lakeSnapshot(<<-1>>, FALSE)>>
  \o list({[op |-> "GetLatestKVSnapshots", path |-> P1, partition |-> p] : p \in {"", "d1", "d3"}})
  \o list({[op |-> op, table |-> 5, partition |-> p] :
          op \in {"ListKVSnapshots", "ListRemoteLogManifests"}, p \in {-2, -1, 9}})
  \o list({[op |-> "GetKVSnapshotMetadata", table |-> 5, partition |-> b[2], bucket |-> b[3], snapshot |-> b[4]] :
          b \in {<<5, 9, 1, 4>>, <<5, -1, 0, 0>>, <<5, -1, 1, 4>>, <<5, -1, -1, 4>>}})

acquire(id, duration, leases) ==
  [op |-> "AcquireKVSnapshotLease", lease |-> id, duration |-> duration, snapshots |-> leases]
LeaseCalls ==
  <<acquire("l1", 20, <<lease(5, -1, 0), lease(6, 9, 0), lease(5, -1, 1)>>),
   acquire("l1", 40, <<lease(5, -1, 0), lease(6, -1, 0)>>), acquire("l1", 0, <<lease(5, -1, 0)>>),
   [op |-> "RenewKVSnapshotLease", lease |-> "l1", duration |-> 40],
   [op |-> "RenewKVSnapshotLease", lease |-> "", duration |-> 40],
   [op |-> "DropKVSnapshotLease", lease |-> "l1"],
   [op |-> "ReleaseKVSnapshotLease", lease |-> "l1",
    buckets |-> <<[TableID |-> 5, PartitionID |-> -1, BucketID |-> 1],
                  [TableID |-> 6, PartitionID |-> 9, BucketID |-> 0]>>]>>

tableOffsets(p) ==
  <<[TableID |-> 5, Offsets |-> <<[PartitionID |-> p, Bucket |-> 0, Offset |-> 3],
                                  [PartitionID |-> p, Bucket |-> 1, Offset |-> 0]>>]>>
register(producer, p, ttl) ==
  [op |-> "RegisterProducerOffsets", producer |-> producer, ttl |-> ttl, tables |-> tableOffsets(p)]
ProducerCalls ==
  <<register("p1", -1, 20), register("p1", 9, 40), register("p2", -1, 20), register("p1", -1, 0)>>
  \o list({[op |-> op, producer |-> p] : op \in {"GetProducerOffsets", "DeleteProducerOffsets"}, p \in {"p1", ""}})

AnyACL ==
  [ResourceName |-> <<>>, ResourceType |-> 1, PrincipalName |-> <<>>, PrincipalType |-> <<>>,
   Host |-> <<>>, Operation |-> 1, Permission |-> 1]
ofTable(name) == [AnyACL EXCEPT !.ResourceName = <<name>>, !.ResourceType = 3]
ofUser(name) == [AnyACL EXCEPT !.PrincipalName = <<name>>, !.PrincipalType = <<"User">>]
ACLCalls ==
  <<[op |-> "CreateACLs", acls |-> <<binding("t1", "*"), binding("t2", "h1")>>],
   [op |-> "CreateACLs", acls |-> <<binding("t1", "")>>]>>
  \o list({[op |-> "ListACLs", filter |-> f] : f \in {AnyACL, ofTable("t2"), ofUser("u"), ofUser("*")}})
  \o <<[op |-> "DropACLs", filters |-> <<ofTable("t2"), AnyACL>>], [op |-> "DropACLs", filters |-> <<ofUser("v")>>]>>


ClusterCalls ==
  <<[op |-> "AlterClusterConfigs", config |-> <<set("b", "v"), append("a", "x")>>],
   [op |-> "AlterClusterConfigs", config |-> <<delete("a"), [set("b", "v") EXCEPT !.op = 3]>>],
   [op |-> "AlterClusterConfigs", config |-> <<[set("b", "v") EXCEPT !.value = <<>>]>>],
   [op |-> "AlterClusterConfigs", config |-> <<>>],
   [op |-> "AddServerTag", servers |-> <<1, 2>>, tag |-> 1],
   [op |-> "RemoveServerTag", servers |-> <<2>>, tag |-> 1],
   [op |-> "AddServerTag", servers |-> <<-1>>, tag |-> 0]>>
  \o list({[op |-> op] : op \in {"DescribeClusterConfigs", "GetClusterHealth", "GetServerNodes",
                              "GetFileSystemSecurityToken"}})

RebalanceCalls ==
  <<[op |-> "Rebalance", goals |-> <<0>>], [op |-> "Rebalance", goals |-> <<>>],
   [op |-> "WaitRebalance", id |-> "r1", interval |-> 1], [op |-> "WaitRebalance", id |-> "r1", interval |-> 0]>>
  \o list({[op |-> op, id |-> id] : op \in {"ListRebalanceProgress", "CancelRebalance"}, id \in {"", "r1"}})

\* What the data calls to a bucket have in common.
on(bucket, op) ==
  [op |-> op, table |-> bucket[1], partition |-> bucket[2], bucket |-> bucket[3], bucketCount |-> 2,
   timeout |-> 20, acks |-> -1]
routed(call, count) == [call EXCEPT !.bucketCount = count]
produceTo(bucket) ==
  on(bucket, "ProduceLog") @@ [partitionName |-> IF bucket[2] = -1 THEN "" ELSE "d1", records |-> <<row(9, <<"z">>)>>]
putTo(bucket, targets) ==
  on(bucket, "PutKv") @@ [records |-> <<<<"k1", <<5, 6>>>>>>, targets |-> targets, mergeMode |-> 0]
lookupIn(bucket, insert) == on(bucket, "Lookup") @@ [keys |-> <<"k2", "k1">>, insert |-> insert]
fetchFrom(bucket, offset, filter, projection) ==
  on(bucket, "FetchLog") @@ [maxBytes |-> 10, wait |-> 2, minBytes |-> 1, maxBytesForBucket |-> 5,
                             offset |-> offset, filter |-> filter, projection |-> projection]
where(p) == <<[predicate |-> p, schema |-> Keyed, schemaID |-> 1, format |-> "ARROW"]>>
int(n) == [go |-> "int", v |-> n]
Filters ==
  {leaf(4, "a", <<int(1)>>), leaf(leafIsNull, "b", <<>>),
   combine(1, <<leaf(0, "b", <<[go |-> "string", v |-> "y"]>>), leaf(leafIn, "a", <<int(2), int(4)>>)>>),
   leaf(leafIsNull, "b", <<int(1)>>)}
scanOf(op, limit) ==
  on(B0, op) @@ [limit |-> limit, scanner |-> <<>>, sequence |-> 0, batchSize |-> 10, close |-> FALSE]

WriteCalls ==
  <<produceTo(B0), produceTo(B1), routed(produceTo(B0), 3), routed(produceTo(B0), 0),
   [produceTo(B0) EXCEPT !.timeout = 2 * (MaxInt32 + 1)],
   putTo(B0, <<>>), putTo(B0, <<2>>), lookupIn(B0, TRUE), lookupIn(B1, FALSE), routed(lookupIn(B0, FALSE), 3),
   on(B0, "PrefixLookup") @@ [keys |-> <<"k", "z">>, insert |-> FALSE],
   on(B0, "InitWriter") @@ [path |-> P1]>>

FetchCalls ==
  <<fetchFrom(B0, 0, <<>>, <<>>), fetchFrom(B0, 1, <<>>, <<1>>), fetchFrom(B1, 0, <<>>, <<>>),
   routed(fetchFrom(B0, 0, <<>>, <<>>), 3), produceTo(B0),
   scanOf("LimitScan", 1), scanOf("ScanKv", 2), routed(scanOf("ScanKv", 2), 0), routed(scanOf("ScanKv", 2), 3)>>
  \o list({fetchFrom(B0, 1, where(p), <<>>) : p \in Filters})

MetadataCalls ==
  list({[op |-> "TableMetadata", path |-> path] : path \in {P1, P2, [P1 EXCEPT !.Table = "t3"]}})
  \o list({[op |-> "PartitionMetadata", path |-> P1, partition |-> p] : p \in {"d1", "d2", "d3"}})

AllCalls ==
  [session |-> <<>>, databases |-> DatabaseCalls, tables |-> TableCalls, schemas |-> SchemaCalls,
   partitions |-> PartitionCalls, reads |-> ReadCalls, leases |-> LeaseCalls,
   producers |-> ProducerCalls, acls |-> ACLCalls, cluster |-> ClusterCalls,
   rebalance |-> RebalanceCalls, writes |-> WriteCalls, fetches |-> FetchCalls,
   metadata |-> MetadataCalls]

AllOthers ==
  [a \in DOMAIN AllCalls |->
     CASE a = "schemas" -> <<dropTable(P1, TRUE)>>
       [] a = "rebalance" -> <<[op |-> "CancelRebalance", id |-> "r1"]>>
       [] OTHER -> <<>>]

\* Servers of an older release, where that makes a difference.
OlderCluster == [Cluster EXCEPT !.summaries = FALSE, !.token.ExpiresAt = -1, !.pressure = <<>>]
SmallClusters ==
  [a \in DOMAIN AllCalls \cup {"recreate"} |->
     IF a \in {"databases", "cluster", "writes"} THEN {Cluster, OlderCluster} ELSE {Cluster}]

\* A table is dropped and created again with other columns.
RecreateCalls == [recreate |-> <<getTable(P1)>>]
RecreateOthers == [recreate |-> <<dropTable(P1, TRUE), createTable(P1, Plain2, TRUE)>>]

\* Servers: one that offers everything, one without the newer APIs and
\* versions, one of the wrong kind, and one that shares no version.
from(lo, hi) == [MinVersion |-> lo, MaxVersion |-> hi]
Everything == [key \in APIKeys \cup {"Unknown"} |-> from(0, 5)]
OlderKeys == (APIKeys \ {"ScanKv", "GetClusterHealth", "AlterDatabase"}) \cup {"Unknown"}
Older == [key \in OlderKeys |-> IF key = "ProduceLog" THEN from(4, 5) ELSE from(0, 1)]
SmallOffers ==
  {[versions |-> Everything, serverType |-> 1], [versions |-> Older, serverType |-> 1],
   [versions |-> Everything, serverType |-> 2],
   [versions |-> [Older EXCEPT !["ApiVersions"] = from(1, 5)], serverType |-> 1]}
=============================================================================
