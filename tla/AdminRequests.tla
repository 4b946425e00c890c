---------------------------- MODULE AdminRequests ----------------------------
(***************************************************************************)
(* The administrative client (pkg/fadm): for every operation the checks it  *)
(* makes before anything is sent, the message it sends, and what it makes   *)
(* of the answer.  A call is a record of the operation's arguments; a       *)
(* pointer argument is <<>> for nil or <<value>>, a duration counts half    *)
(* milliseconds, and a partition ID is -1 for an unpartitioned table.       *)
(***************************************************************************)
EXTENDS Protocol

CONSTANT Untrimmed    \* the names with white space around them

S == INSTANCE Schemas

\* A request that an operation refuses to build, or the one it sends.
Refused == [ok |-> FALSE, APIKey |-> "none", Message |-> None]
Send(key, message) == [ok |-> TRUE, APIKey |-> key, Message |-> message]
SendIf(valid, key, message) == IF valid THEN Send(key, message) ELSE Refused

\* The outcome of a call: an error, or a value.
Failed(error) == [err |-> error, value |-> None]
Returns(value) == [err |-> "none", value |-> value]
Done == Returns(None)

Each(items, field(_)) == [i \in DOMAIN items |-> field(items[i])]

validateName(name) == name # "" /\ name \notin Untrimmed
validPath(path) == path.Database # "" /\ path.Table # ""
pbTablePath(path) == [database_name |-> path.Database, table_name |-> path.Table]

\* time.Time{}, which millis answers for a timestamp of zero.
ZeroTime == -1
millis(value) == IF value = 0 THEN ZeroTime ELSE value

\* Duration.Milliseconds drops what is below a millisecond.
Milliseconds(duration) == duration \div 2

ResponseError(code) == code

withPartition(id) == Optionally(id >= 0, "partition_id", id)

\* An absent partition ID read as Go's zero value.
partitionOfZero(m) == Get(m, "partition_id", 0)

partitionOf(m) == Get(m, "partition_id", -1)
-----------------------------------------------------------------------------
(* Databases                                                               *)

\* The JSON document leaves an empty comment out.
databaseJSON(c) ==
  [version |-> 1, custom_properties |-> c.properties]
    @@ Optionally(c.comment # "", "comment", c.comment)

CreateDatabase(c) ==
  SendIf(validateName(c.name), "CreateDatabase",
         [database_name |-> c.name, ignore_if_exists |-> c.ignore,
          database_json |-> databaseJSON(c)])

DropDatabase(c) ==
  SendIf(validateName(c.name), "DropDatabase",
         [database_name |-> c.name, ignore_if_not_exists |-> c.ignore, cascade |-> c.cascade])

\* Operations: 0 sets, 1 deletes, 2 appends, 3 subtracts.
ConfigDelete == 1
validConfig(change) == change.key # "" /\ change.op \in 0 .. 3

configMessage(change) ==
  [config_key |-> change.key, op_type |-> change.op]
    @@ Optionally(change.value # <<>>, "config_value", change.value[1])

\* Everything but a deletion needs a value.
validAlterConfig(change) ==
  validConfig(change) /\ (change.op # ConfigDelete => change.value # <<>>)

AlterDatabase(c) ==
  SendIf(/\ validateName(c.name)
         /\ c.config # <<>> \/ c.comment # <<>>
         /\ \A i \in DOMAIN c.config : validAlterConfig(c.config[i]),
         "AlterDatabase",
         [database_name |-> c.name, ignore_if_not_exists |-> c.ignore]
           @@ Optionally(c.comment # <<>>, "comment", c.comment[1])
           @@ Repeated("config_changes", Each(c.config, configMessage)))

DatabaseExists(c) ==
  SendIf(validateName(c.name), "DatabaseExists", [database_name |-> c.name])

GetDatabaseInfo(c) ==
  SendIf(validateName(c.name), "GetDatabaseInfo", [database_name |-> c.name])

DatabaseInfo(c, m) ==
  [Name |-> c.name, Comment |-> Get(m.database_json, "comment", ""),
   Properties |-> m.database_json.custom_properties,
   CreatedAt |-> millis(m.created_time), ModifiedAt |-> millis(m.modified_time)]

ListDatabaseSummaries(c) == Send("ListDatabases", [include_summary |-> TRUE])

\* Servers that send no summaries still name their databases.
DatabaseSummaries(m) ==
  IF Items(m, "database_summary") # <<>>
  THEN [i \in DOMAIN m.database_summary |->
          [Name |-> m.database_summary[i].database_name,
           CreatedAt |-> millis(m.database_summary[i].created_time),
           TableCount |-> m.database_summary[i].table_count]]
  ELSE [i \in DOMAIN Items(m, "database_name") |->
          [Name |-> m.database_name[i], CreatedAt |-> ZeroTime, TableCount |-> 0]]
-----------------------------------------------------------------------------
(* Tables                                                                  *)

\* TableDescriptor.JSON; <<>> when the descriptor is invalid.
tableJSON(c) ==
  IF ~S!validSchema(c.schema) \/ c.bucketCount =< 0 THEN <<>>
  ELSE <<[version |-> 1, schema |-> S!schemaJSON(c.schema)[1].json,
          partition_key |-> c.schema.partitionKey, bucket_key |-> c.schema.bucketKey,
          bucket_count |-> c.bucketCount, properties |-> c.properties,
          custom_properties |-> c.customProperties]
           @@ Optionally(c.comment # "", "comment", c.comment)>>

CreateTable(c) ==
  IF ~validPath(c.path) \/ tableJSON(c) = <<>> THEN Refused
  ELSE Send("CreateTable", [table_path |-> pbTablePath(c.path), table_json |-> tableJSON(c)[1],
                            ignore_if_exists |-> c.ignore])

DropTable(c) ==
  SendIf(validPath(c.path), "DropTable",
         [table_path |-> pbTablePath(c.path), ignore_if_not_exists |-> c.ignore])

ListTables(c) == SendIf(validateName(c.name), "ListTables", [database_name |-> c.name])

TablePaths(c, m) ==
  [i \in DOMAIN Items(m, "table_name") |-> [Database |-> c.name, Table |-> m.table_name[i]]]

TableExists(c) ==
  SendIf(validPath(c.path), "TableExists", [table_path |-> pbTablePath(c.path)])

GetTableSchema(c) ==
  SendIf(validPath(c.path) /\ c.schemaID >= 0, "GetTableSchema",
         [table_path |-> pbTablePath(c.path), schema_id |-> c.schemaID])

parsedSchema(m) ==
  LET schema == S!parseSchemaJSON(m.schema_json)
  IN IF schema = <<>> THEN Failed("ErrInvalidSchema") ELSE Returns(schema[1])

addColumnMessage(change) ==
  [column_name |-> change.name, data_type_json |-> change.type,
   comment |-> change.description, column_position_type |-> IF change.first THEN 1 ELSE 0]

dropColumnMessage(name) == [column_name |-> name]

renameColumnMessage(rename) ==
  [old_column_name |-> rename.old, new_column_name |-> rename.new]

AlterTable(c) ==
  SendIf(/\ validPath(c.path)
         /\ \/ c.config # <<>> \/ c.add # <<>> \/ c.drop # <<>> \/ c.rename # <<>>
            \/ c.bucketCount # <<>>
         /\ c.bucketCount # <<>> => c.bucketCount[1] > 0
         /\ \A i \in DOMAIN c.config : validAlterConfig(c.config[i])
         /\ \A i \in DOMAIN c.add : c.add[i].name # "" /\ S!validType(c.add[i].type)
         /\ \A i \in DOMAIN c.drop : c.drop[i] # ""
         /\ \A i \in DOMAIN c.rename : c.rename[i].old # "" /\ c.rename[i].new # "",
         "AlterTable",
         [table_path |-> pbTablePath(c.path), ignore_if_not_exists |-> c.ignore]
           @@ Repeated("config_changes", Each(c.config, configMessage))
           @@ Repeated("add_columns", Each(c.add, addColumnMessage))
           @@ Repeated("drop_columns", Each(c.drop, dropColumnMessage))
           @@ Repeated("rename_columns", Each(c.rename, renameColumnMessage))
           @@ Optionally(c.bucketCount # <<>>, "modify_bucket_count",
                         [new_bucket_count |-> c.bucketCount[1]]))

-----------------------------------------------------------------------------
(* Partitions.  A partition spec is a function from keys to values.         *)

validSpec(spec) == DOMAIN spec # {} /\ \A key \in DOMAIN spec : key # "" /\ spec[key] # ""

\* PartitionSpec.proto sorts the keys; the order is that of KeyOrder.
KeyOrder == <<"day", "region">>

specMessage(spec) ==
  Repeated("partition_key_values",
           LET keys == SelectSeq(KeyOrder, LAMBDA key : key \in DOMAIN spec)
           IN [i \in DOMAIN keys |-> [key |-> keys[i], value |-> spec[keys[i]]]])

\* A Go map filled from key-value entries: a later entry for a key wins.
mapOf(entries) ==
  [key \in {entries[i].key : i \in DOMAIN entries} |->
     entries[CHOOSE i \in DOMAIN entries :
               /\ entries[i].key = key
               /\ \A j \in DOMAIN entries : entries[j].key = key => j =< i].value]

partitionSpec(m) == mapOf(Items(m, "partition_key_values"))

CreatePartition(c) ==
  SendIf(validPath(c.path) /\ validSpec(c.spec), "CreatePartition",
         [table_path |-> pbTablePath(c.path), partition_spec |-> specMessage(c.spec),
          ignore_if_not_exists |-> c.ignore])

DropPartition(c) ==
  SendIf(validPath(c.path) /\ validSpec(c.spec), "DropPartition",
         [table_path |-> pbTablePath(c.path), partition_spec |-> specMessage(c.spec),
          ignore_if_not_exists |-> c.ignore])

ListPartitionInfos(c) ==
  SendIf(validPath(c.path) /\ (DOMAIN c.spec # {} => validSpec(c.spec)), "ListPartitionInfos",
         [table_path |-> pbTablePath(c.path)]
           @@ Optionally(DOMAIN c.spec # {}, "partial_partition_spec", specMessage(c.spec)))

PartitionInfos(m) ==
  [i \in DOMAIN Items(m, "partitions_info") |->
     [ID |-> m.partitions_info[i].partition_id,
      Spec |-> partitionSpec(m.partitions_info[i].partition_spec)]]
-----------------------------------------------------------------------------
(* Offsets and statistics: one request per bucket                          *)

validOffsetSpec(c) == c.kind \in {"earliest", "latest", "timestamp"}

applyOffsetSpec(c) ==
  CASE c.kind = "earliest"  -> [offset_type |-> 0]
    [] c.kind = "latest"    -> [offset_type |-> 1]
    [] c.kind = "timestamp" -> [offset_type |-> 2, startTimestamp |-> c.time]

listOffset(c, bucket) ==
  SendIf(validOffsetSpec(c), "ListOffsets",
         [follower_server_id |-> -1, table_id |-> c.table, bucket_id |-> <<bucket>>]
           @@ applyOffsetSpec(c) @@ withPartition(c.partition))

\* An answer must be about the bucket that was asked for, and nothing else.
answersBucket(m, bucket) ==
  /\ Len(Items(m, "buckets_resp")) = 1
  /\ m.buckets_resp[1].bucket_id = bucket

OffsetResult(m, bucket) ==
  IF ~answersBucket(m, bucket) THEN [Bucket |-> bucket, Offset |-> 0, Err |-> "ErrValidation"]
  ELSE [Bucket |-> bucket, Offset |-> Get(m.buckets_resp[1], "offset", 0),
        Err |-> ResponseError(Get(m.buckets_resp[1], "error_code", "none"))]

tableStats(c, bucket) ==
  SendIf(c.table >= 0 /\ c.partition >= -1 /\ bucket >= 0, "GetTableStats",
         [table_id |-> c.table,
          buckets_req |-> <<[bucket_id |-> bucket] @@ withPartition(c.partition)>>])

TableStats(c, m, bucket) ==
  IF ~answersBucket(m, bucket)
  THEN [Bucket |-> bucket, PartitionID |-> c.partition, RowCount |-> 0, Err |-> "ErrValidation"]
  ELSE [Bucket |-> bucket, PartitionID |-> c.partition,
        RowCount |-> Get(m.buckets_resp[1], "row_count", 0),
        Err |-> ResponseError(Get(m.buckets_resp[1], "error_code", "none"))]
-----------------------------------------------------------------------------
(* Snapshots                                                               *)

kvSnapshots(m, items) ==
  [TableID |-> m.table_id, PartitionID |-> partitionOf(m),
   Snapshots |-> [i \in DOMAIN items |->
                    [Bucket |-> items[i].bucket_id,
                     SnapshotID |-> Get(items[i], "snapshot_id", 0),
                     LogOffset |-> Get(items[i], "log_offset", 0),
                     Available |-> Has(items[i], "snapshot_id")]]]

GetLatestKVSnapshots(c) ==
  SendIf(validPath(c.path), "GetLatestKvSnapshots",
         [table_path |-> pbTablePath(c.path)]
           @@ Optionally(c.partition # "", "partition_name", c.partition))

LatestKVSnapshots(m) == kvSnapshots(m, Items(m, "latest_snapshots"))

ListKVSnapshots(c) ==
  SendIf(c.table >= 0 /\ c.partition >= -1, "ListKvSnapshots",
         [table_id |-> c.table] @@ withPartition(c.partition))

ActiveKVSnapshots(m) == kvSnapshots(m, Items(m, "active_snapshots"))

GetKVSnapshotMetadata(c) ==
  SendIf(c.table >= 0 /\ c.partition >= -1 /\ c.bucket >= 0 /\ c.snapshot >= 0,
         "GetKvSnapshotMetadata",
         [table_id |-> c.table, bucket_id |-> c.bucket, snapshot_id |-> c.snapshot]
           @@ withPartition(c.partition))

KVSnapshotMetadata(m) ==
  [LogOffset |-> m.log_offset,
   Files |-> [i \in DOMAIN Items(m, "snapshot_files") |->
                [RemotePath |-> m.snapshot_files[i].remote_path,
                 LocalName |-> m.snapshot_files[i].local_file_name]]]

ListRemoteLogManifests(c) ==
  SendIf(c.table >= 0 /\ c.partition >= -1, "ListRemoteLogManifests",
         [table_id |-> c.table] @@ withPartition(c.partition))

RemoteLogManifests(m) ==
  [i \in DOMAIN Items(m, "manifests") |->
     [TableID |-> m.manifests[i].table_bucket.table_id,
      PartitionID |-> partitionOf(m.manifests[i].table_bucket),
      Bucket |-> m.manifests[i].table_bucket.bucket_id,
      Path |-> m.manifests[i].remote_log_manifest_path,
      LogEndOffset |-> m.manifests[i].remote_log_end_offset]]

\* The latest (no ID), a historical (an ID) or the latest readable snapshot.
getLakeSnapshot(c) ==
  SendIf(validPath(c.path) /\ (c.snapshot # <<>> => c.snapshot[1] >= 0), "GetLakeSnapshot",
         [table_path |-> pbTablePath(c.path), readable |-> c.readable]
           @@ Optionally(c.snapshot # <<>>, "snapshot_id", c.snapshot[1]))

LakeSnapshot(m) ==
  [TableID |-> m.table_id, SnapshotID |-> m.snapshotId,
   Buckets |-> [i \in DOMAIN Items(m, "bucket_snapshots") |->
                  [PartitionID |-> partitionOf(m.bucket_snapshots[i]),
                   PartitionName |-> Get(m.bucket_snapshots[i], "partition_name", ""),
                   Bucket |-> m.bucket_snapshots[i].bucket_id,
                   LogOffset |-> Get(m.bucket_snapshots[i], "log_offset", 0)]]]

-----------------------------------------------------------------------------
(* Leases on snapshots                                                     *)

validLease(lease) ==
  lease.TableID >= 0 /\ lease.PartitionID >= -1 /\ lease.Bucket >= 0 /\ lease.SnapshotID >= 0

leaseMessage(lease) ==
  [bucket_id |-> lease.Bucket, snapshot_id |-> lease.SnapshotID]
    @@ withPartition(lease.PartitionID)

\* A grouping that keeps only the last snapshot of every table.
leaseMessagesLast(leases) ==
  LET last(t) == CHOOSE i \in DOMAIN leases :
                   /\ leases[i].TableID = t
                   /\ \A j \in DOMAIN leases : leases[j].TableID = t => j =< i
      kept == SelectSeq([i \in DOMAIN leases |-> i], LAMBDA i : last(leases[i].TableID) = i)
  IN [n \in DOMAIN kept |-> [table_id |-> leases[kept[n]].TableID,
                             bucket_snapshots |-> <<leaseMessage(leases[kept[n]])>>]]

\* One entry per table, in the order the tables first appear, each with its
\* snapshots in the caller's order.
leaseMessages(leases) ==
  LET first(t) == CHOOSE i \in DOMAIN leases :
                    /\ leases[i].TableID = t
                    /\ \A j \in DOMAIN leases : leases[j].TableID = t => i =< j
      order == SelectSeq([i \in DOMAIN leases |-> i], LAMBDA i : first(leases[i].TableID) = i)
      of(t) == SelectSeq(leases, LAMBDA lease : lease.TableID = t)
  IN [n \in DOMAIN order |->
        LET t == leases[order[n]].TableID
        IN [table_id |-> t, bucket_snapshots |-> Each(of(t), leaseMessage)]]

RECURSIVE leasesFromMessage(_)
leasesFromMessage(tables) ==
  IF tables = <<>> THEN <<>>
  ELSE LET items == Items(tables[1], "bucket_snapshots")
       IN [i \in DOMAIN items |->
             [TableID |-> tables[1].table_id, PartitionID |-> partitionOf(items[i]),
              Bucket |-> items[i].bucket_id, SnapshotID |-> items[i].snapshot_id]]
          \o leasesFromMessage(Tail(tables))

AcquireKVSnapshotLease(c) ==
  SendIf(/\ c.lease # "" /\ c.duration > 0 /\ c.snapshots # <<>>
         /\ \A i \in DOMAIN c.snapshots : validLease(c.snapshots[i]),
         "AcquireKvSnapshotLease",
         [lease_id |-> c.lease, lease_duration_ms |-> Milliseconds(c.duration),
          snapshots_to_lease |-> leaseMessages(c.snapshots)])

UnavailableSnapshots(m) == leasesFromMessage(Items(m, "unavailable_snapshots"))

\* A renewal is an acquisition that names no snapshots.
RenewKVSnapshotLease(c) ==
  SendIf(c.lease # "" /\ c.duration > 0, "AcquireKvSnapshotLease",
         [lease_id |-> c.lease, lease_duration_ms |-> Milliseconds(c.duration)])

validBucket(bucket) == bucket.TableID >= 0 /\ bucket.PartitionID >= -1 /\ bucket.BucketID >= 0

bucketMessage(bucket) ==
  [table_id |-> bucket.TableID, bucket_id |-> bucket.BucketID]
    @@ withPartition(bucket.PartitionID)

ReleaseKVSnapshotLease(c) ==
  SendIf(/\ c.lease # "" /\ c.buckets # <<>>
         /\ \A i \in DOMAIN c.buckets : validBucket(c.buckets[i]),
         "ReleaseKvSnapshotLease",
         [lease_id |-> c.lease, buckets_to_release |-> Each(c.buckets, bucketMessage)])

DropKVSnapshotLease(c) == SendIf(c.lease # "", "DropKvSnapshotLease", [lease_id |-> c.lease])
-----------------------------------------------------------------------------
(* Producer offsets                                                        *)

offsetMessage(offset) ==
  [bucket_id |-> offset.Bucket, log_end_offset |-> offset.Offset]
    @@ withPartition(offset.PartitionID)

validTableOffsets(table) ==
  /\ table.TableID >= 0 /\ table.Offsets # <<>>
  /\ \A i \in DOMAIN table.Offsets :
       /\ table.Offsets[i].Bucket >= 0 /\ table.Offsets[i].Offset >= 0
       /\ table.Offsets[i].PartitionID >= -1

producerTableOffsetsMessage(table) ==
  [table_id |-> table.TableID, bucket_offsets |-> Each(table.Offsets, offsetMessage)]

RegisterProducerOffsets(c) ==
  SendIf(/\ c.producer # "" /\ c.tables # <<>> /\ c.ttl > 0
         /\ \A i \in DOMAIN c.tables : validTableOffsets(c.tables[i]),
         "RegisterProducerOffsets",
         [producer_id |-> c.producer, ttl_ms |-> Milliseconds(c.ttl),
          table_offsets |-> Each(c.tables, producerTableOffsetsMessage)])

Registered(m) == Get(m, "result", 0) = 0

GetProducerOffsets(c) ==
  SendIf(c.producer # "", "GetProducerOffsets", [producer_id |-> c.producer])

producerOffsetsFromMessage(tables) ==
  [i \in DOMAIN tables |->
     [TableID |-> tables[i].table_id,
      Offsets |-> LET items == Items(tables[i], "bucket_offsets")
                  IN [j \in DOMAIN items |->
                        [PartitionID |-> partitionOf(items[j]), Bucket |-> items[j].bucket_id,
                         Offset |-> Get(items[j], "log_end_offset", 0)]]]]

ProducerOffsets(m) ==
  [ProducerID |-> Get(m, "producer_id", ""), ExpiresAt |-> millis(Get(m, "expiration_time", 0)),
   Tables |-> producerOffsetsFromMessage(Items(m, "table_offsets"))]

DeleteProducerOffsets(c) ==
  SendIf(c.producer # "", "DeleteProducerOffsets", [producer_id |-> c.producer])
-----------------------------------------------------------------------------
(* Access control.  Miscased are principal types that differ only in case  *)
(* from one of the canonical "User", "Group", "Role" and "*".              *)

Miscased == {"user", "GROUP"}

validResource(type, any) == type \in 2 .. 4 \/ (any /\ type = 1)
validOperation(operation, any) == operation \in 2 .. 8 \/ (any /\ operation = 1)
validPermission(permission, any) == permission = 2 \/ (any /\ permission = 1)

validateACLPrincipal(name, type) ==
  /\ name # ""
  /\ type # "" /\ type \notin Untrimmed \cup Miscased
  /\ (name = "*") <=> (type = "*")

validBinding(acl) ==
  /\ acl.ResourceName # "" /\ validResource(acl.ResourceType, FALSE)
  /\ validateACLPrincipal(acl.PrincipalName, acl.PrincipalType)
  /\ acl.Host # ""
  /\ validOperation(acl.Operation, FALSE) /\ validPermission(acl.Permission, FALSE)

bindingMessage(acl) ==
  [resource_name |-> acl.ResourceName, resource_type |-> acl.ResourceType,
   principal_name |-> acl.PrincipalName, principal_type |-> acl.PrincipalType,
   host |-> acl.Host, operation_type |-> acl.Operation, permission_type |-> acl.Permission]

validFilter(f) ==
  /\ validResource(f.ResourceType, TRUE)
  /\ f.ResourceName # <<"">>
  /\ (f.PrincipalName = <<>>) <=> (f.PrincipalType = <<>>)
  /\ f.PrincipalName # <<>> => validateACLPrincipal(f.PrincipalName[1], f.PrincipalType[1])
  /\ f.Host # <<"">>
  /\ validOperation(f.Operation, TRUE) /\ validPermission(f.Permission, TRUE)

filterMessage(f) ==
  [resource_type |-> f.ResourceType, operation_type |-> f.Operation,
   permission_type |-> f.Permission]
    @@ Optionally(f.ResourceName # <<>>, "resource_name", f.ResourceName[1])
    @@ Optionally(f.PrincipalName # <<>>, "principal_name", f.PrincipalName[1])
    @@ Optionally(f.PrincipalType # <<>>, "principal_type", f.PrincipalType[1])
    @@ Optionally(f.Host # <<>>, "host", f.Host[1])


aclFromMessage(m) ==
  [ResourceName |-> m.resource_name, ResourceType |-> m.resource_type,
   PrincipalName |-> m.principal_name, PrincipalType |-> m.principal_type,
   Host |-> m.host, Operation |-> m.operation_type, Permission |-> m.permission_type]

CreateACLs(c) ==
  SendIf(c.acls # <<>> /\ \A i \in DOMAIN c.acls : validBinding(c.acls[i]), "CreateAcls",
         [acl |-> Each(c.acls, bindingMessage)])

aclResults(items) ==
  [i \in DOMAIN items |-> [Binding |-> aclFromMessage(items[i].acl),
                           Err |-> ResponseError(Get(items[i], "error_code", "none"))]]

\* One result per binding; an answer of another length, or with an entry
\* that is not a valid binding, is refused as a whole.
CreatedACLs(c, m) ==
  LET results == aclResults(Items(m, "aclRes"))
  IN IF \/ Len(results) # Len(c.acls)
        \/ \E i \in DOMAIN results : ~validBinding(results[i].Binding)
     THEN Failed("ErrValidation") ELSE Returns(results)

ListACLs(c) ==
  SendIf(validFilter(c.filter), "ListAcls", [acl_filter |-> filterMessage(c.filter)])

ListedACLs(m) ==
  LET acls == Each(Items(m, "acl"), aclFromMessage)
  IN IF \E i \in DOMAIN acls : ~validBinding(acls[i]) THEN Failed("ErrValidation")
     ELSE Returns(acls)

DropACLs(c) ==
  SendIf(c.filters # <<>> /\ \A i \in DOMAIN c.filters : validFilter(c.filters[i]), "DropAcls",
         [acl_filter |-> Each(c.filters, filterMessage)])

DroppedACLs(c, m) ==
  LET results == Items(m, "filter_results")
      matches(i) == aclResults(Items(results[i], "matching_acls"))
  IN IF \/ Len(results) # Len(c.filters)
        \/ \E i \in DOMAIN results : \E j \in DOMAIN matches(i) : ~validBinding(matches(i)[j].Binding)
     THEN Failed("ErrValidation")
     ELSE Returns([i \in DOMAIN results |->
                     [Filter |-> c.filters[i], Matches |-> matches(i),
                      Err |-> ResponseError(Get(results[i], "error_code", "none"))]])
-----------------------------------------------------------------------------
(* The cluster                                                             *)

DescribeClusterConfigs(c) == Send("DescribeClusterConfigs", None)

ConfigEntries(m) ==
  [i \in DOMAIN Items(m, "configs") |->
     [Key |-> m.configs[i].config_key, Value |-> Get(m.configs[i], "config_value", ""),
      Source |-> m.configs[i].config_source]]

\* Unlike a table's, a cluster's configuration may be set without a value.
AlterClusterConfigs(c) ==
  SendIf(c.config # <<>> /\ \A i \in DOMAIN c.config : validConfig(c.config[i]),
         "AlterClusterConfigs", [alter_configs |-> Each(c.config, configMessage)])

\* Tags: 0 permanently offline, 1 temporarily offline.
changeServerTag(c, key) ==
  SendIf(/\ c.servers # <<>> /\ c.tag \in {0, 1}
         /\ \A i \in DOMAIN c.servers : c.servers[i] >= 0,
         key, [server_ids |-> c.servers, server_tag |-> c.tag])

AddServerTag(c) == changeServerTag(c, "AddServerTag")
RemoveServerTag(c) == changeServerTag(c, "RemoveServerTag")

GetClusterHealth(c) == Send("GetClusterHealth", None)

ClusterHealth(m) ==
  [Replicas |-> m.num_replicas, InSyncReplicas |-> m.in_sync_replicas,
   LeaderReplicas |-> m.num_leader_replicas,
   ActiveLeaderReplicas |-> m.active_leader_replicas, Status |-> m.status]

GetServerNodes(c) == Send("GetMetadata", None)

serverNode(m, type) ==
  [ID |-> m.node_id, Host |-> m.host, Port |-> m.port, ServerType |-> type,
   Rack |-> Get(m, "rack", "")]

validNode(m) == m.host # "" /\ m.port \in 1 .. 65535

\* HostOrder lists the hosts in the order of their names.
HostOrder == <<"h1", "h2">>
hostRank(host) == CHOOSE i \in DOMAIN HostOrder : HostOrder[i] = host

nodeBefore(a, b) ==
  \/ a.ID < b.ID
  \/ a.ID = b.ID /\ hostRank(a.Host) < hostRank(b.Host)
  \/ a.ID = b.ID /\ a.Host = b.Host /\ a.Port =< b.Port

RECURSIVE sortNodes(_)
sortNodes(nodes) ==
  IF nodes = <<>> THEN <<>>
  ELSE LET least == CHOOSE i \in DOMAIN nodes : \A j \in DOMAIN nodes : nodeBefore(nodes[i], nodes[j])
           others == SelectSeq([i \in DOMAIN nodes |-> i], LAMBDA i : i # least)
       IN <<nodes[least]>> \o sortNodes([i \in DOMAIN others |-> nodes[others[i]]])

\* The coordinator, then the tablet servers in order.
ServerNodes(m) ==
  LET tablets == Items(m, "tablet_servers")
  IN IF \/ ~Has(m, "coordinator_server") \/ ~validNode(m.coordinator_server)
        \/ \E i \in DOMAIN tablets : ~validNode(tablets[i])
     THEN Failed("ErrMetadata")
     ELSE Returns(<<serverNode(m.coordinator_server, "coordinator")>>
                  \o sortNodes([i \in DOMAIN tablets |-> serverNode(tablets[i], "tablet")]))

GetFileSystemSecurityToken(c) == Send("GetFilesystemSecurityToken", None)

FileSystemSecurityToken(m) ==
  [Schema |-> m.schema, Token |-> m.token, ExpiresAt |-> millis(Get(m, "expiration_time", 0)),
   AdditionalInfo |-> mapOf(Items(m, "addition_info"))]

Rebalance(c) == SendIf(c.goals # <<>>, "Rebalance", [goals |-> c.goals])

RebalanceID(m) ==
  IF m.rebalance_id = "" THEN Failed("ErrValidation") ELSE Returns(m.rebalance_id)

ListRebalanceProgress(c) ==
  SendIf(c.id # "", "ListRebalanceProgress", [rebalance_id |-> c.id])

RebalanceProgress(m) ==
  [ID |-> Get(m, "rebalance_id", ""), Status |-> Get(m, "rebalance_status", 0),
   Tables |-> [i \in DOMAIN Items(m, "table_progress") |->
     [TableID |-> m.table_progress[i].table_id,
      Buckets |-> LET items == Items(m.table_progress[i], "buckets_progress")
                  IN [j \in DOMAIN items |->
                        [PartitionID |-> partitionOfZero(items[j].rebalance_plan),
                         Bucket |-> items[j].rebalance_plan.bucket_id,
                         Status |-> items[j].rebalance_status,
                         OriginalLeader |-> Get(items[j].rebalance_plan, "original_leader", 0),
                         NewLeader |-> Get(items[j].rebalance_plan, "new_leader", 0),
                         OriginalReplicas |-> Items(items[j].rebalance_plan, "original_replicas"),
                         NewReplicas |-> Items(items[j].rebalance_plan, "new_replicas")]]]]]

CancelRebalance(c) == SendIf(c.id # "", "CancelRebalance", [rebalance_id |-> c.id])
=============================================================================
