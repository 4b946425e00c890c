----------------------------- MODULE FlussServer -----------------------------
(***************************************************************************)
(* The Fluss servers at the other end of the protocol, as the client uses    *)
(* them (external to this repository): what a request message asks for, as   *)
(* a call of FlussService, and the message that answers it.  Written from    *)
(* the message definitions alone, with none of the client's operators.       *)
(***************************************************************************)
EXTENDS Messages

T == INSTANCE Schemas

path(m) == [Database |-> m.database_name, Table |-> m.table_name]
pathOf(m) == path(m.table_path)
optional(m, name) == IF Has(m, name) THEN <<m[name]>> ELSE <<>>
idOf(m) == Get(m, "partition_id", -1)
setID(id) == Optionally(id # -1, "partition_id", id)
entriesOf(m) == Items(m, "partition_key_values")
specOf(m) == [k \in {entriesOf(m)[i].key : i \in DOMAIN entriesOf(m)} |->
                (CHOOSE e \in {entriesOf(m)[i] : i \in DOMAIN entriesOf(m)} : e.key = k).value]
entries(spec) ==
  LET RECURSIVE list(_)
      list(keys) == IF keys = {} THEN <<>>
                    ELSE LET k == CHOOSE k \in keys : TRUE
                         IN <<[key |-> k, value |-> spec[k]]>> \o list(keys \ {k})
  IN list(DOMAIN spec)
map(items, f(_)) == [i \in DOMAIN items |-> f(items[i])]

Changes(items) ==
  map(items, LAMBDA m : [key |-> m.config_key, op |-> m.op_type, value |-> optional(m, "config_value")])

\* Times to live come in milliseconds; calls count halves of them.
halves(ms) == 2 * ms

schemaOf(json, bucketKey, partitionKey) ==
  LET columns == map(json.columns, LAMBDA c :
                       [name |-> c.name, kind |-> T!dataTypeForLogicalType(c.type),
                        nullable |-> c.type.nullable, logical |-> <<c.type>>, id |-> c.id])
  IN [columns |-> columns, primaryKey |-> json.primaryKey, bucketKey |-> bucketKey,
      partitionKey |-> partitionKey, autoIncrement |-> json.autoIncrement, highest |-> json.highest]

documentOf(schema) ==
  [columns |-> map(schema.columns, LAMBDA c : [name |-> c.name, type |-> c.logical[1], id |-> c.id]),
   primaryKey |-> schema.primaryKey, autoIncrement |-> schema.autoIncrement,
   highest |-> schema.highest]
-----------------------------------------------------------------------------
(* Requests                                                                *)

leases(tables) ==
  LET of(t) == map(Items(t, "bucket_snapshots"), LAMBDA m :
                     [TableID |-> t.table_id, PartitionID |-> idOf(m), Bucket |-> m.bucket_id,
                      SnapshotID |-> m.snapshot_id])
      RECURSIVE all(_)
      all(ts) == IF ts = <<>> THEN <<>> ELSE of(ts[1]) \o all(Tail(ts))
  IN all(tables)

acl(m) ==
  [ResourceName |-> m.resource_name, ResourceType |-> m.resource_type,
   PrincipalName |-> m.principal_name, PrincipalType |-> m.principal_type, Host |-> m.host,
   Operation |-> m.operation_type, Permission |-> m.permission_type]

filter(m) ==
  [ResourceName |-> optional(m, "resource_name"), ResourceType |-> m.resource_type,
   PrincipalName |-> optional(m, "principal_name"), PrincipalType |-> optional(m, "principal_type"),
   Host |-> optional(m, "host"), Operation |-> m.operation_type, Permission |-> m.permission_type]

\* A filter by field ID is understood in the schema it names.
literal(m) ==
  IF m.is_null THEN [go |-> "nil", v |-> <<>>]
  ELSE LET field == CHOOSE f \in {"int_value", "bigint_value", "string_value"} : f \in DOMAIN m
       IN [go |-> "value", v |-> m[field]]

RECURSIVE predicate(_, _)
predicate(m, schema) ==
  IF m.type = 1
  THEN [compound |-> TRUE, function |-> m.compound.function, column |-> "", literals |-> <<>>,
        children |-> map(m.compound.children, LAMBDA child : predicate(child, schema))]
  ELSE [compound |-> FALSE, function |-> m.leaf.function,
        column |-> (CHOOSE c \in {schema.columns[i] : i \in DOMAIN schema.columns} :
                      c.id = m.leaf.field_id).name,
        literals |-> map(Items(m.leaf, "literals"), literal), children |-> <<>>]

\* What a request about the data of one bucket has in common.
bucketOf(m, b) ==
  [table |-> m.table_id, partition |-> idOf(b), bucket |-> b.bucket_id,
   bucketCount |-> Get(b, "routing_bucket_count", 0)]

DataCall(s, key, m) ==
  CASE key = "ProduceLog" ->
         [op |-> key, records |-> m.buckets_req[1].records] @@ bucketOf(m, m.buckets_req[1])
    [] key = "PutKv" ->
         [op |-> key, records |-> m.buckets_req[1].records, targets |-> Items(m, "target_columns")]
           @@ bucketOf(m, m.buckets_req[1])
    [] key \in {"Lookup", "PrefixLookup"} ->
         [op |-> key, keys |-> Items(m.buckets_req[1], "keys"),
          insert |-> Get(m, "insert_if_not_exists", FALSE)] @@ bucketOf(m, m.buckets_req[1])
    [] key = "FetchLog" ->
         LET t == m.tables_req[1]
             schema == s.filterSchemas[t.filter_schema_id]
         IN [op |-> key, offset |-> t.buckets_req[1].fetch_offset,
             projection |-> Items(t, "projected_fields"),
             filter |-> IF ~Has(t, "filter_predicate") THEN <<>>
                        ELSE <<[predicate |-> predicate(t.filter_predicate, schema),
                                schema |-> schema]>>] @@ bucketOf(t, t.buckets_req[1])
    [] key = "LimitScan" -> [op |-> key, limit |-> m.limit] @@ bucketOf(m, m)
    [] key = "ScanKv" ->
         [op |-> key, limit |-> m.bucket_scan_req.limit] @@ bucketOf(m.bucket_scan_req, m.bucket_scan_req)
    [] key = "InitWriter" -> [op |-> key, path |-> path(m.table_path[1])]
    [] key = "GetMetadata" ->
         CASE Has(m, "table_path") -> [op |-> "TableMetadata", path |-> path(m.table_path[1])]
           [] Has(m, "partitions_path") ->
                [op |-> "PartitionMetadata", path |-> path(m.partitions_path[1]),
                 partition |-> m.partitions_path[1].partition_name]
           [] OTHER -> [op |-> "GetServerNodes"]

TableCall(key, m) ==
  CASE key = "CreateDatabase" ->
         [op |-> key, name |-> m.database_name, ignore |-> m.ignore_if_exists,
          comment |-> Get(m.database_json, "comment", ""),
          properties |-> m.database_json.custom_properties]
    [] key = "AlterDatabase" ->
         [op |-> key, name |-> m.database_name, ignore |-> m.ignore_if_not_exists,
          comment |-> optional(m, "comment"), config |-> Changes(Items(m, "config_changes"))]
    [] key = "DropDatabase" ->
         [op |-> key, name |-> m.database_name, ignore |-> m.ignore_if_not_exists, cascade |-> m.cascade]
    [] key \in {"DatabaseExists", "GetDatabaseInfo", "ListTables"} -> [op |-> key, name |-> m.database_name]
    [] key = "ListDatabases" -> [op |-> "ListDatabaseSummaries"]
    [] key = "CreateTable" ->
         [op |-> key, path |-> pathOf(m), ignore |-> m.ignore_if_exists,
          schema |-> schemaOf(m.table_json.schema, m.table_json.bucket_key, m.table_json.partition_key),
          bucketCount |-> m.table_json.bucket_count, properties |-> m.table_json.properties]
    [] key = "DropTable" -> [op |-> key, path |-> pathOf(m), ignore |-> m.ignore_if_not_exists]
    [] key = "AlterTable" ->
         [op |-> key, path |-> pathOf(m), ignore |-> m.ignore_if_not_exists,
          config |-> Changes(Items(m, "config_changes")),
          add |-> map(Items(m, "add_columns"), LAMBDA a :
                    [name |-> a.column_name, kind |-> T!dataTypeForLogicalType(a.data_type_json),
                     type |-> a.data_type_json, first |-> a.column_position_type = 1]),
          drop |-> map(Items(m, "drop_columns"), LAMBDA d : d.column_name),
          rename |-> map(Items(m, "rename_columns"), LAMBDA r :
                       [old |-> r.old_column_name, new |-> r.new_column_name]),
          bucketCount |-> IF Has(m, "modify_bucket_count")
                          THEN <<m.modify_bucket_count.new_bucket_count>> ELSE <<>>]
    [] key = "TableExists" -> [op |-> key, path |-> pathOf(m)]
    [] key = "GetTableInfo" -> [op |-> "GetTable", path |-> pathOf(m)]
    [] key = "GetTableSchema" -> [op |-> key, path |-> pathOf(m), schemaID |-> m.schema_id]
    [] key \in {"CreatePartition", "DropPartition"} ->
         [op |-> key, path |-> pathOf(m), spec |-> specOf(m.partition_spec),
          ignore |-> m.ignore_if_not_exists]
    [] key = "ListPartitionInfos" ->
         [op |-> key, path |-> pathOf(m),
          spec |-> IF Has(m, "partial_partition_spec") THEN specOf(m.partial_partition_spec) ELSE None]

ReadCall(key, m) ==
  CASE key = "ListOffsets" ->
         [op |-> "ListOffset", table |-> m.table_id, partition |-> idOf(m), bucket |-> m.bucket_id[1],
          bucketCount |-> Get(m, "routing_bucket_count", 0),
          kind |-> <<"earliest", "latest", "timestamp">>[m.offset_type + 1],
          time |-> Get(m, "startTimestamp", 0)]
    [] key = "GetTableStats" -> [op |-> "TableStats"] @@ bucketOf(m, m.buckets_req[1])
    [] key = "GetLatestKvSnapshots" ->
         [op |-> "GetLatestKVSnapshots", path |-> pathOf(m), partition |-> Get(m, "partition_name", "")]
    [] key = "ListKvSnapshots" -> [op |-> "ListKVSnapshots", table |-> m.table_id, partition |-> idOf(m)]
    [] key = "GetKvSnapshotMetadata" ->
         [op |-> "GetKVSnapshotMetadata", table |-> m.table_id, partition |-> idOf(m),
          bucket |-> m.bucket_id, snapshot |-> m.snapshot_id]
    [] key = "ListRemoteLogManifests" -> [op |-> key, table |-> m.table_id, partition |-> idOf(m)]
    [] key = "GetLakeSnapshot" ->
         [op |-> key, path |-> pathOf(m), snapshot |-> optional(m, "snapshot_id"),
          readable |-> Get(m, "readable", FALSE)]

AdminCall(key, m) ==
  CASE key = "AcquireKvSnapshotLease" /\ Has(m, "snapshots_to_lease") ->
         [op |-> "AcquireKVSnapshotLease", lease |-> m.lease_id, duration |-> halves(m.lease_duration_ms),
          snapshots |-> leases(m.snapshots_to_lease)]
    [] key = "AcquireKvSnapshotLease" /\ ~Has(m, "snapshots_to_lease") ->
         [op |-> "RenewKVSnapshotLease", lease |-> m.lease_id, duration |-> halves(m.lease_duration_ms)]
    [] key = "ReleaseKvSnapshotLease" ->
         [op |-> "ReleaseKVSnapshotLease", lease |-> m.lease_id,
          buckets |-> map(Items(m, "buckets_to_release"), LAMBDA b :
                        [TableID |-> b.table_id, PartitionID |-> idOf(b), BucketID |-> b.bucket_id])]
    [] key = "DropKvSnapshotLease" -> [op |-> "DropKVSnapshotLease", lease |-> m.lease_id]
    [] key = "RegisterProducerOffsets" ->
         [op |-> key, producer |-> m.producer_id, ttl |-> halves(m.ttl_ms),
          tables |-> map(Items(m, "table_offsets"), LAMBDA t :
                       [TableID |-> t.table_id,
                        Offsets |-> map(Items(t, "bucket_offsets"), LAMBDA o :
                                      [PartitionID |-> idOf(o), Bucket |-> o.bucket_id,
                                       Offset |-> o.log_end_offset])])]
    [] key \in {"GetProducerOffsets", "DeleteProducerOffsets"} -> [op |-> key, producer |-> m.producer_id]
    [] key = "CreateAcls" -> [op |-> "CreateACLs", acls |-> map(Items(m, "acl"), acl)]
    [] key = "ListAcls" -> [op |-> "ListACLs", filter |-> filter(m.acl_filter)]
    [] key = "DropAcls" -> [op |-> "DropACLs", filters |-> map(Items(m, "acl_filter"), filter)]
    [] key = "AlterClusterConfigs" -> [op |-> key, config |-> Changes(Items(m, "alter_configs"))]
    [] key \in {"AddServerTag", "RemoveServerTag"} ->
         [op |-> key, servers |-> Items(m, "server_ids"), tag |-> m.server_tag]
    [] key = "GetFilesystemSecurityToken" -> [op |-> "GetFileSystemSecurityToken"]
    [] key = "Rebalance" -> [op |-> key, goals |-> Items(m, "goals")]
    [] key \in {"ListRebalanceProgress", "CancelRebalance"} -> [op |-> key, id |-> m.rebalance_id]
    [] key \in {"DescribeClusterConfigs", "GetClusterHealth"} -> [op |-> key]

DataKeys == {"ProduceLog", "PutKv", "Lookup", "PrefixLookup", "FetchLog", "LimitScan", "ScanKv",
             "InitWriter", "GetMetadata"}
TableKeys == {"CreateDatabase", "AlterDatabase", "DropDatabase", "DatabaseExists", "GetDatabaseInfo",
              "ListDatabases", "CreateTable", "DropTable", "AlterTable", "ListTables", "TableExists",
              "GetTableInfo", "GetTableSchema", "CreatePartition", "DropPartition", "ListPartitionInfos"}
ReadKeys == {"ListOffsets", "GetTableStats", "GetLatestKvSnapshots", "ListKvSnapshots",
             "GetKvSnapshotMetadata", "ListRemoteLogManifests", "GetLakeSnapshot"}

\* What the request asks of a server in state s.
CallOf(s, key, m) ==
  CASE key \in DataKeys -> DataCall(s, key, m)
    [] key \in TableKeys -> TableCall(key, m)
    [] key \in ReadKeys -> ReadCall(key, m)
    [] OTHER -> AdminCall(key, m)

-----------------------------------------------------------------------------
(* Answers: the message for the value that a call computed                  *)

\* An error of one bucket travels in that bucket's part of the answer.
coded(d) == Optionally(d.err # "none", "error_code", d.err)
bucketAnswer(c, d, content) ==
  [buckets_resp |-> <<[bucket_id |-> c.bucket] @@ coded(d)
                        @@ (IF d.err = "none" THEN content ELSE None)>>]

\* Tiered rows are left in a remote segment, the rest comes along.
fetchAnswer(s, c, d) ==
  LET tiered == IF c.offset < s.tiered THEN s.tiered - c.offset ELSE 0
      rows == d.value.records
      remote == [remote_log_tablet_dir |-> "dir", first_start_pos |-> c.offset,
                 remote_log_segments |->
                   <<[remote_log_segment_id |-> <<c.table, c.partition, c.bucket>>,
                      remote_log_start_offset |-> 0, remote_log_end_offset |-> s.tiered,
                      segment_size_in_bytes |-> s.tiered, max_timestamp |-> 1]>>]
  IN [tables_resp |->
        <<[table_id |-> c.table] @@
          bucketAnswer(c, d,
            [high_watermark |-> d.value.highWatermark]
              @@ Optionally(d.value.filteredEndOffset # <<>>, "filtered_end_offset",
                            d.value.filteredEndOffset[1])
              @@ Optionally(tiered > 0, "remote_log_fetch_info", remote)
              @@ Repeated("records", SubSeq(rows, tiered + 1, Len(rows))))>>]

node(n) == [node_id |-> n.ID, host |-> n.Host, port |-> n.Port] @@ Optionally(n.Rack # "", "rack", n.Rack)

\* Servers list the tablet servers in no particular order.
serversOf(s) ==
  [coordinator_server |-> node(s.nodes[1]),
   tablet_servers |-> [i \in 1 .. Len(s.nodes) - 1 |-> node(s.nodes[Len(s.nodes) + 1 - i])]]

\* Buckets are listed from the last to the first.
bucketsOf(leaders) ==
  LET RECURSIVE list(_)
      list(ids) == IF ids = {} THEN <<>>
                   ELSE LET b == CHOOSE b \in ids : \A o \in ids : o =< b
                        IN <<[bucket_id |-> b] @@ Optionally(leaders[b] # <<>>, "leader_id", leaders[b][1])>>
                           \o list(ids \ {b})
  IN list(DOMAIN leaders)

metadataAnswer(s, c) ==
  LET t == s.layout[c.path]
      known == c.op = "TableMetadata" /\ c.path \in DOMAIN s.layout
      names == IF c.path \notin DOMAIN s.layout THEN {}
               ELSE IF c.op = "TableMetadata" THEN DOMAIN t.partitions
               ELSE {c.partition} \cap DOMAIN t.partitions
      one(n) == <<[table_id |-> t.id, partition_name |-> n, partition_id |-> t.partitions[n].id,
                   bucket_metadata |-> bucketsOf(t.partitions[n].leaders)]
                    @@ Optionally(t.partitions[n].count # <<>>, "bucket_count", t.partitions[n].count[1])>>
      RECURSIVE all(_)
      all(ns) == IF ns = {} THEN <<>> ELSE LET n == CHOOSE n \in ns : TRUE IN one(n) \o all(ns \ {n})
  IN serversOf(s)
     @@ Optionally(known, "table_metadata",
          <<[table_path |-> [database_name |-> c.path.Database, table_name |-> c.path.Table],
             table_id |-> t.id, schema_id |-> t.schemaID, table_json |-> "json", created_time |-> 1,
             modified_time |-> 1, bucket_metadata |-> bucketsOf(t.leaders)]
              @@ Optionally(t.epoch # <<>>, "bucket_count_epoch", t.epoch[1])>>)
     @@ Repeated("partition_metadata", all(names))

DataAnswer(s, c, d) ==
  CASE c.op = "ProduceLog" -> bucketAnswer(c, d, [base_offset |-> d.value])
    [] c.op = "PutKv" ->
         bucketAnswer(c, d, [log_end_offset |-> d.value.logEnd]
                              @@ Optionally(d.value.pressure # <<>>, "pressure", d.value.pressure[1]))
    [] c.op = "Lookup" ->
         bucketAnswer(c, d, [values |-> map(d.value, LAMBDA v : Repeated("values", v))])
    [] c.op = "PrefixLookup" ->
         bucketAnswer(c, d, [value_lists |-> map(d.value, LAMBDA v : Repeated("values", v))])
    [] c.op = "FetchLog" ->
         IF d.err = "none" THEN fetchAnswer(s, c, d)
         ELSE [tables_resp |-> <<[table_id |-> c.table] @@ bucketAnswer(c, d, None)>>]
    [] c.op = "LimitScan" ->
         IF d.err # "none" THEN coded(d)
         ELSE [is_log_table |-> d.value.isLogTable] @@ Repeated("records", d.value.records)
    [] c.op = "ScanKv" ->
         IF d.err # "none" THEN coded(d)
         ELSE [has_more_results |-> d.value.hasMore] @@ Repeated("records", d.value.records)
    [] c.op = "InitWriter" -> [writer_id |-> d.value]
    [] c.op \in {"TableMetadata", "PartitionMetadata"} -> metadataAnswer(s, c)
    [] c.op = "GetServerNodes" -> serversOf(s)
    [] c.op = "ListOffset" ->
         [buckets_resp |-> <<[bucket_id |-> c.bucket, offset |-> d.value.Offset]
                               @@ Optionally(d.value.Err # "none", "error_code", d.value.Err)>>]
    [] c.op = "TableStats" ->
         [buckets_resp |-> <<[bucket_id |-> c.bucket, row_count |-> d.value.RowCount]
                               @@ setID(c.partition)
                               @@ Optionally(d.value.Err # "none", "error_code", d.value.Err)>>]

TableAnswer(s, c, v) ==
  CASE c.op \in {"DatabaseExists", "TableExists"} -> [exists |-> v]
    [] c.op = "GetDatabaseInfo" ->
         [database_json |-> [version |-> 1, custom_properties |-> v.Properties]
                              @@ Optionally(v.Comment # "", "comment", v.Comment),
          created_time |-> v.CreatedAt, modified_time |-> IF v.ModifiedAt = -1 THEN 0 ELSE v.ModifiedAt]
    [] c.op = "ListDatabaseSummaries" ->
         IF s.summaries
         THEN Repeated("database_summary", map(v, LAMBDA d :
                [database_name |-> d.Name, created_time |-> d.CreatedAt, table_count |-> d.TableCount]))
         ELSE Repeated("database_name", map(v, LAMBDA d : d.Name))
    [] c.op = "ListTables" -> Repeated("table_name", map(v, LAMBDA p : p.Table))
    [] c.op = "GetTableSchema" -> [schema_id |-> c.schemaID, schema_json |-> documentOf(v)]
    [] c.op = "GetTable" ->
         [table_id |-> v.ID, schema_id |-> v.SchemaID, created_time |-> 1, modified_time |-> 1,
          table_json |-> [bucket_key |-> v.Schema.bucketKey, partition_key |-> v.Schema.partitionKey,
                          bucket_count |-> v.BucketCount, properties |-> v.Properties]]
    [] c.op = "ListPartitionInfos" ->
         Repeated("partitions_info", map(v, LAMBDA p :
           [partition_id |-> p.ID, partition_spec |-> Repeated("partition_key_values", entries(p.Spec))]))
    [] OTHER -> None

snapshots(v, name) ==
  [table_id |-> v.TableID] @@ setID(v.PartitionID)
    @@ Repeated(name, map(v.Snapshots, LAMBDA x :
         [bucket_id |-> x.Bucket] @@ (IF x.Available THEN [snapshot_id |-> x.SnapshotID, log_offset |-> x.LogOffset]
                                      ELSE None)))

ReadAnswer(c, v) ==
  CASE c.op = "GetLatestKVSnapshots" -> snapshots(v, "latest_snapshots")
    [] c.op = "ListKVSnapshots" -> snapshots(v, "active_snapshots")
    [] c.op = "GetKVSnapshotMetadata" ->
         [log_offset |-> v.LogOffset]
           @@ Repeated("snapshot_files", map(v.Files, LAMBDA f :
                [remote_path |-> f.RemotePath, local_file_name |-> f.LocalName]))
    [] c.op = "ListRemoteLogManifests" ->
         Repeated("manifests", map(v, LAMBDA e :
           [table_bucket |-> [table_id |-> e.TableID, bucket_id |-> e.Bucket] @@ setID(e.PartitionID),
            remote_log_manifest_path |-> e.Path, remote_log_end_offset |-> e.LogEndOffset]))
    [] c.op = "GetLakeSnapshot" ->
         [table_id |-> v.TableID, snapshotId |-> v.SnapshotID]
           @@ Repeated("bucket_snapshots", map(v.Buckets, LAMBDA b :
                [bucket_id |-> b.Bucket, log_offset |-> b.LogOffset] @@ setID(b.PartitionID)
                  @@ Optionally(b.PartitionName # "", "partition_name", b.PartitionName)))


binding(a) ==
  [resource_name |-> a.ResourceName, resource_type |-> a.ResourceType,
   principal_name |-> a.PrincipalName, principal_type |-> a.PrincipalType, host |-> a.Host,
   operation_type |-> a.Operation, permission_type |-> a.Permission]

bindings(results) ==
  map(results, LAMBDA r : [acl |-> binding(r.Binding)] @@ Optionally(r.Err # "none", "error_code", r.Err))

AdminAnswer(c, v) ==
  CASE c.op = "AcquireKVSnapshotLease" ->
         Repeated("unavailable_snapshots", map(v, LAMBDA l :
           [table_id |-> l.TableID,
            bucket_snapshots |-> <<[bucket_id |-> l.Bucket, snapshot_id |-> l.SnapshotID]
                                     @@ setID(l.PartitionID)>>]))
    [] c.op = "RegisterProducerOffsets" -> [result |-> IF v THEN 0 ELSE 1]
    [] c.op = "GetProducerOffsets" ->
         IF v.ProducerID = "" THEN None
         ELSE [producer_id |-> v.ProducerID, expiration_time |-> v.ExpiresAt]
                @@ Repeated("table_offsets", map(v.Tables, LAMBDA t :
                     [table_id |-> t.TableID,
                      bucket_offsets |-> map(t.Offsets, LAMBDA o :
                        [bucket_id |-> o.Bucket, log_end_offset |-> o.Offset] @@ setID(o.PartitionID))]))
    [] c.op = "CreateACLs" -> Repeated("aclRes", bindings(v))
    [] c.op = "ListACLs" -> Repeated("acl", map(v, binding))
    [] c.op = "DropACLs" ->
         Repeated("filter_results", map(v, LAMBDA r : Repeated("matching_acls", bindings(r.Matches))))
    [] c.op = "DescribeClusterConfigs" ->
         Repeated("configs", map(v, LAMBDA e :
           [config_key |-> e.Key, config_source |-> e.Source, config_value |-> e.Value]))
    [] c.op = "GetClusterHealth" ->
         [num_replicas |-> v.Replicas, in_sync_replicas |-> v.InSyncReplicas,
          num_leader_replicas |-> v.LeaderReplicas,
          active_leader_replicas |-> v.ActiveLeaderReplicas, status |-> v.Status]
    [] c.op = "GetFileSystemSecurityToken" ->
         [schema |-> v.Schema, token |-> v.Token]
           @@ Optionally(v.ExpiresAt # -1, "expiration_time", v.ExpiresAt)
           @@ Repeated("addition_info", entries(v.AdditionalInfo))
    [] c.op = "Rebalance" -> [rebalance_id |-> v]
    [] c.op = "ListRebalanceProgress" ->
         [rebalance_id |-> v.ID, rebalance_status |-> v.Status]
           @@ Repeated("table_progress", map(v.Tables, LAMBDA t :
                [table_id |-> t.TableID,
                 buckets_progress |-> map(t.Buckets, LAMBDA b :
                   [rebalance_status |-> b.Status,
                    rebalance_plan |-> [bucket_id |-> b.Bucket, original_leader |-> b.OriginalLeader,
                                        new_leader |-> b.NewLeader] @@ setID(b.PartitionID)
                                         @@ Repeated("original_replicas", b.OriginalReplicas)
                                         @@ Repeated("new_replicas", b.NewReplicas)])]))
    [] OTHER -> None

\* An answer is an error for the whole request, or a message.
AnswerOf(s, key, c, d) ==
  IF key \in DataKeys \cup {"ListOffsets", "GetTableStats"}
  THEN [err |-> "none", message |-> DataAnswer(s, c, d)]
  ELSE IF d.err # "none" THEN [err |-> d.err, message |-> None]
  ELSE [err |-> "none",
        message |-> CASE key \in TableKeys -> TableAnswer(s, c, d.value)
                      [] key \in ReadKeys -> ReadAnswer(c, d.value)
                      [] OTHER -> AdminAnswer(c, d.value)]
=============================================================================
