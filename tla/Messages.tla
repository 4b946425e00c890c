------------------------------ MODULE Messages ------------------------------
(***************************************************************************)
(* The protocol messages the client exchanges with a Fluss server           *)
(* (pkg/fmsg).  A message TYPE names its proto2 fields by label, with the    *)
(* type of each field that is itself a message; a message VALUE is a        *)
(* function that holds the fields which are set and only those, so an unset  *)
(* pointer, an empty repeated field and a nil byte slice are all absent.     *)
(* What the scalars contain is left to the modules that build the messages.  *)
(***************************************************************************)
EXTENDS Integers, Sequences, FiniteSets, TLC

None == <<>>

Scalar == [kind |-> "scalar", required |-> None, optional |-> None, repeated |-> None]

Message(required, optional, repeated) ==
  [kind |-> "message", required |-> required, optional |-> optional, repeated |-> repeated]

Plain(names) == [name \in names |-> Scalar]

\* A field that is only set under a condition.
Optionally(condition, name, value) == IF condition THEN name :> value ELSE None

\* A repeated field: absent when there is nothing to repeat.
Repeated(name, items) == Optionally(Len(items) > 0, name, items)

Has(m, name) == name \in DOMAIN m

\* The generated getters answer a default for a field that is not set.
Get(m, name, default) == IF Has(m, name) THEN m[name] ELSE default

Items(m, name) == Get(m, name, <<>>)

\* proto.Marshal and proto.Unmarshal refuse a message that lacks a required
\* field, in itself or in a message it contains; a field the type does not
\* declare cannot be written at all.
RECURSIVE Complete(_, _)
Complete(type, m) ==
  \/ type.kind = "scalar"
  \/ /\ DOMAIN type.required \subseteq DOMAIN m
     /\ DOMAIN m \subseteq DOMAIN type.required \cup DOMAIN type.optional \cup DOMAIN type.repeated
     /\ \A name \in DOMAIN type.required : Complete(type.required[name], m[name])
     /\ \A name \in DOMAIN type.optional \cap DOMAIN m : Complete(type.optional[name], m[name])
     /\ \A name \in DOMAIN type.repeated \cap DOMAIN m :
          \A i \in DOMAIN m[name] : Complete(type.repeated[name], m[name][i])
-----------------------------------------------------------------------------
ApiVersionsRequest ==
  Message(Plain({"client_software_name", "client_software_version"}),
          None,
          None)
PbApiVersion == Message(Plain({"api_key", "min_version", "max_version"}), None, None)
ApiVersionsResponse == Message(None, Plain({"server_type"}), [api_versions |-> PbApiVersion])
PbTablePath == Message(Plain({"database_name", "table_name"}), None, None)
GetTableSchemaRequest == Message([table_path |-> PbTablePath], Plain({"schema_id"}), None)
GetTableSchemaResponse == Message(Plain({"schema_id", "schema_json"}), None, None)
CreateDatabaseRequest ==
  Message(Plain({"database_name", "ignore_if_exists"}),
          Plain({"database_json"}),
          None)
CreateDatabaseResponse == Message(None, None, None)
PbAlterConfig == Message(Plain({"config_key", "op_type"}), Plain({"config_value"}), None)
AlterDatabaseRequest ==
  Message(Plain({"database_name", "ignore_if_not_exists"}),
          Plain({"comment"}),
          [config_changes |-> PbAlterConfig])
AlterDatabaseResponse == Message(None, None, None)
GetDatabaseInfoRequest == Message(Plain({"database_name"}), None, None)
GetDatabaseInfoResponse ==
  Message(Plain({"database_json", "created_time", "modified_time"}),
          None,
          None)
DropDatabaseRequest ==
  Message(Plain({"database_name", "ignore_if_not_exists", "cascade"}),
          None,
          None)
DropDatabaseResponse == Message(None, None, None)
DatabaseExistsRequest == Message(Plain({"database_name"}), None, None)
DatabaseExistsResponse == Message(Plain({"exists"}), None, None)
ListDatabasesRequest == Message(None, Plain({"include_summary"}), None)
PbDatabaseSummary == Message(Plain({"database_name", "created_time", "table_count"}), None, None)
ListDatabasesResponse ==
  Message(None,
          None,
          Plain({"database_name"}) @@ [database_summary |-> PbDatabaseSummary])
CreateTableRequest ==
  Message(Plain({"table_json", "ignore_if_exists"}) @@ [table_path |-> PbTablePath],
          None,
          None)
CreateTableResponse == Message(None, None, None)
PbKeyValue == Message(Plain({"key", "value"}), None, None)
PbAddColumn ==
  Message(Plain({"column_name", "data_type_json", "column_position_type"}),
          Plain({"comment", "agg_function_type"}),
          [agg_function_params |-> PbKeyValue])
PbDropColumn == Message(Plain({"column_name"}), None, None)
PbRenameColumn == Message(Plain({"old_column_name", "new_column_name"}), None, None)
PbModifyColumn ==
  Message(Plain({"column_name"}),
          Plain({"data_type_json", "comment", "column_position_type"}),
          None)
PbModifyBucketCount == Message(Plain({"new_bucket_count"}), None, None)
AlterTableRequest ==
  Message(Plain({"ignore_if_not_exists"}) @@ [table_path |-> PbTablePath],
          [modify_bucket_count |-> PbModifyBucketCount],
          [config_changes |-> PbAlterConfig, add_columns |-> PbAddColumn, drop_columns |->
            PbDropColumn, rename_columns |-> PbRenameColumn, modify_columns |->
            PbModifyColumn])
AlterTableResponse == Message(None, None, None)
GetTableInfoRequest == Message([table_path |-> PbTablePath], None, None)
GetTableInfoResponse ==
  Message(Plain({"table_id", "schema_id", "table_json", "created_time", "modified_time"}),
          Plain({"remote_data_dir", "bucket_count_epoch"}),
          None)
ListTablesRequest == Message(Plain({"database_name"}), None, None)
ListTablesResponse == Message(None, None, Plain({"table_name"}))
DropTableRequest ==
  Message(Plain({"ignore_if_not_exists"}) @@ [table_path |-> PbTablePath],
          None,
          None)
DropTableResponse == Message(None, None, None)
TableExistsRequest == Message([table_path |-> PbTablePath], None, None)
TableExistsResponse == Message(Plain({"exists"}), None, None)
PbPhysicalTablePath ==
  Message(Plain({"database_name", "table_name"}),
          Plain({"partition_name"}),
          None)
MetadataRequest ==
  Message(None,
          None,
          Plain({"partitions_id"}) @@ [table_path |-> PbTablePath, partitions_path |->
            PbPhysicalTablePath])
PbServerNode == Message(Plain({"node_id", "host", "port"}), Plain({"listeners", "rack"}), None)
PbBucketMetadata ==
  Message(Plain({"bucket_id"}),
          Plain({"leader_id", "leader_epoch", "bucket_epoch"}),
          Plain({"replica_id", "isr"}))
PbTableMetadata ==
  Message(Plain({"table_id", "schema_id", "table_json", "created_time", "modified_time"}) @@
            [table_path |-> PbTablePath],
          Plain({"remote_data_dir", "bucket_count_epoch"}),
          [bucket_metadata |-> PbBucketMetadata])
PbPartitionMetadata ==
  Message(Plain({"table_id", "partition_name", "partition_id"}),
          Plain({"bucket_count"}),
          [bucket_metadata |-> PbBucketMetadata])
MetadataResponse ==
  Message(None,
          [coordinator_server |-> PbServerNode],
          [tablet_servers |-> PbServerNode, table_metadata |-> PbTableMetadata, partition_metadata
            |-> PbPartitionMetadata])
PbProduceLogReqForBucket ==
  Message(Plain({"bucket_id", "records"}),
          Plain({"partition_id", "original_partition_name", "routing_bucket_count"}),
          None)
ProduceLogRequest ==
  Message(Plain({"acks", "table_id", "timeout_ms"}),
          None,
          [buckets_req |-> PbProduceLogReqForBucket])
PbProduceLogRespForBucket ==
  Message(Plain({"bucket_id"}),
          Plain({"partition_id", "error_code", "error_message", "base_offset",
            "original_partition_name"}),
          None)
ProduceLogResponse == Message(None, None, [buckets_resp |-> PbProduceLogRespForBucket])
PbFetchLogReqForBucket ==
  Message(Plain({"bucket_id", "fetch_offset", "max_fetch_bytes"}),
          Plain({"partition_id", "routing_bucket_count"}),
          None)
PbLiteralValue ==
  Message(Plain({"literal_type", "is_null"}),
          Plain({"boolean_value", "int_value", "bigint_value", "float_value", "double_value",
            "string_value", "binary_value", "decimal_value", "timestamp_millis_value",
            "timestamp_nano_of_millis_value", "decimal_bytes"}),
          None)
PbLeafPredicate == Message(Plain({"function", "field_id"}), None, [literals |-> PbLiteralValue])
PbCompoundPredicate == Message(Plain({"function"}), None, Plain({"children"}))
PbPredicate ==
  Message(Plain({"type"}),
          [leaf |-> PbLeafPredicate, compound |-> PbCompoundPredicate],
          None)
PbFetchLogReqForTable ==
  Message(Plain({"table_id", "projection_pushdown_enabled"}),
          Plain({"filter_schema_id"}) @@ [filter_predicate |-> PbPredicate],
          Plain({"projected_fields"}) @@ [buckets_req |-> PbFetchLogReqForBucket])
FetchLogRequest ==
  Message(Plain({"follower_server_id", "max_bytes"}),
          Plain({"max_wait_ms", "min_bytes", "read_preference"}),
          [tables_req |-> PbFetchLogReqForTable])
PbRemoteLogSegment ==
  Message(Plain({"remote_log_segment_id", "remote_log_start_offset", "remote_log_end_offset",
            "segment_size_in_bytes"}),
          Plain({"max_timestamp"}),
          None)
PbRemoteLogFetchInfo ==
  Message(Plain({"remote_log_tablet_dir"}),
          Plain({"partition_name", "first_start_pos"}),
          [remote_log_segments |-> PbRemoteLogSegment])
PbFetchLogRespForBucket ==
  Message(Plain({"bucket_id"}),
          Plain({"partition_id", "error_code", "error_message", "high_watermark",
            "log_start_offset", "records", "filtered_end_offset", "min_retain_offset"})
            @@ [remote_log_fetch_info |-> PbRemoteLogFetchInfo],
          None)
PbFetchLogRespForTable ==
  Message(Plain({"table_id"}),
          None,
          [buckets_resp |-> PbFetchLogRespForBucket])
FetchLogResponse == Message(None, None, [tables_resp |-> PbFetchLogRespForTable])
PbPutKvReqForBucket ==
  Message(Plain({"bucket_id", "records"}),
          Plain({"partition_id", "original_partition_name", "routing_bucket_count"}),
          None)
PutKvRequest ==
  Message(Plain({"acks", "table_id", "timeout_ms"}),
          Plain({"agg_mode"}),
          Plain({"target_columns"}) @@ [buckets_req |-> PbPutKvReqForBucket])
PbPutKvRespForBucket ==
  Message(Plain({"bucket_id"}),
          Plain({"partition_id", "error_code", "error_message", "log_end_offset", "pressure",
            "original_partition_name"}),
          None)
PutKvResponse == Message(None, None, [buckets_resp |-> PbPutKvRespForBucket])
PbLookupReqForBucket ==
  Message(Plain({"bucket_id"}),
          Plain({"partition_id", "original_partition_name", "routing_bucket_count"}),
          Plain({"keys"}))
LookupRequest ==
  Message(Plain({"table_id"}),
          Plain({"insert_if_not_exists", "acks", "timeout_ms"}),
          [buckets_req |-> PbLookupReqForBucket])
PbValue == Message(None, Plain({"values"}), None)
PbLookupRespForBucket ==
  Message(Plain({"bucket_id"}),
          Plain({"partition_id", "error_code", "error_message", "original_partition_name"}),
          [values |-> PbValue])
LookupResponse == Message(None, None, [buckets_resp |-> PbLookupRespForBucket])
PbPrefixLookupReqForBucket ==
  Message(Plain({"bucket_id"}),
          Plain({"partition_id", "routing_bucket_count"}),
          Plain({"keys"}))
PrefixLookupRequest ==
  Message(Plain({"table_id"}),
          None,
          [buckets_req |-> PbPrefixLookupReqForBucket])
PbValueList == Message(None, None, Plain({"values"}))
PbPrefixLookupRespForBucket ==
  Message(Plain({"bucket_id"}),
          Plain({"partition_id", "error_code", "error_message"}),
          [value_lists |-> PbValueList])
PrefixLookupResponse == Message(None, None, [buckets_resp |-> PbPrefixLookupRespForBucket])
LimitScanRequest ==
  Message(Plain({"table_id", "bucket_id", "limit"}),
          Plain({"partition_id", "routing_bucket_count"}),
          None)
LimitScanResponse ==
  Message(None,
          Plain({"error_code", "error_message", "is_log_table", "records"}),
          None)
PbScanReqForBucket ==
  Message(Plain({"table_id", "bucket_id"}),
          Plain({"partition_id", "limit", "routing_bucket_count"}),
          None)
ScanKvRequest ==
  Message(None,
          Plain({"scanner_id", "call_seq_id", "batch_size_bytes", "close_scanner"}) @@
            [bucket_scan_req |-> PbScanReqForBucket],
          None)
ScanKvResponse ==
  Message(None,
          Plain({"error_code", "error_message", "scanner_id", "has_more_results", "records",
            "log_offset"}),
          None)
PbTableStatsReqForBucket ==
  Message(Plain({"bucket_id"}),
          Plain({"partition_id", "routing_bucket_count"}),
          None)
GetTableStatsRequest ==
  Message(Plain({"table_id"}),
          None,
          Plain({"target_columns"}) @@ [buckets_req |-> PbTableStatsReqForBucket])
PbTableStatsRespForBucket ==
  Message(Plain({"bucket_id"}),
          Plain({"error_code", "error_message", "partition_id", "row_count"}),
          None)
GetTableStatsResponse == Message(None, None, [buckets_resp |-> PbTableStatsRespForBucket])
ListOffsetsRequest ==
  Message(Plain({"follower_server_id", "offset_type", "table_id"}),
          Plain({"partition_id", "startTimestamp", "routing_bucket_count"}),
          Plain({"bucket_id"}))
PbListOffsetsRespForBucket ==
  Message(Plain({"bucket_id"}),
          Plain({"error_code", "error_message", "offset"}),
          None)
ListOffsetsResponse == Message(None, None, [buckets_resp |-> PbListOffsetsRespForBucket])
GetLatestKvSnapshotsRequest ==
  Message([table_path |-> PbTablePath],
          Plain({"partition_name"}),
          None)
PbKvSnapshot == Message(Plain({"bucket_id"}), Plain({"snapshot_id", "log_offset"}), None)
GetLatestKvSnapshotsResponse ==
  Message(Plain({"table_id"}),
          Plain({"partition_id"}),
          [latest_snapshots |-> PbKvSnapshot])
GetKvSnapshotMetadataRequest ==
  Message(Plain({"table_id", "bucket_id", "snapshot_id"}),
          Plain({"partition_id"}),
          None)
PbRemotePathAndLocalFile == Message(Plain({"remote_path", "local_file_name"}), None, None)
GetKvSnapshotMetadataResponse ==
  Message(Plain({"log_offset"}),
          None,
          [snapshot_files |-> PbRemotePathAndLocalFile])
PbKvSnapshotLeaseForBucket ==
  Message(Plain({"bucket_id", "snapshot_id"}),
          Plain({"partition_id"}),
          None)
PbKvSnapshotLeaseForTable ==
  Message(Plain({"table_id"}),
          None,
          [bucket_snapshots |-> PbKvSnapshotLeaseForBucket])
AcquireKvSnapshotLeaseRequest ==
  Message(Plain({"lease_id", "lease_duration_ms"}),
          None,
          [snapshots_to_lease |-> PbKvSnapshotLeaseForTable])
AcquireKvSnapshotLeaseResponse ==
  Message(None,
          None,
          [unavailable_snapshots |-> PbKvSnapshotLeaseForTable])
PbTableBucket == Message(Plain({"table_id", "bucket_id"}), Plain({"partition_id"}), None)
ReleaseKvSnapshotLeaseRequest ==
  Message(Plain({"lease_id"}),
          None,
          [buckets_to_release |-> PbTableBucket])
ReleaseKvSnapshotLeaseResponse == Message(None, None, None)
DropKvSnapshotLeaseRequest == Message(Plain({"lease_id"}), None, None)
DropKvSnapshotLeaseResponse == Message(None, None, None)
GetLakeSnapshotRequest ==
  Message([table_path |-> PbTablePath],
          Plain({"snapshot_id", "readable"}),
          None)
PbLakeSnapshotForBucket ==
  Message(Plain({"bucket_id"}),
          Plain({"partition_id", "log_offset", "partition_name"}),
          None)
GetLakeSnapshotResponse ==
  Message(Plain({"table_id", "snapshotId"}),
          None,
          [bucket_snapshots |-> PbLakeSnapshotForBucket])
GetFileSystemSecurityTokenRequest == Message(None, None, None)
GetFileSystemSecurityTokenResponse ==
  Message(Plain({"schema", "token"}),
          Plain({"expiration_time"}),
          [addition_info |-> PbKeyValue])
InitWriterRequest == Message(None, None, [table_path |-> PbTablePath])
InitWriterResponse == Message(Plain({"writer_id"}), None, None)
PbPartitionSpec == Message(None, None, [partition_key_values |-> PbKeyValue])
ListPartitionInfosRequest ==
  Message([table_path |-> PbTablePath],
          Plain({"include_system_partitions"}) @@ [partial_partition_spec |-> PbPartitionSpec],
          None)
PbPartitionInfo ==
  Message(Plain({"partition_id"}) @@ [partition_spec |-> PbPartitionSpec],
          Plain({"remote_data_dir", "bucket_count"}),
          None)
ListPartitionInfosResponse ==
  Message(None,
          Plain({"system_partitions_included"}),
          [partitions_info |-> PbPartitionInfo])
ListRemoteLogManifestsRequest == Message(Plain({"table_id"}), Plain({"partition_id"}), None)
PbRemoteLogManifestEntry ==
  Message(Plain({"remote_log_manifest_path", "remote_log_end_offset"}) @@ [table_bucket |->
            PbTableBucket],
          None,
          None)
ListRemoteLogManifestsResponse == Message(None, None, [manifests |-> PbRemoteLogManifestEntry])
ListKvSnapshotsRequest == Message(Plain({"table_id"}), Plain({"partition_id"}), None)
ListKvSnapshotsResponse ==
  Message(Plain({"table_id"}),
          Plain({"partition_id"}),
          [active_snapshots |-> PbKvSnapshot])
CreatePartitionRequest ==
  Message(Plain({"ignore_if_not_exists"}) @@ [table_path |-> PbTablePath, partition_spec |->
            PbPartitionSpec],
          None,
          None)
CreatePartitionResponse == Message(None, None, None)
DropPartitionRequest ==
  Message(Plain({"ignore_if_not_exists"}) @@ [table_path |-> PbTablePath, partition_spec |->
            PbPartitionSpec],
          None,
          None)
DropPartitionResponse == Message(None, None, None)
AuthenticateRequest == Message(Plain({"protocol", "token"}), None, None)
AuthenticateResponse == Message(None, Plain({"challenge"}), None)
PbAclFilter ==
  Message(Plain({"resource_type", "operation_type", "permission_type"}),
          Plain({"resource_name", "principal_name", "principal_type", "host"}),
          None)
ListAclsRequest == Message([acl_filter |-> PbAclFilter], None, None)
PbAclInfo ==
  Message(Plain({"resource_name", "resource_type", "principal_name", "principal_type", "host",
            "operation_type", "permission_type"}),
          None,
          None)
ListAclsResponse == Message(None, None, [acl |-> PbAclInfo])
CreateAclsRequest == Message(None, None, [acl |-> PbAclInfo])
PbCreateAclRespInfo == Message([acl |-> PbAclInfo], Plain({"error_code", "error_message"}), None)
CreateAclsResponse == Message(None, None, [aclRes |-> PbCreateAclRespInfo])
DropAclsRequest == Message(None, None, [acl_filter |-> PbAclFilter])
PbDropAclsMatchingAcl == Message([acl |-> PbAclInfo], Plain({"error_code", "error_message"}), None)
PbDropAclsFilterResult ==
  Message(None,
          Plain({"error_code", "error_message"}),
          [matching_acls |-> PbDropAclsMatchingAcl])
DropAclsResponse == Message(None, None, [filter_results |-> PbDropAclsFilterResult])
DescribeClusterConfigsRequest == Message(None, None, None)
PbDescribeConfig == Message(Plain({"config_key", "config_source"}), Plain({"config_value"}), None)
DescribeClusterConfigsResponse == Message(None, None, [configs |-> PbDescribeConfig])
AlterClusterConfigsRequest == Message(None, None, [alter_configs |-> PbAlterConfig])
AlterClusterConfigsResponse == Message(None, None, None)
AddServerTagRequest == Message(Plain({"server_tag"}), None, Plain({"server_ids"}))
AddServerTagResponse == Message(None, None, None)
RemoveServerTagRequest == Message(Plain({"server_tag"}), None, Plain({"server_ids"}))
RemoveServerTagResponse == Message(None, None, None)
RebalanceRequest == Message(None, None, Plain({"goals"}))
RebalanceResponse == Message(Plain({"rebalance_id"}), None, None)
ListRebalanceProgressRequest == Message(None, Plain({"rebalance_id"}), None)
PbRebalancePlanForBucket ==
  Message(Plain({"bucket_id"}),
          Plain({"partition_id", "original_leader", "new_leader"}),
          Plain({"original_replicas", "new_replicas"}))
PbRebalanceProgressForBucket ==
  Message(Plain({"rebalance_status"}) @@ [rebalance_plan |-> PbRebalancePlanForBucket],
          None,
          None)
PbRebalanceProgressForTable ==
  Message(Plain({"table_id"}),
          None,
          [buckets_progress |-> PbRebalanceProgressForBucket])
ListRebalanceProgressResponse ==
  Message(None,
          Plain({"rebalance_id", "rebalance_status"}),
          [table_progress |-> PbRebalanceProgressForTable])
CancelRebalanceRequest == Message(None, Plain({"rebalance_id"}), None)
CancelRebalanceResponse == Message(None, None, None)
PbBucketOffset == Message(Plain({"bucket_id"}), Plain({"partition_id", "log_end_offset"}), None)
PbProducerTableOffsets == Message(Plain({"table_id"}), None, [bucket_offsets |-> PbBucketOffset])
RegisterProducerOffsetsRequest ==
  Message(Plain({"producer_id"}),
          Plain({"ttl_ms"}),
          [table_offsets |-> PbProducerTableOffsets])
RegisterProducerOffsetsResponse == Message(None, Plain({"result"}), None)
GetProducerOffsetsRequest == Message(Plain({"producer_id"}), None, None)
GetProducerOffsetsResponse ==
  Message(None,
          Plain({"producer_id", "expiration_time"}),
          [table_offsets |-> PbProducerTableOffsets])
DeleteProducerOffsetsRequest == Message(Plain({"producer_id"}), None, None)
DeleteProducerOffsetsResponse == Message(None, None, None)
GetClusterHealthRequest == Message(None, None, None)
GetClusterHealthResponse ==
  Message(Plain({"num_replicas", "in_sync_replicas", "num_leader_replicas",
            "active_leader_replicas", "status"}),
          None,
          None)
=============================================================================
