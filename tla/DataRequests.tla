---------------------------- MODULE DataRequests ----------------------------
(***************************************************************************)
(* The requests of the data path (the backends of pkg/fgo) and the cluster  *)
(* metadata: the message each operation sends, where the routing bucket     *)
(* count goes, and what is made of the answer.  The conventions, and the    *)
(* helpers for paths, partitions and single-bucket answers, are those of    *)
(* AdminRequests.  Bytes are sequences, so that nil and empty bytes are the *)
(* same, as they are once copied with append.                               *)
(***************************************************************************)
EXTENDS AdminRequests, Predicates, SequencesExt

CONSTANT MaxInt32    \* math.MaxInt32

\* The conversion int32(v), which wraps around.
int32(v) == ((v + MaxInt32 + 1) % (2 * (MaxInt32 + 1))) - (MaxInt32 + 1)

\* Every data answer is about one bucket: the one that was asked for.
OneBucket(m, bucket) ==
  /\ answersBucket(m, bucket)
  /\ Get(m.buckets_resp[1], "error_code", "none") = "none"

BucketError(m, bucket) ==
  IF answersBucket(m, bucket) THEN m.buckets_resp[1].error_code ELSE "ErrValidation"
-----------------------------------------------------------------------------
(* Writing                                                                 *)

initWriter(c) == Send("InitWriter", [table_path |-> <<pbTablePath(c.path)>>])

\* Only a partitioned path carries a partition ID.
produce(c) ==
  SendIf(Milliseconds(c.timeout) =< MaxInt32, "ProduceLog",
         [acks |-> c.acks, table_id |-> c.table, timeout_ms |-> Milliseconds(c.timeout),
          buckets_req |-> <<[bucket_id |-> c.bucket, records |-> c.records]
                             @@ Optionally(c.partitionName # "", "partition_id", c.partition)>>])

produced(c, m) ==
  IF OneBucket(m, c.bucket) THEN Returns(Get(m.buckets_resp[1], "base_offset", 0))
  ELSE Failed(BucketError(m, c.bucket))

\* The put request of the upsert writer forgets the columns it is about.
putEverything(c) ==
  Send("PutKv",
       [acks |-> c.acks, table_id |-> c.table, timeout_ms |-> int32(Milliseconds(c.timeout)),
        agg_mode |-> c.mergeMode,
        buckets_req |-> <<[bucket_id |-> c.bucket, records |-> c.records] @@ withPartition(c.partition)>>])

put(c) ==
  Send("PutKv",
       [acks |-> c.acks, table_id |-> c.table, timeout_ms |-> int32(Milliseconds(c.timeout)),
        agg_mode |-> c.mergeMode,
        buckets_req |-> <<[bucket_id |-> c.bucket, records |-> c.records] @@ withPartition(c.partition)>>]
         @@ Repeated("target_columns", c.targets))

\* A pressure, in percent, must be below one.
putResult(c, m) ==
  IF ~OneBucket(m, c.bucket) THEN Failed(BucketError(m, c.bucket))
  ELSE LET r == m.buckets_resp[1]
       IN IF Has(r, "pressure") /\ r.pressure \notin 0 .. 99 THEN Failed("ErrValidation")
          ELSE Returns([logEnd |-> Get(r, "log_end_offset", 0),
                        pressure |-> IF Has(r, "pressure") THEN <<r.pressure>> ELSE <<>>])
-----------------------------------------------------------------------------
(* Reading by key                                                          *)

\* Timeout and acknowledgements only matter when a missing row is inserted.
lookup(c) ==
  Send("Lookup",
       [table_id |-> c.table,
        buckets_req |-> <<[bucket_id |-> c.bucket] @@ Repeated("keys", c.keys)
                            @@ withPartition(c.partition)>>]
         @@ (IF c.insert THEN [insert_if_not_exists |-> TRUE, timeout_ms |-> int32(Milliseconds(c.timeout)),
                             acks |-> c.acks]
             ELSE None))

lookedUp(c, m) ==
  IF ~OneBucket(m, c.bucket) THEN Failed(BucketError(m, c.bucket))
  ELSE LET values == Items(m.buckets_resp[1], "values")
       IN IF Len(values) # Len(c.keys) THEN Failed("ErrValidation")
          ELSE Returns([i \in DOMAIN values |-> Get(values[i], "values", <<>>)])

prefixLookup(c) ==
  Send("PrefixLookup",
       [table_id |-> c.table,
        buckets_req |-> <<[bucket_id |-> c.bucket] @@ Repeated("keys", c.keys)
                            @@ withPartition(c.partition)>>])

prefixes(c, m) ==
  IF ~OneBucket(m, c.bucket) THEN Failed(BucketError(m, c.bucket))
  ELSE LET lists == Items(m.buckets_resp[1], "value_lists")
       IN IF Len(lists) # Len(c.keys) THEN Failed("ErrValidation")
          ELSE Returns([i \in DOMAIN lists |-> Items(lists[i], "values")])
-----------------------------------------------------------------------------
(* Scanning                                                                *)

\* scannerFilter: compiled against the full schema when the scanner is made.
scannerFilter(c) ==
  IF c.filter = <<>> THEN <<None>>
  ELSE LET f == c.filter[1]
           predicate == compilePredicate(f.predicate, f.schema)
       IN IF ~validateFilterLogFormat(f.format) \/ predicate = <<>> THEN <<>>
          ELSE <<[filter_predicate |-> predicate[1], filter_schema_id |-> f.schemaID]>>

\* The predicate and the schema it was compiled for go together.
fetch(c) ==
  IF scannerFilter(c) = <<>> THEN Refused
  ELSE Send("FetchLog",
       [follower_server_id |-> -1, max_bytes |-> c.maxBytes, max_wait_ms |-> int32(Milliseconds(c.wait)),
        min_bytes |-> c.minBytes,
        tables_req |->
          <<[table_id |-> c.table, projection_pushdown_enabled |-> c.projection # <<>>,
             buckets_req |-> <<[bucket_id |-> c.bucket, fetch_offset |-> c.offset,
                                max_fetch_bytes |-> c.maxBytesForBucket] @@ withPartition(c.partition)>>]
              @@ Repeated("projected_fields", c.projection) @@ scannerFilter(c)[1]>>])

remoteLogFetchInfo(m) ==
  [TabletDirectory |-> m.remote_log_tablet_dir, PartitionName |-> Get(m, "partition_name", ""),
   FirstStartPosition |-> Get(m, "first_start_pos", 0),
   Segments |-> [i \in DOMAIN Items(m, "remote_log_segments") |->
                   LET segment == m.remote_log_segments[i]
                   IN [ID |-> segment.remote_log_segment_id,
                       StartOffset |-> segment.remote_log_start_offset,
                       EndOffset |-> segment.remote_log_end_offset,
                       SizeBytes |-> segment.segment_size_in_bytes,
                       MaxTime |-> segment.max_timestamp]]]

\* Reads the segments from the store, the first one from its start position.
readRemoteLog(info, store) ==
  FlattenSeq([i \in DOMAIN info.Segments |->
                LET file == store[info.Segments[i].ID]
                IN SubSeq(file, IF i = 1 THEN info.FirstStartPosition + 1 ELSE 1, Len(file))])

\* One table, and in it one bucket; what was read from remote storage comes
\* before what the server sent along.
fetched(c, m, store) ==
  LET tables == Items(m, "tables_resp")
      r == tables[1].buckets_resp[1]
  IN IF Len(tables) # 1 \/ tables[1].table_id # c.table \/ ~answersBucket(tables[1], c.bucket)
     THEN Failed("ErrValidation")
     ELSE IF Get(r, "error_code", "none") # "none" THEN Failed(r.error_code)
     ELSE Returns([records |-> (IF Has(r, "remote_log_fetch_info")
                                THEN readRemoteLog(remoteLogFetchInfo(r.remote_log_fetch_info), store)
                                ELSE <<>>) \o Get(r, "records", <<>>),
                   highWatermark |-> Get(r, "high_watermark", 0),
                   filteredEndOffset |-> IF Has(r, "filtered_end_offset")
                                         THEN <<r.filtered_end_offset>> ELSE <<>>])

limitScan(c) ==
  Send("LimitScan", [table_id |-> c.table, bucket_id |-> c.bucket, limit |-> c.limit]
                      @@ withPartition(c.partition))

limitScanned(m) ==
  IF Get(m, "error_code", "none") # "none" THEN Failed(m.error_code)
  ELSE Returns([isLogTable |-> Get(m, "is_log_table", FALSE), records |-> Get(m, "records", <<>>)])

\* A scan is opened with a bucket and continued with the scanner's ID.
scanKV(c) ==
  IF c.scanner # <<>>
  THEN Send("ScanKv", [call_seq_id |-> c.sequence, batch_size_bytes |-> c.batchSize,
                       close_scanner |-> c.close, scanner_id |-> c.scanner])
  ELSE SendIf(c.bucketCount > 0, "ScanKv",
              [call_seq_id |-> c.sequence, batch_size_bytes |-> c.batchSize,
               close_scanner |-> c.close,
               bucket_scan_req |-> [table_id |-> c.table, bucket_id |-> c.bucket, limit |-> c.limit,
                                    routing_bucket_count |-> c.bucketCount]
                                     @@ withPartition(c.partition)])

scannedKV(m) ==
  IF Get(m, "error_code", "none") # "none" THEN Failed(m.error_code)
  ELSE Returns([scanner |-> Get(m, "scanner_id", <<>>), hasMore |-> Get(m, "has_more_results", FALSE),
                records |-> Get(m, "records", <<>>)])

-----------------------------------------------------------------------------
(* The routing bucket count that RequestBucket adds                        *)

withCount(m, count) == [routing_bucket_count |-> count] @@ m

bucketsWithCount(m, count) ==
  IF ~Has(m, "buckets_req") THEN m
  ELSE [m EXCEPT !.buckets_req = [i \in DOMAIN @ |-> withCount(@[i], count)]]

setRoutingBucketCount(key, m, count) ==
  CASE count =< 0 -> m
    [] count > 0 /\ key \in {"ProduceLog", "PutKv", "Lookup", "PrefixLookup", "GetTableStats"} ->
         bucketsWithCount(m, count)
    [] count > 0 /\ key = "FetchLog" ->
         [m EXCEPT !.tables_req = [i \in DOMAIN @ |-> bucketsWithCount(@[i], count)]]
    [] count > 0 /\ key \in {"LimitScan", "ListOffsets"} -> withCount(m, count)
    [] count > 0 /\ key = "ScanKv" /\ Has(m, "bucket_scan_req") ->
         [m EXCEPT !.bucket_scan_req = withCount(@, count)]
    [] OTHER -> m
-----------------------------------------------------------------------------
(* Cluster metadata                                                        *)

fetchTableMetadata(c) == Send("GetMetadata", [table_path |-> <<pbTablePath(c.path)>>])

fetchPartitionMetadata(c) ==
  Send("GetMetadata", [partitions_path |-> <<pbTablePath(c.path) @@ [partition_name |-> c.partition]>>])

nodeFromProto(m) == [ID |-> m.node_id, Address |-> <<m.host, m.port>>]

\* The last of the items with this value of the field: a later item replaces
\* an earlier one under the same key.
lastWith(items, field, value) ==
  items[CHOOSE i \in DOMAIN items :
          /\ items[i][field] = value
          /\ \A j \in DOMAIN items : items[j][field] = value => j =< i]

valuesOf(items, field) == {items[i][field] : i \in DOMAIN items}

metadataServers(m) ==
  LET tablets == Items(m, "tablet_servers")
  IN [valid |-> /\ \A i \in DOMAIN tablets : validNode(tablets[i])
                /\ Has(m, "coordinator_server") => validNode(m.coordinator_server),
      tablets |-> [id \in valuesOf(tablets, "node_id") |->
                     nodeFromProto(lastWith(tablets, "node_id", id))]]

\* The buckets that have a leader, with it, and how many buckets there are.
\* A leader among no advertised server spoils the whole answer.
bucketMetadata(buckets, tablets) ==
  LET led == SelectSeq(buckets, LAMBDA b : Has(b, "leader_id"))
      strange(b) == b.bucket_id < 0
      lost(b) == Has(b, "leader_id") /\ b.leader_id \notin DOMAIN tablets
      bad == {i \in DOMAIN buckets : strange(buckets[i]) \/ lost(buckets[i])}
  IN IF bad # {}
     THEN Failed(IF strange(buckets[Min(bad)]) THEN "ErrMetadata" ELSE "ErrNoBucketLeader")
     ELSE Returns([Buckets |-> [b \in valuesOf(led, "bucket_id") |->
                                  tablets[lastWith(led, "bucket_id", b).leader_id]],
                   Count |-> Cardinality(valuesOf(buckets, "bucket_id"))])

partitionMetadata(item, tablets) ==
  LET found == bucketMetadata(Items(item, "bucket_metadata"), tablets)
  IN IF found.err # "none" THEN found
     ELSE Returns([Name |-> item.partition_name, ID |-> item.partition_id,
                   Buckets |-> found.value.Buckets,
                   BucketCount |-> Get(item, "bucket_count", found.value.Count)])

\* The partitions of the table that the answer carries, by name.
partitionMetadataForTable(m, table, tablets) ==
  LET items == SelectSeq(Items(m, "partition_metadata"), LAMBDA p : p.table_id = table)
      parsed == [i \in DOMAIN items |-> partitionMetadata(items[i], tablets)]
      bad == {i \in DOMAIN parsed : parsed[i].err # "none"}
  IN IF bad # {} THEN parsed[Min(bad)]
     ELSE Returns([name \in valuesOf(items, "partition_name") |->
                     partitionMetadata(lastWith(items, "partition_name", name), tablets).value])

tableMetadataFromResponse(c, m) ==
  LET servers == metadataServers(m)
      items == SelectSeq(Items(m, "table_metadata"), LAMBDA t : t.table_path = pbTablePath(c.path))
      found == bucketMetadata(Items(items[1], "bucket_metadata"), servers.tablets)
      partitions == partitionMetadataForTable(m, items[1].table_id, servers.tablets)
  IN CASE ~servers.valid -> Failed("ErrMetadata")
       [] servers.valid /\ items = <<>> -> Failed("ErrUnknownTable")
       [] servers.valid /\ items # <<>> ->
            IF found.err # "none" THEN found
            ELSE IF partitions.err # "none" THEN partitions
            ELSE Returns([ID |-> items[1].table_id, SchemaID |-> items[1].schema_id,
                          Buckets |-> found.value.Buckets, BucketCount |-> found.value.Count,
                          Epoch |-> IF Has(items[1], "bucket_count_epoch")
                                    THEN <<items[1].bucket_count_epoch>> ELSE <<>>,
                          Partitions |-> partitions.value])

partitionMetadataFromResponse(c, m) ==
  LET servers == metadataServers(m)
      items == SelectSeq(Items(m, "partition_metadata"), LAMBDA p : p.partition_name = c.partition)
  IN CASE ~servers.valid -> Failed("ErrMetadata")
       [] servers.valid /\ items = <<>> -> Failed("ErrUnknownPartition")
       [] servers.valid /\ items # <<>> -> partitionMetadata(items[1], servers.tablets)
=============================================================================
