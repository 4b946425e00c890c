---------------------------- MODULE FlussService ----------------------------
(***************************************************************************)
(* What the remote operations of the client promise: the effect of a call    *)
(* on the cluster and the value it returns, in the terms of the Go API and   *)
(* with no messages in between.  RemoteCalls is checked to implement it.     *)
(*                                                                         *)
(* A call that returns a value was performed once, some time between its      *)
(* invocation and its return, and returns what was computed then.  A call    *)
(* that failed may or may not have been performed, or may yet be.            *)
(***************************************************************************)
EXTENDS Integers, Sequences, FiniteSets, TLC

CONSTANTS
  Clusters,     \* the states the cluster may start in, by what the calls are about
  Calls,        \* the calls this client may make, listed by what they are about
  Others        \* the calls of other clients, likewise

VARIABLES
  cluster,      \* what the servers hold
  area,         \* the area the behaviour is about
  current,      \* the call in progress with its operation, <<>> when there is none
  results,      \* the outcomes of its finished parts, in order
  done,         \* the outcome of the part in progress once it was performed
  last,         \* the call that returned last, followed by its outcomes, until the next one
  late          \* <<>>, or a part the client gave up on that may yet be performed

serviceVars == <<cluster, area, current, results, done, last, late>>

None == <<>>
Ok(s, value) == [cluster |-> s, err |-> "none", value |-> value]
No(s, error) == [cluster |-> s, err |-> error, value |-> None]

\* Whatever the client reports when it got no usable answer.
ClientErrors == {"ErrInvalidConfig", "ErrUnsupportedAPI", "ErrTransport", "ErrUnavailable",
                 "canceled"}

ToSet(seq) == {seq[i] : i \in DOMAIN seq}
In(order, set) == SelectSeq(order, LAMBDA x : x \in set)
Put(f, key, value) == (key :> value) @@ f
Without(f, key) == [k \in DOMAIN f \ {key} |-> f[k]]
Lookup(f, key, default) == IF key \in DOMAIN f THEN f[key] ELSE default
-----------------------------------------------------------------------------
(* Databases                                                               *)

NameOrder == <<"db1", "db2", "t1", "t2">>

\* Configuration values are sets of words: 0 sets, 1 deletes, 2 appends and
\* 3 subtracts.  A key without words is gone.
Configured(config, change) ==
  LET old == Lookup(config, change.key, {})
      given == {change.value[i] : i \in DOMAIN change.value}
      new == CASE change.op = 0 -> given
               [] change.op = 1 -> {}
               [] change.op = 2 -> old \cup given
               [] change.op = 3 -> old \ given
  IN IF new = {} THEN Without(config, change.key) ELSE Put(config, change.key, new)

RECURSIVE Reconfigured(_, _)
Reconfigured(config, changes) ==
  IF changes = <<>> THEN config ELSE Reconfigured(Configured(config, Head(changes)), Tail(changes))

DoesDatabase(s, c) ==
  LET exists == c.name \in DOMAIN s.databases
      db == s.databases[c.name]
      created == [comment |-> c.comment, properties |-> c.properties, created |-> 5, modified |-> 0]
      altered == [db EXCEPT !.comment = IF c.comment = <<>> THEN @ ELSE c.comment[1],
                            !.properties = Reconfigured(@, c.config), !.modified = 6]
      tables == {path \in DOMAIN s.tables : path.Database = c.name}
  IN CASE c.op = "DatabaseExists" -> Ok(s, exists)
       [] c.op = "GetDatabaseInfo" /\ exists ->
            Ok(s, [Name |-> c.name, Comment |-> db.comment, Properties |-> db.properties,
                   CreatedAt |-> db.created, ModifiedAt |-> IF db.modified = 0 THEN -1 ELSE db.modified])
       [] c.op = "CreateDatabase" /\ ~exists ->
            Ok([s EXCEPT !.databases = Put(@, c.name, created)], None)
       [] c.op = "CreateDatabase" /\ exists ->
            IF c.ignore THEN Ok(s, None) ELSE No(s, "DatabaseAlreadyExist")
       [] c.op = "AlterDatabase" /\ exists ->
            Ok([s EXCEPT !.databases[c.name] = altered], None)
       [] c.op = "DropDatabase" /\ exists ->
            IF tables # {} /\ ~c.cascade THEN No(s, "DatabaseNotEmpty")
            ELSE Ok([s EXCEPT !.databases = Without(@, c.name),
                              !.tables = [p \in DOMAIN @ \ tables |-> @[p]]], None)
       [] c.op \in {"AlterDatabase", "DropDatabase"} /\ ~exists ->
            IF c.ignore THEN Ok(s, None) ELSE No(s, "DatabaseNotExist")
       [] c.op = "GetDatabaseInfo" /\ ~exists -> No(s, "DatabaseNotExist")

\* Servers that keep no summaries still list the names.
DoesListDatabases(s) ==
  LET names == In(NameOrder, DOMAIN s.databases)
  IN Ok(s, [i \in DOMAIN names |->
              IF ~s.summaries THEN [Name |-> names[i], CreatedAt |-> -1, TableCount |-> 0]
              ELSE [Name |-> names[i], CreatedAt |-> s.databases[names[i]].created,
                    TableCount |-> Cardinality({p \in DOMAIN s.tables : p.Database = names[i]})]])
-----------------------------------------------------------------------------
(* Tables.  A table keeps every version of its schema; schema IDs start at 1 *)

NewColumn(change, id) ==
  [name |-> change.name, kind |-> change.kind, nullable |-> change.type.nullable,
   logical |-> <<change.type>>, id |-> id]

Altered(schema, c) ==
  LET kept == SelectSeq(schema.columns, LAMBDA column : \A i \in DOMAIN c.drop : c.drop[i] # column.name)
      renamed == [i \in DOMAIN kept |->
                    [kept[i] EXCEPT !.name =
                       IF \E r \in DOMAIN c.rename : c.rename[r].old = @
                       THEN c.rename[CHOOSE r \in DOMAIN c.rename : c.rename[r].old = @].new ELSE @]]
      added == [i \in DOMAIN c.add |-> NewColumn(c.add[i], schema.highest + i)]
  IN [schema EXCEPT !.highest = @ + Len(c.add),
                    !.columns = IF c.add # <<>> /\ c.add[1].first THEN added \o renamed
                                  ELSE renamed \o added]

\* Columns that are dropped or renamed exist, and no two get the same name.
Alterable(schema, c) ==
  LET names == {schema.columns[i].name : i \in DOMAIN schema.columns}
      new == Altered(schema, c).columns
  IN /\ ToSet(c.drop) \cup {r.old : r \in ToSet(c.rename)} \subseteq names
     /\ \A i, j \in DOMAIN new : new[i].name = new[j].name => i = j

DoesTable(s, c) ==
  LET exists == c.path \in DOMAIN s.tables
      t == s.tables[c.path]
      created == [id |-> s.nextTable, schemas |-> <<c.schema>>, bucketCount |-> c.bucketCount,
                  properties |-> c.properties]
      reshaped == c.add # <<>> \/ c.drop # <<>> \/ c.rename # <<>>
      altered == [t EXCEPT !.schemas = IF reshaped THEN Append(@, Altered(@[Len(@)], c)) ELSE @,
                           !.bucketCount = IF c.bucketCount = <<>> THEN @ ELSE c.bucketCount[1],
                           !.properties = Reconfigured(@, c.config)]
  IN CASE c.op = "TableExists" -> Ok(s, exists)
       [] c.op = "CreateTable" /\ ~exists ->
            IF c.path.Database \notin DOMAIN s.databases THEN No(s, "DatabaseNotExist")
            ELSE Ok([s EXCEPT !.tables = Put(@, c.path, created), !.nextTable = @ + 1], None)
       [] c.op = "CreateTable" /\ exists ->
            IF c.ignore THEN Ok(s, None) ELSE No(s, "TableAlreadyExist")
       [] c.op = "DropTable" /\ exists -> Ok([s EXCEPT !.tables = Without(@, c.path)], None)
       [] c.op = "AlterTable" /\ exists ->
            IF Alterable(t.schemas[Len(t.schemas)], c) THEN Ok([s EXCEPT !.tables[c.path] = altered], None)
            ELSE No(s, "InvalidAlterTable")
       [] c.op \in {"DropTable", "AlterTable"} /\ ~exists ->
            IF c.ignore THEN Ok(s, None) ELSE No(s, "TableNotExist")
       [] c.op = "GetTableSchema" /\ exists ->
            IF c.schemaID \in DOMAIN t.schemas
            THEN Ok(s, [t.schemas[c.schemaID] EXCEPT !.bucketKey = <<>>, !.partitionKey = <<>>])
            ELSE No(s, "SchemaNotExist")
       [] c.op = "GetTable" /\ exists ->
            Ok(s, [ID |-> t.id, SchemaID |-> Len(t.schemas), Schema |-> t.schemas[Len(t.schemas)],
                   BucketCount |-> t.bucketCount, Properties |-> t.properties])
       [] c.op \in {"GetTableSchema", "GetTable"} /\ ~exists -> No(s, "TableNotExist")

DoesListTables(s, c) ==
  LET names == In(NameOrder, {p.Table : p \in {q \in DOMAIN s.tables : q.Database = c.name}})
  IN IF c.name \notin DOMAIN s.databases THEN No(s, "DatabaseNotExist")
     ELSE Ok(s, [i \in DOMAIN names |-> [Database |-> c.name, Table |-> names[i]]])
-----------------------------------------------------------------------------
(* Partitions                                                              *)

Extends(spec, part) == \A k \in DOMAIN part : k \in DOMAIN spec /\ spec[k] = part[k]

DoesPartition(s, c) ==
  LET here == Lookup(s.partitions, c.path, <<>>)
      same(p) == p.Spec = c.spec
      exists == \E i \in DOMAIN here : same(here[i])
      with(list) == [s EXCEPT !.partitions = Put(@, c.path, list)]
  IN CASE c.op = "ListPartitionInfos" ->
            Ok(s, SelectSeq(here, LAMBDA p : Extends(p.Spec, c.spec)))
       [] c.op = "CreatePartition" /\ ~exists ->
            Ok([with(Append(here, [ID |-> s.nextPartition, Spec |-> c.spec]))
                  EXCEPT !.nextPartition = @ + 1], None)
       [] c.op = "CreatePartition" /\ exists ->
            IF c.ignore THEN Ok(s, None) ELSE No(s, "PartitionAlreadyExists")
       [] c.op = "DropPartition" /\ exists ->
            Ok(with(SelectSeq(here, LAMBDA p : ~same(p))), None)
       [] c.op = "DropPartition" /\ ~exists ->
            IF c.ignore THEN Ok(s, None) ELSE No(s, "PartitionNotExists")
-----------------------------------------------------------------------------
(* What the servers report about the buckets and snapshots of a table        *)

DoesOffset(s, c) ==
  LET bucket == <<c.table, c.partition, c.bucket>>
      b == s.offsets[bucket]
  IN IF c.kind \notin {"earliest", "latest", "timestamp"} THEN No(s, "InvalidConfig")
     ELSE IF bucket \notin DOMAIN s.offsets
     THEN Ok(s, [Bucket |-> c.bucket, Offset |-> 0, Err |-> "UnknownTableOrBucket"])
     ELSE Ok(s, [Bucket |-> c.bucket, Err |-> "none",
                 Offset |-> CASE c.kind = "earliest" -> b.earliest
                              [] c.kind = "latest" -> b.latest
                              [] c.kind = "timestamp" -> b.earliest + c.time])

DoesStats(s, c) ==
  LET bucket == <<c.table, c.partition, c.bucket>>
      known == bucket \in DOMAIN s.offsets
  IN Ok(s, [Bucket |-> c.bucket, PartitionID |-> c.partition,
            RowCount |-> IF known THEN s.offsets[bucket].latest ELSE 0,
            Err |-> IF known THEN "none" ELSE "UnknownTableOrBucket"])

Found(s, f, key) == IF key \in DOMAIN f THEN Ok(s, f[key]) ELSE No(s, "TableNotExist")

DoesSnapshots(s, c) ==
  CASE c.op = "GetLatestKVSnapshots" -> Found(s, s.latestSnapshots, <<c.path, c.partition>>)
    [] c.op = "ListKVSnapshots" -> Found(s, s.activeSnapshots, <<c.table, c.partition>>)
    [] c.op = "GetKVSnapshotMetadata" ->
         Found(s, s.snapshotFiles, <<c.table, c.partition, c.bucket, c.snapshot>>)
    [] c.op = "ListRemoteLogManifests" -> Found(s, s.manifests, <<c.table, c.partition>>)
    [] c.op = "GetLakeSnapshot" -> Found(s, s.lake, <<c.path, c.snapshot, c.readable>>)
-----------------------------------------------------------------------------
(* Leases, producers and access control                                    *)

DoesLease(s, c) ==
  LET exists == c.lease \in DOMAIN s.leases
      held == Lookup(s.leases, c.lease, [duration |-> 0, held |-> {}]).held
      bucket(l) == [TableID |-> l.TableID, PartitionID |-> l.PartitionID, BucketID |-> l.Bucket]
      set(lease) == [s EXCEPT !.leases = Put(@, c.lease, lease)]
  IN CASE c.op = "AcquireKVSnapshotLease" ->
            Ok(set([duration |-> c.duration, held |-> held \cup (ToSet(c.snapshots) \cap s.available)]),
               SelectSeq(c.snapshots, LAMBDA l : l \notin s.available))
       [] c.op = "RenewKVSnapshotLease" ->
            IF exists THEN Ok(set([duration |-> c.duration, held |-> held]), None)
            ELSE No(s, "LeaseNotExist")
       [] c.op = "ReleaseKVSnapshotLease" ->
            IF exists THEN Ok([s EXCEPT !.leases[c.lease].held =
                                 {l \in @ : bucket(l) \notin ToSet(c.buckets)}], None)
            ELSE No(s, "LeaseNotExist")
       [] c.op = "DropKVSnapshotLease" -> Ok([s EXCEPT !.leases = Without(@, c.lease)], None)

\* A producer that is busy is not registered.
DoesProducer(s, c) ==
  CASE c.op = "RegisterProducerOffsets" ->
         IF c.producer \in s.busy THEN Ok(s, FALSE)
         ELSE Ok([s EXCEPT !.producers = Put(@, c.producer, [ttl |-> c.ttl, tables |-> c.tables])], TRUE)
    [] c.op = "DeleteProducerOffsets" -> Ok([s EXCEPT !.producers = Without(@, c.producer)], None)
    [] c.op = "GetProducerOffsets" ->
         Ok(s, IF c.producer \in DOMAIN s.producers
               THEN [ProducerID |-> c.producer, ExpiresAt |-> s.producers[c.producer].ttl,
                     Tables |-> s.producers[c.producer].tables]
               ELSE [ProducerID |-> "", ExpiresAt |-> -1, Tables |-> <<>>])

Covers(filter, acl) ==
  /\ filter.ResourceType \in {1, acl.ResourceType}
  /\ filter.Operation \in {1, acl.Operation}
  /\ filter.Permission \in {1, acl.Permission}
  /\ \A name \in {"ResourceName", "PrincipalName", "PrincipalType", "Host"} :
       filter[name] \in {<<>>, <<acl[name]>>}

Outcomes(acls, err) == [i \in DOMAIN acls |-> [Binding |-> acls[i], Err |-> err]]

\* The bindings that no filter before the i-th took away.
Left(acls, filters, i) ==
  SelectSeq(acls, LAMBDA acl : \A j \in 1 .. i - 1 : ~Covers(filters[j], acl))

DoesACLs(s, c) ==
  CASE c.op = "CreateACLs" ->
         LET new == SelectSeq(c.acls, LAMBDA acl : acl \notin ToSet(s.acls))
         IN Ok([s EXCEPT !.acls = @ \o new],
               [i \in DOMAIN c.acls |->
                  [Binding |-> c.acls[i],
                   Err |-> IF c.acls[i] \in ToSet(s.acls) THEN "AclExists" ELSE "none"]])
    [] c.op = "ListACLs" -> Ok(s, SelectSeq(s.acls, LAMBDA acl : Covers(c.filter, acl)))
    [] c.op = "DropACLs" ->
         Ok([s EXCEPT !.acls = Left(@, c.filters, Len(c.filters) + 1)],
            [i \in DOMAIN c.filters |->
               [Filter |-> c.filters[i], Err |-> "none",
                Matches |-> Outcomes(SelectSeq(Left(s.acls, c.filters, i),
                                               LAMBDA acl : Covers(c.filters[i], acl)), "none")]])
-----------------------------------------------------------------------------
(* The cluster                                                             *)

ConfigOrder == <<"a", "b">>

DoesCluster(s, c) ==
  CASE c.op = "DescribeClusterConfigs" ->
         LET keys == In(ConfigOrder, DOMAIN s.configs)
         IN Ok(s, [i \in DOMAIN keys |-> [Key |-> keys[i], Value |-> s.configs[keys[i]],
                                          Source |-> "DYNAMIC_SERVER_CONFIG"]])
    [] c.op = "AlterClusterConfigs" ->
         IF \E i \in DOMAIN c.config : c.config[i].op # 1 /\ c.config[i].value = <<>>
         THEN No(s, "InvalidConfig")
         ELSE Ok([s EXCEPT !.configs = Reconfigured(@, c.config)], None)
    [] c.op = "AddServerTag" ->
         Ok([s EXCEPT !.tags = @ \cup {<<c.servers[i], c.tag>> : i \in DOMAIN c.servers}], None)
    [] c.op = "RemoveServerTag" ->
         Ok([s EXCEPT !.tags = @ \ {<<c.servers[i], c.tag>> : i \in DOMAIN c.servers}], None)
    [] c.op = "GetClusterHealth" -> Ok(s, s.health)
    [] c.op = "GetServerNodes" -> Ok(s, s.nodes)
    [] c.op = "GetFileSystemSecurityToken" -> Ok(s, s.token)

\* Rebalance status: 0 running, 1 completed, 2 canceled.
DoesRebalance(s, c) ==
  CASE c.op = "Rebalance" ->
         IF s.rebalance.ID # "" /\ s.rebalance.Status = 0 THEN No(s, "RebalanceInProgress")
         ELSE Ok([s EXCEPT !.rebalance = [@ EXCEPT !.ID = "r1", !.Status = 0]], "r1")
    [] c.op \in {"ListRebalanceProgress", "WaitRebalance"} ->
         IF s.rebalance.ID = c.id THEN Ok(s, s.rebalance) ELSE No(s, "NoRebalance")
    [] c.op = "CancelRebalance" ->
         IF s.rebalance.ID # c.id THEN No(s, "NoRebalance")
         ELSE Ok([s EXCEPT !.rebalance.Status = IF @ = 0 THEN 2 ELSE @], None)
-----------------------------------------------------------------------------
(* The data of a bucket: a log of rows, or a map from keys to values.  A row  *)
(* holds cells by field ID; a cell is <<>> for null or <<value>>.            *)

\* A server refuses a request routed with another bucket count than its own.
Routed(s, c) == c.bucketCount =< 0 \/ c.bucketCount = s.counts[c.table]

Cell(literal) == IF literal.go = "nil" THEN <<>> ELSE <<literal.v>>

Compares(function, cell, given) ==
  CASE function = 0  -> cell = given[1]
    [] function = 1  -> cell # <<>> /\ cell # given[1]
    [] function = 2  -> cell # <<>> /\ cell[1] < given[1][1]
    [] function = 3  -> cell # <<>> /\ cell[1] =< given[1][1]
    [] function = 4  -> cell # <<>> /\ cell[1] > given[1][1]
    [] function = 5  -> cell # <<>> /\ cell[1] >= given[1][1]
    [] function = 6  -> cell = <<>>
    [] function = 7  -> cell # <<>>
    [] function = 11 -> cell \in ToSet(given)
    [] function = 12 -> cell \notin ToSet(given)

\* Compound predicates: 0 all, 1 any.
RECURSIVE Matches(_, _, _)
Matches(p, schema, row) ==
  IF p.compound
  THEN IF p.function = 0 THEN \A i \in DOMAIN p.children : Matches(p.children[i], schema, row)
       ELSE \E i \in DOMAIN p.children : Matches(p.children[i], schema, row)
  ELSE LET column == CHOOSE x \in ToSet(schema.columns) : x.name = p.column
       IN Compares(p.function, row[column.id], [i \in DOMAIN p.literals |-> Cell(p.literals[i])])

\* The rows in tiered segments come as they are; the others are filtered and
\* projected by the server.
Fetched(s, log, c) ==
  LET tiered == SubSeq(log, c.offset + 1, s.tiered)
      from == IF c.offset < s.tiered THEN s.tiered ELSE c.offset
      local == SubSeq(log, from + 1, Len(log))
      keep(row) == c.filter = <<>> \/ Matches(c.filter[1].predicate, c.filter[1].schema, row)
      project(row) == IF c.projection = <<>> THEN row
                      ELSE [id \in DOMAIN row \cap ToSet(c.projection) |-> row[id]]
      rows == SelectSeq(local, keep)
  IN [records |-> tiered \o [i \in DOMAIN rows |-> project(rows[i])], highWatermark |-> Len(log),
      filteredEndOffset |-> IF c.filter = <<>> THEN <<>> ELSE <<Len(log)>>]

\* A partial put keeps the fields it does not target.
Merged(map, targets, entry) ==
  IF targets = <<>> \/ entry[1] \notin DOMAIN map THEN entry[2]
  ELSE [map[entry[1]] EXCEPT ![targets[1]] = entry[2][targets[1]]]

KeyOrder == <<"k1", "k2">>

DoesData(s, c) ==
  LET bucket == <<c.table, c.partition, c.bucket>>
      log == s.logs[bucket]
      map == s.maps[bucket]
      absent == {key \in ToSet(c.keys) : key \notin DOMAIN map}
      inserted == IF c.insert THEN [key \in absent |-> <<0, 0>>] @@ map ELSE map
      order == In(KeyOrder, DOMAIN map)
      first == [i \in 1 .. (IF c.limit < Len(order) THEN c.limit ELSE Len(order)) |-> map[order[i]]]
  IN CASE c.op # "LimitScan" /\ ~Routed(s, c) -> No(s, "InvalidBucketCount")
       [] c.op = "ProduceLog" /\ Routed(s, c) ->
            Ok([s EXCEPT !.logs[bucket] = @ \o c.records], Len(log))
       [] c.op = "FetchLog" /\ Routed(s, c) -> Ok(s, Fetched(s, log, c))
       [] c.op = "PutKv" /\ Routed(s, c) ->
            Ok([s EXCEPT !.maps[bucket] = Put(@, c.records[1][1], Merged(@, c.targets, c.records[1]))],
               [logEnd |-> Len(c.records), pressure |-> s.pressure])
       [] c.op = "Lookup" /\ Routed(s, c) ->
            Ok([s EXCEPT !.maps[bucket] = inserted],
               [i \in DOMAIN c.keys |->
                  IF c.keys[i] \in DOMAIN inserted THEN inserted[c.keys[i]] ELSE <<>>])
       [] c.op = "PrefixLookup" /\ Routed(s, c) ->
            Ok(s, [i \in DOMAIN c.keys |->
                     IF c.keys[i] = "k" THEN [j \in DOMAIN order |-> map[order[j]]] ELSE <<>>])
       [] c.op = "LimitScan" -> Ok(s, [isLogTable |-> FALSE, records |-> first])
       [] c.op = "ScanKv" /\ Routed(s, c) ->
            Ok(s, [scanner |-> <<>>, hasMore |-> FALSE, records |-> first])
-----------------------------------------------------------------------------
(* Where the buckets are: leaders are nodes; a bucket may have none.  A      *)
(* leader that is among no advertised server makes the answer unusable.      *)

Located(s, leaders) ==
  [b \in {x \in DOMAIN leaders : leaders[x] # <<>>} |->
     [ID |-> leaders[b][1], Address |-> s.tablets[leaders[b][1]]]]

Reachable(s, leaders) == \A b \in DOMAIN leaders : ToSet(leaders[b]) \subseteq DOMAIN s.tablets

LocatedPartition(s, table, name) ==
  LET p == table.partitions[name]
  IN [Name |-> name, ID |-> p.id, Buckets |-> Located(s, p.leaders),
      BucketCount |-> IF p.count = <<>> THEN Cardinality(DOMAIN p.leaders) ELSE p.count[1]]

DoesMetadata(s, c) ==
  LET table == s.layout[c.path]
      names == DOMAIN table.partitions
  IN CASE c.op = "InitWriter" -> Ok([s EXCEPT !.nextWriter = @ + 1], s.nextWriter)
       [] c.op = "TableMetadata" /\ c.path \notin DOMAIN s.layout -> No(s, "ErrUnknownTable")
       [] c.op = "TableMetadata" /\ c.path \in DOMAIN s.layout ->
            IF ~Reachable(s, table.leaders) \/ \E n \in names : ~Reachable(s, table.partitions[n].leaders)
            THEN No(s, "ErrNoBucketLeader")
            ELSE Ok(s, [ID |-> table.id, SchemaID |-> table.schemaID, Epoch |-> table.epoch,
                        Buckets |-> Located(s, table.leaders),
                        BucketCount |-> Cardinality(DOMAIN table.leaders),
                        Partitions |-> [n \in names |-> LocatedPartition(s, table, n)]])
       [] c.op = "PartitionMetadata" ->
            IF c.path \notin DOMAIN s.layout \/ c.partition \notin names THEN No(s, "ErrUnknownPartition")
            ELSE IF ~Reachable(s, table.partitions[c.partition].leaders) THEN No(s, "ErrNoBucketLeader")
            ELSE Ok(s, LocatedPartition(s, table, c.partition))
-----------------------------------------------------------------------------
Does(s, c) ==
  CASE c.op \in {"CreateDatabase", "AlterDatabase", "DropDatabase", "DatabaseExists",
                 "GetDatabaseInfo"} -> DoesDatabase(s, c)
    [] c.op = "ListDatabaseSummaries" -> DoesListDatabases(s)
    [] c.op \in {"CreateTable", "DropTable", "AlterTable", "TableExists", "GetTableSchema",
                 "GetTable"} -> DoesTable(s, c)
    [] c.op = "ListTables" -> DoesListTables(s, c)
    [] c.op \in {"CreatePartition", "DropPartition", "ListPartitionInfos"} -> DoesPartition(s, c)
    [] c.op = "ListOffset" -> DoesOffset(s, c)
    [] c.op = "TableStats" -> DoesStats(s, c)
    [] c.op \in {"GetLatestKVSnapshots", "ListKVSnapshots", "GetKVSnapshotMetadata",
                 "ListRemoteLogManifests", "GetLakeSnapshot"} -> DoesSnapshots(s, c)
    [] c.op \in {"AcquireKVSnapshotLease", "RenewKVSnapshotLease", "ReleaseKVSnapshotLease",
                 "DropKVSnapshotLease"} -> DoesLease(s, c)
    [] c.op \in {"RegisterProducerOffsets", "GetProducerOffsets",
                 "DeleteProducerOffsets"} -> DoesProducer(s, c)
    [] c.op \in {"CreateACLs", "ListACLs", "DropACLs"} -> DoesACLs(s, c)
    [] c.op \in {"DescribeClusterConfigs", "AlterClusterConfigs", "AddServerTag",
                 "RemoveServerTag", "GetClusterHealth", "GetServerNodes",
                 "GetFileSystemSecurityToken"} -> DoesCluster(s, c)
    [] c.op \in {"Rebalance", "ListRebalanceProgress", "WaitRebalance",
                 "CancelRebalance"} -> DoesRebalance(s, c)
    [] c.op \in {"ProduceLog", "FetchLog", "PutKv", "Lookup", "PrefixLookup", "LimitScan",
                 "ScanKv"} -> DoesData(s, c)
    [] c.op \in {"InitWriter", "TableMetadata", "PartitionMetadata"} -> DoesMetadata(s, c)

\* Offsets and statistics are asked for one bucket at a time.
Parts(c) ==
  CASE c.op = "ListOffsets" -> [i \in DOMAIN c.buckets |-> [op |-> "ListOffset", bucket |-> c.buckets[i]] @@ c]
    [] c.op = "GetTableStats" -> [i \in DOMAIN c.buckets |-> [op |-> "TableStats", bucket |-> c.buckets[i]] @@ c]
    [] c.op \notin {"ListOffsets", "GetTableStats"} -> <<c>>

\* The progress of a rebalance names partition 0 for a bucket of an unpartitioned
\* table, where every other operation says -1.  The comment on
\* RebalanceBucketProgress.PartitionID promises -1 here too, which the code does
\* not keep: this is the one value of this module that follows the code and not
\* the API's documentation.
Reported(c, value) ==
  LET bucket(b) == [b EXCEPT !.PartitionID = IF @ = -1 THEN 0 ELSE @]
      table(t) == [t EXCEPT !.Buckets = [i \in DOMAIN @ |-> bucket(@[i])]]
  IN IF c.op \in {"ListRebalanceProgress", "WaitRebalance"} /\ value # None
     THEN [value EXCEPT !.Tables = [i \in DOMAIN @ |-> table(@[i])]] ELSE value

\* An outcome is an error (or "none") and a value.
Outcome(c, d) == <<d.err, Reported(c, d.value)>>

Init ==
  /\ area \in DOMAIN Calls
  /\ cluster \in Clusters[area]
  /\ current = <<>> /\ results = <<>> /\ done = <<>> /\ last = <<>> /\ late = <<>>

Invoke ==
  /\ current = <<>>
  /\ \E i \in DOMAIN Calls[area] : current' = <<Calls[area][i].op, Calls[area][i]>>
  /\ results' = <<>> /\ last' = <<>>
  /\ UNCHANGED <<cluster, area, done, late>>

Part == Parts(current[2])[1 + Len(results)]

\* A part is performed once; only waiting for a rebalance asks again, while
\* the rebalance is running.
Perform ==
  /\ current # <<>>
  /\ \/ done = <<>>
     \/ Part.op = "WaitRebalance" /\ done[1][1] = "none" /\ done[1][2].Status = 0
  /\ cluster' = Does(cluster, Part).cluster
  /\ done' = <<Outcome(Part, Does(cluster, Part))>>
  /\ UNCHANGED <<area, current, results, last, late>>

\* A finished part reports what was performed, or that the client does not
\* know: a wait only ends once the rebalance is over.  A table may also go
\* away while it is being loaded, and a scan without a bucket count is refused.
Finish(outcome) ==
  /\ current # <<>>
  /\ \/ /\ done = <<outcome>>
        /\ Part.op = "WaitRebalance" /\ outcome[1] = "none" => outcome[2].Status # 0
        /\ UNCHANGED late
     \/ outcome[1] \in ClientErrors /\ UNCHANGED late
     \/ /\ outcome[1] \in ClientErrors /\ late' = <<Part>>
        /\ done = <<>> \/ Part.op \in {"GetTable", "WaitRebalance"}
     \/ /\ Part.op = "GetTable" /\ outcome[1] \in {"TableNotExist", "SchemaNotExist"}
        /\ UNCHANGED late
     \/ /\ Part.op = "ScanKv" /\ Part.bucketCount =< 0 /\ outcome[1] = "ErrMetadata"
        /\ UNCHANGED late
  /\ IF Len(results) + 1 < Len(Parts(current[2]))
     THEN results' = Append(results, outcome) /\ UNCHANGED <<current, last>>
     ELSE /\ last' = Append(current, Append(results, outcome))
          /\ current' = <<>> /\ results' = <<>>
  /\ done' = <<>>
  /\ UNCHANGED <<cluster, area>>

PerformLate ==
  /\ late # <<>> /\ late' = <<>>
  /\ cluster' = Does(cluster, late[1]).cluster
  /\ UNCHANGED <<area, current, results, done, last>>

\* What the other clients do, and the rebalance that completes by itself.
Changed(s) ==
  {Does(s, Others[area][i]).cluster : i \in DOMAIN Others[area]}
    \cup (IF s.rebalance.ID # "" /\ s.rebalance.Status = 0 THEN {[s EXCEPT !.rebalance.Status = 1]} ELSE {})

Elsewhere ==
  /\ cluster' \in Changed(cluster)
  /\ UNCHANGED <<area, current, results, done, last, late>>

Next ==
  \/ Invoke \/ Perform \/ PerformLate \/ Elsewhere
  \/ \E i \in DOMAIN done : Finish(done[i])
  \/ \E error \in ClientErrors \cup {"TableNotExist", "SchemaNotExist", "ErrMetadata"} :
       Finish(<<error, None>>)

Spec == Init /\ [][Next]_serviceVars
=============================================================================
