------------------------------ MODULE TableData ------------------------------
(***************************************************************************)
(* Rows from a writer to a reader through one table whose schema changes   *)
(* in between: what Append and AppendArrow put in a log batch and a        *)
(* LogScanner makes of the fetched bytes, and what Upsert, PartialUpsert   *)
(* and Delete put in a KV batch and a lookup, a prefix lookup or a limit   *)
(* scan finds (log_writer.go, kv_writer.go, lookup.go and the codecs).     *)
(* The scheduling of these calls is in AppendWriter, UpsertWriter,         *)
(* Lookuper, LogScanner and BatchScanner; here is what the bytes mean.     *)
(*                                                                         *)
(* The server is external: it appends log batches at the next offset,      *)
(* answers a fetch from the batch that holds the offset on, cut anywhere,  *)
(* and keeps the last value of every key of a bucket.                      *)
(***************************************************************************)
EXTENDS RecordBatches, Bucketing

CONSTANTS
  Versions,       \* the schemas of the table, in the order they come about
  RowsOf,         \* RowsOf[v]: the rows written while Versions[v] is currentSchema
  PartialsOf,     \* PartialsOf[v]: pairs <<columns, values>> of partial updates
  Kinds,          \* which tables: "compacted", "indexed" and "arrow" logs, "kv"
  Projections,    \* the column names a scanner projects to, <<>> for all
  Buckets,        \* the bucket IDs of the table, in order
  MaxRecords      \* bound on the records written

VARIABLES
  tableKind,      \* the kind of the table
  version,        \* the schema that is current
  log,            \* the encoded batches of the log of one bucket
  written,        \* ghost: [values |-> column ID -> value, change] by offset
  scanner,        \* the scanner of the log
  kvStore,        \* kvStore[b]: encoded key -> [id, value] kept by bucket b
  latest          \* ghost: key values -> column ID -> value

dataVars == <<tableKind, version, log, written, scanner, kvStore, latest>>

resolver == [v \in 1 .. version |-> Versions[v]]
currentSchema == Versions[version]

DataInit ==
  /\ tableKind \in Kinds
  /\ version = 1
  /\ log = <<>> /\ written = <<>>
  /\ scanner = [target |-> 0, positions |-> <<>>, start |-> 0, offset |-> 0,
                got |-> <<>>, failed |-> FALSE]
  /\ kvStore = [b \in ToSet(Buckets) |-> <<>>]
  /\ latest = <<>>

EvolveTable ==
  /\ version < Len(Versions)
  /\ version' = version + 1
  /\ UNCHANGED <<tableKind, log, written, scanner, kvStore, latest>>

valuesByID(s, row) ==
  [id \in {c.id : c \in ToSet(s.columns)} |->
     row[CHOOSE i \in DOMAIN s.columns : s.columns[i].id = id]]

byIdentity(s, values) ==
  [i \in DOMAIN s.columns |->
     IF s.columns[i].id \in DOMAIN values THEN values[s.columns[i].id] ELSE Nil]

-----------------------------------------------------------------------------
(* The log                                                                 *)

\* AppendWriter.encodeBatch: an Arrow item alone with its changes, or rows.
encodeBatch(rows, changes) ==
  LET header == [magic |-> 0, base |-> -1, commit |-> 0, epoch |-> 0,
                 schemaID |-> version, writerID |-> 0, sequence |-> 0]
  IN  IF tableKind = "arrow"
      THEN encodeArrowLogBatch(header @@ [appendOnly |-> FALSE, rows |-> rows,
                                          changes |-> changes])
      ELSE encodeRows(header @@ [appendOnly |-> TRUE, records |->
                        [i \in DOMAIN rows |-> [row |-> rows[i], change |-> AppendChange]]],
                      currentSchema, tableKind)

\* The checks Append and AppendArrow make of a row, a change list.
acceptsRows(rows, changes) ==
  IF tableKind = "arrow"
  THEN Len(changes) = Len(rows) /\ ToSet(changes) \subseteq ChangeTypes
  ELSE \A i \in DOMAIN rows : validRow(currentSchema, rows[i], <<>>)

\* The server gives the batch its offset, its commit time and its epoch, and
\* may store it with either magic.
stored(encoded, magic) ==
  [encoded EXCEPT !.base = Len(written), !.magic = magic, !.commit = 1,
                  !.epoch = magic, !.length = headerSize(magic) + Len(encoded.body) - 12]

AppendBatch(rows, changes, magic) ==
  /\ tableKind # "kv"
  /\ Len(written) + Len(rows) <= MaxRecords
  /\ acceptsRows(rows, changes)
  /\ \E encoded \in ToSet(encodeBatch(rows, changes)) :
       log' = Append(log, stored(encoded, magic))
  /\ written' = written \o [i \in DOMAIN rows |->
                   [values |-> valuesByID(currentSchema, rows[i]), change |-> changes[i]]]
  /\ UNCHANGED <<tableKind, version, scanner, kvStore, latest>>

\* configureProjection: the positions of the projected columns, which a table
\* in the indexed format refuses.
configureProjection(s, names) ==
  [i \in DOMAIN names |-> CHOOSE k \in DOMAIN s.columns : s.columns[k].name = names[i]]

OpenScanner(names, start) ==
  /\ tableKind # "kv" /\ scanner.target = 0
  /\ names # <<>> => tableKind # "indexed" /\ ToSet(names) \subseteq columnNames(currentSchema)
  /\ scanner' = [scanner EXCEPT !.target = version, !.start = start, !.offset = start,
                                !.positions = configureProjection(currentSchema, names)]
  /\ UNCHANGED <<tableKind, version, log, written, kvStore, latest>>

\* The server's answer: the batches from the one that ends after the offset
\* on, the first whole ones of them and, if cut > 0, cut bytes of the next.
served(whole, cut) ==
  LET ahead == SelectSeq(log, LAMBDA b : b.base + b.count > scanner.offset)
      item(i, present) == [batch |-> ahead[i], present |-> present]
  IN  [i \in 1 .. whole |-> item(i, batchSize(ahead[i]))]
      \o (IF cut = 0 THEN <<>> ELSE <<item(whole + 1, cut)>>)

\* pollBucket on a fetched answer: decode, evolve, project, advance.
pollBucket(fetched) ==
  LET delivered(next, records) ==
        [scanner EXCEPT
          !.offset = next,
          !.got = @ \o [i \in DOMAIN records |->
                          [records[i] EXCEPT !.row = projectRow(scanner.positions, @)]]]
      polled(decoded) ==
        IF decoded = <<>> THEN [scanner EXCEPT !.failed = TRUE]
        ELSE delivered(decoded[1].next, orderedScanSegments(decoded[1]))
  IN  polled(decodeFetchedLog(resolver, Versions[scanner.target], fetched, scanner.offset,
               IF tableKind = "indexed" THEN "indexed" ELSE "compacted", TRUE))

FetchLog ==
  /\ scanner.target # 0 /\ ~scanner.failed
  /\ LET ahead == {i \in DOMAIN log : log[i].base + log[i].count > scanner.offset}
     IN  \E whole \in 0 .. Cardinality(ahead), cut \in {0, 11, 12, 48} :
           /\ cut > 0 => whole < Cardinality(ahead)
           /\ whole > 0 \/ cut > 0
           /\ scanner' = pollBucket(served(whole, cut))
  /\ UNCHANGED <<tableKind, version, log, written, kvStore, latest>>

-----------------------------------------------------------------------------
(* Primary-key tables                                                      *)

bucketKey(s) == IF s.bucketKey = <<>> THEN s.primaryKey ELSE s.bucketKey

\* bucketForValues and the bucket of enqueueMutation: one computation on a
\* map from column names to values.
bucketForValues(s, values) ==
  LET names == bucketKey(s)
      numbered(bucket) == IF bucket = <<>> THEN <<>> ELSE <<Buckets[bucket[1] + 1]>>
      hashed(encoded) == IF encoded = <<>> THEN <<>> ELSE flussBucket(encoded[1], Len(Buckets))
  IN  numbered(hashed(encodeKeyColumns(s, names, [i \in DOMAIN names |-> values[names[i]]])))

rowValues(names, row) ==
  [n \in ToSet(names) |-> row[CHOOSE i \in DOMAIN names : names[i] = n]]

\* enqueueMutation of an encoded value: the record and its bucket.
enqueueMutation(s, values, value) ==
  LET mutation(key, bucket) ==
        IF value = <<>> \/ key = <<>> \/ bucket = <<>> THEN <<>>
        ELSE <<[bucket |-> bucket[1], record |-> [key |-> key[1], value |-> value[1]]]>>
  IN  mutation(encodePrimaryKey(s, [i \in DOMAIN s.primaryKey |-> values[s.primaryKey[i]]]),
               bucketForValues(s, values))

mutationUpsert(s, row) ==
  IF s.autoIncrement # <<>> \/ ~validRow(s, row, <<>>) THEN <<>>
  ELSE enqueueMutation(s, rowValues(selectedColumns(s, <<>>), row),
                       encodeRow(s, row, "compacted"))

mutationDelete(s, key) ==
  IF ~validRow(s, key, s.primaryKey) THEN <<>>
  ELSE enqueueMutation(s, rowValues(s.primaryKey, key), << <<>> >>)

validatePartial(s, columns, values) ==
  /\ columns # <<>> /\ Len(columns) = Len(values)
  /\ validRow(s, values, columns)
  /\ Cardinality(ToSet(columns)) = Len(columns)
  /\ ToSet(s.primaryKey) \subseteq ToSet(columns)
  /\ ToSet(s.autoIncrement) \cap ToSet(columns) = {}
  /\ \A c \in ToSet(s.columns) :
       \/ c.name \in ToSet(columns) \/ c.nullable
       \/ c.name \in ToSet(s.primaryKey) \/ c.name \in ToSet(s.autoIncrement)

\* PartialUpsert: the full row has nil for what is not targeted.
partialRow(s, columns, values) ==
  [i \in DOMAIN s.columns |->
     IF s.columns[i].name \in ToSet(columns)
     THEN rowValues(columns, values)[s.columns[i].name] ELSE Nil]
mutationPartial(s, columns, values) ==
  IF ~validatePartial(s, columns, values) THEN <<>>
  ELSE enqueueMutation(s, rowValues(columns, values),
                       encodeRow(s, partialRow(s, columns, values), "compacted"))

decodeLookupValue(target, entry) ==
  LET evolved(row) == IF row = <<>> THEN <<>>
                      ELSE evolveRow(resolver[entry.id], target, row[1])
  IN  IF entry.id \notin DOMAIN resolver THEN <<>>
      ELSE evolved(decodeRow(resolver[entry.id], entry.value, "compacted"))

\* What the server makes of a partial update: it merges the targeted columns
\* into the row it keeps.
merged(old, record, columns) ==
  LET row(new, kept, from) ==
        [i \in DOMAIN new |->
           IF currentSchema.columns[i].name \in ToSet(columns) THEN new[i]
           ELSE IF from[i] = 0 THEN Nil ELSE kept[from[i]]]
  IN  encodeRow(currentSchema,
        row(decodeRow(currentSchema, record.value, "compacted")[1],
            decodeRow(resolver[old.id], old.value, "compacted")[1],
            schemaColumnMapping(resolver[old.id], currentSchema)[1]), "compacted")[1]

sentBatch(mutation) ==
  encodeKVBatch([schemaID |-> version, writerID |-> 0, sequence |-> 0,
                 records |-> <<mutation.record>>])

keyOf(s, row) == [i \in DOMAIN s.primaryKey |->
                    rowValues(selectedColumns(s, <<>>), row)[s.primaryKey[i]]]
Keys == UNION {{keyOf(Versions[v], row) : row \in RowsOf[v]} : v \in DOMAIN Versions}

without(f, key) == [k \in DOMAIN f \ {key} |-> f[k]]

\* The server applies the record of the batch to its bucket.
received(mutation) == decodeKVBatch(sentBatch(mutation)[1])[1].records[1]
update(b, record, value) ==
  [kvStore EXCEPT ![b] = IF record.value = <<>> THEN without(@, record.key)
                         ELSE (record.key :> [id |-> version, value |-> value]) @@ @]
applied(b, record) == update(b, record, record.value)
appliedPartial(b, record, columns) ==
  update(b, record, IF record.key \in DOMAIN kvStore[b]
                    THEN merged(kvStore[b][record.key], record, columns) ELSE record.value)

kvFrame == UNCHANGED <<tableKind, version, log, written, scanner>>

UpsertRow(row) ==
  /\ tableKind = "kv"
  /\ \E mutation \in ToSet(mutationUpsert(currentSchema, row)) :
       kvStore' = applied(mutation.bucket, received(mutation))
  /\ latest' = (keyOf(currentSchema, row) :> valuesByID(currentSchema, row)) @@ latest
  /\ kvFrame

\* The server refuses a merge that leaves a required column null.
PartialUpsertRow(columns, values) ==
  LET full     == partialRow(currentSchema, columns, values)
      key      == keyOf(currentSchema, full)
      new      == valuesByID(currentSchema, full)
      target   == {c.id : c \in {d \in ToSet(currentSchema.columns) : d.name \in ToSet(columns)}}
      result   == [id \in DOMAIN new |->
                     IF id \in target \/ key \notin DOMAIN latest THEN new[id]
                     ELSE IF id \in DOMAIN latest[key] THEN latest[key][id] ELSE Nil]
  IN  /\ tableKind = "kv"
      /\ \E mutation \in ToSet(mutationPartial(currentSchema, columns, values)) :
           kvStore' = appliedPartial(mutation.bucket, received(mutation), columns)
      /\ validRow(currentSchema, byIdentity(currentSchema, result), <<>>)
      /\ latest' = (key :> result) @@ latest
      /\ kvFrame

DeleteKey(key) ==
  /\ tableKind = "kv"
  /\ \E mutation \in ToSet(mutationDelete(currentSchema, key)) :
       kvStore' = applied(mutation.bucket, received(mutation))
  /\ latest' = without(latest, key)
  /\ kvFrame

DataNext ==
  \/ EvolveTable
  \/ \E n \in 1 .. 2 : \E rows \in [1 .. n -> RowsOf[version]] :
       \E changes \in IF tableKind = "arrow" THEN {<<1, 4>>} ELSE {<<0, 0>>} :
         AppendBatch(rows, SubSeq(changes, 1, n), Len(log) % 2)
  \/ \E names \in Projections, start \in {0, 1} : OpenScanner(names, start)
  \/ FetchLog
  \/ \E row \in RowsOf[version] : UpsertRow(row)
  \/ \E partial \in PartialsOf[version] : PartialUpsertRow(partial[1], partial[2])
  \/ \E key \in Keys : DeleteKey(key)

DataSpec == DataInit /\ [][DataNext]_dataVars

-----------------------------------------------------------------------------
(* Reading a primary-key table, and what the reads promise                 *)

\* encodePoint.
encodePoint(s, key) ==
  LET point(encoded, bucket) == IF encoded = <<>> \/ bucket = <<>> THEN <<>>
                                ELSE <<[key |-> encoded[1], bucket |-> bucket[1]]>>
  IN  point(encodePrimaryKey(s, key), bucketForValues(s, rowValues(s.primaryKey, key)))

\* encodePrefix: the prefix must begin with the whole bucket key.
encodePrefix(s, prefix) ==
  LET at(encoded, bucket) == IF encoded = <<>> \/ bucket = <<>> THEN <<>>
                             ELSE <<[key |-> encoded[1], bucket |-> bucket[1]]>>
  IN  IF Len(prefix) < Len(bucketKey(s)) \/ ~IsPrefix(bucketKey(s), s.primaryKey) THEN <<>>
      ELSE at(encodePrefixKey(s, prefix),
              bucketForValues(s, rowValues(SubSeq(s.primaryKey, 1, Len(prefix)), prefix)))

\* A row the reader's schema cannot hold is an error.
readAs(s, values) ==
  IF validRow(s, byIdentity(s, values), <<>>) THEN <<byIdentity(s, values)>> ELSE <<>>

\* The answer to a limit scan of a bucket: its values in some order.
valueBatch(b) ==
  LET keys   == SetToSeq(DOMAIN kvStore[b])
      record(k) == little(2 + Len(kvStore[b][k].value), 4) \o little(kvStore[b][k].id, 2)
                   \o kvStore[b][k].value
      body   == FlattenSeq([i \in DOMAIN keys |-> record(keys[i])])
  IN  [length |-> 5 + Len(body), magic |-> 0, count |-> Len(keys), body |-> body]

\* A lookup finds the last row written under its key and no other, whichever
\* schema it was written with, column by column identity (decodeLookupValue-
\* WithResolver, encodePoint); a prefix lookup finds exactly the rows whose
\* leading key columns have the values of the prefix, in the one bucket it
\* asks (encodePrefix); and limit scans of all the buckets find exactly the
\* rows there are (decodeCurrent).
ReadsFindLatest ==
  tableKind = "kv" =>
    /\ \A key \in Keys : \E at \in ToSet(encodePoint(currentSchema, key)) :
         IF key \notin DOMAIN latest THEN at.key \notin DOMAIN kvStore[at.bucket]
         ELSE /\ at.key \in DOMAIN kvStore[at.bucket]
              /\ decodeLookupValue(currentSchema, kvStore[at.bucket][at.key])
                 = readAs(currentSchema, latest[key])
    /\ \A prefix \in {SubSeq(key, 1, Len(bucketKey(currentSchema))) : key \in Keys} :
         \E at \in ToSet(encodePrefix(currentSchema, prefix)) :
           {decodeLookupValue(currentSchema, kvStore[at.bucket][k]) :
              k \in {k \in DOMAIN kvStore[at.bucket] : IsPrefix(at.key, k)}}
           = {readAs(currentSchema, latest[key]) :
                key \in {k \in DOMAIN latest : IsPrefix(prefix, k)}}
    /\ (\A key \in DOMAIN latest : readAs(currentSchema, latest[key]) # <<>>) =>
         UNION {ToSet(decodeCurrent(resolver, currentSchema, valueBatch(b), 100, <<>>)[1]) :
                  b \in DOMAIN kvStore}
         = {byIdentity(currentSchema, latest[key]) : key \in DOMAIN latest}

\* A scanner has delivered exactly the records from its start to its offset,
\* in order, each with its own offset, change and values: the value of every
\* column is the one written to the column with that field ID, whatever the
\* column was called or where it stood then (decodeFetchedLogBatches-
\* WithResolver, evolveRow, evolveArrowBatch, projectScanRows), although the
\* answers start before the offset and end inside a batch.  It fails only
\* over a record that the schema it reads with cannot hold; over such a record
\* in an Arrow batch it does not fail but delivers it (DeliveredRowsValid).
ScanIsFaithful ==
  scanner.target # 0 =>
    LET target == Versions[scanner.target]
        row(o) == byIdentity(target, written[o + 1].values)
    IN  /\ scanner.offset <= Len(written) \/ scanner.got = <<>>
        /\ scanner.got = [k \in 1 .. scanner.offset - scanner.start |->
             [offset |-> scanner.start + k - 1,
              change |-> written[scanner.start + k].change,
              row |-> projectRow(scanner.positions, row(scanner.start + k - 1))]]
        /\ scanner.failed => \E o \in scanner.offset .. Len(written) - 1 :
                               ~validRow(target, row(o), <<>>)

\* docs/schema-evolution.md: "a nullable-to-required transition containing
\* null ... returns ErrInvalidSchema": no scanner delivers a row its schema
\* does not allow.  evolveRow keeps to this; evolveArrowBatch checks only the
\* types of the columns and not their values, and does not.
DeliveredRowsValid ==
  scanner.target # 0 /\ scanner.positions = <<>> =>
    \A k \in DOMAIN scanner.got :
      validRow(Versions[scanner.target], scanner.got[k].row, <<>>)
=============================================================================
