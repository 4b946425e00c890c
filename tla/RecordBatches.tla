---------------------------- MODULE RecordBatches ----------------------------
(***************************************************************************)
(* The batches rows travel in (record_batch.go, arrow_batch.go), what a    *)
(* scanner makes of fetched bytes (log_scanner_decode.go) and of the       *)
(* answer to a limit scan (batch_scanner_decode.go).                       *)
(*                                                                         *)
(* The fields of a batch header are the fields of a record; what follows   *)
(* the header is bytes.  CRC32C is external and taken to be collision-free:*)
(* the checksum is the checksummed data.  The rows of an Arrow IPC message *)
(* are carried beside the bytes of the message, of which only the leading  *)
(* continuation marker is kept.                                            *)
(***************************************************************************)
EXTENDS RowCodec

CONSTANTS MaxOffset        \* math.MaxInt64 in the code

AppendChange == 0
DeleteChange == 4
ChangeTypes == AppendChange .. DeleteChange

headerSize(magic) == IF magic = 1 THEN 52 ELSE 48
kvHeaderSize == 28

-----------------------------------------------------------------------------
(* KV batches: what an upsert writer sends                                 *)

kvChecksum(b) == <<b.schemaID, b.writerID, b.sequence, b.count, b.body>>

kvBody(record) == varint(little(Len(record.key), 4)) \o record.key \o record.value

encodeKVBatch(batch) ==
  LET checksummed(encoded) == encoded @@ [crc |-> kvChecksum(encoded)]
      limited(body) ==
        IF body # <<>> /\ kvHeaderSize + Len(body) > maxRowBytes THEN <<>>
        ELSE <<checksummed([length |-> kvHeaderSize + Len(body) - 4, magic |-> 0,
                            schemaID |-> batch.schemaID, writerID |-> batch.writerID,
                            sequence |-> batch.sequence, count |-> Len(batch.records),
                            body |-> body])>>
      sized(record) == little(Len(record), 4) \o record
  IN  limited(FlattenSeq([i \in DOMAIN batch.records |-> sized(kvBody(batch.records[i]))]))

\* A record without value bytes is a delete: its value is <<>>.
decodeKVRecord(body, position) ==
  LET length == unsigned(slice(body, position, 4))
      end    == position + 4 + length
      record(key, keyEnd) ==
        IF ~key.ok \/ keyEnd > end THEN failed
        ELSE got([key |-> SubSeq(body, key.next + 1, keyEnd),
                  value |-> SubSeq(body, keyEnd + 1, end)], end)
      content(key) == record(key, key.next + unsigned(key.value))
  IN  IF \/ Len(body) - position < 4
         \/ length < 1
         \/ length > Len(body) - position - 4
      THEN failed
      ELSE content(readVar(SubSeq(body, 1, end), position + 4, 5))

\* The value before the others, unless one of them is an error.
consResult(value, rest) == IF rest = <<>> THEN <<>> ELSE << <<value>> \o rest[1] >>

RECURSIVE decodeKVRecords(_, _, _)
decodeKVRecords(body, position, count) ==
  LET records(record) ==
        IF ~record.ok THEN <<>>
        ELSE consResult(record.value, decodeKVRecords(body, record.next, count - 1))
  IN  IF count = 0 THEN IF position = Len(body) THEN << <<>> >> ELSE <<>>
      ELSE records(decodeKVRecord(body, position))

decodeKVBatch(encoded) ==
  LET size == kvHeaderSize + Len(encoded.body)
      batch(records) ==
        IF records = <<>> THEN <<>>
        ELSE <<[schemaID |-> encoded.schemaID, writerID |-> encoded.writerID,
                sequence |-> encoded.sequence, records |-> records[1]]>>
  IN  IF \/ size > maxRowBytes
         \/ encoded.magic # 0
         \/ encoded.length # size - 4
         \/ encoded.crc # kvChecksum(encoded)
         \/ encoded.count > size \div 5
      THEN <<>> ELSE batch(decodeKVRecords(encoded.body, 0, encoded.count))

-----------------------------------------------------------------------------
(* Log batches of rows and of Arrow records                                *)

checksum(b) == <<b.schemaID, b.appendOnly, b.lastDelta, b.writerID, b.sequence,
                 b.count, b.body, b.ipc>>

\* The header both encoders write, over the bytes that follow it.
logBatch(batch, count, body, ipc) ==
  LET checksummed(encoded) == encoded @@ [crc |-> checksum(encoded)]
  IN  checksummed([base |-> batch.base, magic |-> batch.magic, commit |-> batch.commit,
                   epoch |-> IF batch.magic = 1 THEN batch.epoch ELSE 0,
                   length |-> headerSize(batch.magic) + Len(body) - 12,
                   schemaID |-> batch.schemaID, appendOnly |-> batch.appendOnly,
                   lastDelta |-> IF count > 0 THEN count - 1 ELSE 0,
                   writerID |-> batch.writerID, sequence |-> batch.sequence,
                   count |-> count, body |-> body, ipc |-> ipc])

batchSize(encoded) == headerSize(encoded.magic) + Len(encoded.body)

\* LogBatch.EncodeRows.
encodeRows(batch, s, enc) ==
  LET record(i, row) ==
        little(1 + Len(row), 4) \o <<batch.records[i].change>> \o row
      joined(rows) ==
        IF \E i \in DOMAIN rows : rows[i] = <<>> THEN <<>>
        ELSE <<logBatch(batch, Len(rows),
                 FlattenSeq([i \in DOMAIN rows |-> record(i, rows[i][1])]), <<>>)>>
  IN  IF \/ batch.magic \notin {0, 1}
         \/ \E r \in ToSet(batch.records) : r.change \notin ChangeTypes
      THEN <<>>
      ELSE joined([i \in DOMAIN batch.records |-> encodeRow(s, batch.records[i].row, enc)])

\* logBatchHeader and the checks of arrowHeader and DecodeArrowLogBatch: the
\* two read the same header.
logBatchHeader(encoded) ==
  /\ batchSize(encoded) <= maxRowBytes
  /\ encoded.magic \in {0, 1}
  /\ encoded.length = batchSize(encoded) - 12
  /\ encoded.crc = checksum(encoded)

decodeLogRecord(s, body, position, enc) ==
  LET length == unsigned(slice(body, position, 4))
      end    == position + 4 + length
      record(row) == IF row = <<>> THEN failed
                     ELSE got([change |-> body[position + 5], row |-> row[1]], end)
  IN  IF \/ Len(body) - position < 5
         \/ length < 1
         \/ length > Len(body) - position - 4
         \/ body[position + 5] \notin ChangeTypes
      THEN failed
      ELSE record(decodeRow(s, SubSeq(body, position + 6, end), enc))

RECURSIVE decodeLogRecords(_, _, _, _, _)
decodeLogRecords(s, body, position, count, enc) ==
  LET records(record) ==
        IF ~record.ok THEN <<>>
        ELSE consResult(record.value,
                        decodeLogRecords(s, body, record.next, count - 1, enc))
  IN  IF count = 0 THEN IF position = Len(body) THEN << <<>> >> ELSE <<>>
      ELSE records(decodeLogRecord(s, body, position, enc))

\* DecodeLogBatchRows: the records with the offsets they are given.
decodeLogBatchRows(s, encoded, enc) ==
  LET placed(records) ==
        IF records = <<>> THEN <<>>
        ELSE <<[i \in DOMAIN records[1] |->
                 records[1][i] @@ [offset |-> encoded.base + i - 1]]>>
  IN  IF ~logBatchHeader(encoded) \/ encoded.count > Len(encoded.body) \div 5 THEN <<>>
      ELSE placed(decodeLogRecords(s, encoded.body, 0, encoded.count, enc))

ipcMarker == <<255, 255, 255, 255>>

\* Arrow change bytes; <<>> when the changes do not fit the batch.
arrowChanges(batch, count) ==
  LET changes == batch.changes
  IN  IF batch.appendOnly
      THEN IF \/ Len(changes) \notin {0, count}
              \/ \E c \in ToSet(changes) : c # AppendChange
           THEN <<>> ELSE << <<>> >>
      ELSE IF Len(changes) # count \/ ~(ToSet(changes) \subseteq ChangeTypes)
           THEN <<>> ELSE <<changes>>

encodeArrowPayload(rows) == IF rows = <<>> THEN <<>> ELSE ipcMarker

encodeArrowLogBatch(batch) ==
  LET joined(changes, payload) ==
        IF changes = <<>> THEN <<>>
        ELSE IF Len(payload) > maxRowBytes - headerSize(batch.magic) - Len(changes[1])
        THEN <<>>
        ELSE <<logBatch(batch, Len(batch.rows), changes[1] \o payload, batch.rows)>>
  IN  IF batch.magic \notin {0, 1} THEN <<>>
      ELSE joined(arrowChanges(batch, Len(batch.rows)), encodeArrowPayload(batch.rows))

\* decodeArrowChanges.
decodeArrowChanges(encoded) ==
  IF encoded.appendOnly THEN <<[i \in 1 .. encoded.count |-> AppendChange]>>
  ELSE LET changes == SubSeq(encoded.body, 1, encoded.count)
       IN  IF ToSet(changes) \subseteq ChangeTypes THEN <<changes>> ELSE <<>>

\* decodeArrowRecord and decodeArrowPayload: the rows of the message.
decodeArrowRecord(encoded, payload) ==
  IF encoded.count = 0 THEN IF payload = <<>> THEN << <<>> >> ELSE <<>>
  ELSE IF payload # ipcMarker \/ Len(encoded.ipc) # encoded.count THEN <<>>
  ELSE <<encoded.ipc>>

decodeArrowLogBatch(encoded) ==
  LET changeBytes == IF encoded.appendOnly THEN 0 ELSE encoded.count
      joined(changes, rows) ==
        IF changes = <<>> \/ rows = <<>> THEN <<>>
        ELSE <<[base |-> encoded.base, changes |-> changes[1], rows |-> rows[1]]>>
  IN  IF \/ ~logBatchHeader(encoded)
         \/ encoded.count > maxRowBytes
         \/ changeBytes > Len(encoded.body)
      THEN <<>>
      ELSE joined(decodeArrowChanges(encoded),
                  decodeArrowRecord(encoded,
                    SubSeq(encoded.body, changeBytes + 1, Len(encoded.body))))

-----------------------------------------------------------------------------
(* Fetched bytes: a sequence of batches of which the last may be cut.      *)
(* present is how many bytes of a batch arrived.                           *)

completeFetchedBatchSize(item) ==
  CASE item.present < 12 -> "incomplete"
    [] item.present >= 12 /\ 12 + item.batch.length < headerSize(0) -> "invalid"
    [] item.present >= 12 /\ 12 + item.batch.length >= headerSize(0) ->
         IF 12 + item.batch.length > item.present THEN "incomplete" ELSE "complete"

\* Mutant: the records before the offset are not cut off.
fetchedBatchOffsetsWhole(base, count, current) ==
  <<[start |-> 0, next |-> IF base + count > current THEN base + count ELSE current]>>

\* How many leading records the scanner already passed, and where it stands
\* after the batch.
fetchedBatchOffsets(base, count, current) ==
  LET end == base + count
  IN  IF count = 0 THEN <<[start |-> 0, next |-> current]>>
      ELSE IF base > MaxOffset - count THEN <<>>
      ELSE <<[start |-> IF current >= end THEN count
                        ELSE IF current > base THEN current - base ELSE 0,
              next  |-> IF end > current THEN end ELSE current]>>

sliceArrowLogBatch(batch, start, end) ==
  [batch EXCEPT !.base = batch.base + start,
                !.rows = SubSeq(batch.rows, start + 1, end),
                !.changes = SubSeq(batch.changes, start + 1, end)]

\* Rows are tried first; what does not decode as rows is taken for Arrow.
decodeFetchedBatch(s, encoded, current, enc) ==
  LET fromRows(records, at) ==
        IF at = <<>> THEN <<>>
        ELSE <<[next |-> at[1].next, arrows |-> <<>>,
                rows |-> SubSeq(records, at[1].start + 1, Len(records))]>>
      fromArrow(batch, at) ==
        IF at = <<>> THEN <<>>
        ELSE <<[next |-> at[1].next, rows |-> <<>>,
                arrows |-> IF at[1].start = Len(batch.rows) THEN <<>>
                           ELSE <<sliceArrowLogBatch(batch, at[1].start, Len(batch.rows))>>]>>
      offsets(count) == fetchedBatchOffsets(encoded.base, count, current)
      decoded(rows, arrow) ==
        IF rows # <<>> THEN fromRows(rows[1], offsets(Len(rows[1])))
        ELSE IF arrow # <<>> THEN fromArrow(arrow[1], offsets(Len(arrow[1].rows)))
        ELSE <<>>
  IN  decoded(decodeLogBatchRows(s, encoded, enc), decodeArrowLogBatch(encoded))

\* evolveScanRecords.
evolveScanRecords(source, target, records) ==
  LET placed(rows) == IF \E i \in DOMAIN rows : rows[i] = <<>> THEN <<>>
                      ELSE <<[i \in DOMAIN rows |-> [records[i] EXCEPT !.row = rows[i][1]]]>>
  IN  placed([i \in DOMAIN records |-> evolveRow(source, target, records[i].row)])

\* The same for the Arrow batches: their columns are moved whole.
evolveScanArrows(source, target, arrows) ==
  LET placed(rows) == IF \E i \in DOMAIN rows : rows[i] = <<>> THEN <<>>
                      ELSE <<[i \in DOMAIN rows |-> [arrows[i] EXCEPT !.rows = rows[i][1]]]>>
  IN  placed([i \in DOMAIN arrows |-> evolveArrowBatch(source, target, arrows[i].rows)])

\* A resolver is the function from the schema IDs it knows to schemas.
decodeEvolvedFetchedBatch(resolver, target, encoded, current, enc) ==
  LET source == resolver[encoded.schemaID]
      joined(next, rows, arrows) ==
        IF rows = <<>> \/ arrows = <<>> THEN <<>>
        ELSE <<[next |-> next, rows |-> rows[1], arrows |-> arrows[1]]>>
      evolved(decoded) ==
        IF decoded = <<>> THEN <<>>
        ELSE joined(decoded[1].next,
                    evolveScanRecords(source, target, decoded[1].rows),
                    evolveScanArrows(source, target, decoded[1].arrows))
  IN  IF ~logBatchHeader(encoded) \/ encoded.schemaID \notin DOMAIN resolver THEN <<>>
      ELSE evolved(decodeFetchedBatch(source, encoded, current, enc))

\* decodeFetchedLogBatchesWithResolver; an error gives up the whole answer.
RECURSIVE decodeFetchedLog(_, _, _, _, _, _)
decodeFetchedLog(resolver, target, fetched, offset, enc, allowIncompleteTail) ==
  LET empty == <<[next |-> offset, rows |-> <<>>, arrows |-> <<>>]>>
      joined(head, tail) ==
        IF tail = <<>> THEN <<>>
        ELSE <<[next   |-> tail[1].next,
                rows   |-> head.rows \o tail[1].rows,
                arrows |-> head.arrows \o tail[1].arrows]>>
      after(head) ==
        IF head = <<>> THEN <<>>
        ELSE joined(head[1], decodeFetchedLog(resolver, target, Tail(fetched), head[1].next,
                                              enc, allowIncompleteTail))
      size == completeFetchedBatchSize(fetched[1])
  IN  IF fetched = <<>> THEN empty
      ELSE IF size = "invalid" THEN <<>>
      ELSE IF size = "incomplete" THEN IF allowIncompleteTail THEN empty ELSE <<>>
      ELSE after(decodeEvolvedFetchedBatch(resolver, target, fetched[1].batch, offset, enc))

\* The rows of an answer in offset order (orderedScanSegments), each Arrow
\* batch contributing its rows from its base offset on.
orderedScanSegments(result) ==
  LET rowSegment(r) == <<r.offset, <<r>> >>
      arrowSegment(a) == <<a.base, [k \in DOMAIN a.rows |->
                           [offset |-> a.base + k - 1, change |-> a.changes[k],
                            row |-> a.rows[k]]]>>
      order(segments) == SortSeq([i \in DOMAIN segments |-> i], LAMBDA a, b :
                           \/ segments[a][1] < segments[b][1]
                           \/ segments[a][1] = segments[b][1] /\ a < b)
      ordered(segments, at) == FlattenSeq([i \in DOMAIN at |-> segments[at[i]][2]])
      joined(segments) == ordered(segments, order(segments))
  IN  joined([i \in DOMAIN result.rows |-> rowSegment(result.rows[i])]
             \o [i \in DOMAIN result.arrows |-> arrowSegment(result.arrows[i])])

\* limitLatestLogRecords: the last limit rows.
limitLatestLogRecords(records, limit) ==
  IF Len(records) <= limit THEN records
  ELSE SubSeq(records, Len(records) - limit + 1, Len(records))

-----------------------------------------------------------------------------
(* Value batches: what a limit scan or a KV scan answers                   *)

decodeValueRecord(resolver, target, body, position) ==
  LET size     == unsigned(slice(body, position, 4))
      schemaID == signed(slice(body, position + 4, 2))
      end      == position + 4 + size
      record(evolved) == IF evolved = <<>> THEN failed ELSE got(evolved[1], end)
      source   == resolver[schemaID]
      decoded(row) ==
        IF row = <<>> THEN failed ELSE record(evolveRow(source, target, row[1]))
  IN  IF \/ Len(body) - position < 6
         \/ size < 2
         \/ size > Len(body) - position - 4
         \/ schemaID \notin DOMAIN resolver
      THEN failed
      ELSE decoded(decodeRow(source, SubSeq(body, position + 7, end), "compacted"))

RECURSIVE decodeValueRecords(_, _, _, _, _)
decodeValueRecords(resolver, target, body, position, count) ==
  LET records(record) ==
        IF ~record.ok THEN <<>>
        ELSE consResult(record.value,
                        decodeValueRecords(resolver, target, body, record.next, count - 1))
  IN  IF count = 0 THEN IF position = Len(body) THEN << <<>> >> ELSE <<>>
      ELSE records(decodeValueRecord(resolver, target, body, position))

decodeValueRecordBatch(resolver, target, encoded) ==
  IF \/ encoded.length # 9 + Len(encoded.body) - 4
     \/ encoded.magic # 0
     \/ encoded.count > Len(encoded.body) \div 6
  THEN <<>>
  ELSE decodeValueRecords(resolver, target, encoded.body, 0, encoded.count)

\* decodeCurrent on a primary-key table: the last rows within the limit.
decodeCurrent(resolver, target, encoded, limit, positions) ==
  LET projected(kept) == <<[i \in DOMAIN kept |-> projectRow(positions, kept[i])]>>
      latest(rows) == IF rows = <<>> THEN <<>>
                      ELSE projected(limitLatestLogRecords(rows[1], limit))
  IN  latest(decodeValueRecordBatch(resolver, target, encoded))
=============================================================================
