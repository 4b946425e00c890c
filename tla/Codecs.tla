------------------------------- MODULE Codecs --------------------------------
(***************************************************************************)
(* The codecs as a machine that encodes a row, cuts or extends the bytes,  *)
(* and decodes what is left; renders a schema as JSON and parses it back;  *)
(* and renders a schema as an Arrow schema and reads it back.              *)
(***************************************************************************)
EXTENDS RowCodec

CONSTANTS
  Samples,        \* triples <<schema, row, encoding>>
  SampleSchemas   \* schemas whose columns have no field IDs yet

VARIABLES
  sample,         \* the input under way
  stage,          \* what was done to it
  bytes,          \* the encoded row
  length,         \* how many of the bytes the decoder is given
  answer          \* what the last step returned

codecVars == <<sample, stage, bytes, length, answer>>

CodecInit ==
  /\ \/ sample \in Samples /\ stage = "row"
     \/ sample \in {<<s>> : s \in SampleSchemas} /\ stage = "schema"
  /\ bytes = <<>> /\ length = 0 /\ answer = <<>>

EncodeSample ==
  /\ stage = "row"
  /\ \E encoded \in ToSet(encodeRow(sample[1], sample[2], sample[3])) : bytes' = encoded
  /\ stage' = "encoded"
  /\ UNCHANGED <<sample, length, answer>>

\* The whole row, a proper prefix of it, or the row and one more byte.
DecodeSample ==
  /\ stage = "encoded"
  /\ \E n \in 0 .. Len(bytes) + 1 :
       /\ length' = n
       /\ answer' = decodeRow(sample[1], SubSeq(bytes \o <<0>>, 1, n), sample[3])
  /\ stage' = "decoded"
  /\ UNCHANGED <<sample, bytes>>

SchemaToJSON ==
  /\ stage = "schema"
  /\ answer' = schemaJSON(sample[1])
  /\ stage' = "json"
  /\ UNCHANGED <<sample, bytes, length>>

SchemaFromJSON ==
  /\ stage = "json" /\ answer # <<>>
  /\ answer' = parseSchemaJSON(answer[1].json)
  /\ stage' = "parsed"
  /\ UNCHANGED <<sample, bytes, length>>

SchemaThroughArrow ==
  /\ stage = "schema" /\ validSchema(sample[1])
  /\ answer' = schemaFromArrow(arrowSchema(sample[1]))
  /\ stage' = "arrow"
  /\ UNCHANGED <<sample, bytes, length>>

CodecNext ==
  EncodeSample \/ DecodeSample \/ SchemaToJSON \/ SchemaFromJSON \/ SchemaThroughArrow

CodecSpec == CodecInit /\ [][CodecNext]_codecVars

-----------------------------------------------------------------------------
(* What an encoding keeps of a value: a DATE its day, a TIME and a TIMESTAMP
   of precision up to 3 their milliseconds, a local-zone timestamp its
   instant, an indexed CHAR or BINARY its bytes up to the trailing zeros.  *)

RECURSIVE kept(_, _, _)
kept(t, value, enc) ==
  LET kind  == dataTypeForLogicalType(t)
      parts == timestampParts(kind, value.v)
      time(v) == [go |-> "time", v |-> v]
      entries == mapEntries(value)
  IN  IF isNil(value) THEN Nil
      ELSE CASE kind = "DATE" -> time(<<value.v[1], 0, 0, 0>>)
             [] kind = "TIME_WITHOUT_TIME_ZONE" -> time(<<0, value.v[2], 0, 0>>)
             [] kind \in Timestamps ->
                  time(<<parts[1] \div millisPerDay, parts[1] % millisPerDay,
                         IF t.precision > 3 THEN parts[2] ELSE 0, 0>>)
             [] kind \in {"CHAR", "BINARY"} /\ enc = "indexed" ->
                  [value EXCEPT !.v = trimZero(@)]
             [] kind = "ARRAY" ->
                  [value EXCEPT !.v = [i \in DOMAIN @ |-> kept(t.element[1], @[i], "slot")]]
             [] kind = "MAP" ->
                  [go |-> "map", v |-> [i \in DOMAIN entries |->
                     <<kept(t.key[1], entries[i][1], "slot"),
                       kept(t.value[1], entries[i][2], "slot")>>]]
             [] kind = "ROW" ->
                  [value EXCEPT !.v = [i \in DOMAIN @ |-> kept(t.fields[i].type, @[i], enc)]]
             [] OTHER -> value

\* Decoding an encoded row gives back every value, up to what its type keeps,
\* and no encoding is a prefix of another: a row that lost its last bytes or
\* gained one is refused (encodeRow, decodeRow and the value codecs).  Every
\* valid row has an encoding.
RowRoundTrip ==
  /\ stage = "row" => encodeRow(sample[1], sample[2], sample[3]) # <<>>
  /\ stage = "decoded" =>
       answer = IF length # Len(bytes) THEN <<>>
                ELSE <<[i \in DOMAIN sample[2] |->
                          kept(columnType(sample[1], i), sample[2][i], sample[3])]>>

RECURSIVE fieldIDs(_)
fieldIDs(t) ==
  FlattenSeq([i \in DOMAIN t.fields |-> <<t.fields[i].id>> \o fieldIDs(t.fields[i].type)])
  \o FlattenSeq([i \in 1 .. 3 |->
       LET p == <<t.element, t.key, t.value>>[i]
       IN  IF p = <<>> THEN <<>> ELSE fieldIDs(p[1])])
allIDs(s) ==
  FlattenSeq([i \in DOMAIN s.columns |->
                <<s.columns[i].id>> \o fieldIDs(logicalTypeForColumn(s.columns[i]))])

\* The field IDs that JSON gives the columns and nested fields of a new
\* schema are distinct, from 0 to the highest ID without a gap, so that
\* evolution can tell every field apart (Schema.JSON, assignLogicalFieldIDs);
\* and an Arrow schema read back has the same Arrow layout (SchemaFromArrow).
SchemasSurvive ==
  /\ stage = "parsed" =>
       /\ answer # <<>>
       /\ ToSet(allIDs(answer[1])) = 0 .. answer[1].highest
       /\ Len(allIDs(answer[1])) = answer[1].highest + 1
       /\ columnNames(answer[1]) = columnNames(sample[1])
  /\ stage = "arrow" => answer # <<>> /\ arrowSchema(answer[1]) = arrowSchema(sample[1])

\* model.go, on Column.ID: "ID is the stable Fluss field identifier": the
\* document of a schema is the same every time JSON renders it.
FieldIDsStable ==
  stage = "json" /\ answer # <<>> =>
    schemaJSON(answer[1].after)[1].json = answer[1].json
=============================================================================
