------------------------------ MODULE RowCodec -------------------------------
(***************************************************************************)
(* The binary encodings of rows, keys, values, arrays and maps, byte for   *)
(* byte (row_codec.go, row_value_codec.go, binary_array_codec.go).         *)
(*                                                                         *)
(* An integer value is the little-endian sequence of its two's-complement  *)
(* bytes, a float that of its IEEE bits, a string that of its characters.  *)
(* A time is <<day, milli, nano, zone>>: its wall clock (day since the     *)
(* epoch, millisecond of the day, nanosecond of the millisecond) and the   *)
(* milliseconds its zone is ahead of UTC.  A rational is <<num, den>> in   *)
(* lowest terms.  Positions in an encoding count from 0, as in the code.   *)
(***************************************************************************)
EXTENDS Schemas

CONSTANT maxRowBytes      \* 16 MiB in the code

ASSUME RowBytesAssumption == maxRowBytes \in Nat \ {0}

-----------------------------------------------------------------------------
(* Bytes, fixed-width numbers and varints                                  *)

zeros(n) == [i \in 1 .. n |-> 0]

\* The n low bytes of an integer, little-endian (appendLittle, PutUint32).
RECURSIVE little(_, _)
little(x, n) == IF n = 0 THEN <<>> ELSE <<x % 256>> \o little(x \div 256, n - 1)

\* The unsigned number of up to four bytes; what exceeds every length and
\* every count a buffer can have is Huge.
Huge == 2 ^ 30
unsigned(bytes) ==
  IF \E i \in DOMAIN bytes : i > 3 /\ bytes[i] # 0 THEN Huge
  ELSE LET at(i) == IF i \in DOMAIN bytes THEN bytes[i] ELSE 0
       IN  at(1) + 256 * at(2) + 65536 * at(3)

\* The signed number of a little-endian two's-complement sequence.
RECURSIVE signed(_)
signed(bytes) ==
  IF Len(bytes) = 1 THEN IF bytes[1] > 127 THEN bytes[1] - 256 ELSE bytes[1]
  ELSE bytes[1] + 256 * signed(Tail(bytes))

slice(encoded, position, length) == SubSeq(encoded, position + 1, position + length)
putBytes(encoded, position, bytes) ==
  [i \in DOMAIN encoded |->
     IF i - position \in DOMAIN bytes THEN bytes[i - position] ELSE encoded[i]]

\* A read: the value and the position after it, or failed.
failed == [ok |-> FALSE, value |-> <<>>, next |-> 0]
got(value, next) == [ok |-> TRUE, value |-> value, next |-> next]

readFixed(encoded, position, length) ==
  IF position > Len(encoded) \/ Len(encoded) - position < length THEN failed
  ELSE got(slice(encoded, position, length), position + length)

bit(bytes, k) ==
  IF k \div 8 >= Len(bytes) THEN 0 ELSE (bytes[k \div 8 + 1] \div 2 ^ (k % 8)) % 2
group(bytes, i) ==
  bit(bytes, 7*i) + 2*bit(bytes, 7*i+1) + 4*bit(bytes, 7*i+2) + 8*bit(bytes, 7*i+3)
  + 16*bit(bytes, 7*i+4) + 32*bit(bytes, 7*i+5) + 64*bit(bytes, 7*i+6)

\* appendVar32 and appendVar64: seven bits a byte, low bits first.
varint(bytes) ==
  LET used == {i \in 0 .. 9 : group(bytes, i) # 0} \cup {0}
      last == CHOOSE i \in used : \A j \in used : j <= i
  IN  [i \in 1 .. last + 1 |-> group(bytes, i - 1) + (IF i <= last THEN 128 ELSE 0)]

\* readVar: the eight bytes of the value; bits beyond 64 are shifted out.
readVar(encoded, position, maximum) ==
  LET ends == {i \in 0 .. maximum - 1 :
                 position + i < Len(encoded) /\ encoded[position + i + 1] < 128}
      last == CHOOSE i \in ends : \A j \in ends : i <= j
      vbit(k) == IF k \div 7 > last THEN 0
                 ELSE (encoded[position + k \div 7 + 1] \div 2 ^ (k % 7)) % 2
      byte(b) == vbit(8*b) + 2*vbit(8*b+1) + 4*vbit(8*b+2) + 8*vbit(8*b+3)
                 + 16*vbit(8*b+4) + 32*vbit(8*b+5) + 64*vbit(8*b+6) + 128*vbit(8*b+7)
  IN  IF ends = {} THEN failed
      ELSE got([b \in 1 .. 8 |-> byte(b - 1)], position + last + 1)

appendLengthBytes(value) ==
  IF Len(value) > maxRowBytes THEN <<>> ELSE <<varint(little(Len(value), 4)) \o value>>

readLengthBytes(encoded, position) ==
  LET content(size) == IF ~size.ok \/ unsigned(size.value) > maxRowBytes THEN failed
                       ELSE readFixed(encoded, size.next, unsigned(size.value))
  IN  content(readVar(encoded, position, 5))

-----------------------------------------------------------------------------
(* Decimals and times                                                      *)

RECURSIVE digits(_)
digits(n) == IF n < 10 THEN 1 ELSE 1 + digits(n \div 10)
magnitude(n) == IF n < 0 THEN -n ELSE n

decimalUnscaled(rat, t) ==
  LET scaled == rat[1] * 10 ^ t.scale
  IN  IF \/ t.precision < 1 \/ t.scale < 0
         \/ scaled % rat[2] # 0
         \/ digits(magnitude(scaled \div rat[2])) > t.precision
      THEN <<>> ELSE <<scaled \div rat[2]>>

RECURSIVE gcd(_, _)
gcd(a, b) == IF b = 0 THEN a ELSE gcd(b, a % b)
scaledRat(unscaled, scale) ==
  LET g == gcd(10 ^ scale, magnitude(unscaled))
  IN  [go |-> "rat", v |-> <<unscaled \div g, 10 ^ scale \div g>>]

RECURSIVE bitLen(_)
bitLen(n) == IF n = 0 THEN 0 ELSE 1 + bitLen(n \div 2)

signedBigEndian(n) ==
  LET bytes == (bitLen(magnitude(n)) + 7) \div 8
      width == (bitLen(magnitude(n)) + 8) \div 8
  IN  CASE n = 0 -> <<0>>
        [] n > 0 -> (IF Reverse(little(n, bytes))[1] > 127 THEN <<0>> ELSE <<>>)
                    \o Reverse(little(n, bytes))
        [] n < 0 -> Reverse(little(n, IF Reverse(little(n, width))[1] < 128
                                      THEN width + 1 ELSE width))

signedBigInt(bytes) == IF bytes = <<>> THEN 0 ELSE signed(Reverse(bytes))

millisPerDay == 86400000

\* A DATE keeps the day, a TIME the millisecond of the day.
temporalInt(kind, time) == IF kind = "DATE" THEN time[1] ELSE time[2]
temporalTime(kind, n) ==
  [go |-> "time", v |-> IF kind = "DATE" THEN <<n, 0, 0, 0>>
                        ELSE <<n \div millisPerDay, n % millisPerDay, 0, 0>>]

\* TIMESTAMP_LTZ keeps the instant, TIMESTAMP the wall clock.
timestampParts(kind, time) ==
  LET zone == IF kind = "TIMESTAMP_WITH_LOCAL_TIME_ZONE" THEN time[4] ELSE 0
  IN  <<time[1] * millisPerDay + time[2] - zone, time[3]>>

\* The quotient and remainder of Go round towards zero: the correction for
\* an instant before the epoch makes them the floor.
timestampTime(kind, millis, nanos) ==
  LET days   == IF millis >= 0 THEN millis \div millisPerDay
                ELSE -((-millis) \div millisPerDay)
      within == millis - days * millisPerDay
  IN  [go |-> "time",
       v  |-> IF kind = "TIMESTAMP_WITH_LOCAL_TIME_ZONE"
              THEN <<millis \div millisPerDay, millis % millisPerDay, nanos, 0>>
              ELSE IF within < 0 THEN <<days - 1, within + millisPerDay, nanos, 0>>
              ELSE <<days, within, nanos, 0>>]

-----------------------------------------------------------------------------
(* Values.  An encoding is <<bytes>>, or <<>> when the code returns an      *)
(* error; enc is "compacted" or "indexed".                                 *)

Timestamps == {"TIMESTAMP", "TIMESTAMP_WITH_LOCAL_TIME_ZONE"}
Temporals  == {"DATE", "TIME_WITHOUT_TIME_ZONE"}
ByteKinds  == {"STRING", "CHAR", "BYTES", "BINARY"}
NestedKinds == {"ARRAY", "MAP", "ROW"}

goType(kind) == IF kind = "MAP" THEN "map" ELSE CHOOSE g \in GoTypes[kind] : TRUE
Value(kind, v) == [go |-> goType(kind), v |-> v]

RECURSIVE encodeNested(_, _, _)
RECURSIVE decodeNested(_, _, _)

appendCompactedValue(t, value) ==
  LET kind == dataTypeForLogicalType(t)
      parts == timestampParts(kind, value.v)
      decimal(unscaled) ==
        IF unscaled = <<>> THEN <<>>
        ELSE IF t.precision <= 18 THEN <<varint(little(unscaled[1], 8))>>
        ELSE appendLengthBytes(signedBigEndian(unscaled[1]))
      nested(bytes) == IF bytes = <<>> THEN <<>> ELSE appendLengthBytes(bytes[1])
  IN  CASE kind \in {"BOOLEAN", "TINYINT", "SMALLINT", "FLOAT", "DOUBLE"} -> <<value.v>>
        [] kind \in {"INT", "BIGINT"} -> <<varint(value.v)>>
        [] kind \in ByteKinds -> appendLengthBytes(value.v)
        [] kind \in Temporals -> <<varint(little(temporalInt(kind, value.v), 4))>>
        [] kind \in Timestamps ->
             <<varint(little(parts[1], 8))
               \o (IF t.precision > 3 THEN varint(little(parts[2], 4)) ELSE <<>>)>>
        [] kind = "DECIMAL"     -> decimal(decimalUnscaled(value.v, t))
        [] kind \in NestedKinds -> nested(encodeNested(t, value, "compacted"))

\* The value read from the bytes of a fixed or variable field.
fromBytes(t, bytes) ==
  LET kind == dataTypeForLogicalType(t)
  IN  IF kind = "DECIMAL" THEN scaledRat(signed(bytes), t.scale)
      ELSE IF kind \in Temporals THEN temporalTime(kind, signed(bytes))
      ELSE Value(kind, bytes)

\* What is made of bytes that were read: a value, a big decimal, a nested value.
valueRead(t, read) == IF read.ok THEN got(fromBytes(t, read.value), read.next) ELSE failed
decimalRead(t, read) ==
  IF read.ok THEN got(scaledRat(signedBigInt(read.value), t.scale), read.next) ELSE failed
nestedRead(t, read, enc) ==
  LET content(nested) == IF nested = <<>> THEN failed ELSE got(nested[1], read.next)
  IN  IF read.ok THEN content(decodeNested(t, read.value, enc)) ELSE failed

compactedFixedWidth ==
  [BOOLEAN |-> 1, TINYINT |-> 1, SMALLINT |-> 2, FLOAT |-> 4, DOUBLE |-> 8]
varintBytes == [INT |-> 4, BIGINT |-> 8, DATE |-> 4, TIME_WITHOUT_TIME_ZONE |-> 4]

readCompactedTimestamp(encoded, position, t) ==
  LET time(millis, nanos) ==
        timestampTime(dataTypeForLogicalType(t), signed(millis.value), nanos)
      precise(millis, nanos) ==
        IF ~nanos.ok \/ unsigned(nanos.value) > 999999 THEN failed
        ELSE got(time(millis, unsigned(nanos.value)), nanos.next)
      after(millis) ==
        IF ~millis.ok THEN failed
        ELSE IF t.precision <= 3 THEN got(time(millis, 0), millis.next)
        ELSE precise(millis, readVar(encoded, millis.next, 5))
  IN  after(readVar(encoded, position, 10))

readCompactedDecimal(encoded, position, t) ==
  LET short(read) == IF ~read.ok THEN failed
                     ELSE got(scaledRat(signed(read.value), t.scale), read.next)
  IN  IF t.precision <= 18 THEN short(readVar(encoded, position, 10))
      ELSE decimalRead(t, readLengthBytes(encoded, position))

readCompactedFixed(encoded, position, t) ==
  LET kind == dataTypeForLogicalType(t)
      plain(read) == IF read.ok /\ kind = "BOOLEAN" /\ read.value[1] > 1 THEN failed
                     ELSE valueRead(t, read)
  IN  plain(readFixed(encoded, position, compactedFixedWidth[kind]))

readCompactedValue(encoded, position, t) ==
  LET kind == dataTypeForLogicalType(t)
      var(read) == IF ~read.ok THEN failed
                   ELSE got(fromBytes(t, SubSeq(read.value, 1, varintBytes[kind])), read.next)
  IN  CASE kind \in DOMAIN compactedFixedWidth -> readCompactedFixed(encoded, position, t)
        [] kind \in DOMAIN varintBytes ->
             var(readVar(encoded, position, IF varintBytes[kind] = 4 THEN 5 ELSE 10))
        [] kind \in ByteKinds   -> valueRead(t, readLengthBytes(encoded, position))
        [] kind \in Timestamps  -> readCompactedTimestamp(encoded, position, t)
        [] kind = "DECIMAL"     -> readCompactedDecimal(encoded, position, t)
        [] kind \in NestedKinds ->
             nestedRead(t, readLengthBytes(encoded, position), "compacted")

appendFixed(bytes, length) ==
  IF length < 1 \/ Len(bytes) > length THEN <<>>
  ELSE <<bytes \o zeros(length - Len(bytes))>>

appendIndexedValue(t, value) ==
  LET kind == dataTypeForLogicalType(t)
      parts == timestampParts(kind, value.v)
      decimal(unscaled) ==
        IF unscaled = <<>> THEN <<>>
        ELSE IF t.precision <= 18 THEN <<little(unscaled[1], 8)>>
        ELSE <<signedBigEndian(unscaled[1])>>
  IN  CASE kind \in {"INT", "BIGINT"} \cup DOMAIN compactedFixedWidth -> <<value.v>>
        [] kind \in Temporals -> <<little(temporalInt(kind, value.v), 4)>>
        [] kind \in Timestamps ->
             <<little(parts[1], 8)
               \o (IF t.precision > 3 THEN little(parts[2], 4) ELSE <<>>)>>
        [] kind \in ByteKinds ->
             IF kind \in {"CHAR", "BINARY"} /\ t.length # 0
             THEN appendFixed(value.v, t.length) ELSE <<value.v>>
        [] kind = "DECIMAL"     -> decimal(decimalUnscaled(value.v, t))
        [] kind \in NestedKinds -> encodeNested(t, value, "indexed")

indexedFixed(t) ==
  LET kind == dataTypeForLogicalType(t)
  IN  CASE kind \in {"CHAR", "BINARY"}            -> t.length > 0
        [] kind = "DECIMAL"                       -> t.precision \in 1 .. 18
        [] kind \in NestedKinds \cup {"STRING", "BYTES"} -> FALSE
        [] OTHER                                  -> TRUE

indexedLength(t) ==
  LET kind == dataTypeForLogicalType(t)
  IN  CASE kind \in {"BOOLEAN", "TINYINT"}        -> 1
        [] kind = "SMALLINT"                      -> 2
        [] kind \in {"INT", "FLOAT"} \cup Temporals -> 4
        [] kind \in {"BIGINT", "DOUBLE", "DECIMAL"} -> 8
        [] kind \in Timestamps -> IF t.precision > 3 THEN 12 ELSE 8
        [] kind \in {"CHAR", "BINARY"}            -> t.length

RECURSIVE trimZero(_)
trimZero(bytes) ==
  IF bytes # <<>> /\ bytes[Len(bytes)] = 0
  THEN trimZero(SubSeq(bytes, 1, Len(bytes) - 1)) ELSE bytes

readIndexedFixed(encoded, position, t) ==
  LET kind == dataTypeForLogicalType(t)
      timestamp(fixed, nanos) ==
        IF nanos > 999999 THEN failed
        ELSE got(timestampTime(kind, signed(SubSeq(fixed.value, 1, 8)), nanos), fixed.next)
      value(fixed) ==
        CASE ~fixed.ok -> failed
          [] fixed.ok /\ kind \in Timestamps ->
               timestamp(fixed, IF t.precision > 3 THEN signed(SubSeq(fixed.value, 9, 12))
                                ELSE 0)
          [] fixed.ok /\ kind \in {"CHAR", "BINARY"} ->
               got(Value(kind, trimZero(fixed.value)), fixed.next)
          [] OTHER -> valueRead(t, fixed)
  IN  IF kind \in DOMAIN compactedFixedWidth THEN readCompactedFixed(encoded, position, t)
      ELSE value(readFixed(encoded, position, indexedLength(t)))

readIndexedVariable(encoded, position, t, length) ==
  LET kind  == dataTypeForLogicalType(t)
      bytes == readFixed(encoded, position, length)
  IN  CASE kind = "DECIMAL"     -> decimalRead(t, bytes)
        [] kind \in NestedKinds -> nestedRead(t, bytes, "indexed")
        [] OTHER                -> valueRead(t, bytes)


-----------------------------------------------------------------------------
(* Arrays and maps                                                         *)

\* Mutant: rounded down.
align8Down(n) == (n \div 8) * 8

align8(n) == ((n + 7) \div 8) * 8

arraySlotSize(t) ==
  LET kind == dataTypeForLogicalType(t)
  IN  CASE kind \in {"BOOLEAN", "TINYINT"}          -> 1
        [] kind = "SMALLINT"                        -> 2
        [] kind \in {"INT", "FLOAT"} \cup Temporals -> 4
        [] OTHER                                    -> 8

offsetSize(offset, size) == little(size, 4) \o little(offset, 4)

appendArrayVariable(encoded, slot, bytes, reserved) ==
  IF reserved < Len(bytes) \/ reserved > maxRowBytes - Len(encoded) THEN <<>>
  ELSE <<putBytes(encoded \o bytes \o zeros(reserved - Len(bytes)), slot,
             offsetSize(Len(encoded), Len(bytes)))>>

\* Up to seven bytes live in the slot; bit 63 marks them.
appendPackedArrayBytes(encoded, slot, bytes) ==
  IF Len(bytes) <= 7
  THEN <<putBytes(encoded, slot, bytes \o zeros(7 - Len(bytes)) \o <<128 + Len(bytes)>>)>>
  ELSE appendArrayVariable(encoded, slot, bytes, align8(Len(bytes)))

writeArrayElement(encoded, slot, t, value, enc) ==
  LET kind     == dataTypeForLogicalType(t)
      parts    == timestampParts(kind, value.v)
      decimal(unscaled) ==
        IF unscaled = <<>> THEN <<>>
        ELSE IF t.precision <= 18 THEN <<putBytes(encoded, slot, little(unscaled[1], 8))>>
        ELSE appendArrayVariable(encoded, slot, signedBigEndian(unscaled[1]), 16)
      nested(bytes) ==
        IF bytes = <<>> THEN <<>>
        ELSE appendArrayVariable(encoded, slot, bytes[1], align8(Len(bytes[1])))
  IN  CASE kind \in DOMAIN compactedFixedWidth \cup {"INT", "BIGINT"} ->
             <<putBytes(encoded, slot, value.v)>>
        [] kind \in Temporals -> <<putBytes(encoded, slot, little(temporalInt(kind, value.v), 4))>>
        [] kind = "DECIMAL" -> decimal(decimalUnscaled(value.v, t))
        [] kind \in Timestamps ->
             IF t.precision <= 3 THEN <<putBytes(encoded, slot, little(parts[1], 8))>>
             ELSE <<putBytes(encoded \o little(parts[1], 8), slot,
                        offsetSize(Len(encoded), parts[2]))>>
        [] kind \in ByteKinds -> appendPackedArrayBytes(encoded, slot, value.v)
        [] kind \in NestedKinds -> nested(encodeNested(t, value, enc))

\* The bitmap byte b of a sequence of values: bit i of it says value 8b+i is nil.
nullByte(values, b) ==
  LET null(i) == IF 8*b + i + 1 \in DOMAIN values /\ isNil(values[8*b + i + 1])
                 THEN 2 ^ i ELSE 0
  IN  null(0) + null(1) + null(2) + null(3) + null(4) + null(5) + null(6) + null(7)
isNull(encoded, start, i) == bit(slice(encoded, start, Len(encoded) - start), i) = 1

arrayNullBytes(count) == ((count + 31) \div 32) * 4

RECURSIVE writeElements(_, _, _, _, _)
writeElements(encoded, t, values, i, enc) ==
  LET slot == 4 + arrayNullBytes(Len(values)) + arraySlotSize(t) * (i - 1)
      after(next) == IF next = <<>> THEN <<>>
                     ELSE IF Len(next[1]) > maxRowBytes THEN <<>>
                     ELSE writeElements(next[1], t, values, i + 1, enc)
  IN  IF i > Len(values) THEN <<encoded>>
      ELSE IF isNil(values[i])
      THEN IF t.nullable THEN writeElements(encoded, t, values, i + 1, enc) ELSE <<>>
      ELSE IF ~validLogicalValue(t, values[i]) THEN <<>>
      ELSE after(writeArrayElement(encoded, slot, t, values[i], enc))

encodeBinaryArray(t, values, enc) ==
  LET nullBytes == arrayNullBytes(Len(values))
      fixed     == align8(4 + nullBytes + arraySlotSize(t) * Len(values))
      header    == little(Len(values), 4)
                   \o [b \in 1 .. nullBytes |-> nullByte(values, b - 1)]
  IN  IF fixed > maxRowBytes THEN <<>>
      ELSE writeElements(header \o zeros(fixed - Len(header)), t, values, 1, enc)

arrayVariable(encoded, slot) ==
  readFixed(encoded, unsigned(slice(encoded, slot + 4, 4)), unsigned(slice(encoded, slot, 4)))

unpackedArrayBytes(encoded, slot) ==
  LET packed == slice(encoded, slot, 8)
  IN  IF packed[8] <= 127 THEN arrayVariable(encoded, slot)
      ELSE IF packed[8] - 128 > 7 THEN failed
      ELSE got(SubSeq(packed, 1, packed[8] - 128), 0)

readArrayTimestamp(encoded, slot, t) ==
  LET kind == dataTypeForLogicalType(t)
      precise(millis, nanos) ==
        IF ~millis.ok \/ nanos > 999999 THEN failed
        ELSE got(timestampTime(kind, signed(millis.value), nanos), 0)
  IN  IF t.precision <= 3
      THEN got(timestampTime(kind, signed(slice(encoded, slot, 8)), 0), 0)
      ELSE precise(readFixed(encoded, unsigned(slice(encoded, slot + 4, 4)), 8),
                   unsigned(slice(encoded, slot, 4)))

readArrayElement(encoded, slot, t, enc) ==
  LET kind == dataTypeForLogicalType(t)
      value(fixed) == IF kind = "BOOLEAN" /\ fixed[1] > 1 THEN failed
                      ELSE got(fromBytes(t, fixed), 0)
  IN  CASE kind \in Timestamps -> readArrayTimestamp(encoded, slot, t)
        [] kind = "DECIMAL" /\ t.precision > 18 ->
             decimalRead(t, arrayVariable(encoded, slot))
        [] kind \in ByteKinds   -> valueRead(t, unpackedArrayBytes(encoded, slot))
        [] kind \in NestedKinds -> nestedRead(t, arrayVariable(encoded, slot), enc)
        [] OTHER                -> value(slice(encoded, slot, arraySlotSize(t)))

decodeBinaryArray(t, encoded, enc) ==
  LET count    == unsigned(SubSeq(encoded, 1, 4))
      start    == 4 + arrayNullBytes(count)
      slot(i)  == start + arraySlotSize(t) * (i - 1)
      elements(reads) == IF \E i \in DOMAIN reads : ~reads[i].ok THEN <<>>
                         ELSE <<[i \in DOMAIN reads |-> reads[i].value]>>
  IN  IF \/ Len(encoded) < 4
         \/ Len(encoded) > maxRowBytes
         \/ count > maxRowBytes \div 8
         \/ align8(start + arraySlotSize(t) * count) > Len(encoded)
      THEN <<>>
      ELSE elements([i \in 1 .. count |->
                       IF isNull(encoded, 4, i - 1)
                       THEN IF t.nullable THEN got(Nil, 0) ELSE failed
                       ELSE readArrayElement(encoded, slot(i), t, enc)])

encodeBinaryMap(t, entries, enc) ==
  LET joined(keys, values) ==
        IF keys = <<>> \/ values = <<>> THEN <<>>
        ELSE <<little(Len(keys[1]), 4) \o keys[1] \o values[1]>>
  IN  joined(encodeBinaryArray(t.key[1], [i \in DOMAIN entries |-> entries[i][1]], enc),
             encodeBinaryArray(t.value[1], [i \in DOMAIN entries |-> entries[i][2]], enc))

decodeBinaryMap(t, encoded, enc) ==
  LET length == unsigned(SubSeq(encoded, 1, 4))
      paired(keys, values) ==
        IF keys = <<>> \/ values = <<>> THEN <<>>
        ELSE IF Len(keys[1]) # Len(values[1]) THEN <<>>
        ELSE <<[i \in DOMAIN keys[1] |-> <<keys[1][i], values[1][i]>>]>>
  IN  IF Len(encoded) < 4 \/ length > Len(encoded) - 4 THEN <<>>
      ELSE paired(decodeBinaryArray(t.key[1], slice(encoded, 4, length), enc),
                  decodeBinaryArray(t.value[1],
                    slice(encoded, 4 + length, Len(encoded) - 4 - length), enc))


-----------------------------------------------------------------------------
(* Rows and keys                                                           *)

columnType(s, i) == logicalTypeForColumn(s.columns[i])
nullBytes(s) == (Len(s.columns) + 7) \div 8
hasLength(s, i, enc) == enc = "indexed" /\ ~indexedFixed(columnType(s, i))

rowHeaderBytes(s, enc) ==
  nullBytes(s) + 4 * Cardinality({i \in DOMAIN s.columns : hasLength(s, i, enc)})

encodeRowValue(t, value, enc) ==
  IF enc = "compacted" THEN appendCompactedValue(t, value)
  ELSE appendIndexedValue(t, value)

encodeRow(s, row, enc) ==
  LET set   == SelectSeq([i \in DOMAIN row |-> i], LAMBDA i : ~isNil(row[i]))
      long  == SelectSeq([k \in DOMAIN set |-> k], LAMBDA k : hasLength(s, set[k], enc))
      joined(value, packed) ==
        packed \o zeros(rowHeaderBytes(s, enc) - Len(packed))
        \o FlattenSeq([k \in DOMAIN value |-> value[k][1]])
      header(value) ==
        [b \in 1 .. nullBytes(s) |-> nullByte(row, b - 1)]
        \o FlattenSeq([j \in DOMAIN long |-> little(Len(value[long[j]][1]), 4)])
      limited(bytes) == IF set # <<>> /\ Len(bytes) > maxRowBytes THEN <<>> ELSE <<bytes>>
      encoded(value) == IF \E k \in DOMAIN value : value[k] = <<>> THEN <<>>
                        ELSE limited(joined(value, header(value)))
  IN  IF ~validRow(s, row, <<>>) THEN <<>>
      ELSE encoded([k \in DOMAIN set |->
                      encodeRowValue(columnType(s, set[k]), row[set[k]], enc)])

\* The columns from the i-th on; lengths is where the next length is read.
RECURSIVE decodeColumns(_, _, _, _, _, _)
decodeColumns(s, encoded, enc, i, position, lengths) ==
  LET t    == columnType(s, i)
      prepend(value, tail) == IF tail = <<>> THEN <<>> ELSE << <<value>> \o tail[1] >>
      rest(value, next, after) ==
        prepend(value, decodeColumns(s, encoded, enc, i + 1, next, after))
      column(read) ==
        IF ~read.ok THEN <<>>
        ELSE rest(read.value, read.next, IF hasLength(s, i, enc) THEN lengths + 4 ELSE lengths)
  IN  IF i > Len(s.columns) THEN IF position = Len(encoded) THEN << <<>> >> ELSE <<>>
      ELSE IF isNull(encoded, 0, i - 1)
      THEN IF s.columns[i].nullable THEN rest(Nil, position, lengths) ELSE <<>>
      ELSE column(IF enc = "compacted" THEN readCompactedValue(encoded, position, t)
                  ELSE IF indexedFixed(t) THEN readIndexedFixed(encoded, position, t)
                  ELSE readIndexedVariable(encoded, position, t,
                                           unsigned(slice(encoded, lengths, 4))))

decodeRow(s, encoded, enc) ==
  IF \/ ~validSchema(s)
     \/ Len(encoded) > maxRowBytes
     \/ Len(encoded) < rowHeaderBytes(s, enc)
  THEN <<>>
  ELSE decodeColumns(s, encoded, enc, 1, rowHeaderBytes(s, enc), nullBytes(s))

encodeNested(t, value, enc) ==
  CASE t.root = "ARRAY" -> encodeBinaryArray(t.element[1], value.v, enc)
    [] t.root = "MAP"   -> encodeBinaryMap(t, mapEntries(value), enc)
    [] t.root = "ROW"   -> encodeRow(nestedSchema(t), value.v, enc)

decodeNested(t, bytes, enc) ==
  LET value(content) == IF content = <<>> THEN <<>> ELSE <<Value(t.root, content[1])>>
  IN  value(CASE t.root = "ARRAY" -> decodeBinaryArray(t.element[1], bytes, enc)
              [] t.root = "MAP"   -> decodeBinaryMap(t, bytes, enc)
              [] t.root = "ROW"   -> decodeRow(nestedSchema(t), bytes, enc))

\* encodeKeyColumns: no null bitmap, every value present.
encodeKeyColumns(s, names, values) ==
  LET limited(bytes) == IF Len(bytes) > maxRowBytes THEN <<>> ELSE <<bytes>>
      joined(part) == IF \E i \in DOMAIN part : part[i] = <<>> THEN <<>>
                      ELSE limited(FlattenSeq([i \in DOMAIN part |-> part[i][1]]))
  IN  IF \/ ~validRow(s, values, names)
         \/ \E i \in DOMAIN names : isNil(values[i])
      THEN <<>>
      ELSE joined([i \in DOMAIN names |->
                     appendCompactedValue(logicalTypeForColumn(columnNamed(s, names[i])),
                                          values[i])])

\* EncodePrimaryKey (EncodeLookupKey for the versions 0 and 1).
encodePrimaryKey(s, key) ==
  IF validRow(s, key, s.primaryKey) THEN encodeKeyColumns(s, s.primaryKey, key) ELSE <<>>

encodePrefixKey(s, prefix) ==
  IF Len(prefix) \in 1 .. Len(s.primaryKey)
  THEN encodeKeyColumns(s, SubSeq(s.primaryKey, 1, Len(prefix)), prefix)
  ELSE <<>>
=============================================================================
