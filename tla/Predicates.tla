----------------------------- MODULE Predicates ------------------------------
(***************************************************************************)
(* Server-side filters (pkg/fgo/predicate.go): a predicate over columns by   *)
(* name is compiled against a schema into a message over field IDs.          *)
(* A literal is a Go value as in Schemas, with integers as numbers and times *)
(* as <<days, milliseconds, nanoseconds, zone offset>>; compilation returns  *)
(* <<>> for an error and <<message>> otherwise.                             *)
(***************************************************************************)
EXTENDS Messages

R == INSTANCE RowCodec WITH maxRowBytes <- 1

leaf(function, column, literals) ==
  [compound |-> FALSE, function |-> function, column |-> column, literals |-> literals,
   children |-> <<>>]

combine(function, predicates) ==
  IF Len(predicates) = 1 THEN predicates[1]
  ELSE [compound |-> TRUE, function |-> function, column |-> "", literals |-> <<>>,
        children |-> predicates]

leafIsNull == 6
leafIsNotNull == 7
leafIn == 11
leafNotIn == 12
StringFunctions == 8 .. 10

\* The code of a type is its place in this list, counted from 0.
predicateLiteralType ==
  <<"BOOLEAN", "TINYINT", "SMALLINT", "INT", "BIGINT", "FLOAT", "DOUBLE", "CHAR", "STRING",
    "DECIMAL", "DATE", "TIME_WITHOUT_TIME_ZONE", "TIMESTAMP", "TIMESTAMP_WITH_LOCAL_TIME_ZONE",
    "BINARY", "BYTES">>

checkLeafShape(p, kind) ==
  CASE p.function \in {leafIsNull, leafIsNotNull} -> p.literals = <<>>
    [] p.function \in {leafIn, leafNotIn}         -> p.literals # <<>>
    [] OTHER -> /\ p.function \in StringFunctions => kind \in {"STRING", "CHAR"}
                /\ Len(p.literals) = 1 /\ ~R!isNil(p.literals[1])

GoIntegers == {"int", "int8", "int16", "int32", "int64", "uint", "uint8", "uint16", "uint32",
               "uint64"}

\* TLC's integers lie within an INT's range, so only the narrower types overflow.
integerLiteral(value, kind) ==
  IF \/ value.go \notin GoIntegers
     \/ kind = "TINYINT" /\ value.v \notin -128 .. 127
     \/ kind = "SMALLINT" /\ value.v \notin -32768 .. 32767
  THEN <<>> ELSE <<value.v>>

\* An integer becomes a FLOAT only within its 24 bits; a float64 becomes one
\* only if it is exact, which a value says of itself.
floatLiteral(value, kind) ==
  CASE value.go = "float32" -> <<value.v>>
    [] value.go = "float64" -> IF kind = "FLOAT" /\ ~value.exact THEN <<>> ELSE <<value.v>>
    [] OTHER -> IF \/ integerLiteral(value, "BIGINT") = <<>>
                   \/ kind = "FLOAT" /\ value.v \notin -(2 ^ 24) .. 2 ^ 24
                THEN <<>> ELSE <<value.v>>

literalField(values, field) == IF values = <<>> THEN <<>> ELSE <<field :> values[1]>>

encodeScalarLiteral(value, kind) ==
  CASE kind = "BOOLEAN" -> IF value.go = "bool" THEN <<"boolean_value" :> value.v>> ELSE <<>>
    [] kind \in {"TINYINT", "SMALLINT", "INT"} -> literalField(integerLiteral(value, kind), "int_value")
    [] kind = "BIGINT" -> literalField(integerLiteral(value, kind), "bigint_value")
    [] kind = "FLOAT"  -> literalField(floatLiteral(value, kind), "float_value")
    [] kind = "DOUBLE" -> literalField(floatLiteral(value, kind), "double_value")
    [] kind \in {"STRING", "CHAR"} -> IF value.go = "string" THEN <<"string_value" :> value.v>> ELSE <<>>
    [] kind \in {"BINARY", "BYTES"} ->
         \* append([]byte(nil), v...): nothing to copy leaves the field unset
         IF value.go = "bytes" THEN <<Repeated("binary_value", value.v)>> ELSE <<>>

encodeDecimalLiteral(value, t) ==
  LET rat == IF value.go = "rat" THEN value.v ELSE <<value.v, 1>>
      unscaled == R!decimalUnscaled(rat, t)
  IN IF (value.go # "rat" /\ integerLiteral(value, "BIGINT") = <<>>) \/ unscaled = <<>> THEN <<>>
     ELSE IF t.precision =< 18 THEN <<"decimal_value" :> unscaled[1]>>
     ELSE <<"decimal_bytes" :> R!signedBigEndian(unscaled[1])>>

\* The step, in nanoseconds, of what a column holds below a millisecond.
timestampGranularity(precision) == IF precision =< 3 THEN 1000000 ELSE 10 ^ (9 - precision)

encodeTemporalLiteral(value, kind, t) ==
  LET parts == R!timestampParts(kind, value.v)
  IN CASE value.go # "time" -> <<>>
       [] value.go = "time" /\ kind = "DATE" ->
            IF value.v[2] # 0 \/ value.v[3] # 0 THEN <<>>
            ELSE <<"bigint_value" :> R!temporalInt(kind, value.v)>>
       [] value.go = "time" /\ kind = "TIME_WITHOUT_TIME_ZONE" ->
            IF value.v[3] # 0 THEN <<>> ELSE <<"int_value" :> R!temporalInt(kind, value.v)>>
       [] value.go = "time" /\ kind \in R!Timestamps ->
            IF t.precision \notin 0 .. 9 \/ value.v[3] % timestampGranularity(t.precision) # 0 THEN <<>>
            ELSE <<[timestamp_millis_value |-> parts[1], timestamp_nano_of_millis_value |-> parts[2]]>>

encodeLiteral(value, kind, t) ==
  LET code == CHOOSE i \in DOMAIN predicateLiteralType : predicateLiteralType[i] = kind
      type == [literal_type |-> code - 1, is_null |-> R!isNil(value)]
      content == CASE kind = "DECIMAL" -> encodeDecimalLiteral(value, t)
                   [] kind = "DATE" \/ kind \in R!Temporals \/ kind \in R!Timestamps ->
                        encodeTemporalLiteral(value, kind, t)
                   [] OTHER -> encodeScalarLiteral(value, kind)
  IN IF R!isNil(value) THEN <<type>>
     ELSE IF content = <<>> THEN <<>> ELSE <<type @@ content[1]>>

\* A filter that names the place of the column instead of its field ID.
encodeLeafByPosition(p, schema) ==
  LET i == CHOOSE i \in DOMAIN schema.columns : schema.columns[i].name = p.column
      t == R!logicalTypeForColumn(schema.columns[i])
      literals == [n \in DOMAIN p.literals |->
                     encodeLiteral(p.literals[n], R!dataTypeForLogicalType(t), t)[1]]
  IN <<[type |-> 0, leaf |-> [function |-> p.function, field_id |-> i - 1]
                               @@ Repeated("literals", literals)]>>

encodeLeaf(p, schema) ==
  LET named == {i \in DOMAIN schema.columns : schema.columns[i].name = p.column}
      column == schema.columns[CHOOSE i \in named : \A j \in named : j =< i]
      shared == {i \in DOMAIN schema.columns : schema.columns[i].id = column.id}
      t == R!logicalTypeForColumn(column)
      kind == R!dataTypeForLogicalType(t)
      literals == [n \in DOMAIN p.literals |-> encodeLiteral(p.literals[n], kind, t)]
  IN IF \/ named = {}
        \/ column.id < 0 \/ Cardinality(shared) # 1
        \/ kind \notin {predicateLiteralType[n] : n \in DOMAIN predicateLiteralType}
        \/ ~checkLeafShape(p, kind)
        \/ \E n \in DOMAIN literals : literals[n] = <<>>
     THEN <<>>
     ELSE <<[type |-> 0,
             leaf |-> [function |-> p.function, field_id |-> column.id]
                        @@ Repeated("literals", [n \in DOMAIN literals |-> literals[n][1]])]>>

RECURSIVE compilePredicate(_, _)
compilePredicate(p, schema) ==
  LET children == [n \in DOMAIN p.children |-> compilePredicate(p.children[n], schema)]
  IN IF ~p.compound THEN encodeLeaf(p, schema)
     ELSE IF children = <<>> \/ \E n \in DOMAIN children : children[n] = <<>> THEN <<>>
     ELSE <<[type |-> 1, compound |-> [function |-> p.function,
                                       children |-> [n \in DOMAIN children |-> children[n][1]]]]>>

\* Fluss filters the batches of an Arrow log only.
validateFilterLogFormat(format) == format \in {"", "ARROW", "arrow"}
=============================================================================
