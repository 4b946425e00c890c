------------------------------- MODULE Schemas -------------------------------
(***************************************************************************)
(* The data model: logical types, schemas, the validation of rows, the     *)
(* schema JSON with its field IDs, projection, the evolution of a row from *)
(* its writer's schema to the reader's, and the Arrow field layout.        *)
(* (model.go, logical_type.go, records.go, schema_resolver.go, arrow.go.)  *)
(*                                                                         *)
(* A pointer is a sequence of length 0 (nil) or 1.  A Go value is a record *)
(* [go |-> its dynamic type, v |-> its content]; Nil is the nil interface. *)
(* A function that may fail returns <<>> for the error and <<result>>      *)
(* otherwise: no caller tells the errors of one function apart.            *)
(***************************************************************************)
EXTENDS Integers, Sequences, FiniteSets, SequencesExt

Nil == [go |-> "nil", v |-> <<>>]
isNil(value) == value.go = "nil"

-----------------------------------------------------------------------------
(* Types and columns                                                       *)

LogicalType(root) ==
  [root |-> root, nullable |-> FALSE, length |-> 0, precision |-> 0,
   scale |-> 0, element |-> <<>>, key |-> <<>>, value |-> <<>>,
   fields |-> <<>>]

dataTypeForLogicalType(t) ==
  CASE t.root = "INTEGER"                     -> "INT"
    [] t.root = "TIMESTAMP_WITHOUT_TIME_ZONE" -> "TIMESTAMP"
    [] OTHER                                  -> t.root

logicalRoot(kind) ==
  CASE kind = "INT"       -> "INTEGER"
    [] kind = "TIMESTAMP" -> "TIMESTAMP_WITHOUT_TIME_ZONE"
    [] OTHER              -> kind

logicalTypeForColumn(c) ==
  IF c.logical # <<>> THEN c.logical[1]
  ELSE [LogicalType(logicalRoot(c.kind)) EXCEPT !.nullable = c.nullable]

PlainRoots == {"BOOLEAN", "TINYINT", "SMALLINT", "INTEGER", "BIGINT", "FLOAT",
               "DOUBLE", "DATE", "STRING", "BYTES"}
TemporalRoots == {"TIME_WITHOUT_TIME_ZONE", "TIMESTAMP_WITHOUT_TIME_ZONE",
                  "TIMESTAMP_WITH_LOCAL_TIME_ZONE"}

\* LogicalType.Validate.
RECURSIVE validType(_)
validType(t) ==
  CASE t.root \in PlainRoots         -> TRUE
    [] t.root \in {"CHAR", "BINARY"} -> t.length >= 1
    [] t.root = "DECIMAL"            -> /\ t.precision \in 1 .. 38
                                        /\ t.scale \in 0 .. t.precision
    [] t.root \in TemporalRoots      -> t.precision \in 0 .. 9
    [] t.root = "ARRAY"              -> t.element # <<>> /\ validType(t.element[1])
    [] t.root = "MAP"                -> /\ t.key # <<>> /\ t.value # <<>>
                                        /\ validType(t.key[1])
                                        /\ validType(t.value[1])
    [] t.root = "ROW"                -> /\ t.fields # <<>>
                                        /\ \A f \in ToSet(t.fields) :
                                             f.name # "" /\ validType(f.type)
    [] OTHER                         -> FALSE

\* The Go types a column of the kind accepts (validUntypedValue, which also
\* lists the kinds DataType.Validate knows).
GoTypes ==
  [BOOLEAN |-> {"bool"}, INT |-> {"int32"}, TINYINT |-> {"int8"},
   SMALLINT |-> {"int16"}, BIGINT |-> {"int64"}, FLOAT |-> {"float32"},
   DOUBLE |-> {"float64"}, STRING |-> {"string"}, CHAR |-> {"string"},
   BINARY |-> {"bytes"}, BYTES |-> {"bytes"}, DECIMAL |-> {"rat"},
   DATE |-> {"time"}, TIME_WITHOUT_TIME_ZONE |-> {"time"},
   TIMESTAMP |-> {"time"}, TIMESTAMP_WITH_LOCAL_TIME_ZONE |-> {"time"},
   ARRAY |-> {"array"}, MAP |-> {"map", "gomap"}, ROW |-> {"row"}]

validateColumns(s) ==
  /\ \A i, j \in DOMAIN s.columns :
       s.columns[i].name = s.columns[j].name => i = j
  /\ \A c \in ToSet(s.columns) :
       /\ c.name \notin {"", " padded"}
       /\ IF c.logical # <<>> THEN validType(c.logical[1])
          ELSE c.kind \in DOMAIN GoTypes

columnNames(s) == {c.name : c \in ToSet(s.columns)}

\* Schema.Validate.
validSchema(s) ==
  /\ s.columns # <<>>
  /\ validateColumns(s)
  /\ \A keys \in {s.primaryKey, s.bucketKey, s.partitionKey} :
       ToSet(keys) \subseteq columnNames(s)

\* A schema of plain columns.
Schema(columns) ==
  [columns |-> columns, primaryKey |-> <<>>, bucketKey |-> <<>>,
   partitionKey |-> <<>>, autoIncrement |-> <<>>, highest |-> 0]

columnNamed(s, name) == CHOOSE c \in ToSet(s.columns) : c.name = name

-----------------------------------------------------------------------------
(* Rows                                                                    *)

\* Byte order of the keys of a map[string]any (slices.Sort).
RECURSIVE bytesBefore(_, _)
bytesBefore(a, b) ==
  \/ a = <<>> /\ b # <<>>
  \/ /\ a # <<>> /\ b # <<>>
     /\ a[1] < b[1] \/ (a[1] = b[1] /\ bytesBefore(Tail(a), Tail(b)))

\* The content of a "map" is its entries <<key, value>> in order, of a
\* "gomap" the set of its entries.
mapEntries(value) ==
  IF value.go = "map" THEN value.v
  ELSE SetToSortSeq(value.v, LAMBDA a, b : bytesBefore(a[1].v, b[1].v))

RECURSIVE validLogicalValue(_, _)
validLogicalValue(t, value) ==
  LET kind == dataTypeForLogicalType(t)
  IN  IF value.go = "nil" THEN t.nullable
      ELSE /\ value.go \in GoTypes[kind]
           /\ CASE kind = "ARRAY" ->
                     \A e \in ToSet(value.v) : validLogicalValue(t.element[1], e)
                [] kind = "MAP" ->
                     \A e \in ToSet(mapEntries(value)) :
                       /\ validLogicalValue(t.key[1], e[1])
                       /\ validLogicalValue(t.value[1], e[2])
                [] kind = "ROW" ->
                     /\ Len(value.v) = Len(t.fields)
                     /\ \A i \in DOMAIN t.fields :
                          validLogicalValue(t.fields[i].type, value.v[i])
                [] OTHER -> TRUE

validateColumnValue(c, value) ==
  IF value.go = "nil" THEN c.nullable
  ELSE IF c.logical = <<>> THEN value.go \in GoTypes[c.kind]
  ELSE validLogicalValue(c.logical[1], value)

selectedColumns(s, names) ==
  IF names # <<>> THEN names ELSE [i \in DOMAIN s.columns |-> s.columns[i].name]

\* Schema.ValidateRow.
validRow(s, row, names) ==
  LET selected == selectedColumns(s, names)
  IN  /\ validSchema(s)
      /\ Len(row) = Len(selected)
      /\ \A i \in DOMAIN selected :
           /\ selected[i] \in columnNames(s)
           /\ validateColumnValue(columnNamed(s, selected[i]), row[i])

\* RowFromNamed; a named row is a function from column names to values.
rowFromNamed(s, named) ==
  LET row == [i \in DOMAIN s.columns |-> named[s.columns[i].name]]
  IN  IF /\ validSchema(s)
         /\ Cardinality(DOMAIN named) = Len(s.columns)
         /\ columnNames(s) \subseteq DOMAIN named
         /\ validRow(s, row, <<>>)
      THEN <<row>> ELSE <<>>

\* The schema of the named columns, in the given order.
projectSchema(s, names) ==
  IF /\ validSchema(s)
     /\ names # <<>>
     /\ ToSet(names) \subseteq columnNames(s)
     /\ Cardinality(ToSet(names)) = Len(names)
  THEN <<Schema([i \in DOMAIN names |-> columnNamed(s, names[i])])>>
  ELSE <<>>

\* The schema of the fields of a ROW value.
nestedSchema(t) ==
  Schema([i \in DOMAIN t.fields |->
            [name |-> t.fields[i].name,
             kind |-> dataTypeForLogicalType(t.fields[i].type),
             nullable |-> t.fields[i].type.nullable,
             logical |-> <<t.fields[i].type>>, id |-> t.fields[i].id]])

-----------------------------------------------------------------------------
(* The schema JSON and its field IDs                                       *)

RECURSIVE logicalFieldIDsAreZero(_)
logicalFieldIDsAreZero(t) ==
  /\ \A f \in ToSet(t.fields) : f.id = 0 /\ logicalFieldIDsAreZero(f.type)
  /\ \A p \in {t.element, t.key, t.value} :
       p # <<>> => logicalFieldIDsAreZero(p[1])

hasUnassignedFieldIDs(s) ==
  /\ s.highest = 0
  /\ \A c \in ToSet(s.columns) :
       c.id = 0 /\ logicalFieldIDsAreZero(logicalTypeForColumn(c))

\* assignLogicalFieldIDs: depth first, fields before element, key and value.
\* The result is the type with its IDs and the next free ID.
RECURSIVE assignLogicalFieldIDs(_, _)
RECURSIVE assignFields(_, _)
RECURSIVE assignPointer(_, _)
assignLogicalFieldIDs(t, next) ==
  LET fields  == assignFields(t.fields, next)
      element == assignPointer(t.element, fields.next)
      key     == assignPointer(t.key, element.next)
      value   == assignPointer(t.value, key.next)
  IN  [type |-> [t EXCEPT !.fields = fields.type, !.element = element.type,
                          !.key = key.type, !.value = value.type],
       next |-> value.next]
assignFields(fields, next) ==
  IF fields = <<>> THEN [type |-> <<>>, next |-> next]
  ELSE LET head == assignLogicalFieldIDs(fields[1].type, next + 1)
           tail == assignFields(Tail(fields), head.next)
       IN  [type |-> <<[fields[1] EXCEPT !.id = next, !.type = head.type]>>
                       \o tail.type,
            next |-> tail.next]
\* Mutant: what comes after the element, key or value starts again from its IDs.
assignPointerAgain(p, next) ==
  [type |-> IF p = <<>> THEN p ELSE <<assignLogicalFieldIDs(p[1], next).type>>, next |-> next]

assignPointer(p, next) ==
  IF p = <<>> THEN [type |-> p, next |-> next]
  ELSE LET target == assignLogicalFieldIDs(p[1], next)
       IN  [type |-> <<target.type>>, next |-> target.next]

\* The columns of the JSON when IDs are assigned, from the i-th on.
RECURSIVE assignColumns(_, _)
assignColumns(columns, next) ==
  IF columns = <<>> THEN [columns |-> <<>>, next |-> next]
  ELSE LET head == assignLogicalFieldIDs(logicalTypeForColumn(columns[1]), next + 1)
           tail == assignColumns(Tail(columns), head.next)
       IN  [columns |-> <<[name |-> columns[1].name, type |-> head.type,
                           id |-> next]>> \o tail.columns,
            next |-> tail.next]

\* The type the caller's column holds once JSON returned: the copy that JSON
\* numbers shares its fields and its pointers with the caller's type.
sharedType(c, type) == IF c.logical = <<>> THEN c ELSE [c EXCEPT !.logical = <<type>>]

\* Schema.JSON: the document, and the caller's schema afterwards.
schemaJSON(s) ==
  LET assigned == assignColumns(s.columns, 0)
      given    == [i \in DOMAIN s.columns |->
                     [name |-> s.columns[i].name, id |-> s.columns[i].id,
                      type |-> logicalTypeForColumn(s.columns[i])]]
  IN  IF ~validSchema(s) THEN <<>>
      ELSE IF hasUnassignedFieldIDs(s)
      THEN <<[json |-> [columns |-> assigned.columns, primaryKey |-> s.primaryKey,
                        autoIncrement |-> s.autoIncrement, highest |-> assigned.next - 1],
              after |-> [s EXCEPT !.columns =
                           [i \in DOMAIN s.columns |->
                              sharedType(s.columns[i], assigned.columns[i].type)]]]>>
      ELSE <<[json |-> [columns |-> given, primaryKey |-> s.primaryKey,
                        autoIncrement |-> s.autoIncrement, highest |-> s.highest],
              after |-> s]>>

parseSchemaJSON(json) ==
  LET columns == [i \in DOMAIN json.columns |->
                    [name |-> json.columns[i].name,
                     kind |-> dataTypeForLogicalType(json.columns[i].type),
                     nullable |-> json.columns[i].type.nullable,
                     logical |-> <<json.columns[i].type>>,
                     id |-> json.columns[i].id]]
      s == [Schema(columns) EXCEPT !.primaryKey = json.primaryKey,
                                   !.autoIncrement = json.autoIncrement,
                                   !.highest = json.highest]
  IN  IF validSchema(s) THEN <<s>> ELSE <<>>

-----------------------------------------------------------------------------
(* Evolution: from the writer's schema to the reader's                     *)

compatibleColumnType(source, target) ==
  LET bare(c) == [logicalTypeForColumn(c) EXCEPT !.nullable = FALSE]
  IN  bare(source) = bare(target)

\* Mutant: by name, whatever the field IDs.
sourceOfName(source, target, c) ==
  LET same == {i \in DOMAIN source.columns : source.columns[i].name = c.name}
  IN  IF same = {} THEN 0 ELSE CHOOSE i \in same : TRUE

\* The position of the last source column with the target column's identity.
sourceOf(source, target, c) ==
  LET stableIDs == ~hasUnassignedFieldIDs(source) /\ ~hasUnassignedFieldIDs(target)
      same      == {i \in DOMAIN source.columns :
                      IF stableIDs THEN source.columns[i].id = c.id
                      ELSE source.columns[i].name = c.name}
  IN  IF same = {} THEN 0 ELSE CHOOSE i \in same : \A j \in same : j <= i

\* Position 0 stands for a column the writer did not have.
schemaColumnMapping(source, target) ==
  LET compatible(mapping) ==
        IF \A i \in DOMAIN mapping :
             IF mapping[i] = 0 THEN target.columns[i].nullable
             ELSE compatibleColumnType(source.columns[mapping[i]], target.columns[i])
        THEN <<mapping>> ELSE <<>>
  IN  compatible([i \in DOMAIN target.columns |->
                    sourceOf(source, target, target.columns[i])])

evolveRow(source, target, row) ==
  LET moved(found) ==
        [i \in DOMAIN found |-> IF found[i] = 0 THEN Nil ELSE row[found[i]]]
      checked(found, values) ==
        IF \A i \in DOMAIN found :
             (found[i] # 0 /\ isNil(values[i])) => target.columns[i].nullable
        THEN <<values>> ELSE <<>>
      evolved(found) == IF found = <<>> THEN <<>> ELSE checked(found[1], moved(found[1]))
  IN  IF Len(row) # Len(source.columns) THEN <<>>
      ELSE evolved(schemaColumnMapping(source, target))

\* evolveArrowBatch on the rows of a batch: columns are moved whole, no value
\* is looked at.
evolveArrowBatch(source, target, rows) ==
  LET moved(found) == [r \in DOMAIN rows |->
                         [i \in DOMAIN found |->
                            IF found[i] = 0 THEN Nil ELSE rows[r][found[i]]]]
      evolved(found) == IF found = <<>> THEN <<>> ELSE <<moved(found[1])>>
  IN  evolved(schemaColumnMapping(source, target))

\* projectScanRows and projectRows; positions count from 1 here.
projectRow(positions, row) ==
  IF positions = <<>> THEN row ELSE [i \in DOMAIN positions |-> row[positions[i]]]

-----------------------------------------------------------------------------
(* The Arrow field layout                                                  *)

arrowPrimitiveTypes ==
  [BOOLEAN |-> "bool", TINYINT |-> "int8", SMALLINT |-> "int16", INT |-> "int32",
   BIGINT |-> "int64", FLOAT |-> "float32", DOUBLE |-> "float64",
   CHAR |-> "utf8", STRING |-> "utf8", BYTES |-> "binary", DATE |-> "date32"]

arrowUnit(precision) ==
  CASE precision = 0       -> 0
    [] precision \in 1 .. 3 -> 3
    [] precision \in 4 .. 6 -> 6
    [] precision > 6       -> 9

\* An Arrow type: its name, a parameter (width, decimal precision and scale,
\* or the digits of its time unit) and the fields below it.
ArrowType(name, parameter, children) ==
  [arrow |-> name, parameter |-> parameter, children |-> children]

RECURSIVE arrowField(_, _)
arrowType(t) ==
  LET kind == dataTypeForLogicalType(t)
  IN  CASE kind \in DOMAIN arrowPrimitiveTypes ->
             ArrowType(arrowPrimitiveTypes[kind], <<>>, <<>>)
        [] kind = "BINARY"  -> ArrowType("fixed_size_binary", <<t.length>>, <<>>)
        [] kind = "DECIMAL" -> ArrowType("decimal128", <<t.precision, t.scale>>, <<>>)
        [] kind = "TIME_WITHOUT_TIME_ZONE" ->
             ArrowType(IF t.precision <= 3 THEN "time32" ELSE "time64",
                       <<arrowUnit(t.precision)>>, <<>>)
        [] kind \in {"TIMESTAMP", "TIMESTAMP_WITH_LOCAL_TIME_ZONE"} ->
             ArrowType("timestamp", <<arrowUnit(t.precision)>>, <<>>)
        [] kind = "ARRAY" ->
             ArrowType("list", <<>>, <<arrowField("element", t.element[1])>>)
        [] kind = "MAP" ->
             ArrowType("map", <<>>,
                       <<[arrowField("key", t.key[1]) EXCEPT !.nullable = FALSE],
                         arrowField("value", t.value[1])>>)
        [] kind = "ROW" ->
             ArrowType("struct", <<>>,
                       [i \in DOMAIN t.fields |->
                          arrowField(t.fields[i].name, t.fields[i].type)])
arrowField(name, t) == [name |-> name, type |-> arrowType(t), nullable |-> t.nullable]

\* Schema.ArrowSchema of a valid schema.
arrowSchema(s) ==
  [i \in DOMAIN s.columns |->
     arrowField(s.columns[i].name, logicalTypeForColumn(s.columns[i]))]

primitiveLogicalRoot ==
  [bool |-> "BOOLEAN", int8 |-> "TINYINT", int16 |-> "SMALLINT",
   int32 |-> "INTEGER", int64 |-> "BIGINT", float32 |-> "FLOAT",
   float64 |-> "DOUBLE", utf8 |-> "STRING", binary |-> "BYTES",
   date32 |-> "DATE"]

RECURSIVE logicalTypeFromArrow(_)
logicalTypeFromArrow(field) ==
  LET a       == field.type
      of(root) == [LogicalType(root) EXCEPT !.nullable = field.nullable]
      below   == [i \in DOMAIN a.children |-> logicalTypeFromArrow(a.children[i])]
  IN  CASE a.arrow \in DOMAIN primitiveLogicalRoot -> of(primitiveLogicalRoot[a.arrow])
        [] a.arrow = "fixed_size_binary" ->
             [of("BINARY") EXCEPT !.length = a.parameter[1]]
        [] a.arrow = "decimal128" ->
             [of("DECIMAL") EXCEPT !.precision = a.parameter[1], !.scale = a.parameter[2]]
        [] a.arrow \in {"time32", "time64"} ->
             [of("TIME_WITHOUT_TIME_ZONE") EXCEPT !.precision = a.parameter[1]]
        [] a.arrow = "timestamp" ->
             [of("TIMESTAMP_WITHOUT_TIME_ZONE") EXCEPT !.precision = a.parameter[1]]
        [] a.arrow = "list" -> [of("ARRAY") EXCEPT !.element = <<below[1]>>]
        [] a.arrow = "map" ->
             [of("MAP") EXCEPT !.key = <<[below[1] EXCEPT !.nullable = FALSE]>>,
                               !.value = <<below[2]>>]
        [] a.arrow = "struct" ->
             [of("ROW") EXCEPT !.fields =
                [i \in DOMAIN below |->
                   [name |-> a.children[i].name, type |-> below[i], id |-> 0]]]

schemaFromArrow(fields) ==
  LET s == Schema([i \in DOMAIN fields |->
                     LET t == logicalTypeFromArrow(fields[i])
                     IN  [name |-> fields[i].name,
                          kind |-> dataTypeForLogicalType(t),
                          nullable |-> fields[i].nullable,
                          logical |-> <<t>>, id |-> 0]])
  IN  IF validSchema(s) THEN <<s>> ELSE <<>>
=============================================================================
