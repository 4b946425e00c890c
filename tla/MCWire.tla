------------------------------- MODULE MCWire --------------------------------
(***************************************************************************)
(* The remote operations, the records of a table and the codecs, which      *)
(* share no state: one of them is in use, the others rest in an initial     *)
(* state.                                                                   *)
(***************************************************************************)
EXTENDS MCRemoteCalls, MCTableData, Codecs

-----------------------------------------------------------------------------
(* The codecs: every data type with the values at its edges, alone, beside
   another column, null, and inside arrays, maps and rows. *)

nullable(t) == [t EXCEPT !.nullable = TRUE]
sized(root, n) == [LogicalType(root) EXCEPT !.length = n]
precise(root, p, s) == [LogicalType(root) EXCEPT !.precision = p, !.scale = s]
arrayOf(t) == [LogicalType("ARRAY") EXCEPT !.element = <<t>>]
mapType(k, t) == [LogicalType("MAP") EXCEPT !.key = <<k>>, !.value = <<t>>]
rowOf(types) ==
  [LogicalType("ROW") EXCEPT !.fields =
     [i \in DOMAIN types |-> [name |-> <<"f", "g">>[i], type |-> types[i], id |-> 0]]]

values(kind, contents) == {Value(kind, v) : v \in contents}
time(v) == [go |-> "time", v |-> v]
rat(n, d) == [go |-> "rat", v |-> <<n, d>>]
Times == {time(<<-1, 86399999, 999999, 0>>), time(<<1, 3600000, 5000, 7200000>>)}
Long == <<104, 0, 105, 106, 107, 108, 109, 110, 111>>

Scalars ==
  {<<LogicalType("BOOLEAN"), v>> : v \in values("BOOLEAN", {<<0>>, <<1>>})}
  \cup {<<LogicalType("TINYINT"), v>> : v \in values("TINYINT", {<<128>>})}
  \cup {<<LogicalType("SMALLINT"), v>> : v \in values("SMALLINT", {<<0, 255>>})}
  \cup {<<LogicalType("INTEGER"), v>> :
          v \in values("INT", {<<127, 0, 0, 0>>, <<128, 0, 0, 0>>, <<0, 0, 0, 128>>})}
  \cup {<<LogicalType("BIGINT"), v>> :
          v \in values("BIGINT", {little(300, 8), <<0, 0, 0, 0, 0, 0, 0, 128>>})}
  \cup {<<LogicalType("FLOAT"), v>> : v \in values("FLOAT", {<<0, 0, 192, 127>>})}
  \cup {<<LogicalType("DOUBLE"), v>> : v \in values("DOUBLE", {<<1, 0, 0, 0, 0, 0, 0, 128>>})}
  \cup {<<LogicalType("STRING"), v>> : v \in values("STRING", {<<>>, <<97, 0>>, Long})}
  \cup {<<LogicalType("BYTES"), v>> : v \in values("BYTES", {<<>>, Long})}
  \cup {<<sized("CHAR", 3), v>> : v \in values("CHAR", {<<97>>, <<97, 98, 99>>})}
  \cup {<<sized("BINARY", 2), v>> : v \in values("BINARY", {<<0, 1>>, <<1, 0>>})}
  \cup {<<precise("DECIMAL", 5, 2), v>> : v \in {rat(-5, 4), rat(0, 1), rat(99999, 100)}}
  \cup {<<precise("DECIMAL", 20, 1), v>> : v \in {rat(-64, 5), rat(128, 5), rat(0, 1), rat(-1, 10)}}
  \cup {<<LogicalType("DATE"), v>> : v \in Times}
  \cup {<<precise("TIME_WITHOUT_TIME_ZONE", 3, 0), v>> : v \in Times}
  \cup {<<precise(root, p, 0), v>> : root \in TemporalRoots \ {"TIME_WITHOUT_TIME_ZONE"},
                                     p \in {3, 6}, v \in Times}

Nested ==
  {<<arrayOf(nullable(p[1])), Value("ARRAY", <<p[2], Nil, p[2]>>)>> : p \in Scalars}
  \cup {<<arrayOf(p[1]), Value("ARRAY", <<>>)>> : p \in Scalars}
  \cup {<<mapType(LogicalType("STRING"), nullable(p[1])),
          Value("MAP", << <<Value("STRING", <<97>>), p[2]>>, <<Value("STRING", Long), Nil>> >>)>> :
          p \in Scalars}
  \cup {<<mapType(LogicalType("STRING"), LogicalType("TINYINT")),
          [go |-> "gomap", v |-> {<<Value("STRING", k), Value("TINYINT", <<1>>)>> :
                                    k \in {<<98>>, <<97, 98>>, <<97>>}}]>>}
  \cup {<<rowOf(<<nullable(LogicalType("STRING")), p[1]>>), Value("ROW", <<Nil, p[2]>>)>> :
          p \in Scalars}
  \cup {<<arrayOf(arrayOf(LogicalType("SMALLINT"))),
          Value("ARRAY", <<Value("ARRAY", <<Value("SMALLINT", <<1, 2>>)>>), Value("ARRAY", <<>>)>>)>>}

typed(name, t) ==
  [name |-> name, kind |-> dataTypeForLogicalType(t), nullable |-> t.nullable,
   logical |-> <<t>>, id |-> 0]
plainString(name) == typed(name, nullable(LogicalType("STRING")))

\* The column alone; after a null and a set variable column; last of nine.
SchemasOf(p) ==
  {<<Schema(<<typed("c", p[1])>>), <<p[2]>>>>,
   <<Schema(<<plainString("a"), typed("c", p[1]), plainString("b")>>), <<Nil, p[2], Value("STRING", <<97>>)>>>>}
Wide(p) ==
  <<Schema([i \in 1 .. 8 |-> plainString(<<"a", "b", "d", "e", "f", "g", "h", "i">>[i])]
           \o <<typed("c", p[1])>>),
    [i \in 1 .. 9 |-> IF i = 9 THEN p[2] ELSE IF i = 8 THEN Nil ELSE Value("STRING", <<i>>)]>>

AllSamples ==
  {<<sr[1], sr[2], enc>> : sr \in UNION {SchemasOf(p) : p \in Scalars \cup Nested}
                                  \cup {Wide(p) : p \in {q \in Scalars : q[1].root = "INTEGER"}},
                           enc \in {"compacted", "indexed"}}

AllSchemas ==
  {Schema(<<typed("c", p[1]), plainString("a"), typed("d", q)>>) :
     p \in Scalars \cup Nested,
     q \in {LogicalType("DATE"), rowOf(<<rowOf(<<LogicalType("INTEGER")>>), LogicalType("BYTES")>>),
            mapType(LogicalType("STRING"), rowOf(<<LogicalType("INTEGER"), arrayOf(rowOf(<<LogicalType("BYTES")>>))>>))}}

-----------------------------------------------------------------------------
(* One part at a time. *)

VARIABLE which    \* the part that is in use

wireVars == <<which, remoteVars, dataVars, codecVars>>

CallsRest ==
  /\ area = CHOOSE x \in DOMAIN Calls : TRUE
  /\ cluster = CHOOSE x \in Clusters[area] : TRUE
  /\ offered = CHOOSE x \in Offers : TRUE
  /\ auth = [used |-> FALSE, complete |-> FALSE]
  /\ RemoteInit
DataRest == tableKind = (CHOOSE x \in Kinds : TRUE) /\ DataInit
CodecsRest == sample = (CHOOSE x \in Samples : TRUE) /\ stage = "row" /\ CodecInit

WireInit ==
  \/ which = "calls" /\ RemoteInit /\ DataRest /\ CodecsRest
  \/ which = "data" /\ CallsRest /\ DataInit /\ CodecsRest
  \/ which = "codecs" /\ CallsRest /\ DataRest /\ CodecInit

UseCalls == which = "calls" /\ RemoteNext /\ UNCHANGED <<which, dataVars, codecVars>>
UseData == which = "data" /\ DataNext /\ UNCHANGED <<which, remoteVars, codecVars>>
UseCodecs == which = "codecs" /\ CodecNext /\ UNCHANGED <<which, remoteVars, dataVars>>

\* Opening a connection goes on, when it is in use.
WireSpec ==
  /\ WireInit
  /\ [][UseCalls \/ UseData \/ UseCodecs]_wireVars
  /\ WF_remoteVars(which = "calls" /\ Opening /\ SessionStep)

\* SessionEnds, for a connection that is in use: opening it ends, however the
\* authenticator and the server play their parts.
OpeningEnds == which = "calls" => SessionEnds
=============================================================================
