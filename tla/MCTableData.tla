----------------------------- MODULE MCTableData -----------------------------
(***************************************************************************)
(* Small instances of TableData: a table with the columns k, s and a.  The *)
(* second schema renames a to old and adds a new column called a; the      *)
(* third makes old required.                                               *)
(***************************************************************************)
EXTENDS TableData

dataColumn(name, kind, nullable, id) ==
  [name |-> name, kind |-> kind, nullable |-> nullable, logical |-> <<>>, id |-> id]
table(columns, highest) ==
  [Schema(columns) EXCEPT !.primaryKey = <<"k", "s">>, !.bucketKey = <<"k">>,
                          !.highest = highest]
keyColumns == <<dataColumn("k", "STRING", FALSE, 0), dataColumn("s", "STRING", FALSE, 1)>>

SmallVersions ==
  <<table(keyColumns \o <<dataColumn("a", "INT", TRUE, 2)>>, 2),
    table(keyColumns \o <<dataColumn("old", "INT", TRUE, 2), dataColumn("a", "INT", TRUE, 3)>>, 3),
    table(keyColumns \o <<dataColumn("old", "INT", FALSE, 2), dataColumn("a", "INT", TRUE, 3)>>, 3)>>

string(chars) == [go |-> "string", v |-> chars]
int4(n) == [go |-> "int32", v |-> little(n, 4)]
a == string(<<97>>)
ab == string(<<97, 98>>)
empty == string(<<>>)

SmallRows ==
  << {<<a, ab, int4(1)>>, <<ab, empty, Nil>>},
     {<<a, ab, int4(-2), Nil>>, <<a, empty, Nil, int4(3)>>},
     {<<ab, empty, int4(4), int4(5)>>} >>
SmallPartials ==
  << {<< <<"a", "s", "k">>, <<int4(200), ab, a>> >>},
     {<< <<"k", "s", "a">>, <<a, ab, int4(7)>> >>},
     {<< <<"k", "s", "a">>, <<a, ab, int4(8)>> >>, << <<"k", "s", "old">>, <<a, ab, int4(9)>> >>} >>
AllKinds == {"compacted", "indexed", "arrow", "kv"}
SmallProjections == {<<>>, <<"a", "k">>}
SmallBuckets == <<0, 1, 2>>
=============================================================================
