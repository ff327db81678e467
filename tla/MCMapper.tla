------------------------------ MODULE MCMapper ------------------------------
(***************************************************************************)
(* The mapper on a model of four tables (one of them a view, one of        *)
(* counters), in four parts that share no state: the calls, the batches,   *)
(* the custom queries and the tree the caches are kept in.                 *)
(***************************************************************************)
EXTENDS Mapper, FiniteSets

CONSTANT TreeKeys

VARIABLES part, nodes, length, made, found

Cache == INSTANCE Tree WITH Keys <- TreeKeys

Column(name, type) == [name |-> name, type |-> type]
MCTables == <<
    [name |-> "videos", isView |-> FALSE, partitionKeys |-> <<"id">>, clusteringKeys |-> <<>>,
     columns |-> <<Column("id", "key"), Column("name", "text"), Column("tags", "list")>>],
    [name |-> "by_user", isView |-> FALSE, partitionKeys |-> <<"user_id">>,
     clusteringKeys |-> <<"id">>,
     columns |-> <<Column("user_id", "key"), Column("id", "key"), Column("name", "text"),
                   Column("nick", "static")>>],
    [name |-> "by_name", isView |-> TRUE, partitionKeys |-> <<"name">>,
     clusteringKeys |-> <<"id">>,
     columns |-> <<Column("name", "key"), Column("id", "key"), Column("user_id", "text")>>],
    [name |-> "counts", isView |-> FALSE, partitionKeys |-> <<"cid">>, clusteringKeys |-> <<>>,
     columns |-> <<Column("cid", "key"), Column("n", "counter")>>] >>
MCColumns == << [column |-> "user_id", prop |-> "user", fromModel |-> TRUE] >>

Op(key) == [is |-> "op", key |-> key]
Both(l, r) == [is |-> "and", l |-> l, r |-> r]
Assign(sign, inverted) == [is |-> "assign", sign |-> sign, inverted |-> inverted]

\* Every value of the documents below.
MCDocValues ==
    LET ops == {Op(key) : key \in {"IN", ">", "<", "!="}}
    IN {Plain, Both(Op(">"), Op("<"))} \cup ops
       \cup {Assign(sign, inverted) : sign \in {"+", "-"}, inverted \in BOOLEAN}

MCNesting == [v \in MCDocValues |-> IF v.is = "and" THEN 1 ELSE 0]

Has(prop, v) == << [prop |-> prop, v |-> v] >>
V(prop) == Has(prop, Plain)
On(op, doc) ==
    [op |-> op, doc |-> doc, fields |-> <<>>, limit |-> FALSE, orderBy |-> <<>>, ttl |-> FALSE,
     exists |-> FALSE, onlyColumns |-> FALSE, when |-> <<>>, idempotent |-> <<>>]

Video == V("id") \o V("name")
MCCalls == {
    On("get", V("id")), On("find", <<>>), On("find", V("user")), On("get", V("user")),
    On("find", V("nick")),
    On("find", Has("user", Op("IN"))), On("get", V("name") \o V("id")),
    On("find", V("user") \o Has("id", Op(">"))),
    [On("find", V("user") \o Has("id", Both(Op(">"), Op("<")))) EXCEPT !.limit = TRUE],
    [On("find", V("user")) EXCEPT !.fields = <<"nick">>],
    [On("find", V("user")) EXCEPT !.orderBy = << <<"id", "DESC">> >>],
    [On("find", V("user")) EXCEPT !.orderBy = << <<"id", "up">> >>],
    On("findAll", <<>>), [On("findAll", <<>>) EXCEPT !.fields = <<"name">>, !.limit = TRUE],
    On("insert", Video), On("insert", Video \o V("user")), On("insert", V("user") \o V("nick")),
    [On("insert", Video) EXCEPT !.ttl = TRUE], [On("insert", Video) EXCEPT !.exists = TRUE],
    [On("insert", Video \o V("user")) EXCEPT !.exists = TRUE],
    [On("insert", Video \o V("user")) EXCEPT !.fields = <<"id", "name">>],
    On("update", Video), [On("update", Video) EXCEPT !.ttl = TRUE], On("update", Video \o V("tags")),
    [On("update", Video) EXCEPT !.when = V("tags")],
    [On("update", Video) EXCEPT !.when = Has("name", Op("!=")), !.idempotent = <<TRUE>>],
    [On("update", Video) EXCEPT !.exists = TRUE],
    [On("update", Video) EXCEPT !.exists = TRUE, !.when = V("tags")],
    On("update", V("id") \o Has("tags", Assign("+", FALSE))),
    On("update", V("id") \o Has("tags", Assign("+", TRUE))),
    On("update", V("cid") \o Has("n", Assign("-", FALSE))),
    On("update", V("user") \o V("nick")),
    On("remove", V("id")), On("remove", Video), [On("remove", V("id")) EXCEPT !.exists = TRUE],
    [On("remove", Video) EXCEPT !.onlyColumns = TRUE],
    [On("remove", V("id") \o V("user")) EXCEPT !.when = Has("tags", Op("IN"))] }

MCBatchItems == {
    <<>>, <<On("insert", Video), On("insert", Video), On("update", Video)>>,
    <<On("insert", Video \o V("user")), On("remove", V("id"))>>,
    <<On("insert", V("id") \o V("name")), On("remove", V("id") \o V("user"))>>,
    << [On("update", Video) EXCEPT !.ttl = TRUE], On("update", Video)>>,
    << [On("update", Video) EXCEPT !.when = V("name")], On("insert", Video)>>,
    <<On("insert", Video), On("update", V("id") \o Has("tags", Assign("+", FALSE)))>>,
    <<On("update", V("cid") \o Has("n", Assign("+", FALSE))), On("update", V("cid") \o Has("n", Assign("-", FALSE)))>>,
    <<On("update", V("cid") \o Has("n", Assign("+", FALSE))), On("insert", Video)>>,
    <<On("update", Video), On("remove", Video)>>,
    << [On("update", Video) EXCEPT !.when = V("tags")], On("update", Video \o V("tags"))>>,
    <<On("insert", Video), [On("update", Video) EXCEPT !.exists = TRUE, !.when = V("tags")]>> }

MCKnown == {AllNames, AllNames \ {"by_user"}, {}}
MCCustomQueries == [q \in {"select", "conditional", "void"} |->
    CASE q = "select" -> {<<"id", "user_id">>}
      [] q = "conditional" -> {<<"[applied]">>, <<"[applied]", "name">>}
      [] q = "void" -> {<<>>}]
MCTreeKeys == {
    <<>>, <<"id">>, <<"id", "name">>, <<"id", "name", "|t|">>, <<"id", "tags">>,
    <<"id", "tags", "+", "true">>, <<"name">>}

\* An update with a condition, and one whose document ends with the column of it.
CollidingCalls == {
    [On("update", Video) EXCEPT !.when = V("tags")], On("update", Video \o V("tags"))}

cacheVars == <<nodes, length, made, found>>
TreeIdle == nodes = 0 /\ length = 0 /\ made = 0 /\ found = 0
MCInit ==
    /\ MapperInit
    /\ \/ part = "tree" /\ Cache!TreeInit
       \/ part \in {"calls", "batches", "custom"} /\ TreeIdle
MCNext ==
    /\ part' = part
    /\ \/ part = "tree" /\ Cache!TreeNext /\ UNCHANGED mapperVars
       \/ part = "calls" /\ CallsNext /\ UNCHANGED cacheVars
       \/ part = "batches" /\ BatchesNext /\ UNCHANGED cacheVars
       \/ part = "custom" /\ CustomNext /\ UNCHANGED cacheVars
MCSpec == MCInit /\ [][MCNext]_<<mapperVars, part, cacheVars>>

\* Tree!TreeIsAMap, for the part that is about the tree: one cache item per key.
CacheTreeIsAMap == part = "tree" => Cache!TreeIsAMap
=============================================================================
