---------------------------- MODULE MapperQueries ----------------------------
(***************************************************************************)
(* What lib/mapping/ computes from one call: the cache key (cache.js), the *)
(* tables it applies to (object-selector.js) and the statements with their *)
(* parameter getters (query-generator.js).                                 *)
(*                                                                         *)
(* A call is a record: the method, the document (a sequence of [prop, v],  *)
(* in the order of Object.keys) and the docInfo.  A value v is known by    *)
(* its shape only: a plain value, a QueryOperator, q.and() of two values   *)
(* or a QueryAssignment.  A statement is the record of its clauses; a      *)
(* parameter getter is the place it reads: the object, the property and    *)
(* the accessors after it.                                                 *)
(***************************************************************************)
EXTENDS Naturals, Sequences, FiniteSets

CONSTANTS
    Tables,     \* the model's tables: [name, isView, partitionKeys, clusteringKeys, columns]
    Columns,    \* the model's declared columns: [column, prop, fromModel]
    DocValues,  \* the values of documents: with a q.and() the two it joins
    Nesting,    \* of each value, how deep its q.and() are nested
    MaxNesting

\* Sequences and sets, written so that proofs about them are short.
ToSet(s) == {s[i] : i \in DOMAIN s}
Last(s) == s[Len(s)]
Min(S) == CHOOSE x \in S : \A y \in S : x <= y
FlattenSeq(seqs) ==
    LET upTo[n \in 0..Len(seqs)] == IF n = 0 THEN <<>> ELSE upTo[n - 1] \o seqs[n]
    IN upTo[Len(seqs)]

\* Array.filter(): the elements at the positions, in order.
Keep(s, positions) ==
    LET upTo[n \in 0..Len(s)] == IF n = 0 THEN <<>>
                           ELSE IF n \in positions THEN Append(upTo[n - 1], s[n])
                           ELSE upTo[n - 1]
    IN upTo[Len(s)]

ColumnsOf(table) == {table.columns[i].name : i \in DOMAIN table.columns}

\* What the metadata of tables is like: the keys of a table are columns of it.
ASSUME TablesAssumption ==
    /\ Tables \in Seq(ToSet(Tables))
    /\ \A i, j \in DOMAIN Tables : Tables[i].name = Tables[j].name => i = j
    /\ \A i \in DOMAIN Tables : LET table == Tables[i] IN
          /\ table.partitionKeys \in Seq(ColumnsOf(table))
          /\ table.clusteringKeys \in Seq(ColumnsOf(table))
          /\ \A j, k \in DOMAIN table.partitionKeys :
                table.partitionKeys[j] = table.partitionKeys[k] => j = k

Plain == [is |-> "value"]

\* q.and() joins two values that were made before it.
ASSUME DocValuesAssumption ==
    /\ MaxNesting \in Nat /\ Nesting \in [DocValues -> 0..MaxNesting]
    /\ Plain \in DocValues
    /\ \A v \in DocValues : v.is = "and" =>
          /\ v.l \in DocValues /\ Nesting[v.l] < Nesting[v]
          /\ v.r \in DocValues /\ Nesting[v.r] < Nesting[v]

--------------------------------------------------------------------------
(* model-mapping-info.js, doc-info-adapter.js                              *)

Declared(prop) == SelectSeq(Columns, LAMBDA d : d.prop = prop)

\* The last column declared with the property wins; without one the table
\* mappings keep the name.
GetColumnName(prop) ==
    LET ds == Declared(prop) IN IF ds = <<>> THEN prop ELSE Last(ds).column

GetFromModelFn(prop) ==
    LET ds == Declared(prop) IN ds # <<>> /\ Last(ds).fromModel

GetPropertyName(column) ==
    LET ds == SelectSeq(Columns, LAMBDA d : d.column = column)
    IN IF ds = <<>> THEN column ELSE ds[1].prop

Props(doc) == [i \in DOMAIN doc |-> doc[i].prop]
ValueAt(doc, prop) ==
    LET at == {i \in DOMAIN doc : doc[i].prop = prop}
    IN IF at = {} THEN Plain ELSE doc[Min(at)].v

GetPropertiesInfo(docKeys, fields, doc) ==
    LET keys == IF fields # <<>> THEN fields ELSE docKeys
    IN [i \in DOMAIN keys |-> [prop |-> keys[i], column |-> GetColumnName(keys[i]),
                               v |-> ValueAt(doc, keys[i]),
                               fromModel |-> GetFromModelFn(keys[i])]]

WhenInfo(call) == GetPropertiesInfo(Props(call.when), <<>>, call.when)
OrderByInfo(call) ==
    [i \in DOMAIN call.orderBy |-> <<GetColumnName(call.orderBy[i][1]), call.orderBy[i][2]>>]

--------------------------------------------------------------------------
(* cache.js                                                                *)

YieldOperators[v \in DocValues] ==
    CASE v.is = "op"  -> <<v.key>>
      [] v.is = "and" -> <<"AND">> \o YieldOperators[v.l] \o <<"|/|">> \o YieldOperators[v.r]
      [] OTHER -> <<>>

YieldAllQs(v) ==
    IF v.is = "assign" THEN <<v.sign, IF v.inverted THEN "true" ELSE "false">>
                       ELSE YieldOperators[v]

YieldKeyAndOperators(doc) ==
    FlattenSeq([i \in DOMAIN doc |-> <<doc[i].prop>> \o YieldOperators[doc[i].v]])
YieldKeyAndAllQs(doc) ==
    FlattenSeq([i \in DOMAIN doc |-> <<doc[i].prop>> \o YieldAllQs(doc[i].v)])

Mark(condition, word) == IF condition THEN <<word>> ELSE <<>>
FieldsKey(call) == IF call.fields = <<>> THEN <<>> ELSE <<"|f|">> \o call.fields

SelectDocInfoKey(call) ==
    FieldsKey(call) \o Mark(call.limit, "|l|")
    \o (IF call.orderBy = <<>> THEN <<>> ELSE <<"|o|">> \o FlattenSeq(call.orderBy))

GetInsertKey(call) ==
    Props(call.doc) \o FieldsKey(call) \o Mark(call.ttl, "|t|") \o Mark(call.exists, "|e|")

\* (fault) The time-to-live is not part of the key.
GetUpdateKey_NoTtl(call) ==
    YieldKeyAndAllQs(call.doc) \o FieldsKey(call)
    \o Mark(call.exists, "|e|") \o YieldKeyAndOperators(call.when)

\* The words of the condition follow those of the document with no separator.
GetUpdateKey(call) ==
    YieldKeyAndAllQs(call.doc) \o FieldsKey(call) \o Mark(call.ttl, "|t|")
    \o Mark(call.exists, "|e|") \o YieldKeyAndOperators(call.when)

GetRemoveKey(call) ==
    YieldKeyAndOperators(call.doc) \o FieldsKey(call) \o Mark(call.exists, "|e|")
    \o Mark(call.onlyColumns, "|dc|") \o YieldKeyAndOperators(call.when)

\* get() and find() share their tree, and the key does not tell them apart.
CacheKey(call) ==
    CASE call.op \in {"get", "find"} -> YieldKeyAndOperators(call.doc) \o SelectDocInfoKey(call)
      [] call.op = "findAll" -> <<"root">> \o SelectDocInfoKey(call)
      [] call.op = "insert"  -> GetInsertKey(call)
      [] call.op = "update"  -> GetUpdateKey(call)
      [] call.op = "remove"  -> GetRemoveKey(call)

--------------------------------------------------------------------------
(* object-selector.js: the answer is the tables, or <<>> when it throws    *)

StaticCount(table) == Len(SelectSeq(table.columns, LAMBDA col : col.type = "static"))
InTable(infos, table) == \A i \in DOMAIN infos : infos[i].column \in ColumnsOf(table)
PrimaryKeys(table) == table.partitionKeys \o table.clusteringKeys

KeysAreIncluded(keys, infos) ==
    LET matches == Cardinality({i \in DOMAIN infos : infos[i].column \in ToSet(keys)})
    IN IF matches = Len(keys) THEN "all" ELSE IF matches = 0 THEN "none" ELSE "some"

MatchesSelect(t, allPKsDefined, infos, fields, orderBy) ==
    /\ KeysAreIncluded(t.partitionKeys, infos) = "all"
    /\ allPKsDefined => KeysAreIncluded(t.clusteringKeys, infos) = "all"
    /\ Len(infos) > Len(t.partitionKeys) =>
          \A i \in DOMAIN infos : infos[i].column \in ToSet(PrimaryKeys(t))
    /\ InTable(fields, t)
    /\ \A i \in DOMAIN orderBy :
          i <= Len(t.clusteringKeys) /\ t.clusteringKeys[i] = orderBy[i][1]

\* The first table that matches; a table the metadata does not have before it throws.
GetForSelect(known, allPKsDefined, infos, fields, orderBy) ==
    LET stops == {i \in DOMAIN Tables : \/ Tables[i].name \notin known
                     \/ MatchesSelect(Tables[i], allPKsDefined, infos, fields, orderBy)}
        first == Min(stops)
    IN IF stops = {} \/ Tables[first].name \notin known THEN <<>> ELSE <<Tables[first]>>

MatchesInsert(t, infos) ==
    LET clustering == KeysAreIncluded(t.clusteringKeys, infos)
    IN /\ KeysAreIncluded(t.partitionKeys, infos) = "all"
       /\ \/ clustering = "all"
          \/ /\ clustering = "none" /\ StaticCount(t) > 0
             /\ Len(infos) = Len(t.partitionKeys) + StaticCount(t)

MatchesUpdate(t, infos, when) ==
    LET clustering == KeysAreIncluded(t.clusteringKeys, infos)
        applicable == Len(SelectSeq(infos, LAMBDA p : p.column \in ColumnsOf(t)))
    IN /\ KeysAreIncluded(t.partitionKeys, infos) = "all"
       /\ clustering # "some"
       /\ clustering = "none" => StaticCount(t) > 0
       /\ \/ applicable > Len(PrimaryKeys(t))
          \/ StaticCount(t) > 0 /\ applicable > Len(t.partitionKeys)
       /\ InTable(when, t)

MatchesDelete(t, infos, when) ==
    /\ ToSet(PrimaryKeys(t)) \subseteq {infos[i].column : i \in DOMAIN infos}
    /\ InTable(when, t)

\* A write goes to every table that is no view and that the document has the keys
\* of; one table the metadata does not have fails them all.
HasMetadata(known) == \A i \in DOMAIN Tables : Tables[i].isView \/ Tables[i].name \in known
ForWrite(known, matching) ==
    IF HasMetadata(known) THEN Keep(Tables, {i \in matching : ~Tables[i].isView}) ELSE <<>>

GetForInsert(known, infos) ==
    ForWrite(known, {i \in DOMAIN Tables : MatchesInsert(Tables[i], infos)})
GetForUpdate(known, infos, when) ==
    ForWrite(known, {i \in DOMAIN Tables : MatchesUpdate(Tables[i], infos, when)})
GetForDelete(known, infos, when) ==
    ForWrite(known, {i \in DOMAIN Tables : MatchesDelete(Tables[i], infos, when)})

--------------------------------------------------------------------------
(* query-generator.js                                                      *)

\* _getSingleCondition(): the conditions of one column, joined by AND.
SingleCondition(column, value) ==
    LET condition[v \in DocValues] ==
            CASE v.is = "and" -> condition[v.l] \o condition[v.r]
              [] v.is = "op"  -> << <<column, v.key>> >>
              [] OTHER        -> << <<column, "=">> >>
    IN condition[value]

ConditionWithOperators(infos) ==
    FlattenSeq([i \in DOMAIN infos |-> SingleCondition(infos[i].column, infos[i].v)])

Getter(obj, p, path, isIn) ==
    [obj |-> obj, prop |-> p.prop, path |-> path,
     form |-> IF ~p.fromModel THEN "as is" ELSE IF isIn THEN "each mapped" ELSE "mapped"]

\* The places a condition on one value reads, by the accessors from the value on.
Reads[v \in DocValues] ==
    LET below(side, reads) == [k \in DOMAIN reads |->
                                  [reads[k] EXCEPT !.path = <<"value", side>> \o @]]
    IN CASE v.is = "and" -> below(0, Reads[v.l]) \o below(1, Reads[v.r])
         [] v.is = "op"  -> << [path |-> <<"value">>, isIn |-> v.key = "IN"] >>
         [] OTHER        -> << [path |-> <<>>, isIn |-> FALSE] >>

\* _valueGetterSingle()
ValueGetterSingle(obj, p) ==
    LET reads == Reads[p.v]
    IN [k \in DOMAIN reads |-> Getter(obj, p, reads[k].path, reads[k].isIn)]

ValueGetters(obj, infos) ==
    FlattenSeq([i \in DOMAIN infos |-> ValueGetterSingle(obj, infos[i])])
AssignmentGetters(infos) ==
    [i \in DOMAIN infos |->
        Getter("doc", infos[i], IF infos[i].v.is = "assign" THEN <<"value">> ELSE <<>>, FALSE)]

DocInfoGetter(name, wanted) ==
    IF wanted THEN << [obj |-> "docInfo", prop |-> name, path |-> <<>>, form |-> "as is"] >>
              ELSE <<>>

Names(infos) == [i \in DOMAIN infos |-> infos[i].column]
Equalities(infos) == [i \in DOMAIN infos |-> <<infos[i].column, "=">>]

Statement(verb, table) ==
    [verb |-> verb, table |-> table.name, ttl |-> FALSE, cols |-> <<>>, set |-> <<>>,
     where |-> <<>>, order |-> <<>>, limit |-> FALSE, exists |-> FALSE, cond |-> <<>>]

Query(statement, params, isIdempotent, isCounter) ==
    [query |-> statement, params |-> params,
     isIdempotent |-> isIdempotent, isCounter |-> isCounter]

\* getSelect() and selectParamsGetter()
GetSelect(table, call, infos, fields) ==
    Query([Statement("SELECT", table) EXCEPT !.cols = Names(fields),
               !.where = ConditionWithOperators(infos), !.order = OrderByInfo(call),
               !.limit = call.limit],
          ValueGetters("doc", infos) \o DocInfoGetter("limit", call.limit), TRUE, FALSE)

OfTable(infos, table) ==
    Keep(infos, {i \in DOMAIN infos : infos[i].column \in ColumnsOf(table)})
KeysOf(infos, table) ==
    Keep(infos, {i \in DOMAIN infos : infos[i].column \in ToSet(PrimaryKeys(table))})
OthersOf(infos, table) ==
    Keep(infos, {i \in DOMAIN infos : infos[i].column \notin ToSet(PrimaryKeys(table))})
TypeOf(column, table) == SelectSeq(table.columns, LAMBDA col : col.name = column)[1].type

\* getInsert(), _getInsertQuery() and _insertParamsGetter()
GetInsert(table, call, infos) ==
    LET own == OfTable(infos, table)
    IN Query([Statement("INSERT", table) EXCEPT !.cols = Names(own),
                  !.exists = call.exists, !.ttl = call.ttl],
             ValueGetters("doc", own) \o DocInfoGetter("ttl", call.ttl), ~call.exists, FALSE)

\* col = ?, col = ? + col or col = col + ?
Assignment(p) ==
    IF p.v.is = "assign" THEN <<p.column, p.v.sign, p.v.inverted>> ELSE <<p.column>>

\* (fault) The time-to-live is the last parameter, as it is for an INSERT.
UpdateParams_TtlLast(call, keys, others, when) ==
    AssignmentGetters(others) \o ValueGetters("doc", keys) \o ValueGetters("when", when)
    \o DocInfoGetter("ttl", call.ttl)

\* _updateParamsGetter()
UpdateParams(call, keys, others, when) ==
    DocInfoGetter("ttl", call.ttl) \o AssignmentGetters(others)
    \o ValueGetters("doc", keys) \o ValueGetters("when", when)

\* (fault) Only q.prepend() is taken for a list mutation.
AppendsToList_Inverted(infos, table) ==
    \E i \in DOMAIN infos : /\ infos[i].v.is = "assign" /\ infos[i].v.inverted
                           /\ TypeOf(infos[i].column, table) = "list"

AppendsToList(infos, table) ==
    \E i \in DOMAIN infos : infos[i].v.is = "assign"
                           /\ TypeOf(infos[i].column, table) = "list"

\* getUpdate() and _getUpdateQuery()
GetUpdate(table, call, infos, when) ==
    LET own    == OfTable(infos, table)
        keys   == KeysOf(own, table)
        others == OthersOf(own, table)
        isCounter == \E i \in DOMAIN own : TypeOf(own[i].column, table) = "counter"
    IN Query([Statement("UPDATE", table) EXCEPT !.ttl = call.ttl,
                  !.set = [i \in DOMAIN others |-> Assignment(others[i])],
                  !.where = Equalities(keys), !.exists = call.exists,
                  !.cond = IF call.exists THEN <<>> ELSE ConditionWithOperators(when)],
             UpdateParams(call, keys, others, when),
             ~isCounter /\ ~AppendsToList(own, table) /\ when = <<>> /\ ~call.exists, isCounter)

\* getDelete(), _getDeleteQuery() and _deleteParamsGetter()
GetDelete(table, call, infos, when) ==
    LET own  == OfTable(infos, table)
        keys == KeysOf(own, table)
    IN Query([Statement("DELETE", table) EXCEPT
                  !.cols = IF call.onlyColumns THEN Names(OthersOf(own, table)) ELSE <<>>,
                  !.where = Equalities(keys), !.exists = call.exists,
                  !.cond = IF call.exists THEN <<>> ELSE ConditionWithOperators(when)],
             ValueGetters("doc", keys) \o ValueGetters("when", when),
             when = <<>> /\ ~call.exists, FALSE)

--------------------------------------------------------------------------
(* mapping-handler.js: the queries of a call, <<>> when it throws          *)

\* Errors thrown before anything is awaited.
ThrowsAtOnce(call) ==
    \/ call.op \in {"update", "remove"} /\ call.when # <<>> /\ call.exists
    \/ \E i \in DOMAIN call.orderBy : call.orderBy[i][2] \notin {"ASC", "DESC"}

SelectQueries(call, known) ==
    LET infos  == GetPropertiesInfo(Props(call.doc), <<>>, call.doc)
        fields == GetPropertiesInfo(<<>>, call.fields, call.doc)
        tables == IF call.op = "findAll" THEN <<Tables[1]>>
                  ELSE GetForSelect(known, call.op = "get", infos, fields, OrderByInfo(call))
    IN [i \in DOMAIN tables |-> GetSelect(tables[i], call, infos, fields)]

\* A condition is for one table only.
OneIf(conditional, tables) == IF conditional /\ Len(tables) > 1 THEN <<>> ELSE tables

CreateInsertQueries(call, known) ==
    LET infos  == GetPropertiesInfo(Props(call.doc), call.fields, call.doc)
        tables == OneIf(call.exists, GetForInsert(known, infos))
    IN [i \in DOMAIN tables |-> GetInsert(tables[i], call, infos)]

CreateUpdateQueries(call, known) ==
    LET infos  == GetPropertiesInfo(Props(call.doc), call.fields, call.doc)
        when   == WhenInfo(call)
        tables == OneIf(when # <<>> \/ call.exists, GetForUpdate(known, infos, when))
    IN [i \in DOMAIN tables |-> GetUpdate(tables[i], call, infos, when)]

CreateDeleteQueries(call, known) ==
    LET infos  == GetPropertiesInfo(Props(call.doc), call.fields, call.doc)
        when   == WhenInfo(call)
        tables == OneIf(when # <<>> \/ call.exists, GetForDelete(known, infos, when))
    IN [i \in DOMAIN tables |-> GetDelete(tables[i], call, infos, when)]

Queries(call, known) ==
    IF ThrowsAtOnce(call) THEN <<>>
    ELSE CASE call.op \in {"get", "find", "findAll"} -> SelectQueries(call, known)
           [] call.op = "insert" -> CreateInsertQueries(call, known)
           [] call.op = "update" -> CreateUpdateQueries(call, known)
           [] call.op = "remove" -> CreateDeleteQueries(call, known)

--------------------------------------------------------------------------
(* The calls of the application, and what the properties say of statements *)

Writes == {"insert", "update", "remove"}
IsSelect(call) == call.op \in {"get", "find", "findAll"}

ListsProps(call) ==
    /\ call.doc \in Seq(ToSet(call.doc)) /\ call.fields \in Seq(ToSet(call.fields))
    /\ call.when \in Seq(ToSet(call.when))
    /\ \A i \in DOMAIN call.doc : call.doc[i].v \in DocValues
    /\ \A i \in DOMAIN call.when : call.when[i].v \in DocValues

\* What is written is a value for each column: q.and() is for two conditions on one
\* column, and the properties of a document, or the fields listed, name a column once.
WritesColumnsOnce(call) ==
    LET infos == GetPropertiesInfo(Props(call.doc), call.fields, call.doc)
    IN /\ \A i \in DOMAIN call.doc : call.doc[i].v.is # "and"
       /\ \A i, j \in DOMAIN infos : infos[i].column = infos[j].column => i = j

TableNamed(name) == Tables[CHOOSE i \in DOMAIN Tables : Tables[i].name = name]
AllNames == {Tables[i].name : i \in DOMAIN Tables}

\* The ? markers of a statement in the order of its text, by what each stands for.
Markers(st) ==
    LET columns(s) == [k \in DOMAIN s |-> s[k][1]]
        opt(b, name) == IF b THEN <<name>> ELSE <<>>
    IN CASE st.verb = "SELECT" -> columns(st.where) \o opt(st.limit, "limit")
         [] st.verb = "INSERT" -> st.cols \o opt(st.ttl, "ttl")
         [] st.verb = "UPDATE" -> opt(st.ttl, "ttl") \o columns(st.set)
                                  \o columns(st.where) \o columns(st.cond)
         [] st.verb = "DELETE" -> columns(st.where) \o columns(st.cond)

\* Applying the statement twice leaves what applying it once does.
Repeatable(st) ==
    LET table == TableNamed(st.table)
    IN /\ st.cond = <<>> /\ ~st.exists
       /\ \A k \in DOMAIN st.set :
             Len(st.set[k]) = 1 \/ TypeOf(st.set[k][1], table) \notin {"list", "counter"}
=============================================================================
