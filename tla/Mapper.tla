------------------------------- MODULE Mapper -------------------------------
(***************************************************************************)
(* The mapper of lib/mapping/: the calls of a ModelMapper, the batches of  *)
(* Mapper.batch() and the executors of mapWithQuery(), with the caches     *)
(* they share.  Code between two awaits is one action.  The client is the  *)
(* application's: connect() and the metadata it answers with are inputs,   *)
(* the set `known' of tables it answers for (none: connect() or the        *)
(* metadata failed).                                                       *)
(***************************************************************************)
EXTENDS MapperQueries

CONSTANTS
    Calls,          \* the calls the application makes
    BatchItems,     \* the sequences of items it batches
    Known,          \* the sets of tables the metadata may answer for
    CustomQueries,  \* query |-> the columns its results may have
    MaxRequests

ASSUME CallsAssumption ==
    /\ \A call \in Calls :
          ListsProps(call) /\ call.op \in {"get", "find", "findAll"} \cup Writes
    /\ \A items \in BatchItems :
          /\ items \in Seq(ToSet(items))
          /\ \A item \in ToSet(items) : ListsProps(item) /\ item.op \in Writes

ASSUME WritesAssumption ==
    \A call \in Calls \cup UNION {ToSet(items) : items \in BatchItems} :
        call.op \in Writes => WritesColumnsOnce(call)

\* The results of a query have the same columns each time, but for conditional updates.
ASSUME CustomQueriesAssumption ==
    \A q \in DOMAIN CustomQueries : \A c, d \in CustomQueries[q] :
        c = d \/ (c # <<>> /\ c[1] = "[applied]")

VARIABLES
    cells,          \* MappingHandler._cache: <<tree, key>> |-> [queries, adapter]
    calls,          \* the calls made
    batchCells,     \* ModelBatchMapper.#cache: <<tree, key>> |-> promise
    promises,       \* the promises createQueries() returned
    batches,        \* the batches made
    customs,        \* the executions of custom queries
    customAdapters, \* _cache.customQueries
    sent            \* what client.execute() and client.batch() were given

callVars == <<cells, calls>>
batchVars == <<batchCells, promises, batches>>
customVars == <<customs, customAdapters>>
mapperVars == <<callVars, batchVars, customVars, sent>>

Empty == [at \in {} |-> 0]
Put(map, at, value) ==
    [a \in DOMAIN map \cup {at} |-> IF a = at THEN value ELSE map[a]]

MapperInit ==
    /\ cells = Empty /\ calls = <<>>
    /\ batchCells = Empty /\ promises = <<>> /\ batches = <<>>
    /\ customs = <<>> /\ customAdapters = Empty
    /\ sent = <<>>

--------------------------------------------------------------------------
(* One call: get(), find(), findAll(), insert(), update(), remove()        *)

TreeOf(op) == IF op \in {"get", "find"} THEN "select" ELSE op

NewCell == [queries |-> <<>>, adapter |-> <<>>]
CellAt(at) == IF at \in DOMAIN cells THEN cells[at] ELSE NewCell
PlaceOf(call) == <<TreeOf(call.op), CacheKey(call)>>

Call(call, state, queries) ==
    [call |-> call, state |-> state, queries |-> queries, result |-> <<>>]

\* The cached executor, the one made at once, or the start of making one.
Obtain(call, made) ==
    LET at   == PlaceOf(call)
        cell == CellAt(at)
    IN /\ Len(calls) < MaxRequests
       /\ IF call.op # "findAll" /\ call.doc = <<>>
          THEN calls' = Append(calls, Call(call, "failed", <<>>)) /\ UNCHANGED cells
          ELSE /\ calls' = Append(calls,
                     CASE cell.queries # <<>> -> Call(call, "ready", cell.queries)
                       [] cell.queries = <<>> /\ ThrowsAtOnce(call) -> Call(call, "failed", <<>>)
                       [] OTHER -> Call(call, IF made = <<>> THEN "generating" ELSE "ready", made))
               /\ cells' = Put(cells, at, IF cell.queries = <<>>
                                          THEN [cell EXCEPT !.queries = made] ELSE cell)
       /\ UNCHANGED <<batchVars, customVars, sent>>

GetSelectExecutor(call) == call.op \in {"get", "find"} /\ Obtain(call, <<>>)
GetSelectAllExecutor(call) == call.op = "findAll" /\ Obtain(call, Queries(call, AllNames))
GetInsertExecutor(call) == call.op = "insert" /\ Obtain(call, <<>>)
GetUpdateExecutor(call) == call.op = "update" /\ Obtain(call, <<>>)
GetDeleteExecutor(call) == call.op = "remove" /\ Obtain(call, <<>>)

\* The continuation after connect() and the metadata: the executor is cached.
Generate(i) ==
    /\ calls[i].state = "generating"
    /\ \E known \in Known :
          LET call == calls[i].call
              queries == Queries(call, known)
          IN IF queries = <<>>
             THEN calls' = [calls EXCEPT ![i].state = "failed"] /\ UNCHANGED cells
             ELSE /\ calls' = [calls EXCEPT ![i].state = "ready", ![i].queries = queries]
                  /\ cells' = [cells EXCEPT ![PlaceOf(call)].queries = queries]
    /\ UNCHANGED <<batchVars, customVars, sent>>

\* adaptOptions() and adaptBatchOptions(): what the caller says wins.
Idempotency(option, ofQueries) == IF option = <<>> THEN ofQueries ELSE option[1]
AllIdempotent(queries) == \A q \in ToSet(queries) : q.isIdempotent

\* What client.execute() or client.batch() is given: for a call of a ModelMapper or
\* for Mapper.batch(), with the caller's option.
Request(from, items, queries, option, idempotent, counter) ==
    [from |-> from, items |-> items, queries |-> queries, option |-> option,
     isIdempotent |-> idempotent, counter |-> counter]
CallRequest(call, queries, idempotent) ==
    Request("call", <<call>>, queries, call.idempotent, idempotent, FALSE)

SelectRequest(r) == CallRequest(r.call, <<<<1, r.queries[1]>>>>, TRUE)
SingleRequest(r) ==
    CallRequest(r.call, <<<<1, r.queries[1]>>>>,
                Idempotency(r.call.idempotent, r.queries[1].isIdempotent))
\* One statement for each table.
BatchRequest(r) ==
    CallRequest(r.call, [k \in DOMAIN r.queries |-> <<1, r.queries[k]>>],
                Idempotency(r.call.idempotent, AllIdempotent(r.queries)))
RequestOf(r) ==
    IF IsSelect(r.call) THEN SelectRequest(r)
    ELSE IF Len(r.queries) = 1 THEN SingleRequest(r) ELSE BatchRequest(r)

\* A getter made for a call with a condition reads a property of docInfo.when, which
\* throws when this call has none.
GetterThrows(call, queries) ==
    /\ call.when = <<>>
    /\ \E q \in ToSet(queries) : \E k \in DOMAIN q.params : q.params[k].obj = "when"

\* The executor: nothing is sent when a getter throws.
Execute(i) ==
    LET r == calls[i]
        throws == GetterThrows(r.call, r.queries)
    IN /\ r.state = "ready"
       /\ sent' = IF throws THEN sent ELSE Append(sent, RequestOf(r))
       /\ calls' = [calls EXCEPT ![i].state = IF throws THEN "failed" ELSE "sent"]
       /\ UNCHANGED <<cells, batchVars, customVars>>

\* The columns the server answers a SELECT with (external).
ResultColumns(statement) ==
    LET table == TableNamed(statement.table)
    IN IF statement.cols # <<>> THEN statement.cols
       ELSE [k \in DOMAIN table.columns |-> table.columns[k].name]

\* getSelectAdapter(), Result: the row as a document, by property.
Adapted(columns) == [k \in DOMAIN columns |-> GetPropertyName(columns[k])]

\* _executeSelect(): the row adapter is made once per cache item, from the first
\* result.  A mutation's adapter is made from its own result each time.
Answer(i) ==
    LET r       == calls[i]
        columns == ResultColumns(r.queries[1].query)
        adapter == IF ~IsSelect(r.call) THEN <<>>
                   ELSE IF cells[PlaceOf(r.call)].adapter # <<>> THEN cells[PlaceOf(r.call)].adapter
                   ELSE columns
    IN /\ r.state = "sent"
       /\ calls' = [calls EXCEPT ![i].state = "done", ![i].result = Adapted(adapter)]
       /\ cells' = IF IsSelect(r.call)
                   THEN [cells EXCEPT ![PlaceOf(r.call)].adapter = adapter] ELSE cells
       /\ UNCHANGED <<batchVars, customVars, sent>>

CallsNext ==
    \/ \E call \in Calls : \/ GetSelectExecutor(call) \/ GetSelectAllExecutor(call)
                           \/ GetInsertExecutor(call) \/ GetUpdateExecutor(call)
                           \/ GetDeleteExecutor(call)
    \/ \E i \in DOMAIN calls : Generate(i) \/ Execute(i) \/ Answer(i)

--------------------------------------------------------------------------
(* Mapper.batch() and ModelBatchItem                                       *)

\* ModelBatchMapper: remove() is given the tree of update().
BatchTreeOf(op) == IF op = "remove" THEN "update" ELSE op
BatchPlaceOf(item) == <<BatchTreeOf(item.op), CacheKey(item)>>

\* getQueries() of one item: the promise in the cache, or a new one stored there.
GetQueries(b, item) ==
    LET at == BatchPlaceOf(item)
    IN IF b.threw THEN b
       ELSE IF at \in DOMAIN b.cells THEN [b EXCEPT !.waits = Append(@, b.cells[at])]
       ELSE IF ThrowsAtOnce(item) THEN [b EXCEPT !.threw = TRUE]
       ELSE [b EXCEPT !.cells = Put(@, at, Len(b.promises) + 1),
                      !.promises = Append(@, [item |-> item, state |-> "pending",
                                              queries |-> <<>>]),
                      !.waits = Append(@, Len(b.promises) + 1)]

\* batch(): every item asks for its queries before anything is awaited.
StartBatch(items) ==
    LET asked[n \in 0..Len(items)] ==
            IF n = 0 THEN [cells |-> batchCells, promises |-> promises,
                           waits |-> <<>>, threw |-> FALSE]
            ELSE GetQueries(asked[n - 1], items[n])
        b == asked[Len(items)]
    IN /\ Len(batches) < MaxRequests
       /\ batchCells' = b.cells /\ promises' = b.promises
       /\ batches' = Append(batches,
              [items |-> items, waits |-> b.waits, pushed |-> {}, queries |-> <<>>,
               isIdempotent |-> TRUE, isCounter |-> FALSE,
               state |-> IF b.threw \/ items = <<>> THEN "failed" ELSE "waiting"])
       /\ UNCHANGED <<callVars, customVars, sent>>

\* create*Queries() ends; a rejected promise stays in the cache like a resolved one.
SettleQueries(p) ==
    /\ promises[p].state = "pending"
    /\ \E known \in Known :
          LET queries == Queries(promises[p].item, known)
          IN promises' = [promises EXCEPT ![p].queries = queries,
                 ![p].state = IF queries = <<>> THEN "rejected" ELSE "resolved"]
    /\ UNCHANGED <<callVars, batchCells, batches, customVars, sent>>

\* The items that wait for one promise are called back in the order they asked.
IsNext(b, k) ==
    \A j \in 1..(k - 1) : b.waits[j] = b.waits[k] => j \in b.pushed

\* (fault) A batch is never marked as one of counters.
CounterOf_Never(queries) == FALSE

\* Either all queries are counter mutations or the server refuses them: the last one tells.
CounterOf(queries) == Last(queries).isCounter

\* pushQueries(): the queries are appended as the promises settle.
PushQueries(n, k) ==
    LET b == batches[n]
        p == promises[b.waits[k]]
    IN /\ b.state = "waiting" /\ k \notin b.pushed /\ IsNext(b, k)
       /\ p.state # "pending"
       /\ batches' = [batches EXCEPT ![n] =
             IF p.state = "rejected" \/ GetterThrows(b.items[k], p.queries)
             THEN [b EXCEPT !.state = "failed"]
             ELSE [b EXCEPT !.pushed = @ \cup {k},
                            !.queries = @ \o [q \in DOMAIN p.queries |-> <<k, p.queries[q]>>],
                            !.isIdempotent = @ /\ AllIdempotent(p.queries),
                            !.isCounter = CounterOf(p.queries)]]
       /\ UNCHANGED <<callVars, batchCells, promises, customVars, sent>>

\* Promise.all() of the items.
AllPushed(b) == b.pushed = DOMAIN b.items

\* adaptBatchOptions(): isIdempotent of the options, which are read only here.
SendBatch(n) ==
    LET b == batches[n]
    IN /\ b.state = "waiting" /\ AllPushed(b)
       /\ \E option \in {<<>>, <<TRUE>>, <<FALSE>>} :
             sent' = Append(sent, Request("batch", b.items, b.queries, option,
                                          Idempotency(option, b.isIdempotent), b.isCounter))
       /\ batches' = [batches EXCEPT ![n].state = "sent"]
       /\ UNCHANGED <<callVars, batchCells, promises, customVars>>

BatchesNext ==
    \/ \E items \in BatchItems : StartBatch(items)
    \/ \E p \in DOMAIN promises : SettleQueries(p)
    \/ \E n \in DOMAIN batches :
          SendBatch(n) \/ \E k \in DOMAIN batches[n].waits : PushQueries(n, k)

--------------------------------------------------------------------------
(* mapWithQuery()                                                          *)

ExecuteCustom(query) ==
    /\ Len(customs) < MaxRequests
    /\ customs' = Append(customs, [query |-> query, columns |-> <<>>, adapter |-> <<>>,
                                   state |-> "sent"])
    /\ UNCHANGED <<callVars, batchVars, customAdapters, sent>>

\* (fault) The adapter of a conditional update is cached like any other.
CanCache_Always(columns) == TRUE

\* getCustomQueryAdapter(): not for a conditional update, whose columns vary.
CanCache(columns) == columns = <<>> \/ columns[1] # "[applied]"

\* The row adapter, as the columns it reads: a conditional one skips [applied].
RowColumns(columns) == SelectSeq(columns, LAMBDA col : col # "[applied]")

AnswerCustom(i) ==
    LET query == customs[i].query
    IN /\ customs[i].state = "sent"
       /\ \E columns \in CustomQueries[query] :
             LET cached == query \in DOMAIN customAdapters
                 adapter == IF cached THEN customAdapters[query] ELSE RowColumns(columns)
             IN /\ customs' = [customs EXCEPT ![i] = [query |-> query, columns |-> columns,
                                                      adapter |-> adapter, state |-> "done"]]
                /\ customAdapters' = IF cached \/ ~CanCache(columns) THEN customAdapters
                                     ELSE Put(customAdapters, query, adapter)
       /\ UNCHANGED <<callVars, batchVars, sent>>

CustomNext ==
    \/ \E query \in DOMAIN CustomQueries : ExecuteCustom(query)
    \/ \E i \in DOMAIN customs : AnswerCustom(i)

MapperNext == CallsNext \/ BatchesNext \/ CustomNext
MapperSpec == MapperInit /\ [][MapperNext]_mapperVars

--------------------------------------------------------------------------
(* Properties                                                              *)

\* The queries are those of item k of the request, one after the other, and no
\* other part of it is the item's.
Holds(request, k, queries) ==
    \E a \in 0..Len(request) :
        /\ a + Len(queries) <= Len(request)
        /\ \A j \in DOMAIN request :
              IF j > a /\ j <= a + Len(queries) THEN request[j] = <<k, queries[j - a]>>
                                              ELSE request[j][1] # k

OnlyItsItems(r) == \A j \in DOMAIN r.queries : r.queries[j][1] \in DOMAIN r.items

(***************************************************************************)
(* Whatever calls came before it and filled the caches, a call is executed *)
(* with the statements and the parameter getters its own document and      *)
(* docInfo call for, as keys that "uniquely identify a document shape"     *)
(* (cache.js:95) promise, and a batch with those of each of its items.     *)
(***************************************************************************)
ExecutesItsOwnQueries ==
    \A i \in DOMAIN sent : LET r == sent[i] IN
        /\ \A k \in DOMAIN r.items : Holds(r.queries, k, Queries(r.items[k], AllNames))
        /\ OnlyItsItems(r)

\* What the keys leave open: get() and find() of one document; update() and remove()
\* of batches, which share a tree; and conditions of other lengths, since a document,
\* or its fields, may go on where another's condition begins.
Confused(c, d) == c.op # d.op \/ Len(c.when) # Len(d.when)

AllItems == UNION {ToSet(items) : items \in BatchItems}

\* The queries of a call, and of those that may be confused with it.
QueriesOf(some) == {Queries(c, AllNames) : c \in some} \ {<<>>}
QueriesFor == [call \in Calls |->
    QueriesOf({c \in Calls : PlaceOf(c) = PlaceOf(call) /\ (c = call \/ Confused(c, call))})]
QueriesForItem == [item \in AllItems |->
    QueriesOf({c \in AllItems :
                 BatchPlaceOf(c) = BatchPlaceOf(item) /\ (c = item \/ Confused(c, item))})]

(***************************************************************************)
(* Whatever calls came before it and filled the caches, a call is executed *)
(* with its own statements and parameter getters, and a batch holds those  *)
(* of each of its items, all of them and once each, in whatever order the  *)
(* promises settled.  What the caches confuse (Confused) is exempted, and  *)
(* no further than this: such a call is executed with all the queries of   *)
(* one call of its key that it may be confused with.                       *)
(***************************************************************************)
ExecutesTheQueriesOfItsKey ==
    \A i \in DOMAIN sent : LET r == sent[i] IN
        /\ \A k \in DOMAIN r.items :
              \E queries \in IF r.from = "call" THEN QueriesFor[r.items[k]]
                                                ELSE QueriesForItem[r.items[k]] :
                 Holds(r.queries, k, queries)
        /\ OnlyItsItems(r)

\* Each ? has the parameter of its column, in the order of the statement.
ParametersLineUp ==
    \A i \in DOMAIN sent : \A j \in DOMAIN sent[i].queries :
        LET q == sent[i].queries[j][2]
        IN Markers(q.query) = [k \in DOMAIN q.params |->
               IF q.params[k].obj = "docInfo" THEN q.params[k].prop
               ELSE GetColumnName(q.params[k].prop)]

\* A statement that writes restricts the whole partition key.
WritesOnePartition ==
    \A i \in DOMAIN sent : \A j \in DOMAIN sent[i].queries :
        LET q == sent[i].queries[j][2]
        IN IsSelect(sent[i].items[1]) \/
              ToSet(TableNamed(q.query.table).partitionKeys) \subseteq ToSet(Markers(q.query))

\* The row of a SELECT is mapped by the columns of its own statement, or of that of a
\* find() confused with a get().
RowsAreMapped ==
    \A i \in DOMAIN calls :
        (calls[i].state = "done" /\ IsSelect(calls[i].call)) =>
            \E queries \in QueriesFor[calls[i].call] :
                calls[i].result = Adapted(ResultColumns(queries[1].query))

(***************************************************************************)
(* The parameters an executor reads from the document line up with the     *)
(* markers of the statement it sends, the time-to-live, limit and          *)
(* condition included; the statement restricts the whole partition key;    *)
(* and a SELECT's row is mapped by the columns of its own statement (or of *)
(* a find() confused with a get()), although its adapter may be the one of *)
(* an earlier call.                                                        *)
(***************************************************************************)
ParametersFitTheStatement == ParametersLineUp /\ WritesOnePartition /\ RowsAreMapped

(***************************************************************************)
(* A request is only marked idempotent, and so only retried by the driver, *)
(* when each of its statements is repeatable or the caller said so: one    *)
(* conditional, counter or list-appending statement among the items of a   *)
(* batch or the tables of a model is enough to stop it.                    *)
(***************************************************************************)
OnlyRepeatableIsIdempotent ==
    \A i \in DOMAIN sent : LET r == sent[i] IN
        (r.isIdempotent /\ r.option = <<>>) =>
            \A j \in DOMAIN r.queries : Repeatable(r.queries[j][2].query)

CountsOn(st) ==
    \E k \in DOMAIN st.set : TypeOf(st.set[k][1], TableNamed(st.table)) = "counter"

(***************************************************************************)
(* A batch whose statements are all counter mutations is sent as a counter *)
(* batch and one that has none is not, in whatever order the promises of   *)
(* the items settled and whichever items filled the cache; a mix is left   *)
(* to the server (mapper.js:169).                                          *)
(***************************************************************************)
CounterBatchesAreMarked ==
    \A i \in DOMAIN sent : LET r == sent[i]
                               counts == {CountsOn(r.queries[j][2].query) : j \in DOMAIN r.queries}
        IN (r.from = "batch" /\ counts # BOOLEAN) => counts = {r.counter}

(***************************************************************************)
(* The rows of a custom query are read by the columns of their own result, *)
(* although the adapter may come from an earlier execution of the query: a *)
(* conditional update answers with columns that depend on its outcome.     *)
(***************************************************************************)
CustomRowsFit ==
    \A i \in DOMAIN customs :
        customs[i].state = "done" => customs[i].adapter = RowColumns(customs[i].columns)
=============================================================================
