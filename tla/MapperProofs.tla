--------------------------- MODULE MapperProofs ---------------------------
(***************************************************************************)
(* The caches of the mapper for every model, document, order of the calls  *)
(* and of the answers: what is executed was generated for a call with the  *)
(* same cache key, a request is marked idempotent only when each of its    *)
(* statements is, and each statement has its parameters in their order.    *)
(***************************************************************************)
EXTENDS Mapper, MapperQueriesProofs

--------------------------------------------------------------------------
(* The invariant                                                           *)

\* The queries that calls with one cache key call for.
QueriesAt(at) ==
    {Queries(c, AllNames) : c \in {d \in Calls : PlaceOf(d) = at}} \ {<<>>}

BatchQueriesAt(at) ==
    {Queries(c, AllNames) : c \in {d \in AllItems : BatchPlaceOf(d) = at}} \ {<<>>}

\* The queries that a call of the application may call for.
AllQueries == UNION {ToSet(Queries(c, AllNames)) : c \in Calls \cup AllItems}

AdapterFor(queries) == ResultColumns(queries[1].query)

CellOK(at, cell) ==
    /\ cell = [queries |-> cell.queries, adapter |-> cell.adapter]
    /\ cell.queries # <<>> => cell.queries \in QueriesAt(at)
    /\ cell.adapter # <<>> => \E queries \in QueriesAt(at) : cell.adapter = AdapterFor(queries)

CallOK(r) ==
    /\ r = [call |-> r.call, state |-> r.state, queries |-> r.queries, result |-> r.result]
    /\ r.call \in Calls
    /\ r.state \in {"generating", "ready", "sent", "done", "failed"}
    /\ r.state \in {"ready", "sent", "done"} => r.queries \in QueriesAt(PlaceOf(r.call))
    /\ r.state = "done" /\ IsSelect(r.call) =>
          \E queries \in QueriesAt(PlaceOf(r.call)) : r.result = Adapted(AdapterFor(queries))

\* A call that did not fail has found, or made, its cell.
PlacesInv == \A i \in DOMAIN calls : calls[i].state # "failed" => PlaceOf(calls[i].call) \in DOMAIN cells

CallsInv ==
    /\ \A at \in DOMAIN cells : CellOK(at, cells[at])
    /\ IsSeq(calls) /\ \A i \in DOMAIN calls : CallOK(calls[i])
    /\ PlacesInv

\* What each query of a request is: the number of the item, and its query.
PairsOK(queries, numbers) ==
    /\ IsSeq(queries)
    /\ \A j \in DOMAIN queries :
          queries[j][1] \in numbers /\ queries[j][2] \in AllQueries

PromiseOK(p) ==
    /\ p = [item |-> p.item, state |-> p.state, queries |-> p.queries]
    /\ p.item \in AllItems
    /\ p.state \in {"pending", "resolved", "rejected"}
    /\ p.state = "resolved" => p.queries = Queries(p.item, AllNames) /\ p.queries # <<>>

\* Promise w of the promises is for the place of the item.
IsFor(ps, w, item) == w \in DOMAIN ps /\ BatchPlaceOf(ps[w].item) = BatchPlaceOf(item)

AllMarked(queries) == \A j \in DOMAIN queries : queries[j][2].isIdempotent

BatchOK(b) ==
    /\ b = [items |-> b.items, waits |-> b.waits, pushed |-> b.pushed, queries |-> b.queries,
            isIdempotent |-> b.isIdempotent, isCounter |-> b.isCounter, state |-> b.state]
    /\ b.items \in BatchItems
    /\ b.pushed \subseteq DOMAIN b.items
    /\ \A k \in b.pushed : \E queries \in BatchQueriesAt(BatchPlaceOf(b.items[k])) :
          Holds(b.queries, k, queries)
    /\ PairsOK(b.queries, b.pushed)
    /\ b.isIdempotent => AllMarked(b.queries)

Waits(b, ps) ==
    b.state = "waiting" => /\ DOMAIN b.waits = DOMAIN b.items
                           /\ \A k \in DOMAIN b.waits : IsFor(ps, b.waits[k], b.items[k])

BatchesInv ==
    /\ IsSeq(promises) /\ \A p \in DOMAIN promises : PromiseOK(promises[p])
    /\ \A at \in DOMAIN batchCells :
          /\ batchCells[at] \in DOMAIN promises
          /\ BatchPlaceOf(promises[batchCells[at]].item) = at
    /\ IsSeq(batches)
    /\ \A n \in DOMAIN batches : BatchOK(batches[n]) /\ Waits(batches[n], promises)

\* A request of one call, or of one batch.
OfOneCall(r) ==
    /\ r.from = "call"
    /\ \E call \in Calls : /\ r.items = <<call>>
                           /\ \E queries \in QueriesAt(PlaceOf(call)) : Holds(r.queries, 1, queries)

OfOneBatch(r) ==
    /\ r.from = "batch"
    /\ r.items \in BatchItems
    /\ \A k \in DOMAIN r.items : \E queries \in BatchQueriesAt(BatchPlaceOf(r.items[k])) :
          Holds(r.queries, k, queries)

RequestOK(r) ==
    /\ OfOneCall(r) \/ OfOneBatch(r)
    /\ PairsOK(r.queries, DOMAIN r.items)
    /\ r.isIdempotent /\ r.option = <<>> => AllMarked(r.queries)

SentInv == IsSeq(sent) /\ \A i \in DOMAIN sent : RequestOK(sent[i])

\* An answer is read by its own columns, and an adapter in the cache fits each answer.
CustomOK(r) ==
    /\ r = [query |-> r.query, columns |-> r.columns, adapter |-> r.adapter, state |-> r.state]
    /\ r.query \in DOMAIN CustomQueries
    /\ r.state = "done" => r.adapter = RowColumns(r.columns)

AdapterOK(q, adapter) ==
    q \in DOMAIN CustomQueries => \A columns \in CustomQueries[q] : adapter = RowColumns(columns)

CustomsInv ==
    /\ IsSeq(customs) /\ \A i \in DOMAIN customs : CustomOK(customs[i])
    /\ \A q \in DOMAIN customAdapters : AdapterOK(q, customAdapters[q])

(***************************************************************************)
(* The inductive invariant.  A cell of a cache only holds what was         *)
(* generated for a call with its key, so that every call that finds it has *)
(* the queries of such a call; and the flags and the positions of a batch  *)
(* are kept as the promises settle.                                        *)
(***************************************************************************)
MapperInv == CallsInv /\ BatchesInv /\ SentInv /\ CustomsInv

--------------------------------------------------------------------------
(* What a cell of the caches can hold                                      *)


\* Whatever the application calls, or has in a batch, is a call.
LEMMA AllAreCalls == \A call \in Calls \cup AllItems : IsCall(call)
BY CallsAssumption, WritesAssumption DEF AllItems, IsCall

\* What is generated for a call is of the call's key.
LEMMA OwnQueries ==
    ASSUME NEW call \in Calls, NEW known, Queries(call, known) # <<>>
    PROVE  Queries(call, known) \in QueriesAt(PlaceOf(call))
<1>1. Queries(call, known) = Queries(call, AllNames)
  BY QueriesNeedMetadata, CallsAssumption
<1> QED BY <1>1 DEF QueriesAt

\* Queries of the key of a call: a list of queries that calls call for, of one for a
\* SELECT, which is idempotent.
LEMMA QueriesAtFacts ==
    ASSUME NEW call \in Calls, NEW queries \in QueriesAt(PlaceOf(call))
    PROVE  /\ IsSeq(queries) /\ queries # <<>> /\ ToSet(queries) \subseteq AllQueries
           /\ IsSelect(call) => Len(queries) = 1 /\ queries[1].isIdempotent
<1>1. PICK c \in Calls : PlaceOf(c) = PlaceOf(call) /\ queries = Queries(c, AllNames)
  BY DEF QueriesAt
<1>2. queries # <<>>
  BY DEF QueriesAt
<1>3. c.op \in {"get", "find", "findAll"} \cup Writes /\ call.op \in {"get", "find", "findAll"} \cup Writes
  BY CallsAssumption
<1>4. IsSeq(queries) /\ (IsSelect(c) => Len(queries) <= 1)
  BY <1>1, <1>3, QueriesAreSeqs
<1>5. ToSet(queries) \subseteq AllQueries
  BY <1>1 DEF AllQueries
<1>6. ASSUME IsSelect(call) PROVE Len(queries) = 1 /\ queries[1].isIdempotent
  <2>1. TreeOf(c.op) = TreeOf(call.op)
    BY <1>1 DEF PlaceOf
  <2>2. IsSelect(c)
    BY <1>3, <1>6, <2>1 DEF TreeOf, IsSelect, Writes
  <2>3. Len(queries) = 1 /\ DOMAIN queries = 1..1
    <3>1. queries \in Seq(ToSet(queries)) /\ Len(queries) <= 1
      BY <1>4, <2>2 DEF IsSeq
    <3>2. Len(queries) \in Nat /\ DOMAIN queries = 1..Len(queries)
      BY <3>1
    <3>3. Len(queries) # 0
      BY <1>2, <3>1, NoElements
    <3> QED BY <3>1, <3>2, <3>3
  <2>4. 1 \in DOMAIN Queries(c, AllNames)
    BY <1>1, <2>3
  <2> QED BY <1>1, <2>2, <2>3, <2>4, SelectIsMarked
<1> QED BY <1>2, <1>4, <1>5, <1>6

--------------------------------------------------------------------------
(* The steps of a call                                                     *)


\* What leaves the variables of a part alone keeps its invariant.
LEMMA CallsUntouched == CallsInv /\ UNCHANGED callVars => CallsInv'
BY DEF CallsInv, PlacesInv, callVars

\* The same for the batches.
LEMMA BatchesUntouched == BatchesInv /\ UNCHANGED batchVars => BatchesInv'
BY DEF BatchesInv, batchVars

\* The same for the requests.
LEMMA SentUntouched == SentInv /\ UNCHANGED sent => SentInv'
BY DEF SentInv

\* The same for the custom queries.
LEMMA CustomsUntouched == CustomsInv /\ UNCHANGED customVars => CustomsInv'
BY DEF CustomsInv, customVars

\* One call more.
LEMMA CallAdded ==
    ASSUME CallsInv, NEW r, CallOK(r), calls' = Append(calls, r),
           DOMAIN cells \subseteq DOMAIN cells',
           r.state # "failed" => PlaceOf(r.call) \in DOMAIN cells'
    PROVE  IsSeq(calls') /\ (\A i \in DOMAIN calls' : CallOK(calls'[i])) /\ PlacesInv'
<1>1. IsSeq(calls) /\ \A i \in DOMAIN calls : CallOK(calls[i])
  BY DEF CallsInv
<1>2. /\ Len(calls) \in Nat /\ DOMAIN calls = 1..Len(calls)
      /\ IsSeq(calls') /\ DOMAIN calls' = 1..(Len(calls) + 1)
      /\ \A i \in DOMAIN calls : calls'[i] = calls[i]
      /\ calls'[Len(calls) + 1] = r
  BY <1>1, AppendSeq
<1>3. ASSUME NEW i \in DOMAIN calls'
      PROVE  /\ CallOK(calls'[i])
             /\ calls'[i].state # "failed" => PlaceOf(calls'[i].call) \in DOMAIN cells'
  <2>1. i \in DOMAIN calls \/ i = Len(calls) + 1
    BY <1>2
  <2>2. \A j \in DOMAIN calls :
           calls[j].state # "failed" => PlaceOf(calls[j].call) \in DOMAIN cells'
    BY DEF CallsInv, PlacesInv
  <2> QED BY <1>1, <1>2, <2>1, <2>2
<1> QED BY <1>2, <1>3 DEF PlacesInv

\* A call that goes on.
LEMMA CallChanged ==
    ASSUME CallsInv, NEW i \in DOMAIN calls, NEW r, CallOK(r), calls' = [calls EXCEPT ![i] = r],
           DOMAIN cells \subseteq DOMAIN cells', calls[i].state # "failed",
           r.call = calls[i].call
    PROVE  IsSeq(calls') /\ (\A j \in DOMAIN calls' : CallOK(calls'[j])) /\ PlacesInv'
<1>1. IsSeq(calls) /\ \A j \in DOMAIN calls : CallOK(calls[j])
  BY DEF CallsInv
<1>2. /\ IsSeq(calls') /\ DOMAIN calls' = DOMAIN calls
      /\ \A j \in DOMAIN calls : calls'[j] = IF j = i THEN r ELSE calls[j]
  BY <1>1, AssignSeq, Zenon
<1>3. ASSUME NEW j \in DOMAIN calls'
      PROVE  /\ CallOK(calls'[j])
             /\ calls'[j].state # "failed" => PlaceOf(calls'[j].call) \in DOMAIN cells'
  <2>1. \A k \in DOMAIN calls :
           calls[k].state # "failed" => PlaceOf(calls[k].call) \in DOMAIN cells'
    BY DEF CallsInv, PlacesInv
  <2> QED BY <1>1, <1>2, <2>1
<1> QED BY <1>2, <1>3 DEF PlacesInv

\* A cell that is filled.
LEMMA CellPut ==
    ASSUME CallsInv, NEW at, NEW cell, CellOK(at, cell), cells' = Put(cells, at, cell)
    PROVE  \A a \in DOMAIN cells' : CellOK(a, cells'[a])
<1> TAKE a \in DOMAIN cells'
<1>1. DOMAIN cells' = DOMAIN cells \cup {at}
      /\ cells'[a] = IF a = at THEN cell ELSE cells[a]
  BY DEF Put
<1> QED BY <1>1 DEF CallsInv

\* What an assignment to a field of a call gives.
LEMMA CallField ==
    ASSUME NEW call, NEW state, NEW queries, NEW result, NEW d, NEW t, NEW value,
           d = [call |-> call, state |-> state, queries |-> queries, result |-> result]
    PROVE  /\ t = [d EXCEPT !.queries = value] =>
                 t = [call |-> call, state |-> state, queries |-> value, result |-> result]
           /\ t = [d EXCEPT !.result = value] =>
                 t = [call |-> call, state |-> state, queries |-> queries, result |-> value]
OBVIOUS

\* The executor of a call is looked up, made at once, or its making is begun.
LEMMA ObtainStep ==
    ASSUME MapperInv, NEW call \in Calls, NEW made, Obtain(call, made),
           made # <<>> => made = Queries(call, AllNames)
    PROVE  MapperInv'
<1> DEFINE at == PlaceOf(call)
           cell == CellAt(at)
<1>1. made # <<>> => made \in QueriesAt(at)
  BY OwnQueries
<1>2. CellOK(at, cell)
  BY DEF CellAt, NewCell, CellOK, MapperInv, CallsInv
<1> HIDE DEF at, cell
<1>3. ASSUME NEW state \in {"generating", "ready", "failed"}, NEW queries,
             state = "ready" => queries \in QueriesAt(at)
      PROVE  CallOK(Call(call, state, queries))
  BY <1>3 DEF CallOK, Call, at
<1>4. CallsInv'
  <2>1. CASE call.op # "findAll" /\ call.doc = <<>>
    <3>1. calls' = Append(calls, Call(call, "failed", <<>>)) /\ cells' = cells
      BY <2>1 DEF Obtain
    <3>2. CallOK(Call(call, "failed", <<>>))
      BY <1>3
    <3>3. IsSeq(calls') /\ (\A i \in DOMAIN calls' : CallOK(calls'[i])) /\ PlacesInv'
      BY <3>1, <3>2, CallAdded DEF MapperInv, Call
    <3> QED BY <3>1, <3>3 DEF CallsInv, MapperInv
  <2>2. CASE ~(call.op # "findAll" /\ call.doc = <<>>)
    <3> DEFINE r == CASE cell.queries # <<>> -> Call(call, "ready", cell.queries)
                      [] cell.queries = <<>> /\ ThrowsAtOnce(call) -> Call(call, "failed", <<>>)
                      [] OTHER -> Call(call, IF made = <<>> THEN "generating" ELSE "ready", made)
               new == IF cell.queries = <<>> THEN [cell EXCEPT !.queries = made] ELSE cell
    <3>1. calls' = Append(calls, r) /\ cells' = Put(cells, at, new)
      BY <2>2 DEF Obtain, at, cell
    <3>2. CallOK(r)
      <4>1. CASE cell.queries # <<>>
        <5>1. r = Call(call, "ready", cell.queries) /\ cell.queries \in QueriesAt(at)
          BY <1>2, <4>1 DEF CellOK
        <5> QED BY <1>3, <5>1
      <4>2. CASE cell.queries = <<>> /\ ThrowsAtOnce(call)
        <5>1. r = Call(call, "failed", <<>>)
          BY <4>2
        <5> QED BY <1>3, <5>1
      <4>3. CASE cell.queries = <<>> /\ ~ThrowsAtOnce(call) /\ made = <<>>
        <5>1. r = Call(call, "generating", made)
          BY <4>3
        <5> QED BY <1>3, <5>1
      <4>4. CASE cell.queries = <<>> /\ ~ThrowsAtOnce(call) /\ made # <<>>
        <5>1. r = Call(call, "ready", made)
          BY <4>4
        <5> QED BY <1>1, <1>3, <4>4, <5>1
      <4> QED BY <4>1, <4>2, <4>3, <4>4
    <3>3. CellOK(at, new)
      <4>1. CASE cell.queries # <<>>
        BY <1>2, <4>1
      <4>2. CASE cell.queries = <<>>
        <5>1. cell = [queries |-> cell.queries, adapter |-> cell.adapter]
          BY <1>2 DEF CellOK
        <5>2. new = [queries |-> made, adapter |-> cell.adapter]
          BY <4>2, <5>1
        <5> HIDE DEF new
        <5> QED BY <1>1, <1>2, <5>2 DEF CellOK
      <4> QED BY <4>1, <4>2
    <3>6. r.call = call
      BY DEF Call
    <3> HIDE DEF r, new
    <3>7. DOMAIN cells' = DOMAIN cells \cup {at}
      BY <3>1 DEF Put
    <3>4. IsSeq(calls') /\ (\A i \in DOMAIN calls' : CallOK(calls'[i])) /\ PlacesInv'
      BY <3>1, <3>2, <3>6, <3>7, CallAdded DEF MapperInv, at
    <3>5. \A a \in DOMAIN cells' : CellOK(a, cells'[a])
      BY <3>1, <3>3, CellPut DEF MapperInv
    <3> QED BY <3>4, <3>5 DEF CallsInv
  <2> QED BY <2>1, <2>2
<1>5. UNCHANGED <<batchVars, customVars, sent>>
  BY DEF Obtain
<1> QED BY <1>4, <1>5, BatchesUntouched, SentUntouched, CustomsUntouched DEF MapperInv

\* The queries of a call are generated, or the call fails.
LEMMA GenerateStep ==
    ASSUME MapperInv, NEW i \in DOMAIN calls, Generate(i)
    PROVE  MapperInv'
<1> DEFINE call == calls[i].call
           at == PlaceOf(call)
<1>1. CallOK(calls[i]) /\ call \in Calls /\ calls[i].state = "generating"
  BY DEF MapperInv, CallsInv, CallOK, Generate
<1>2. PICK known \in Known :
         IF Queries(call, known) = <<>>
         THEN calls' = [calls EXCEPT ![i].state = "failed"] /\ UNCHANGED cells
         ELSE /\ calls' = [calls EXCEPT ![i].state = "ready", ![i].queries = Queries(call, known)]
              /\ cells' = [cells EXCEPT ![at].queries = Queries(call, known)]
  BY Zenon DEF Generate
<1> DEFINE queries == Queries(call, known)
<1>3. ASSUME queries = <<>> PROVE CallsInv'
  <2> DEFINE r == [calls[i] EXCEPT !.state = "failed"]
  <2>1. calls' = [calls EXCEPT ![i] = r] /\ cells' = cells
    BY <1>2, <1>3
  <2>2. CallOK(r) /\ r.call = calls[i].call
    BY <1>1 DEF CallOK
  <2> HIDE DEF r
  <2>3. IsSeq(calls') /\ (\A j \in DOMAIN calls' : CallOK(calls'[j])) /\ PlacesInv'
    BY <1>1, <2>1, <2>2, CallChanged, Zenon DEF MapperInv
  <2> QED BY <2>1, <2>3 DEF CallsInv, MapperInv
<1>4. ASSUME queries # <<>> PROVE CallsInv'
  <2> DEFINE r == [calls[i] EXCEPT !.state = "ready", !.queries = queries]
  <2>1. calls' = [calls EXCEPT ![i] = r] /\ cells' = [cells EXCEPT ![at].queries = queries]
    BY <1>2, <1>4
  <2>2. queries \in QueriesAt(at)
    BY <1>1, <1>4, OwnQueries
  <2> HIDE DEF queries
  <2>3. CallOK(r) /\ r.call = call
    <3>1. r = [call |-> call, state |-> "ready", queries |-> queries, result |-> calls[i].result]
      <4> DEFINE c == calls[i]
      <4>1. c = [call |-> c.call, state |-> c.state, queries |-> c.queries, result |-> c.result]
        BY <1>1 DEF CallOK
      <4> DEFINE d == [c EXCEPT !.state = "ready"]
      <4>2. r = [d EXCEPT !.queries = queries]
        OBVIOUS
      <4> HIDE DEF c, r
      <4>3. d = [call |-> c.call, state |-> "ready", queries |-> c.queries, result |-> c.result]
        BY <4>1
      <4> HIDE DEF d
      <4>4. r = [call |-> c.call, state |-> "ready", queries |-> queries, result |-> c.result]
        BY <4>2, <4>3, CallField
      <4> QED BY <4>4, Zenon DEF c
    <3> HIDE DEF r, call
    <3> QED BY <1>1, <2>2, <3>1 DEF CallOK
  <2> HIDE DEF r
  <2>4. IsSeq(calls') /\ (\A j \in DOMAIN calls' : CallOK(calls'[j])) /\ PlacesInv'
    <3>1. DOMAIN cells' = DOMAIN cells
      BY <2>1
    <3> QED BY <1>1, <2>1, <2>3, <3>1, CallChanged, Zenon DEF MapperInv
  <2>5. ASSUME NEW a \in DOMAIN cells' PROVE CellOK(a, cells'[a])
    <3>1. DOMAIN cells' = DOMAIN cells
      BY <2>1
    <3>2. CellOK(a, cells[a])
      BY <3>1 DEF MapperInv, CallsInv
    <3>3. CASE a # at
      <4>1. cells'[a] = cells[a]
        BY <2>1, <3>1, <3>3
      <4> QED BY <3>2, <4>1
    <3>4. CASE a = at
      <4>1. cells[a] = [queries |-> cells[a].queries, adapter |-> cells[a].adapter]
        BY <3>2 DEF CellOK
      <4>2. cells'[a] = [cells[a] EXCEPT !.queries = queries]
        BY <2>1, <3>1, <3>4
      <4>3. cells'[a] = [queries |-> queries, adapter |-> cells[a].adapter]
        BY <4>1, <4>2
      <4> QED BY <2>2, <3>2, <3>4, <4>3, SMTT(20) DEF CellOK
    <3> QED BY <3>3, <3>4
  <2> QED BY <2>4, <2>5 DEF CallsInv
<1>5. UNCHANGED <<batchVars, customVars, sent>>
  BY DEF Generate
<1>6. CallsInv'
  BY <1>3, <1>4
<1> QED BY <1>5, <1>6, BatchesUntouched, SentUntouched, CustomsUntouched DEF MapperInv

\* A list of one query is sent as one, and others as a batch, in their order.
LEMMA RequestHolds ==
    ASSUME NEW queries, IsSeq(queries), NEW request,
           request = [k \in DOMAIN queries |-> <<1, queries[k]>>]
    PROVE  /\ IsSeq(request) /\ Holds(request, 1, queries)
           /\ Len(queries) = 1 => <<<<1, queries[1]>>>> = request
<1>1. Len(queries) \in Nat /\ DOMAIN queries = 1..Len(queries)
  BY DEF IsSeq
<1>2. IsSeq(request) /\ Len(request) = Len(queries) /\ DOMAIN request = DOMAIN queries
  BY MappedSeq
<1>3. Holds(request, 1, queries)
  <2>1. ASSUME NEW j \in DOMAIN request
        PROVE  IF j > 0 /\ j <= 0 + Len(queries) THEN request[j] = <<1, queries[j - 0]>>
                                                ELSE request[j][1] # 1
    <3>1. j > 0 /\ j <= 0 + Len(queries) /\ j - 0 = j
      BY <1>1, <1>2
    <3>2. request[j] = <<1, queries[j]>>
      BY <1>2
    <3> QED BY <3>1, <3>2
  <2>2. 0 \in 0..Len(request) /\ 0 + Len(queries) <= Len(request)
    BY <1>1, <1>2
  <2> QED BY <2>1, <2>2, Zenon DEF Holds
<1>4. ASSUME Len(queries) = 1 PROVE <<<<1, queries[1]>>>> = request
  BY <1>1, <1>4
<1> QED BY <1>2, <1>3, <1>4

\* One request more.
LEMMA RequestAdded ==
    ASSUME SentInv, NEW r, RequestOK(r), sent' = Append(sent, r)
    PROVE  SentInv'
<1>1. IsSeq(sent) /\ \A i \in DOMAIN sent : RequestOK(sent[i])
  BY DEF SentInv
<1>2. /\ Len(sent) \in Nat /\ DOMAIN sent = 1..Len(sent)
      /\ IsSeq(sent') /\ DOMAIN sent' = 1..(Len(sent) + 1)
      /\ \A i \in DOMAIN sent : sent'[i] = sent[i]
      /\ sent'[Len(sent) + 1] = r
  BY <1>1, AppendSeq
<1>3. ASSUME NEW i \in DOMAIN sent' PROVE RequestOK(sent'[i])
  <2>1. i \in DOMAIN sent \/ i = Len(sent) + 1
    BY <1>2
  <2> QED BY <1>1, <1>2, <2>1
<1> QED BY <1>2, <1>3 DEF SentInv

\* A call is sent with the queries of its cell.
LEMMA ExecuteStep ==
    ASSUME MapperInv, NEW i \in DOMAIN calls, Execute(i)
    PROVE  MapperInv'
<1> DEFINE r == calls[i]
           call == r.call
           queries == r.queries
           request == RequestOf(r)
           throws == GetterThrows(call, queries)
           state == IF throws THEN "failed" ELSE "sent"
           pairs == [k \in DOMAIN queries |-> <<1, queries[k]>>]
<1>1. /\ r.state = "ready" /\ sent' = IF throws THEN sent ELSE Append(sent, request)
      /\ calls' = [calls EXCEPT ![i].state = state]
      /\ UNCHANGED <<cells, batchVars, customVars>>
  BY DEF Execute
<1>2. CallOK(r)
  BY DEF MapperInv, CallsInv
<1>3. call \in Calls /\ queries \in QueriesAt(PlaceOf(call))
  BY <1>1, <1>2 DEF CallOK
<1>4. CallsInv'
  <2> DEFINE s == [r EXCEPT !.state = state]
  <2>1. calls' = [calls EXCEPT ![i] = s] /\ cells' = cells
    BY <1>1
  <2>3. s = [call |-> call, state |-> state, queries |-> queries, result |-> r.result]
    <3>1. r = [call |-> r.call, state |-> r.state, queries |-> r.queries, result |-> r.result]
      BY <1>2 DEF CallOK
    <3> HIDE DEF r, state
    <3> QED BY <3>1
  <2>4. CallOK(s) /\ s.call = call
    <3>1. state \in {"sent", "failed"}
      OBVIOUS
    <3> HIDE DEF s, call, queries, state
    <3> QED BY <1>3, <2>3, <3>1 DEF CallOK
  <2> HIDE DEF s
  <2>5. IsSeq(calls') /\ (\A j \in DOMAIN calls' : CallOK(calls'[j])) /\ PlacesInv'
    BY <1>1, <2>1, <2>4, CallChanged, Zenon DEF MapperInv
  <2> QED BY <2>1, <2>5 DEF CallsInv, MapperInv
<1>5. /\ IsSeq(queries) /\ queries # <<>> /\ ToSet(queries) \subseteq AllQueries
      /\ IsSelect(call) => Len(queries) = 1 /\ queries[1].isIdempotent
  BY <1>3, QueriesAtFacts
<1>6. /\ IsSeq(pairs) /\ Holds(pairs, 1, queries)
      /\ Len(queries) = 1 => <<<<1, queries[1]>>>> = pairs
  <2> HIDE DEF queries
  <2> QED BY <1>5, RequestHolds, SMTT(20)
<1>7. /\ request.from = "call" /\ request.option = call.idempotent
      /\ request.items = <<call>> /\ request.queries = pairs
      /\ (request.isIdempotent /\ call.idempotent = <<>>) =>
            \A k \in DOMAIN queries : queries[k].isIdempotent
  <2>1. Len(queries) = 1 => DOMAIN queries = {1}
    BY <1>5 DEF IsSeq
  <2>2. CASE IsSelect(call)
    <3>1. request = CallRequest(call, <<<<1, queries[1]>>>>, TRUE)
      BY <2>2 DEF RequestOf, SelectRequest
    <3> HIDE DEF request, queries, call, pairs
    <3> QED BY <1>5, <1>6, <2>1, <2>2, <3>1 DEF CallRequest, Request
  <2>3. CASE ~IsSelect(call) /\ Len(queries) = 1
    <3>1. request = CallRequest(call, <<<<1, queries[1]>>>>,
                                Idempotency(call.idempotent, queries[1].isIdempotent))
      BY <2>3 DEF RequestOf, SingleRequest
    <3> HIDE DEF request, queries, call, pairs
    <3> QED BY <1>5, <1>6, <2>1, <2>3, <3>1 DEF CallRequest, Request, Idempotency
  <2>4. CASE ~IsSelect(call) /\ Len(queries) # 1
    <3>1. request = CallRequest(call, pairs, Idempotency(call.idempotent, AllIdempotent(queries)))
      BY <2>4 DEF RequestOf, BatchRequest
    <3> HIDE DEF request, queries, call, pairs
    <3> QED BY <1>5, <1>6, <2>4, <3>1 DEF CallRequest, Request, Idempotency, AllIdempotent, ToSet
  <2> QED BY <2>2, <2>3, <2>4
<1>8. RequestOK(request)
  <2>1. OfOneCall(request)
    <3> HIDE DEF request, pairs, queries, call
    <3> QED BY <1>3, <1>6, <1>7 DEF OfOneCall
  <2>2. DOMAIN pairs = DOMAIN queries /\ \A j \in DOMAIN pairs : pairs[j] = <<1, queries[j]>>
    OBVIOUS
  <2>3. \A j \in DOMAIN queries : queries[j] \in AllQueries
    BY <1>5 DEF ToSet
  <2>4. PairsOK(request.queries, DOMAIN request.items)
    <3>1. DOMAIN <<call>> = {1}
      OBVIOUS
    <3> HIDE DEF request, pairs, queries, call
    <3> QED BY <1>6, <1>7, <2>2, <2>3, <3>1 DEF PairsOK
  <2>5. ASSUME request.isIdempotent, request.option = <<>> PROVE AllMarked(request.queries)
    <3> HIDE DEF request, pairs, queries, call
    <3> QED BY <1>7, <2>2, <2>5 DEF AllMarked
  <2> HIDE DEF request
  <2> QED BY <2>1, <2>4, <2>5 DEF RequestOK
<1> HIDE DEF request
<1>9. SentInv'
  <2>1. CASE throws
    BY <1>1, <2>1 DEF MapperInv, SentInv
  <2>2. CASE ~throws
    BY <1>1, <1>8, <2>2, RequestAdded DEF MapperInv
  <2> QED BY <2>1, <2>2
<1> QED BY <1>1, <1>4, <1>9, BatchesUntouched, CustomsUntouched DEF MapperInv

\* The answer: the row adapter of a cell is made from the result of queries of its key.
LEMMA AnswerStep ==
    ASSUME MapperInv, NEW i \in DOMAIN calls, Answer(i)
    PROVE  MapperInv'
<1> DEFINE r == calls[i]
           call == r.call
           at == PlaceOf(call)
           adapter == IF ~IsSelect(call) THEN <<>>
                      ELSE IF cells[at].adapter # <<>> THEN cells[at].adapter
                      ELSE ResultColumns(r.queries[1].query)
           s == [r EXCEPT !.state = "done", !.result = Adapted(adapter)]
<1>1. /\ r.state = "sent" /\ calls' = [calls EXCEPT ![i] = s]
      /\ cells' = IF IsSelect(call) THEN [cells EXCEPT ![at].adapter = adapter] ELSE cells
      /\ UNCHANGED <<batchVars, customVars, sent>>
  BY Zenon DEF Answer
<1>2. CallOK(r)
  BY DEF MapperInv, CallsInv
<1>3. call \in Calls /\ r.queries \in QueriesAt(at)
  BY <1>1, <1>2 DEF CallOK
<1>4. at \in DOMAIN cells /\ CellOK(at, cells[at])
  BY <1>1 DEF MapperInv, CallsInv, PlacesInv
<1>5. IsSelect(call) => \E queries \in QueriesAt(at) : adapter = AdapterFor(queries)
  <2> HIDE DEF at, call, r
  <2> QED BY <1>3, <1>4 DEF CellOK, AdapterFor
<1> HIDE DEF adapter
<1>6. s = [call |-> call, state |-> "done", queries |-> r.queries, result |-> Adapted(adapter)]
  <2> DEFINE result == Adapted(adapter)
  <2>1. r = [call |-> r.call, state |-> r.state, queries |-> r.queries, result |-> r.result]
    BY <1>2 DEF CallOK
  <2> DEFINE d == [r EXCEPT !.state = "done"]
  <2>2. s = [d EXCEPT !.result = result]
    OBVIOUS
  <2> HIDE DEF r, s, result
  <2>3. d = [call |-> r.call, state |-> "done", queries |-> r.queries, result |-> r.result]
    BY <2>1
  <2> HIDE DEF d
  <2>4. s = [call |-> r.call, state |-> "done", queries |-> r.queries, result |-> result]
    BY <2>2, <2>3, CallField
  <2> QED BY <2>4, Zenon DEF result
<1>7. CallOK(s) /\ s.call = call
  <2> HIDE DEF s, call
  <2> QED BY <1>3, <1>5, <1>6 DEF CallOK
<1> HIDE DEF s
<1>8. DOMAIN cells' = DOMAIN cells
  BY <1>1
<1>9. IsSeq(calls') /\ (\A j \in DOMAIN calls' : CallOK(calls'[j])) /\ PlacesInv'
  BY <1>1, <1>7, <1>8, CallChanged, Zenon DEF MapperInv
<1>10. ASSUME NEW a \in DOMAIN cells' PROVE CellOK(a, cells'[a])
  <2>1. CellOK(a, cells[a])
    BY <1>8 DEF MapperInv, CallsInv
  <2>2. CASE ~IsSelect(call) \/ a # at
    <3>1. cells'[a] = cells[a]
      BY <1>1, <1>8, <2>2
    <3> QED BY <2>1, <3>1
  <2>3. CASE IsSelect(call) /\ a = at
    <3>1. cells[a] = [queries |-> cells[a].queries, adapter |-> cells[a].adapter]
      BY <2>1 DEF CellOK
    <3>2. cells'[a] = [cells[a] EXCEPT !.adapter = adapter]
      BY <1>1, <1>8, <2>3
    <3>3. cells'[a] = [queries |-> cells[a].queries, adapter |-> adapter]
      BY <3>1, <3>2
    <3> QED BY <1>5, <2>1, <2>3, <3>3 DEF CellOK
  <2> QED BY <2>2, <2>3
<1>11. CallsInv'
  BY <1>9, <1>10 DEF CallsInv
<1> QED BY <1>1, <1>11, BatchesUntouched, SentUntouched, CustomsUntouched DEF MapperInv

--------------------------------------------------------------------------
(* The steps of a custom query                                             *)


\* A custom query is sent.
LEMMA ExecuteCustomStep ==
    ASSUME MapperInv, NEW query \in DOMAIN CustomQueries, ExecuteCustom(query)
    PROVE  MapperInv'
<1> DEFINE r == [query |-> query, columns |-> <<>>, adapter |-> <<>>, state |-> "sent"]
<1>1. customs' = Append(customs, r) /\ UNCHANGED <<callVars, batchVars, customAdapters, sent>>
  BY DEF ExecuteCustom
<1>2. CustomOK(r)
  BY DEF CustomOK
<1> HIDE DEF r
<1>3. IsSeq(customs) /\ \A i \in DOMAIN customs : CustomOK(customs[i])
  BY DEF MapperInv, CustomsInv
<1>4. /\ Len(customs) \in Nat /\ DOMAIN customs = 1..Len(customs)
      /\ IsSeq(customs') /\ DOMAIN customs' = 1..(Len(customs) + 1)
      /\ \A i \in DOMAIN customs : customs'[i] = customs[i]
      /\ customs'[Len(customs) + 1] = r
  BY <1>1, <1>3, AppendSeq
<1>5. ASSUME NEW i \in DOMAIN customs' PROVE CustomOK(customs'[i])
  <2>1. i \in DOMAIN customs \/ i = Len(customs) + 1
    BY <1>4
  <2> QED BY <1>2, <1>3, <1>4, <2>1
<1>6. CustomsInv'
  BY <1>1, <1>4, <1>5 DEF CustomsInv, MapperInv
<1> QED BY <1>1, <1>6, CallsUntouched, BatchesUntouched, SentUntouched DEF MapperInv

\* Its answer is read by the adapter of an earlier one, or by its own.
LEMMA AnswerCustomStep ==
    ASSUME MapperInv, NEW i \in DOMAIN customs, AnswerCustom(i)
    PROVE  MapperInv'
<1> DEFINE query == customs[i].query
           cached == query \in DOMAIN customAdapters
<1>1. PICK columns \in CustomQueries[query] :
         LET adapter == IF cached THEN customAdapters[query] ELSE RowColumns(columns)
         IN /\ customs' = [customs EXCEPT ![i] = [query |-> query, columns |-> columns,
                                                  adapter |-> adapter, state |-> "done"]]
            /\ customAdapters' = IF cached \/ ~CanCache(columns) THEN customAdapters
                                 ELSE Put(customAdapters, query, adapter)
  BY Zenon DEF AnswerCustom
<1> DEFINE adapter == IF cached THEN customAdapters[query] ELSE RowColumns(columns)
           r == [query |-> query, columns |-> columns, adapter |-> adapter, state |-> "done"]
<1>2. IsSeq(customs) /\ \A j \in DOMAIN customs : CustomOK(customs[j])
  BY DEF MapperInv, CustomsInv
<1>3. \A q \in DOMAIN customAdapters : AdapterOK(q, customAdapters[q])
  BY DEF MapperInv, CustomsInv
<1>4. query \in DOMAIN CustomQueries
  BY <1>2 DEF CustomOK
<1>5. adapter = RowColumns(columns)
  BY <1>3, <1>4 DEF AdapterOK
<1>6. /\ customs' = [customs EXCEPT ![i] = r]
      /\ customAdapters' = IF cached \/ ~CanCache(columns) THEN customAdapters
                           ELSE Put(customAdapters, query, adapter)
  BY <1>1
<1>7. UNCHANGED <<callVars, batchVars, sent>>
  BY DEF AnswerCustom
<1> HIDE DEF adapter, query
<1>8. CustomOK(r)
  BY <1>4, <1>5 DEF CustomOK
<1>9. IsSeq(customs') /\ \A j \in DOMAIN customs' : CustomOK(customs'[j])
  <2> HIDE DEF r
  <2>1. /\ IsSeq(customs') /\ DOMAIN customs' = DOMAIN customs
        /\ \A j \in DOMAIN customs : customs'[j] = IF j = i THEN r ELSE customs[j]
    BY <1>2, <1>6, AssignSeq, Zenon
  <2> QED BY <1>2, <1>8, <2>1
<1>10. \A q \in DOMAIN customAdapters' : AdapterOK(q, customAdapters'[q])
  <2>1. CASE cached \/ ~CanCache(columns)
    BY <1>3, <1>6, <2>1
  <2>2. CASE ~cached /\ CanCache(columns)
    <3>1. customAdapters' = Put(customAdapters, query, adapter)
      BY <1>6, <2>2
    <3>2. \A d \in CustomQueries[query] : d = columns
      BY <1>4, <2>2, CustomQueriesAssumption DEF CanCache
    <3>3. AdapterOK(query, adapter)
      BY <1>5, <3>2 DEF AdapterOK
    <3>4. /\ DOMAIN customAdapters' = DOMAIN customAdapters \cup {query}
          /\ \A q \in DOMAIN customAdapters' :
                customAdapters'[q] = IF q = query THEN adapter ELSE customAdapters[q]
      BY <3>1 DEF Put
    <3> QED BY <1>3, <3>3, <3>4
  <2> QED BY <2>1, <2>2
<1>11. CustomsInv'
  BY <1>9, <1>10 DEF CustomsInv
<1> QED BY <1>7, <1>11, CallsUntouched, BatchesUntouched, SentUntouched DEF MapperInv

--------------------------------------------------------------------------
(* The steps of a batch                                                    *)


\* What is generated for an item is of the item's key.
LEMMA OwnBatchQueries ==
    ASSUME NEW item \in AllItems, NEW known, Queries(item, known) # <<>>
    PROVE  /\ Queries(item, known) = Queries(item, AllNames)
           /\ Queries(item, known) \in BatchQueriesAt(BatchPlaceOf(item))
<1>1. Queries(item, known) = Queries(item, AllNames)
  BY QueriesNeedMetadata, CallsAssumption DEF AllItems
<1> QED BY <1>1 DEF BatchQueriesAt

\* Promises that are added or settled are still for the places of the items.
LEMMA WaitsKept ==
    ASSUME NEW b, NEW ps, NEW qs, Waits(b, ps), DOMAIN ps \subseteq DOMAIN qs,
           \A p \in DOMAIN ps : qs[p].item = ps[p].item
    PROVE  Waits(b, qs)
BY DEF Waits, IsFor

\* The queries of an item are created, or the promise of them is rejected.
LEMMA SettleQueriesStep ==
    ASSUME MapperInv, NEW p \in DOMAIN promises, SettleQueries(p)
    PROVE  MapperInv'
<1>1. PICK known \in Known :
         promises' = [promises EXCEPT ![p].queries = Queries(promises[p].item, known),
             ![p].state = IF Queries(promises[p].item, known) = <<>> THEN "rejected" ELSE "resolved"]
  BY Zenon DEF SettleQueries
<1> DEFINE item == promises[p].item
           queries == Queries(item, known)
           state == IF queries = <<>> THEN "rejected" ELSE "resolved"
           r == [promises[p] EXCEPT !.queries = queries, !.state = state]
<1>2. UNCHANGED <<callVars, batchCells, batches, customVars, sent>>
  BY DEF SettleQueries
<1>3. IsSeq(promises) /\ \A q \in DOMAIN promises : PromiseOK(promises[q])
  BY DEF MapperInv, BatchesInv
<1>4. item \in AllItems
  BY <1>3 DEF PromiseOK
<1>5. promises' = [promises EXCEPT ![p] = r]
  BY <1>1, Zenon
<1>6. r = [item |-> item, state |-> state, queries |-> queries]
  <2> DEFINE d == [promises[p] EXCEPT !.queries = queries]
  <2>1. promises[p] = [item |-> item, state |-> promises[p].state, queries |-> promises[p].queries]
    BY <1>3 DEF PromiseOK
  <2>2. r = [d EXCEPT !.state = state]
    OBVIOUS
  <2> HIDE DEF queries, state, r, item
  <2>3. d = [item |-> item, state |-> promises[p].state, queries |-> queries]
    BY <2>1
  <2> HIDE DEF d
  <2> QED BY <2>2, <2>3
<1> HIDE DEF r
<1>7. PromiseOK(r) /\ r.item = item
  <2>1. queries # <<>> => queries = Queries(item, AllNames)
    BY <1>4, OwnBatchQueries
  <2> HIDE DEF item, queries
  <2> QED BY <1>4, <1>6, <2>1 DEF PromiseOK
<1>8. /\ IsSeq(promises') /\ DOMAIN promises' = DOMAIN promises
      /\ \A j \in DOMAIN promises : promises'[j] = IF j = p THEN r ELSE promises[j]
  BY <1>3, <1>5, AssignSeq, Zenon
<1>9. \A q \in DOMAIN promises' : PromiseOK(promises'[q]) /\ promises'[q].item = promises[q].item
  BY <1>3, <1>7, <1>8
<1>10. \A at \in DOMAIN batchCells' : /\ batchCells'[at] \in DOMAIN promises'
                                      /\ BatchPlaceOf(promises'[batchCells'[at]].item) = at
  <2>1. batchCells' = batchCells
    BY <1>2
  <2> QED BY <1>8, <1>9, <2>1 DEF MapperInv, BatchesInv
<1>11. IsSeq(batches') /\ \A n \in DOMAIN batches' : BatchOK(batches'[n]) /\ Waits(batches'[n], promises')
  <2>1. batches' = batches
    BY <1>2
  <2>2. \A n \in DOMAIN batches : Waits(batches[n], promises')
    BY <1>8, <1>9, WaitsKept, SMTT(20) DEF MapperInv, BatchesInv
  <2> QED BY <2>1, <2>2 DEF MapperInv, BatchesInv
<1>12. BatchesInv'
  BY <1>8, <1>9, <1>10, <1>11 DEF BatchesInv
<1> QED BY <1>2, <1>12, CallsUntouched, SentUntouched, CustomsUntouched DEF MapperInv

\* A batch that goes on.
LEMMA BatchChanged ==
    ASSUME BatchesInv, NEW n \in DOMAIN batches, NEW b, BatchOK(b), Waits(b, promises),
           batches' = [batches EXCEPT ![n] = b], UNCHANGED <<batchCells, promises>>
    PROVE  BatchesInv'
<1>1. IsSeq(batches) /\ \A m \in DOMAIN batches : BatchOK(batches[m]) /\ Waits(batches[m], promises)
  BY DEF BatchesInv
<1>2. /\ IsSeq(batches') /\ DOMAIN batches' = DOMAIN batches
      /\ \A m \in DOMAIN batches : batches'[m] = IF m = n THEN b ELSE batches[m]
  BY <1>1, AssignSeq, Zenon
<1>3. ASSUME NEW m \in DOMAIN batches' PROVE BatchOK(batches'[m]) /\ Waits(batches'[m], promises')
  BY <1>1, <1>2
<1> QED BY <1>2, <1>3 DEF BatchesInv

\* What an assignment to a field of a batch gives.
LEMMA BatchField ==
    ASSUME NEW items, NEW waits, NEW pushed, NEW queries, NEW isIdempotent, NEW isCounter, NEW state,
           NEW b, NEW t, NEW value,
           b = [items |-> items, waits |-> waits, pushed |-> pushed, queries |-> queries,
                isIdempotent |-> isIdempotent, isCounter |-> isCounter, state |-> state]
    PROVE  /\ t = [b EXCEPT !.pushed = value] =>
                 t = [items |-> items, waits |-> waits, pushed |-> value, queries |-> queries,
                      isIdempotent |-> isIdempotent, isCounter |-> isCounter, state |-> state]
           /\ t = [b EXCEPT !.queries = value] =>
                 t = [items |-> items, waits |-> waits, pushed |-> pushed, queries |-> value,
                      isIdempotent |-> isIdempotent, isCounter |-> isCounter, state |-> state]
           /\ t = [b EXCEPT !.isIdempotent = value] =>
                 t = [items |-> items, waits |-> waits, pushed |-> pushed, queries |-> queries,
                      isIdempotent |-> value, isCounter |-> isCounter, state |-> state]
           /\ t = [b EXCEPT !.isCounter = value] =>
                 t = [items |-> items, waits |-> waits, pushed |-> pushed, queries |-> queries,
                      isIdempotent |-> isIdempotent, isCounter |-> value, state |-> state]
           /\ t = [b EXCEPT !.state = value] =>
                 t = [items |-> items, waits |-> waits, pushed |-> pushed, queries |-> queries,
                      isIdempotent |-> isIdempotent, isCounter |-> isCounter, state |-> value]
OBVIOUS

\* The queries of one item more, after those of the others.
LEMMA BlockAdded ==
    ASSUME NEW old, NEW pushed, PairsOK(old, pushed), NEW k, k \notin pushed,
           NEW queries, IsSeq(queries), ToSet(queries) \subseteq AllQueries,
           NEW added, added = [q \in DOMAIN queries |-> <<k, queries[q]>>]
    PROVE  /\ PairsOK(old \o added, pushed \cup {k})
           /\ Holds(old \o added, k, queries)
           /\ \A other : \A j \in pushed :
                 (IsSeq(other) /\ Holds(old, j, other)) => Holds(old \o added, j, other)
           /\ AllMarked(old) /\ AllIdempotent(queries) => AllMarked(old \o added)
<1> DEFINE all == old \o added
<1>1. IsSeq(old) /\ \A j \in DOMAIN old : old[j][1] \in pushed /\ old[j][2] \in AllQueries
  BY DEF PairsOK
<1>2. IsSeq(added) /\ Len(added) = Len(queries) /\ DOMAIN added = DOMAIN queries
  BY MappedSeq
<1>3. /\ Len(old) \in Nat /\ DOMAIN old = 1..Len(old)
      /\ Len(queries) \in Nat /\ DOMAIN queries = 1..Len(queries)
      /\ IsSeq(all) /\ Len(all) = Len(old) + Len(queries)
      /\ DOMAIN all = 1..(Len(old) + Len(queries))
      /\ \A i \in DOMAIN all : all[i] = IF i <= Len(old) THEN old[i] ELSE added[i - Len(old)]
  BY <1>1, <1>2, ConcatSeq
<1> HIDE DEF all
<1>4. ASSUME NEW i \in DOMAIN all, i <= Len(old)
      PROVE  i \in DOMAIN old /\ all[i] = old[i] /\ all[i][1] \in pushed
  <2>1. i \in DOMAIN old
    BY <1>3, <1>4
  <2>2. all[i] = old[i]
    BY <1>3, <1>4
  <2> QED BY <1>1, <2>1, <2>2
<1>5. ASSUME NEW i \in DOMAIN all, ~(i <= Len(old))
      PROVE  i - Len(old) \in DOMAIN queries /\ all[i] = <<k, queries[i - Len(old)]>>
  <2>1. i - Len(old) \in DOMAIN queries
    BY <1>3, <1>5
  <2> QED BY <1>3, <1>5, <2>1, SMTT(20)
<1>6. PairsOK(all, pushed \cup {k})
  <2>1. \A i \in DOMAIN queries : queries[i] \in AllQueries
    BY DEF ToSet
  <2> QED BY <1>1, <1>3, <1>4, <1>5, <2>1 DEF PairsOK
<1>7. Holds(all, k, queries)
  <2>1. ASSUME NEW j \in DOMAIN all
        PROVE  IF j > Len(old) /\ j <= Len(old) + Len(queries)
               THEN all[j] = <<k, queries[j - Len(old)]>> ELSE all[j][1] # k
    <3>1. CASE j <= Len(old)
      <4>1. ~(j > Len(old))
        BY <1>3, <3>1
      <4> QED BY <1>4, <3>1, <4>1
    <3>2. CASE ~(j <= Len(old))
      <4>1. j > Len(old) /\ j <= Len(old) + Len(queries)
        BY <1>3, <3>2
      <4> QED BY <1>5, <3>2, <4>1
    <3> QED BY <3>1, <3>2
  <2>2. Len(old) \in 0..Len(all) /\ Len(old) + Len(queries) <= Len(all)
    BY <1>3
  <2> QED BY <2>1, <2>2 DEF Holds
<1>8. ASSUME NEW j \in pushed, NEW other, IsSeq(other), Holds(old, j, other)
      PROVE  Holds(all, j, other)
  <2>1. PICK a \in 0..Len(old) :
           /\ a + Len(other) <= Len(old)
           /\ \A i \in DOMAIN old :
                 IF i > a /\ i <= a + Len(other) THEN old[i] = <<j, other[i - a]>> ELSE old[i][1] # j
    BY <1>8 DEF Holds
  <2>2. Len(other) \in Nat
    BY <1>8 DEF IsSeq
  <2>3. ASSUME NEW i \in DOMAIN all
        PROVE  IF i > a /\ i <= a + Len(other) THEN all[i] = <<j, other[i - a]>> ELSE all[i][1] # j
    <3>1. CASE i <= Len(old)
      BY <1>4, <2>1, <3>1
    <3>2. CASE ~(i <= Len(old))
      <4>1. ~(i <= a + Len(other))
        BY <1>3, <2>1, <2>2, <3>2
      <4>2. all[i][1] = k /\ k # j
        BY <1>5, <3>2
      <4> QED BY <4>1, <4>2
    <3> QED BY <3>1, <3>2
  <2>4. a \in 0..Len(all) /\ a + Len(other) <= Len(all)
    BY <1>3, <2>1, <2>2
  <2> QED BY <2>3, <2>4 DEF Holds
<1>9. ASSUME AllMarked(old), AllIdempotent(queries) PROVE AllMarked(all)
  <2>1. \A i \in DOMAIN queries : queries[i].isIdempotent
    BY <1>9 DEF AllIdempotent, ToSet
  <2> QED BY <1>4, <1>5, <1>9, <2>1 DEF AllMarked
<1> QED BY <1>6, <1>7, <1>8, <1>9 DEF all

\* The queries at a place of the batches are lists of queries that calls call for.
LEMMA BatchQueriesFacts ==
    ASSUME NEW at, NEW queries \in BatchQueriesAt(at)
    PROVE  IsSeq(queries) /\ ToSet(queries) \subseteq AllQueries
<1>1. PICK c \in AllItems : queries = Queries(c, AllNames)
  BY DEF BatchQueriesAt
<1>2. c.op \in {"get", "find", "findAll"} \cup Writes
  BY CallsAssumption DEF AllItems
<1>3. IsSeq(queries)
  BY <1>1, <1>2, QueriesAreSeqs
<1> QED BY <1>1, <1>3 DEF AllQueries

\* An item's queries are pushed, whatever the order the promises settled in.
LEMMA PushQueriesStep ==
    ASSUME MapperInv, NEW n \in DOMAIN batches, NEW k \in DOMAIN batches[n].waits, PushQueries(n, k)
    PROVE  MapperInv'
<1> DEFINE b == batches[n]
           p == promises[b.waits[k]]
           added == [q \in DOMAIN p.queries |-> <<k, p.queries[q]>>]
           failed == [b EXCEPT !.state = "failed"]
           longer == [b EXCEPT !.pushed = b.pushed \cup {k}, !.queries = b.queries \o added,
                               !.isIdempotent = b.isIdempotent /\ AllIdempotent(p.queries),
                               !.isCounter = CounterOf(p.queries)]
           fails == p.state = "rejected" \/ GetterThrows(b.items[k], p.queries)
<1>1. /\ b.state = "waiting" /\ k \notin b.pushed /\ p.state # "pending"
      /\ batches' = [batches EXCEPT ![n] = IF fails THEN failed ELSE longer]
      /\ UNCHANGED <<callVars, batchCells, promises, customVars, sent>>
  BY DEF PushQueries
<1>2. BatchesInv /\ BatchOK(b) /\ Waits(b, promises)
  BY DEF MapperInv, BatchesInv
<1>3. /\ DOMAIN b.waits = DOMAIN b.items /\ k \in DOMAIN b.items
      /\ b.waits[k] \in DOMAIN promises /\ BatchPlaceOf(p.item) = BatchPlaceOf(b.items[k])
  BY <1>1, <1>2 DEF Waits, IsFor
<1>4. PromiseOK(p)
  BY <1>3 DEF MapperInv, BatchesInv
<1>5. BatchesInv'
  <2>1. CASE fails
    <3>1. batches' = [batches EXCEPT ![n] = failed]
      <4> HIDE DEF fails, failed, longer
      <4> QED BY <1>1, <2>1, Zenon
    <3>2. failed = [items |-> b.items, waits |-> b.waits, pushed |-> b.pushed, queries |-> b.queries,
                    isIdempotent |-> b.isIdempotent, isCounter |-> b.isCounter, state |-> "failed"]
      <4>1. b = [items |-> b.items, waits |-> b.waits, pushed |-> b.pushed, queries |-> b.queries,
                 isIdempotent |-> b.isIdempotent, isCounter |-> b.isCounter, state |-> b.state]
        BY <1>2 DEF BatchOK
      <4> HIDE DEF b
      <4> QED BY <4>1, BatchField, SMTT(20)
    <3> HIDE DEF failed, b
    <3>3. BatchOK(failed) /\ Waits(failed, promises)
      BY <1>2, <3>2 DEF BatchOK, Waits
    <3> QED BY <1>1, <1>2, <3>1, <3>3, BatchChanged, Zenon
  <2>2. CASE ~fails
    <3>1. batches' = [batches EXCEPT ![n] = longer]
      BY <1>1, <2>2
    <3>2. longer = [items |-> b.items, waits |-> b.waits, pushed |-> b.pushed \cup {k},
                    queries |-> b.queries \o added,
                    isIdempotent |-> (b.isIdempotent /\ AllIdempotent(p.queries)),
                    isCounter |-> CounterOf(p.queries), state |-> b.state]
      <4> DEFINE pushed == b.pushed \cup {k}
                 queries == b.queries \o added
                 isIdempotent == b.isIdempotent /\ AllIdempotent(p.queries)
                 isCounter == CounterOf(p.queries)
                 c == [b EXCEPT !.pushed = pushed]
                 d == [c EXCEPT !.queries = queries]
                 e == [d EXCEPT !.isIdempotent = isIdempotent]
      <4>1. longer = [e EXCEPT !.isCounter = isCounter]
        OBVIOUS
      <4> HIDE DEF longer, b, p, added, pushed, queries, isIdempotent, isCounter
      <4>3. e = [d EXCEPT !.isIdempotent = isIdempotent]
        OBVIOUS
      <4> HIDE DEF e
      <4>4. d = [c EXCEPT !.queries = queries]
        OBVIOUS
      <4> HIDE DEF d
      <4>5. c = [b EXCEPT !.pushed = pushed]
        OBVIOUS
      <4> HIDE DEF c
      <4>6. b = [items |-> b.items, waits |-> b.waits, pushed |-> b.pushed, queries |-> b.queries,
                 isIdempotent |-> b.isIdempotent, isCounter |-> b.isCounter, state |-> b.state]
        BY <1>2 DEF BatchOK
      <4>7. c = [items |-> b.items, waits |-> b.waits, pushed |-> pushed, queries |-> b.queries,
                 isIdempotent |-> b.isIdempotent, isCounter |-> b.isCounter, state |-> b.state]
        BY <4>5, <4>6, BatchField
      <4>8. d = [items |-> b.items, waits |-> b.waits, pushed |-> pushed, queries |-> queries,
                 isIdempotent |-> b.isIdempotent, isCounter |-> b.isCounter, state |-> b.state]
        BY <4>4, <4>7, BatchField
      <4>9. e = [items |-> b.items, waits |-> b.waits, pushed |-> pushed, queries |-> queries,
                 isIdempotent |-> isIdempotent, isCounter |-> b.isCounter, state |-> b.state]
        BY <4>3, <4>8, BatchField
      <4>2. longer = [items |-> b.items, waits |-> b.waits, pushed |-> pushed, queries |-> queries,
                      isIdempotent |-> isIdempotent, isCounter |-> isCounter, state |-> b.state]
        BY <4>1, <4>9, BatchField
      <4> QED BY <4>2, Zenon DEF pushed, queries, isIdempotent, isCounter
    <3>3. /\ p.queries \in BatchQueriesAt(BatchPlaceOf(b.items[k]))
          /\ IsSeq(p.queries) /\ ToSet(p.queries) \subseteq AllQueries
      <4>1. p.item \in AllItems /\ p.queries = Queries(p.item, AllNames) /\ p.queries # <<>>
        BY <1>1, <1>4, <2>2, Zenon DEF PromiseOK
      <4> HIDE DEF p, b
      <4>2. p.queries \in BatchQueriesAt(BatchPlaceOf(b.items[k]))
        BY <1>3, <4>1, OwnBatchQueries
      <4> QED BY <4>2, BatchQueriesFacts
    <3>4. /\ PairsOK(b.queries \o added, b.pushed \cup {k})
          /\ Holds(b.queries \o added, k, p.queries)
          /\ \A other : \A j \in b.pushed :
                (IsSeq(other) /\ Holds(b.queries, j, other)) => Holds(b.queries \o added, j, other)
          /\ AllMarked(b.queries) /\ AllIdempotent(p.queries) => AllMarked(b.queries \o added)
      <4>1. PairsOK(b.queries, b.pushed)
        BY <1>2 DEF BatchOK
      <4>2. added = [q \in DOMAIN p.queries |-> <<k, p.queries[q]>>]
        OBVIOUS
      <4> HIDE DEF p, b, added
      <4> QED BY <1>1, <3>3, <4>1, <4>2, BlockAdded, ZenonT(30)
    <3> HIDE DEF longer, b, p, added
    <3>5. BatchOK(longer)
      <4>1. ASSUME NEW j \in longer.pushed
            PROVE  \E queries \in BatchQueriesAt(BatchPlaceOf(longer.items[j])) :
                      Holds(longer.queries, j, queries)
        <5>1. CASE j = k
          BY <3>2, <3>3, <3>4, <5>1, Zenon
        <5>2. CASE j # k
          <6>1. j \in b.pushed
            BY <3>2, <5>2
          <6>2. PICK queries \in BatchQueriesAt(BatchPlaceOf(b.items[j])) : Holds(b.queries, j, queries)
            BY <1>2, <6>1 DEF BatchOK
          <6>3. IsSeq(queries)
            BY BatchQueriesFacts
          <6> QED BY <3>2, <3>4, <6>1, <6>2, <6>3, Zenon
        <5> QED BY <5>1, <5>2
      <4>2. longer.isIdempotent => AllMarked(longer.queries)
        BY <1>2, <3>2, <3>4, Zenon DEF BatchOK
      <4>3. /\ longer.items \in BatchItems /\ longer.pushed \subseteq DOMAIN longer.items
            /\ PairsOK(longer.queries, longer.pushed)
        BY <1>2, <1>3, <3>2, <3>4 DEF BatchOK
      <4>4. longer = [items |-> longer.items, waits |-> longer.waits, pushed |-> longer.pushed,
                      queries |-> longer.queries, isIdempotent |-> longer.isIdempotent,
                      isCounter |-> longer.isCounter, state |-> longer.state]
        BY <3>2, ZenonT(30)
      <4> QED BY <4>1, <4>2, <4>3, <4>4 DEF BatchOK
    <3>6. Waits(longer, promises)
      BY <1>2, <3>2 DEF Waits
    <3> QED BY <1>1, <1>2, <3>1, <3>5, <3>6, BatchChanged, Zenon
  <2> QED BY <2>1, <2>2
<1> QED BY <1>1, <1>5, CallsUntouched, SentUntouched, CustomsUntouched DEF MapperInv

\* A batch is sent when each of its items was pushed.
LEMMA SendBatchStep ==
    ASSUME MapperInv, NEW n \in DOMAIN batches, SendBatch(n)
    PROVE  MapperInv'
<1> DEFINE b == batches[n]
           R(option) == Request("batch", b.items, b.queries, option,
                                Idempotency(option, b.isIdempotent), b.isCounter)
           c == [b EXCEPT !.state = "sent"]
<1>0. PICK option \in {<<>>, <<TRUE>>, <<FALSE>>} : sent' = Append(sent, R(option))
  BY DEF SendBatch
<1> DEFINE r == R(option)
<1>1. /\ b.pushed = DOMAIN b.items /\ sent' = Append(sent, r)
      /\ batches' = [batches EXCEPT ![n] = c]
      /\ UNCHANGED <<callVars, batchCells, promises, customVars>>
  BY <1>0, SMTT(20) DEF SendBatch, AllPushed
<1>2. BatchesInv /\ BatchOK(b) /\ Waits(b, promises)
  BY DEF MapperInv, BatchesInv
<1>3. c = [items |-> b.items, waits |-> b.waits, pushed |-> b.pushed, queries |-> b.queries,
           isIdempotent |-> b.isIdempotent, isCounter |-> b.isCounter, state |-> "sent"]
  <2>1. b = [items |-> b.items, waits |-> b.waits, pushed |-> b.pushed, queries |-> b.queries,
             isIdempotent |-> b.isIdempotent, isCounter |-> b.isCounter, state |-> b.state]
    BY <1>2 DEF BatchOK
  <2> HIDE DEF b
  <2> QED BY <2>1, BatchField, SMTT(20)
<1>4. /\ r.from = "batch" /\ r.items = b.items /\ r.queries = b.queries /\ r.option = option
      /\ option = <<>> => r.isIdempotent = b.isIdempotent
  BY DEF Request, Idempotency
<1> HIDE DEF c, b, r
<1>5. BatchOK(c) /\ Waits(c, promises)
  BY <1>2, <1>3 DEF BatchOK, Waits
<1>6. BatchesInv'
  BY <1>1, <1>2, <1>5, BatchChanged, Zenon DEF b
<1>7. RequestOK(r)
  <2>1. OfOneBatch(r)
    BY <1>1, <1>2, <1>4 DEF BatchOK, OfOneBatch
  <2> QED BY <1>1, <1>2, <1>4, <2>1 DEF BatchOK, RequestOK
<1>8. SentInv'
  BY <1>1, <1>7, RequestAdded DEF MapperInv
<1> QED BY <1>1, <1>6, <1>8, CallsUntouched, CustomsUntouched DEF MapperInv

\* The function that StartBatch evaluates: what the items have asked for, one after the other.
AskedUpTo(items, start) ==
    CHOOSE f : f = [n \in 0..Len(items) |-> IF n = 0 THEN start
                                            ELSE GetQueries(f[n - 1], items[n])]

\* It exists: it satisfies its equation.
LEMMA AskedUpToExists ==
    ASSUME NEW items, IsSeq(items), NEW start
    PROVE  AskedUpTo(items, start) =
              [n \in 0..Len(items) |-> IF n = 0 THEN start
                                       ELSE GetQueries(AskedUpTo(items, start)[n - 1], items[n])]
<1> DEFINE Defined(m, f) == f = [n \in 0..m |-> IF n = 0 THEN start
                                                ELSE GetQueries(f[n - 1], items[n])]
           T == {m \in Nat : \E f : Defined(m, f)}
<1>1. 0 \in T
  <2>1. Defined(0, [n \in 0..0 |-> start])
    OBVIOUS
  <2> QED BY <2>1, Zenon
<1>2. ASSUME NEW m \in Nat, m \in T PROVE m + 1 \in T
  <2>1. PICK f : Defined(m, f)
    BY <1>2
  <2> DEFINE g == [n \in 0..(m + 1) |-> IF n = m + 1 THEN GetQueries(f[m], items[n]) ELSE f[n]]
  <2>2. \A n \in 0..m : g[n] = f[n]
    OBVIOUS
  <2>3. ASSUME NEW n \in 0..(m + 1)
        PROVE  g[n] = IF n = 0 THEN start ELSE GetQueries(g[n - 1], items[n])
    <3>1. CASE n = m + 1
      <4>1. n # 0 /\ n - 1 \in 0..m /\ n - 1 = m
        BY <3>1
      <4>2. g[n - 1] = f[m]
        BY <2>2, <4>1
      <4> QED BY <3>1, <4>1, <4>2
    <3>2. CASE n \in 0..m
      <4>1. n = 0 \/ n - 1 \in 0..m
        BY <3>2
      <4>2. g[n] = f[n]
        BY <3>2
      <4>3. f[n] = IF n = 0 THEN start ELSE GetQueries(f[n - 1], items[n])
        BY <2>1, <3>2
      <4> QED BY <4>1, <4>2, <4>3, <2>2
    <3> QED BY <3>1, <3>2
  <2>4. Defined(m + 1, g)
    <3> DEFINE h == [n \in 0..(m + 1) |-> IF n = 0 THEN start ELSE GetQueries(g[n - 1], items[n])]
    <3>1. g = h
      <4>1. \A n \in 0..(m + 1) : g[n] = h[n]
        BY <2>3, SMTT(20)
      <4> QED BY <4>1
    <3> QED BY <3>1
  <2> HIDE DEF g, Defined
  <2>5. \E h : Defined(m + 1, h)
    BY <2>4
  <2> QED BY <2>5
<1>3. Len(items) \in T
  <2>1. Len(items) \in Nat
    BY DEF IsSeq
  <2> HIDE DEF T
  <2> QED BY <1>1, <1>2, <2>1, Induction
<1> QED BY <1>3, SMTT(20) DEF AskedUpTo

\* Each cell has the promise of an item with its key.
CellsFor(map, ps) ==
    \A at \in DOMAIN map : map[at] \in DOMAIN ps /\ BatchPlaceOf(ps[map[at]].item) = at

\* What n items have left: promises are only added, and each item has one for its key.
AskedOK(b, items, n, old) ==
    /\ b = [cells |-> b.cells, promises |-> b.promises, waits |-> b.waits, threw |-> b.threw]
    /\ IsSeq(b.promises) /\ \A p \in DOMAIN b.promises : PromiseOK(b.promises[p])
    /\ DOMAIN old \subseteq DOMAIN b.promises
    /\ \A p \in DOMAIN old : b.promises[p].item = old[p].item
    /\ CellsFor(b.cells, b.promises)
    /\ IsSeq(b.waits)
    /\ ~b.threw => /\ Len(b.waits) = n
                   /\ \A k \in DOMAIN b.waits : IsFor(b.promises, b.waits[k], items[k])

\* One item more has asked.
LEMMA ItemAsks ==
    ASSUME NEW items, NEW n \in Nat, NEW b, NEW old, AskedOK(b, items, n, old),
           items[n + 1] \in AllItems
    PROVE  AskedOK(GetQueries(b, items[n + 1]), items, n + 1, old)
<1> DEFINE item == items[n + 1]
           at == BatchPlaceOf(item)
           c == GetQueries(b, item)
<1>1. b = [cells |-> b.cells, promises |-> b.promises, waits |-> b.waits, threw |-> b.threw]
  BY SMTT(20) DEF AskedOK
<1>2. CASE b.threw
  <2>1. c = b
    BY <1>2 DEF GetQueries
  <2> QED BY <1>2, <2>1 DEF AskedOK
<1>3. CASE ~b.threw /\ at \in DOMAIN b.cells
  <2>1. c = [b EXCEPT !.waits = Append(@, b.cells[at])]
    BY <1>3 DEF GetQueries
  <2> DEFINE waits == Append(b.waits, b.cells[at])
  <2>2. c = [cells |-> b.cells, promises |-> b.promises, waits |-> waits, threw |-> b.threw]
    <3> HIDE DEF c, at
    <3> QED BY <1>1, <2>1, Zenon
  <2>3. /\ IsSeq(waits) /\ DOMAIN b.waits = 1..n /\ DOMAIN waits = 1..(n + 1) /\ Len(waits) = n + 1
        /\ \A k \in DOMAIN b.waits : waits[k] = b.waits[k]
        /\ waits[n + 1] = b.cells[at]
    <3>1. IsSeq(b.waits) /\ Len(b.waits) = n
      BY <1>3 DEF AskedOK
    <3> QED BY <3>1, AppendSeq
  <2>4. b.cells[at] \in DOMAIN b.promises /\ BatchPlaceOf(b.promises[b.cells[at]].item) = at
    BY <1>3 DEF AskedOK, CellsFor
  <2> HIDE DEF c, waits
  <2>5. ASSUME NEW k \in DOMAIN waits PROVE IsFor(b.promises, waits[k], items[k])
    <3>1. k \in DOMAIN b.waits \/ k = n + 1
      BY <2>3
    <3>2. CASE k \in DOMAIN b.waits
      BY <1>3, <2>3, <3>2, SMTT(20) DEF AskedOK
    <3>3. CASE k = n + 1
      BY <2>3, <2>4, <3>3 DEF IsFor
    <3> QED BY <3>1, <3>2, <3>3
  <2>6. AskedOK(c, items, n + 1, old)
    BY <1>1, <2>2, <2>3, <2>5 DEF AskedOK
  <2> QED BY <2>6 DEF c
<1>4. CASE ~b.threw /\ at \notin DOMAIN b.cells /\ ThrowsAtOnce(item)
  <2>1. c = [b EXCEPT !.threw = TRUE]
    BY <1>4 DEF GetQueries
  <2>2. c = [cells |-> b.cells, promises |-> b.promises, waits |-> b.waits, threw |-> TRUE]
    <3> HIDE DEF c
    <3> QED BY <1>1, <2>1, Zenon
  <2> HIDE DEF c
  <2>3. AskedOK(c, items, n + 1, old)
    BY <2>2 DEF AskedOK
  <2> QED BY <2>3 DEF c
<1>5. CASE ~b.threw /\ at \notin DOMAIN b.cells /\ ~ThrowsAtOnce(item)
  <2> DEFINE p == Len(b.promises) + 1
             new == [item |-> item, state |-> "pending", queries |-> <<>>]
             map == Put(b.cells, at, p)
             ps == Append(b.promises, new)
             waits == Append(b.waits, p)
             d == [b EXCEPT !.cells = map]
             e == [d EXCEPT !.promises = ps]
  <2>1. c = [e EXCEPT !.waits = waits]
    BY <1>5 DEF GetQueries
  <2>2. c = [cells |-> map, promises |-> ps, waits |-> waits, threw |-> b.threw]
    <3> HIDE DEF c, map, ps, waits
    <3>1. d = [cells |-> map, promises |-> b.promises, waits |-> b.waits, threw |-> b.threw]
      BY <1>1
    <3>2. e = [d EXCEPT !.promises = ps]
      OBVIOUS
    <3> HIDE DEF e, d
    <3>3. e = [cells |-> map, promises |-> ps, waits |-> b.waits, threw |-> b.threw]
      BY <3>1, <3>2, SMTT(20)
    <3> QED BY <2>1, <3>3
  <2>3. /\ IsSeq(waits) /\ DOMAIN b.waits = 1..n /\ DOMAIN waits = 1..(n + 1) /\ Len(waits) = n + 1
        /\ \A k \in DOMAIN b.waits : waits[k] = b.waits[k]
        /\ waits[n + 1] = p
    <3>1. IsSeq(b.waits) /\ Len(b.waits) = n
      BY <1>5 DEF AskedOK
    <3> HIDE DEF p
    <3> QED BY <3>1, AppendSeq
  <2>4. /\ IsSeq(b.promises) /\ Len(b.promises) \in Nat /\ DOMAIN b.promises = 1..Len(b.promises)
        /\ IsSeq(ps) /\ DOMAIN ps = 1..p
        /\ \A q \in DOMAIN b.promises : ps[q] = b.promises[q]
        /\ ps[p] = new
    <3>1. IsSeq(b.promises)
      BY DEF AskedOK
    <3> DEFINE ns == b.promises
    <3>3. IsSeq(ns)
      BY <3>1
    <3> HIDE DEF new, ns
    <3>2. /\ Len(ns) \in Nat /\ DOMAIN ns = 1..Len(ns)
          /\ IsSeq(Append(ns, new)) /\ DOMAIN Append(ns, new) = 1..(Len(ns) + 1)
          /\ \A q \in DOMAIN ns : Append(ns, new)[q] = ns[q]
          /\ Append(ns, new)[Len(ns) + 1] = new
      BY <3>3, AppendSeq
    <3> QED BY <3>1, <3>2 DEF ns
  <2>5. PromiseOK(new) /\ new.item = item
    <3> HIDE DEF item
    <3> QED BY DEF PromiseOK, item
  <2>6. DOMAIN map = DOMAIN b.cells \cup {at} /\ \A a \in DOMAIN map : map[a] = IF a = at THEN p ELSE b.cells[a]
    <3> HIDE DEF p, at
    <3> QED BY DEF Put
  <2>7. DOMAIN b.promises \subseteq DOMAIN ps /\ p \in DOMAIN ps
    BY <2>4
  <2>8. \A q \in DOMAIN ps : q \in DOMAIN b.promises \/ q = p
    BY <2>4
  <2> HIDE DEF c, map, ps, waits, new, p
  <2>9. \A q \in DOMAIN ps : PromiseOK(ps[q])
    BY <2>4, <2>5, <2>8 DEF AskedOK
  <2>10. CellsFor(map, ps)
    <3> SUFFICES ASSUME NEW a \in DOMAIN map
                 PROVE  map[a] \in DOMAIN ps /\ BatchPlaceOf(ps[map[a]].item) = a
      BY DEF CellsFor
    <3>1. CASE a = at
      BY <2>4, <2>5, <2>6, <2>7, <3>1, SMTT(20)
    <3>2. CASE a # at
      <4>1. a \in DOMAIN b.cells /\ map[a] = b.cells[a]
        BY <2>6, <3>2
      <4>2. b.cells[a] \in DOMAIN b.promises /\ BatchPlaceOf(b.promises[b.cells[a]].item) = a
        BY <4>1 DEF AskedOK, CellsFor
      <4> QED BY <2>4, <2>7, <4>1, <4>2
    <3> QED BY <3>1, <3>2
  <2>11. ASSUME NEW k \in DOMAIN waits PROVE IsFor(ps, waits[k], items[k])
    <3>1. k \in DOMAIN b.waits \/ k = n + 1
      BY <2>3, SMTT(20)
    <3>2. CASE k \in DOMAIN b.waits
      <4>1. IsFor(b.promises, b.waits[k], items[k])
        BY <1>5, <3>2 DEF AskedOK
      <4> QED BY <2>3, <2>4, <2>7, <3>2, <4>1 DEF IsFor
    <3>3. CASE k = n + 1
      BY <2>3, <2>4, <2>5, <2>7, <3>3, Zenon DEF IsFor
    <3> QED BY <3>1, <3>2, <3>3
  <2>12. DOMAIN old \subseteq DOMAIN ps /\ \A q \in DOMAIN old : ps[q].item = old[q].item
    BY <2>4, <2>7, SMTT(20) DEF AskedOK
  <2>13. AskedOK(c, items, n + 1, old)
    BY <2>2, <2>3, <2>4, <2>9, <2>10, <2>11, <2>12 DEF AskedOK
  <2> QED BY <2>13 DEF c
<1> QED BY <1>2, <1>3, <1>4, <1>5

\* A batch starts: each of its items asks for its queries.
LEMMA StartBatchStep ==
    ASSUME MapperInv, NEW items \in BatchItems, StartBatch(items)
    PROVE  MapperInv'
<1> DEFINE start == [cells |-> batchCells, promises |-> promises, waits |-> <<>>, threw |-> FALSE]
           F == AskedUpTo(items, start)
           G == [n \in 0..Len(items) |-> IF n = 0 THEN start ELSE GetQueries(F[n - 1], items[n])]
           b == F[Len(items)]
           new == [items |-> items, waits |-> b.waits, pushed |-> {}, queries |-> <<>>,
                   isIdempotent |-> TRUE, isCounter |-> FALSE,
                   state |-> IF b.threw \/ items = <<>> THEN "failed" ELSE "waiting"]
           Q(n) == n <= Len(items) => AskedOK(F[n], items, n, promises)
<1>1. /\ batchCells' = b.cells /\ promises' = b.promises /\ batches' = Append(batches, new)
      /\ UNCHANGED <<callVars, customVars, sent>>
  BY DEF StartBatch, AskedUpTo
<1>2. IsSeq(items) /\ Len(items) \in Nat /\ DOMAIN items = 1..Len(items)
  <2>1. IsSeq(items)
    BY CallsAssumption DEF IsSeq
  <2> QED BY <2>1 DEF IsSeq
<1>3. F = G
  BY <1>2, AskedUpToExists, Zenon
<1>4. Q(0)
  <2>1. G[0] = start
    BY <1>2
  <2>2. F[0] = start
    <3> HIDE DEF F, G, start
    <3> QED BY <1>3, <2>1
  <2>3. IsSeq(<<>>) /\ Len(<<>>) = 0 /\ DOMAIN <<>> = {}
    BY SMTT(20) DEF IsSeq
  <2>4. AskedOK(start, items, 0, promises)
    BY <2>3 DEF AskedOK, CellsFor, MapperInv, BatchesInv
  <2> HIDE DEF F, start
  <2> QED BY <2>2, <2>4
<1>5. ASSUME NEW n \in Nat, Q(n) PROVE Q(n + 1)
  <2>1. SUFFICES ASSUME n + 1 <= Len(items) PROVE AskedOK(F[n + 1], items, n + 1, promises)
    OBVIOUS
  <2>2. n + 1 \in 0..Len(items) /\ n + 1 # 0 /\ n + 1 - 1 = n /\ n + 1 \in DOMAIN items
    BY <1>2, <2>1
  <2> HIDE DEF F
  <2>3. G[n + 1] = IF n + 1 = 0 THEN start ELSE GetQueries(F[n + 1 - 1], items[n + 1])
    BY <2>2
  <2>4. AskedOK(F[n], items, n, promises)
    BY <1>2, <1>5, <2>1
  <2> HIDE DEF G, start
  <2>5. F[n + 1] = GetQueries(F[n], items[n + 1])
    BY <1>3, <2>2, <2>3, Zenon
  <2>6. items[n + 1] \in AllItems
    BY <2>2 DEF AllItems, ToSet
  <2>7. AskedOK(GetQueries(F[n], items[n + 1]), items, n + 1, promises)
    BY <2>4, <2>6, ItemAsks
  <2> QED BY <2>5, <2>7
<1>6. \A n \in Nat : Q(n)
  <2> DEFINE T == {n \in Nat : Q(n)}
  <2> HIDE DEF Q
  <2>1. 0 \in T /\ \A n \in Nat : n \in T => n + 1 \in T
    BY <1>4, <1>5
  <2> HIDE DEF T
  <2>2. \A n \in Nat : n \in T
    BY <2>1, Induction
  <2> QED BY <2>2 DEF T
<1>7. AskedOK(b, items, Len(items), promises)
  <2> HIDE DEF F
  <2> QED BY <1>2, <1>6
<1> HIDE DEF b
<1>8. BatchOK(new)
  <2>1. IsSeq(<<>>) /\ DOMAIN <<>> = {}
    BY DEF IsSeq
  <2> QED BY <2>1, Zenon DEF BatchOK, PairsOK, AllMarked
<1>9. Waits(new, promises')
  <2> SUFFICES ASSUME new.state = "waiting"
               PROVE  /\ DOMAIN new.waits = DOMAIN new.items
                      /\ \A k \in DOMAIN new.waits : IsFor(promises', new.waits[k], new.items[k])
    BY DEF Waits
  <2>1. ~b.threw
    OBVIOUS
  <2>2. IsSeq(b.waits) /\ Len(b.waits) = Len(items)
        /\ \A k \in DOMAIN b.waits : IsFor(b.promises, b.waits[k], items[k])
    BY <1>7, <2>1 DEF AskedOK
  <2>3. DOMAIN b.waits = DOMAIN items
    BY <1>2, <2>2 DEF IsSeq
  <2>4. new.waits = b.waits /\ new.items = items
    OBVIOUS
  <2> HIDE DEF new
  <2> QED BY <1>1, <2>2, <2>3, <2>4, SMTT(20)
<1> HIDE DEF new
<1>10. /\ IsSeq(promises') /\ \A p \in DOMAIN promises' : PromiseOK(promises'[p])
       /\ DOMAIN promises \subseteq DOMAIN promises'
       /\ \A p \in DOMAIN promises : promises'[p].item = promises[p].item
       /\ CellsFor(batchCells', promises')
  BY <1>1, <1>7 DEF AskedOK
<1>11. IsSeq(batches') /\ \A n \in DOMAIN batches' : BatchOK(batches'[n]) /\ Waits(batches'[n], promises')
  <2>1. IsSeq(batches) /\ \A n \in DOMAIN batches : BatchOK(batches[n]) /\ Waits(batches[n], promises)
    BY SMTT(20) DEF MapperInv, BatchesInv
  <2>2. /\ Len(batches) \in Nat /\ DOMAIN batches = 1..Len(batches)
        /\ IsSeq(batches') /\ DOMAIN batches' = 1..(Len(batches) + 1)
        /\ \A n \in DOMAIN batches : batches'[n] = batches[n]
        /\ batches'[Len(batches) + 1] = new
    BY <1>1, <2>1, AppendSeq
  <2>3. ASSUME NEW n \in DOMAIN batches PROVE Waits(batches[n], promises')
    BY <1>10, <2>1, WaitsKept
  <2>4. ASSUME NEW n \in DOMAIN batches' PROVE BatchOK(batches'[n]) /\ Waits(batches'[n], promises')
    <3>1. n \in DOMAIN batches \/ n = Len(batches) + 1
      BY <2>2, SMTT(20)
    <3> QED BY <1>8, <1>9, <2>1, <2>2, <2>3, <3>1
  <2> QED BY <2>2, <2>4, SMTT(20)
<1>12. BatchesInv'
  BY <1>10, <1>11 DEF BatchesInv, CellsFor
<1> QED BY <1>1, <1>12, CallsUntouched, SentUntouched, CustomsUntouched, SMTT(20) DEF MapperInv

--------------------------------------------------------------------------
(* The theorems                                                            *)


\* No call was made yet.
LEMMA MapperStart == MapperInit => MapperInv
<1> SUFFICES ASSUME MapperInit PROVE MapperInv
  OBVIOUS
<1>1. IsSeq(<<>>) /\ DOMAIN <<>> = {} /\ DOMAIN Empty = {}
  BY DEF IsSeq, Empty
<1>2. CallsInv
  BY <1>1 DEF MapperInit, CallsInv, PlacesInv
<1>3. BatchesInv
  BY <1>1 DEF MapperInit, BatchesInv
<1>4. SentInv /\ CustomsInv
  BY <1>1 DEF MapperInit, SentInv, CustomsInv
<1> QED BY <1>2, <1>3, <1>4 DEF MapperInv

(***************************************************************************)
(* What a cell of the caches holds was generated for its key, each promise *)
(* an item of Mapper.batch() waits for is for the item's key, and the      *)
(* requests are made of what was found there, whatever calls the           *)
(* application makes and in whatever order the continuations run.          *)
(***************************************************************************)
THEOREM MapperInvariant == MapperSpec => []MapperInv
<1>1. ASSUME MapperInv, [MapperNext]_mapperVars PROVE MapperInv'
  <2>1. CASE CallsNext
    <3>1. ASSUME NEW call \in Calls, GetSelectExecutor(call) \/ GetInsertExecutor(call)
                 \/ GetUpdateExecutor(call) \/ GetDeleteExecutor(call)
          PROVE  MapperInv'
      <4>1. Obtain(call, <<>>)
        BY <3>1 DEF GetSelectExecutor, GetInsertExecutor, GetUpdateExecutor, GetDeleteExecutor
      <4> QED BY <1>1, <4>1, ObtainStep
    <3>2. ASSUME NEW call \in Calls, GetSelectAllExecutor(call) PROVE MapperInv'
      <4>1. Obtain(call, Queries(call, AllNames))
        BY <3>2 DEF GetSelectAllExecutor
      <4> QED BY <1>1, <4>1, ObtainStep
    <3>3. ASSUME NEW i \in DOMAIN calls, Generate(i) \/ Execute(i) \/ Answer(i) PROVE MapperInv'
      BY <1>1, <3>3, GenerateStep, ExecuteStep, AnswerStep
    <3> QED BY <2>1, <3>1, <3>2, <3>3 DEF CallsNext
  <2>2. CASE BatchesNext
    <3>1. ASSUME NEW items \in BatchItems, StartBatch(items) PROVE MapperInv'
      BY <1>1, <3>1, StartBatchStep
    <3>2. ASSUME NEW p \in DOMAIN promises, SettleQueries(p) PROVE MapperInv'
      BY <1>1, <3>2, SettleQueriesStep
    <3>3. ASSUME NEW n \in DOMAIN batches, SendBatch(n) PROVE MapperInv'
      BY <1>1, <3>3, SendBatchStep
    <3>4. ASSUME NEW n \in DOMAIN batches, NEW k \in DOMAIN batches[n].waits, PushQueries(n, k)
          PROVE  MapperInv'
      BY <1>1, <3>4, PushQueriesStep
    <3> QED BY <2>2, <3>1, <3>2, <3>3, <3>4 DEF BatchesNext
  <2>3. CASE CustomNext
    BY <1>1, <2>3, ExecuteCustomStep, AnswerCustomStep DEF CustomNext
  <2>4. CASE UNCHANGED mapperVars
    BY <1>1, <2>4, CallsUntouched, BatchesUntouched, SentUntouched, CustomsUntouched
       DEF MapperInv, mapperVars
  <2> QED BY <1>1, <2>1, <2>2, <2>3, <2>4 DEF MapperNext
<1> QED BY <1>1, MapperStart, PTL DEF MapperSpec

(***************************************************************************)
(* A request is only marked idempotent when each statement in it is        *)
(* repeatable or the caller said so, for every model, document and docInfo *)
(* and every interleaving of the items of a batch.                         *)
(***************************************************************************)
THEOREM IdempotencyIsSound == MapperSpec => []OnlyRepeatableIsIdempotent
<1>1. ASSUME MapperInv PROVE OnlyRepeatableIsIdempotent
  <2> SUFFICES ASSUME NEW i \in DOMAIN sent, sent[i].isIdempotent,
                      sent[i].option = <<>>, NEW j \in DOMAIN sent[i].queries
               PROVE  Repeatable(sent[i].queries[j][2].query)
    BY DEF OnlyRepeatableIsIdempotent
  <2>1. RequestOK(sent[i])
    BY <1>1, SMTT(20) DEF MapperInv, SentInv
  <2>2. sent[i].queries[j][2] \in AllQueries /\ sent[i].queries[j][2].isIdempotent
    BY <2>1, SMTT(20) DEF RequestOK, PairsOK, AllMarked
  <2> DEFINE q == sent[i].queries[j][2]
  <2>3. PICK call \in Calls \cup AllItems : q \in ToSet(Queries(call, AllNames))
    BY <2>2 DEF AllQueries
  <2>4. q.isIdempotent
    BY <2>2, SMTT(20)
  <2> HIDE DEF q
  <2>5. Repeatable(q.query)
    BY <2>3, <2>4, AllAreCalls, MarkedIsRepeatable
  <2> QED BY <2>5 DEF q
<1> QED BY <1>1, MapperInvariant, PTL

(***************************************************************************)
(* The rows of mapWithQuery() are read by the columns of their own result, *)
(* for every query whose results have the same columns each time and every *)
(* conditional update, whose results have not.                             *)
(***************************************************************************)
THEOREM CustomRowsAreRead == MapperSpec => []CustomRowsFit
<1>1. MapperInv => CustomRowsFit
  BY DEF MapperInv, CustomsInv, CustomOK, CustomRowsFit
<1> QED BY <1>1, MapperInvariant, PTL

\* The keys of the caches tell apart the calls, and the items, that call for other
\* queries, but for those that Confused() names.
KeysTellQueriesApart ==
    /\ \A c, d \in Calls :
          PlaceOf(c) = PlaceOf(d) /\ ~Confused(c, d) => Queries(c, AllNames) = Queries(d, AllNames)
    /\ \A c, d \in AllItems :
          BatchPlaceOf(c) = BatchPlaceOf(d) /\ ~Confused(c, d) =>
              Queries(c, AllNames) = Queries(d, AllNames)

\* With such keys, what is at the place of a call is its own or confused with it.
LEMMA AtThePlace ==
    ASSUME KeysTellQueriesApart
    PROVE  /\ \A call \in Calls : QueriesAt(PlaceOf(call)) \subseteq QueriesFor[call]
           /\ \A item \in AllItems : BatchQueriesAt(BatchPlaceOf(item)) \subseteq QueriesForItem[item]
<1>1. ASSUME NEW call \in Calls, NEW queries \in QueriesAt(PlaceOf(call))
      PROVE  queries \in QueriesFor[call]
  <2>1. PICK c \in Calls : PlaceOf(c) = PlaceOf(call) /\ queries = Queries(c, AllNames)
    BY DEF QueriesAt
  <2>2. queries # <<>>
    BY DEF QueriesAt
  <2>3. \E d \in Calls : /\ PlaceOf(d) = PlaceOf(call) /\ (d = call \/ Confused(d, call))
                         /\ queries = Queries(d, AllNames)
    BY <2>1 DEF KeysTellQueriesApart
  <2> QED BY <2>2, <2>3 DEF QueriesFor, QueriesOf
<1>2. ASSUME NEW item \in AllItems, NEW queries \in BatchQueriesAt(BatchPlaceOf(item))
      PROVE  queries \in QueriesForItem[item]
  <2>1. PICK c \in AllItems : BatchPlaceOf(c) = BatchPlaceOf(item) /\ queries = Queries(c, AllNames)
    BY DEF BatchQueriesAt
  <2>2. queries # <<>>
    BY DEF BatchQueriesAt
  <2>3. \E d \in AllItems : /\ BatchPlaceOf(d) = BatchPlaceOf(item) /\ (d = item \/ Confused(d, item))
                            /\ queries = Queries(d, AllNames)
    BY <2>1 DEF KeysTellQueriesApart
  <2> QED BY <2>2, <2>3 DEF QueriesForItem, QueriesOf
<1> QED BY <1>1, <1>2

(***************************************************************************)
(* Whatever filled the caches, a call is executed with its own queries and *)
(* a batch with those of each of its items, once each, when the keys tell  *)
(* apart what calls for other queries; where the code is known to confuse  *)
(* two calls (Confused), with all the queries of one of the two.  What the *)
(* caches and the batches do with their keys is then right for every order *)
(* of the calls.                                                           *)
(***************************************************************************)
THEOREM OwnQueriesAreExecuted ==
    ASSUME KeysTellQueriesApart
    PROVE  MapperSpec => []ExecutesTheQueriesOfItsKey
<1>1. ASSUME MapperInv PROVE ExecutesTheQueriesOfItsKey
  <2> SUFFICES ASSUME NEW i \in DOMAIN sent
               PROVE  /\ \A k \in DOMAIN sent[i].items :
                            \E queries \in IF sent[i].from = "call" THEN QueriesFor[sent[i].items[k]]
                                           ELSE QueriesForItem[sent[i].items[k]] :
                               Holds(sent[i].queries, k, queries)
                      /\ OnlyItsItems(sent[i])
    BY DEF ExecutesTheQueriesOfItsKey
  <2> DEFINE r == sent[i]
  <2>1. RequestOK(r)
    BY <1>1 DEF MapperInv, SentInv
  <2>2. OnlyItsItems(r)
    BY <2>1 DEF RequestOK, PairsOK, OnlyItsItems
  <2>3. ASSUME OfOneCall(r), NEW k \in DOMAIN r.items
        PROVE  r.from = "call" /\ \E queries \in QueriesFor[r.items[k]] : Holds(r.queries, k, queries)
    <3>1. PICK call \in Calls : /\ r.items = <<call>>
                                /\ \E queries \in QueriesAt(PlaceOf(call)) : Holds(r.queries, 1, queries)
      BY <2>3 DEF OfOneCall
    <3>2. k = 1 /\ r.items[k] = call
      BY <3>1
    <3>3. r.from = "call"
      BY <2>3 DEF OfOneCall
    <3> HIDE DEF r
    <3> QED BY <3>1, <3>2, <3>3, AtThePlace, Zenon
  <2>4. ASSUME OfOneBatch(r), NEW k \in DOMAIN r.items
        PROVE  r.from = "batch" /\ \E queries \in QueriesForItem[r.items[k]] : Holds(r.queries, k, queries)
    <3>1. r.items[k] \in AllItems
      BY <2>4 DEF OfOneBatch, AllItems, ToSet
    <3>2. r.from = "batch" /\ \E queries \in BatchQueriesAt(BatchPlaceOf(r.items[k])) :
                                 Holds(r.queries, k, queries)
      BY <2>4 DEF OfOneBatch
    <3> HIDE DEF r
    <3> QED BY <3>1, <3>2, AtThePlace, Zenon
  <2>5. OfOneCall(r) \/ OfOneBatch(r)
    BY <2>1 DEF RequestOK
  <2> HIDE DEF r
  <2>6. \A k \in DOMAIN r.items :
           \E queries \in IF r.from = "call" THEN QueriesFor[r.items[k]] ELSE QueriesForItem[r.items[k]] :
              Holds(r.queries, k, queries)
    <3>1. CASE OfOneCall(r)
      BY <2>3, <3>1
    <3>2. CASE OfOneBatch(r)
      <4>1. "batch" # "call"
        OBVIOUS
      <4> QED BY <2>4, <3>2, <4>1
    <3> QED BY <2>5, <3>1, <3>2
  <2> QED BY <2>2, <2>6 DEF r
<1> QED BY <1>1, MapperInvariant, PTL

(***************************************************************************)
(* With such keys the rows of a SELECT are mapped by the columns of its    *)
(* own statement, or of that of a find() confused with a get(): the        *)
(* adapter in the cache was made from the result of such a statement,      *)
(* whichever call made it first.                                           *)
(***************************************************************************)
THEOREM SelectedRowsAreMapped ==
    ASSUME KeysTellQueriesApart
    PROVE  MapperSpec => []RowsAreMapped
<1>1. ASSUME MapperInv PROVE RowsAreMapped
  <2> SUFFICES ASSUME NEW i \in DOMAIN calls, calls[i].state = "done", IsSelect(calls[i].call)
               PROVE  \E queries \in QueriesFor[calls[i].call] :
                         calls[i].result = Adapted(ResultColumns(queries[1].query))
    BY DEF RowsAreMapped
  <2> DEFINE call == calls[i].call
  <2>1. CallOK(calls[i])
    BY <1>1, SMTT(20) DEF MapperInv, CallsInv
  <2>2. call \in Calls
    BY <2>1, SMTT(20) DEF CallOK
  <2>3. PICK queries \in QueriesAt(PlaceOf(call)) : calls[i].result = Adapted(AdapterFor(queries))
    BY <2>1 DEF CallOK
  <2>4. queries \in QueriesFor[call]
    BY <2>2, AtThePlace
  <2> QED BY <2>3, <2>4, Zenon DEF AdapterFor
<1> QED BY <1>1, MapperInvariant, PTL

--------------------------------------------------------------------------
(* The parameters of what is sent                                          *)

(***************************************************************************)
(* Each ? of a statement that is sent has the parameter of its column, in  *)
(* the order of the statement, whichever call the cached executor was made *)
(* for: the text and the getters of a query are made by two walks over the *)
(* same document (query-generator.js), which agree.                        *)
(***************************************************************************)
THEOREM ParametersAreInOrder == MapperSpec => []ParametersLineUp
<1>1. ASSUME MapperInv PROVE ParametersLineUp
  <2> SUFFICES ASSUME NEW i \in DOMAIN sent, NEW j \in DOMAIN sent[i].queries, NEW q,
                      q = sent[i].queries[j][2]
               PROVE  Markers(q.query) = [k \in DOMAIN q.params |-> MarkerOf(q.params[k])]
    BY Zenon DEF ParametersLineUp, MarkerOf
  <2>1. RequestOK(sent[i])
    BY <1>1 DEF MapperInv, SentInv
  <2>2. q \in AllQueries
    BY <2>1, Zenon DEF RequestOK, PairsOK
  <2>3. PICK call \in Calls \cup AllItems : q \in ToSet(Queries(call, AllNames))
    BY <2>2, Zenon DEF AllQueries
  <2>4. Fits(Markers(q.query), q.params)
    BY <2>3, AllAreCalls, QueriesFit, Zenon DEF QueryOK
  <2> QED BY <2>4, FitsIsEqual, Zenon
<1> QED BY <1>1, MapperInvariant, PTL

\* A query of a request is one of those made for its item.
LEMMA HeldQuery ==
    ASSUME NEW request, IsSeq(request), NEW k, NEW queries, IsSeq(queries),
           Holds(request, k, queries),
           NEW j \in DOMAIN request, request[j][1] = k
    PROVE  request[j][2] \in ToSet(queries)
<1>1. PICK a \in 0..Len(request) :
         \A i \in DOMAIN request :
            IF i > a /\ i <= a + Len(queries) THEN request[i] = <<k, queries[i - a]>>
                                            ELSE request[i][1] # k
  BY Zenon DEF Holds
<1>2. Len(queries) \in Nat /\ DOMAIN queries = 1..Len(queries)
  BY DEF IsSeq
<1>3. j > a /\ j <= a + Len(queries) /\ request[j] = <<k, queries[j - a]>>
  BY <1>1, Zenon
<1>4. request[j][2] = queries[j - a]
  BY <1>3
<1>5. j \in Nat /\ a \in Nat
  BY DEF IsSeq
<1>6. j - a \in DOMAIN queries
  BY <1>2, <1>3, <1>5
<1> QED BY <1>4, <1>6, Zenon DEF ToSet

(***************************************************************************)
(* A statement that writes restricts the whole partition key, in a batch   *)
(* too, whichever call or item with the same cache key it was made for:    *)
(* the selector only takes tables that the document has the key of         *)
(* (object-selector.js), and the generator leaves no property of it out.   *)
(***************************************************************************)
THEOREM OnePartitionIsWritten == MapperSpec => []WritesOnePartition
<1>1. ASSUME MapperInv PROVE WritesOnePartition
  <2> SUFFICES ASSUME NEW i \in DOMAIN sent, NEW j \in DOMAIN sent[i].queries,
                      ~IsSelect(sent[i].items[1])
               PROVE  WritesItsPartition(sent[i].queries[j][2])
    BY Zenon DEF WritesOnePartition, WritesItsPartition
  <2> DEFINE r == sent[i]
             q == r.queries[j][2]
             k == r.queries[j][1]
  <2>1. RequestOK(r)
    BY <1>1 DEF MapperInv, SentInv
  <2>2. k \in DOMAIN r.items /\ IsSeq(r.queries)
    BY <2>1, Zenon DEF RequestOK, PairsOK
  <2>3. ASSUME OfOneCall(r) PROVE WritesItsPartition(q)
    <3>1. PICK call \in Calls : /\ r.items = <<call>>
                                /\ \E queries \in QueriesAt(PlaceOf(call)) :
                                      Holds(r.queries, 1, queries)
      BY <2>3 DEF OfOneCall
    <3>2. PICK queries \in QueriesAt(PlaceOf(call)) : Holds(r.queries, 1, queries)
      BY <3>1
    <3>3. PICK c \in Calls : PlaceOf(c) = PlaceOf(call) /\ queries = Queries(c, AllNames)
      BY DEF QueriesAt
    <3>4. k = 1 /\ r.items[1] = call
      BY <2>2, <3>1
    <3>5. IsSeq(queries)
      BY QueriesAtFacts
    <3>6. q \in ToSet(Queries(c, AllNames))
      <4> HIDE DEF k, q
      <4>1. j \in DOMAIN r.queries /\ k = r.queries[j][1] /\ q = r.queries[j][2]
        BY Zenon DEF k, q
      <4> HIDE DEF r
      <4> QED BY <2>2, <3>2, <3>3, <3>4, <3>5, <4>1, HeldQuery, Zenon
    <3>7. c.op \in Writes
      <4>1. c.op \in {"get", "find", "findAll"} \cup Writes
            /\ call.op \in {"get", "find", "findAll"} \cup Writes
        BY CallsAssumption
      <4>2. TreeOf(c.op) = TreeOf(call.op)
        BY <3>3 DEF PlaceOf
      <4>3. ~IsSelect(call)
        BY <3>4
      <4> QED BY <4>1, <4>2, <4>3 DEF TreeOf, IsSelect, Writes
    <3> HIDE DEF q
    <3> QED BY <3>6, <3>7, AllAreCalls, QueriesFit
  <2>4. ASSUME OfOneBatch(r) PROVE WritesItsPartition(q)
    <3>1. r.items[k] \in AllItems
      BY <2>2, <2>4 DEF OfOneBatch, AllItems, ToSet
    <3>2. PICK queries \in BatchQueriesAt(BatchPlaceOf(r.items[k])) : Holds(r.queries, k, queries)
      BY <2>2, <2>4 DEF OfOneBatch
    <3>3. PICK c \in AllItems : queries = Queries(c, AllNames)
      BY DEF BatchQueriesAt
    <3>4. c.op \in Writes
      BY CallsAssumption DEF AllItems
    <3>5. IsSeq(queries)
      BY <3>3, <3>4, QueriesAreSeqs
    <3>6. q \in ToSet(Queries(c, AllNames))
      <4> HIDE DEF k, q
      <4>1. j \in DOMAIN r.queries /\ k = r.queries[j][1] /\ q = r.queries[j][2]
        BY Zenon DEF k, q
      <4> HIDE DEF r
      <4> QED BY <2>2, <3>2, <3>3, <3>5, <4>1, HeldQuery, Zenon
    <3> HIDE DEF q
    <3> QED BY <3>4, <3>6, AllAreCalls, QueriesFit
  <2> QED BY <2>1, <2>3, <2>4 DEF RequestOK
<1> QED BY <1>1, MapperInvariant, PTL

(***************************************************************************)
(* What a run checks of the statements together: with keys that tell apart *)
(* what calls for other queries, the parameters line up, a write has its   *)
(* partition and the rows of a SELECT are mapped by its own columns.       *)
(***************************************************************************)
THEOREM ParametersFit ==
    ASSUME KeysTellQueriesApart
    PROVE  MapperSpec => []ParametersFitTheStatement
<1>1. ParametersLineUp /\ WritesOnePartition /\ RowsAreMapped => ParametersFitTheStatement
  BY DEF ParametersFitTheStatement
<1> QED BY <1>1, ParametersAreInOrder, OnePartitionIsWritten, SelectedRowsAreMapped, PTL

=============================================================================
