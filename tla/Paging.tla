------------------------------- MODULE Paging -------------------------------
(***************************************************************************)
(* A paged result and the two ways an application reads one to its end:    *)
(* the stream of Client.stream() (RowStream) or the async iterator of its  *)
(* ResultSet (RowIterator).  Which one reads is chosen at the start.       *)
(***************************************************************************)
EXTENDS RowStream

CONSTANTS
  MaxPages, MaxRows,       \* bounds on the shape of a result
  IteratorEmptyPages,      \* the iterator may meet empty pages before the last
  MaxFailures              \* bound: page fetches of the iterator that fail

ASSUME PagingAssumption == MaxFailures \in Nat

VARIABLES reader, page, index, fetching, failures, done

streamOnly == <<autoPage, requested, answered, error, buffer, paused, readNext,
                readable, eof, finished>>
iteratorOnly == <<page, index, fetching, failures, done>>
pagingVars == <<reader, vars, iteratorOnly>>

Iterator == INSTANCE RowIterator

\* Every result of at most MaxPages pages of at most MaxRows rows, pages
\* without rows included.  Rows are numbered by page and position.
AllResults ==
  UNION {{[p \in 1..n |-> [i \in 1..size[p] |-> 10 * p + i]] :
            size \in [1..n -> 0..MaxRows]} : n \in 1..MaxPages}
AllRows == {10 * p + i : p \in 1..MaxPages, i \in 1..MaxRows}

PagingInit ==
  /\ reader \in {"stream", "iterator"}
  /\ Init
  /\ Iterator!Init
  /\ reader = "iterator" =>
       /\ ~autoPage
       /\ IteratorEmptyPages \/ \A p \in 1..(Len(pages) - 1) : pages[p] # <<>>

ByStream(A) == reader = "stream" /\ A /\ UNCHANGED <<reader, iteratorOnly>>
ByIterator == reader = "iterator" /\ Iterator!Next /\ UNCHANGED <<reader, streamOnly>>

PagingNext == ByStream(Next) \/ ByIterator

\* Requests are answered and the consumer goes on, as in the two parts.
PagingFairness ==
  /\ WF_pagingVars(ByStream(PageArrives \/ PageFails))
  /\ WF_pagingVars(ByStream(Consume))
  /\ WF_pagingVars(ByStream(readable = <<>> /\ Poll))
  /\ WF_pagingVars(ByIterator)

PagingSpec == PagingInit /\ [][PagingNext]_pagingVars /\ PagingFairness

-----------------------------------------------------------------------------

\* The stream gives the rows in order, none twice and none left out, and ends
\* only after the last one or an error.
StreamExact == InOrder /\ EndsAtTheEnd

\* The valve lets one request out at a time, never after the end, and only
\* when the rows before it were handed on.
StreamThrottled == OneRequestAtATime /\ BufferBounded

\* A consumer of the stream that goes on reading gets to its end, with all
\* rows unless a request failed, and the callback of stream() is called.
StreamCompletes ==
  reader = "stream" ~> eof /\ readable = <<>> /\ finished = 1 /\ (error \/ got = Rows)

\* "The async iterator, that will yield all the rows in the result regardless
\* on the number of pages" (doc of ResultSet): in order, each once, also when
\* a fetch failed and next() was called again.
IteratorYieldsAllRows ==
  reader = "iterator" => Iterator!TypeOK /\ IsPrefix(got, Rows) /\ (done => got = Rows)

\* The iteration comes to its end, fetches that fail included.
IteratorEnds == reader = "iterator" ~> done

=============================================================================
