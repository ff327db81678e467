----------------------------- MODULE RowStream -----------------------------
(***************************************************************************)
(* Reading a paged result as a stream: Client.stream() and the             *)
(* Client.eachRow() it is built on (src/lib/client.ts), the ResultStream   *)
(* in between (src/lib/types/result-stream.js), and Node's Readable with   *)
(* its own buffer (external), of which only what ResultStream depends on   *)
(* is kept.                                                                *)
(*                                                                         *)
(* The handler of a page adds its rows one by one to ResultStream.buffer;  *)
(* each add() calls read(0), which lets Readable call _read() to move rows *)
(* into its own buffer while that is below the high water mark.  After the *)
(* last row the valve either asks for the next page or keeps the request   *)
(* until _read() finds everything consumed.                                *)
(***************************************************************************)
EXTENDS Naturals, Sequences

CONSTANTS
  RowSet,            \* the rows
  Results,           \* the results: sequences of pages, each a sequence of rows
  HighWaterMark,     \* of the Readable
  CanFail,           \* a page request may fail
  Null               \* the end marker that add(null) puts into the buffer

ASSUME RowStreamAssumption ==
  /\ Results \subseteq Seq(Seq(RowSet)) \ {<<>>}
  /\ HighWaterMark \in Nat \ {0}
  /\ CanFail \in BOOLEAN
  /\ Null \notin RowSet

VARIABLES
  autoPage,          \* the autoPage query option: never changed
  pages,             \* the result that is read
  requested,         \* page requests sent to the session so far
  answered,          \* and those that were answered
  error,             \* a request failed, and "error" was emitted
  buffer,            \* ResultStream.buffer
  paused,            \* ResultStream.paused
  readNext,          \* whether ResultStream.#readNext is set
  readable,          \* the buffer of the Readable
  eof,               \* null was pushed to the Readable
  got,               \* what the consumer received
  finished           \* calls of the callback of stream()

vars == <<autoPage, pages, requested, answered, error, buffer, paused, readNext, readable, eof,
          got, finished>>

\* As in SequencesExt, of which nothing else is needed here.
Front(s) == SubSeq(s, 1, Len(s) - 1)
IsPrefix(s, t) == Len(s) <= Len(t) /\ s = SubSeq(t, 1, Len(s))

\* The rows of the first n pages of a result.
UpTo(result, n) ==
  LET rows[p \in 0..Len(result)] == IF p = 0 THEN <<>> ELSE rows[p - 1] \o result[p]
  IN rows[n]

Rows == UpTo(pages, Len(pages))

TypeOK ==
  /\ autoPage \in BOOLEAN
  /\ pages \in Results
  /\ requested \in 0..Len(pages)
  /\ answered \in 0..requested
  /\ error \in BOOLEAN /\ paused \in BOOLEAN /\ readNext \in BOOLEAN
  /\ eof \in BOOLEAN
  /\ finished \in 0..1
  /\ buffer \in Seq(RowSet \cup {Null})
  /\ readable \in Seq(RowSet)
  /\ got \in Seq(RowSet)

\* stream() has called eachRow(), which sent the first request.
Init ==
  /\ autoPage \in BOOLEAN
  /\ pages \in Results
  /\ requested = 1
  /\ answered = 0
  /\ error = FALSE
  /\ buffer = <<>>
  /\ paused = TRUE
  /\ readNext = FALSE
  /\ readable = <<>>
  /\ eof = FALSE
  /\ got = <<>>
  /\ finished = 0

-----------------------------------------------------------------------------
(* The state of ResultStream and of its Readable as a record, so that the  *)
(* steps of one handler can be composed.                                   *)

Now == [buffer |-> buffer, paused |-> paused, readNext |-> readNext,
        readable |-> readable, eof |-> eof, asks |-> 0]

\* (fault) the page is requested while rows are still buffered.
ReadRest_Eager(s) ==
  IF s.readNext THEN [s EXCEPT !.asks = @ + 1, !.readNext = FALSE] ELSE s

\* The end of _read(): the next page, when everything was consumed.
ReadRest(s) ==
  IF ~s.paused /\ s.buffer = <<>> /\ s.readNext
  THEN [s EXCEPT !.asks = @ + 1, !.readNext = FALSE] ELSE s

\* How many chunks _read() can push before push() (external) says no, which
\* it does at the high water mark and after the end marker.
Room(s) ==
  IF Len(s.readable) < HighWaterMark THEN HighWaterMark - Len(s.readable) ELSE 1

\* (fault) the chunk that follows the push that said no is lost.
Read_Lossy(s) ==
  LET n == IF Len(s.buffer) < Room(s) THEN Len(s.buffer) ELSE Room(s)
      pushed == SubSeq(s.buffer, 1, n)
      end == n > 0 /\ pushed[n] = Null
      rows == s.readable \o (IF end THEN Front(pushed) ELSE pushed)
  IN ReadRest([s EXCEPT !.buffer = SubSeq(@, n + 2, Len(@)),
                        !.readable = rows,
                        !.eof = @ \/ end,
                        !.paused = n > 0 /\ (end \/ Len(rows) >= HighWaterMark)])

\* _read(): push until the Readable says no or the buffer is empty.
Read(s) ==
  LET n == IF Len(s.buffer) < Room(s) THEN Len(s.buffer) ELSE Room(s)
      pushed == SubSeq(s.buffer, 1, n)
      end == n > 0 /\ pushed[n] = Null
      rows == s.readable \o (IF end THEN Front(pushed) ELSE pushed)
  IN ReadRest([s EXCEPT !.buffer = SubSeq(@, n + 1, Len(@)),
                        !.readable = rows,
                        !.eof = @ \/ end,
                        !.paused = n > 0 /\ (end \/ Len(rows) >= HighWaterMark)])

\* read(0): external.  It calls _read() below the high water mark.
ReadZero(s) ==
  IF s.eof \/ Len(s.readable) >= HighWaterMark THEN s ELSE Read(s)

\* add(), once for each chunk: with the read(0) that follows each one, the
\* chunks move on while the Readable is below its high water mark, as they do
\* when read(0) follows the last one only.
Add(s, chunks) ==
  IF chunks = <<>> THEN s ELSE ReadZero([s EXCEPT !.buffer = @ \o chunks])

\* (fault) the valve stays shut.
Valve_Shut(s) ==
  IF s.paused \/ s.buffer # <<>> THEN s ELSE [s EXCEPT !.asks = @ + 1]

\* _valve(pageValve).
Valve(s) ==
  IF s.paused \/ s.buffer # <<>>
  THEN [s EXCEPT !.readNext = TRUE] ELSE [s EXCEPT !.asks = @ + 1, !.readNext = FALSE]

\* _valve(null) and add(null): the end of the rows.
AddEnd(s) == Add([s EXCEPT !.readNext = FALSE], <<Null>>)

Becomes(new) ==
  \E s \in {new} :
    /\ buffer' = s.buffer
    /\ paused' = s.paused
    /\ readNext' = s.readNext
    /\ readable' = s.readable
    /\ eof' = s.eof
    /\ requested' = requested + s.asks

-----------------------------------------------------------------------------

\* (fault) an empty page ends the stream.
HasNext_NotEmpty(page) == page < Len(pages) /\ pages[page] # <<>>

\* result.innerPageState: the server has more pages.
HasNext(page) == page < Len(pages)

\* (fault) pageCallback goes on after it requested the next page.
PageArrives_NoReturn ==
  /\ answered < requested /\ ~error
  /\ answered' = answered + 1
  /\ \E page \in {answered + 1} : \E added \in {Add(Now, pages[page])} :
       IF HasNext(page)
       THEN /\ Becomes(Valve(IF autoPage THEN [added EXCEPT !.asks = @ + 1] ELSE added))
            /\ UNCHANGED finished
       ELSE /\ Becomes(AddEnd(added))
            /\ finished' = finished + 1
  /\ UNCHANGED <<autoPage, pages, error, got>>

\* pageCallback of eachRow() and onFinish of stream(): the rows of the page
\* are added; then the next page is requested at once (autoPage), left to the
\* valve, or the stream is ended.
PageArrives ==
  /\ answered < requested /\ ~error
  /\ answered' = answered + 1
  /\ \E page \in {answered + 1} : \E added \in {Add(Now, pages[page])} :
       IF HasNext(page)
       THEN /\ Becomes(IF autoPage THEN [added EXCEPT !.asks = @ + 1] ELSE Valve(added))
            /\ UNCHANGED finished
       ELSE /\ Becomes(AddEnd(added))
            /\ finished' = finished + 1
  /\ UNCHANGED <<autoPage, pages, error, got>>

\* A failed request: "error" is emitted, then the stream is ended too.
PageFails ==
  /\ CanFail
  /\ answered < requested /\ ~error
  /\ answered' = answered + 1
  /\ error' = TRUE
  /\ Becomes(AddEnd(Now))
  /\ finished' = finished + 1
  /\ UNCHANGED <<autoPage, pages, got>>

\* The consumer takes a row: external.  read() calls _read() first, unless
\* the rows that remain reach the high water mark.
Consume ==
  /\ readable # <<>>
  /\ \E s \in {IF eof \/ Len(readable) - 1 >= HighWaterMark THEN Now ELSE Read(Now)} :
       /\ got' = Append(got, Head(s.readable))
       /\ Becomes([s EXCEPT !.readable = Tail(@)])
  /\ UNCHANGED <<autoPage, pages, answered, error, finished>>

\* A consumer that finds the Readable empty, and the Readable itself when it
\* is below the high water mark, call _read() again: external.
Poll ==
  /\ ~eof /\ Len(readable) < HighWaterMark
  /\ Becomes(Read(Now))
  /\ UNCHANGED <<autoPage, pages, answered, error, got, finished>>

Next == PageArrives \/ PageFails \/ Consume \/ Poll

Spec == Init /\ [][Next]_vars

-----------------------------------------------------------------------------

\* The rows in a buffer, before the end marker if it holds one.
RowsIn(b) == IF b # <<>> /\ b[Len(b)] = Null THEN Front(b) ELSE b

\* The consumer gets the rows of the result in order, none twice and none
\* left out, whatever the sizes of the pages and its own speed.
InOrder ==
  TypeOK /\ IsPrefix(got \o readable \o RowsIn(buffer), Rows)

\* The stream is ended only after all rows, or after an error.
EndsAtTheEnd ==
  eof => error \/ got \o readable = Rows

\* One page is requested at a time, and never after the end.
OneRequestAtATime ==
  requested - answered <= 1 /\ (finished > 0 => requested = answered)

\* "Allows for throttling": a page is requested only when all rows before it
\* were handed to the Readable, so no more than one page is buffered.  With
\* autoPage the valve is not used.
BufferBounded ==
  ~autoPage =>
  /\ \E p \in DOMAIN pages : Len(RowsIn(buffer)) <= Len(pages[p])
  /\ Len(readable) <= HighWaterMark

=============================================================================
