----------------------------- MODULE RowIterator -----------------------------
(***************************************************************************)
(* The async iterator of a paged ResultSet (src/lib/types/result-set.js):  *)
(* next() yields the rows at hand and fetches the following page when they *)
(* are used up.  A consumer calls next() until it is told it is done, and  *)
(* may call it again after a page could not be fetched.                    *)
(***************************************************************************)
EXTENDS Naturals, Sequences

CONSTANTS
  RowSet,         \* the rows
  Results,        \* the results: sequences of pages, each a sequence of rows
  MaxFailures     \* bound: page fetches that fail

VARIABLES
  pages,          \* the result that is read
  page,           \* the page in rows; pageState is set while a later one exists
  index,          \* of the next row in the page
  fetching,       \* next() awaits rawNextPageAsync
  failures,       \* fetches that failed
  got,            \* the rows the consumer got
  done            \* the consumer was told that it is done

vars == <<pages, page, index, fetching, failures, got, done>>

PageState == page < Len(pages)

TypeOK ==
  /\ pages \in Results
  /\ page \in 1..Len(pages)
  /\ index \in 0..Len(pages[page])
  /\ fetching \in BOOLEAN /\ done \in BOOLEAN
  /\ failures \in 0..MaxFailures
  /\ got \in Seq(RowSet)

Init ==
  /\ pages \in Results
  /\ page = 1
  /\ index = 0
  /\ fetching = FALSE
  /\ failures = 0
  /\ got = <<>>
  /\ done = FALSE

\* [Symbol.asyncIterator]: a first page without rows gives an iterator that is
\* done at once.
FirstPageEmpty == pages[1] = <<>>

-----------------------------------------------------------------------------

\* (fault) the last row of a page is skipped.
Yield_OffByOne ==
  IF index + 1 < Len(pages[page])
  THEN got' = Append(got, pages[page][index + 1]) /\ index' = index + 1 /\ UNCHANGED done
  ELSE done' = TRUE /\ UNCHANGED <<got, index>>

\* (fault) the end is not told.
Yield_NeverDone ==
  IF index < Len(pages[page])
  THEN got' = Append(got, pages[page][index + 1]) /\ index' = index + 1 /\ UNCHANGED done
  ELSE UNCHANGED <<got, index, done>>

\* The end of next(): a row of the page at hand, or done.
Yield ==
  IF index < Len(pages[page])
  THEN got' = Append(got, pages[page][index + 1]) /\ index' = index + 1 /\ UNCHANGED done
  ELSE done' = TRUE /\ UNCHANGED <<got, index>>

Called == ~done /\ ~fetching

UsedUp == index >= Len(pages[page]) /\ PageState

\* next() with a row at hand, or after the last page.
NextHere ==
  /\ Called
  /\ FirstPageEmpty \/ ~UsedUp
  /\ Yield
  /\ UNCHANGED <<pages, page, fetching, failures>>

\* next() up to its await.
NextFetches ==
  /\ Called
  /\ ~FirstPageEmpty /\ UsedUp
  /\ fetching' = TRUE
  /\ UNCHANGED <<pages, page, index, failures, got, done>>

\* The rest of next(), on the page that was fetched.
PageFetched ==
  /\ fetching
  /\ fetching' = FALSE
  /\ page' = page + 1
  /\ IF pages[page + 1] # <<>>
     THEN got' = Append(got, pages[page + 1][1]) /\ index' = 1 /\ UNCHANGED done
     ELSE done' = TRUE /\ index' = 0 /\ UNCHANGED got
  /\ UNCHANGED <<pages, failures>>

\* The fetch is rejected, and so is next(); the iterator is as it was.
FetchFailed ==
  /\ fetching
  /\ failures < MaxFailures
  /\ failures' = failures + 1
  /\ fetching' = FALSE
  /\ UNCHANGED <<pages, page, index, got, done>>

Next == NextHere \/ NextFetches \/ PageFetched \/ FetchFailed

Spec == Init /\ [][Next]_vars

=============================================================================
