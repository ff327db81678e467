---------------------------- MODULE MCConcurrent ----------------------------
(***************************************************************************)
(* executeConcurrent() for TLC: a behaviour is that of one call, over an   *)
(* array or over a stream.                                                 *)
(***************************************************************************)
EXTENDS ConcurrentArray, ConcurrentStream

VARIABLE part            \* what the call was given

\* Two queries, 100 and 200, of which the second comes late: some workers
\* prepare while others execute.
TwoQueries == [i \in Items |-> IF i \in {3, 5} THEN 200 ELSE 100]

\* No null item, and one that a chain takes after others.
SomeNulls == {{}, {4}}

PlainSource == [notArrays |-> {}, fails |-> FALSE, microtasks |-> FALSE]

\* Streams that push in tasks and in microtasks, one that can fail at any time,
\* and one with an item that is not an array.
SomeSources ==
  {PlainSource, [PlainSource EXCEPT !.microtasks = TRUE],
   [notArrays |-> {}, fails |-> TRUE, microtasks |-> TRUE],
   [notArrays |-> {4}, fails |-> FALSE, microtasks |-> TRUE]}

\* The executor that is not used stays as it was made.
MCInit ==
  /\ part \in {"array", "stream"}
  /\ nulls \in SomeNulls /\ source \in SomeSources
  /\ Init /\ StreamInit
  /\ part # "array" => nulls = {} /\ raise
  /\ part # "stream" => source = PlainSource /\ streamRaise

MCNext ==
  /\ UNCHANGED part
  /\ \/ part = "array" /\ Next /\ UNCHANGED streamVars
     \/ part = "stream" /\ StreamNext /\ UNCHANGED vars

mcVars == <<part, vars, streamVars>>

\* The fairness of the executor that is used.
MCSpec ==
  /\ MCInit /\ [][MCNext]_mcVars
  /\ part = "array" => Fairness
  /\ part = "stream" => StreamFairness

\* The promise of execute() is settled, whatever fails and in whatever order the
\* outcomes, the end and the errors of the stream come: see ConcurrentArray and
\* ConcurrentStream.
ExecutorsSettle ==
  /\ part = "array" => Settles
  /\ part = "stream" => StreamSettles
=============================================================================
