---------------------------- MODULE AsyncHelpers ----------------------------
(***************************************************************************)
(* The control flow helpers of utils.js (each, map, parallel, series,      *)
(* times, timesLimit, whilst and their variants) and times() of            *)
(* promise-utils.js: they start `count` items, each of which calls next()  *)
(* once, and call back when all are done or one has failed.                *)
(*                                                                         *)
(* A state is one between two turns of the event loop, except that a       *)
(* callback given to process.nextTick() waits in `ticks`.  An item may     *)
(* call next() before it returns, so the helpers call themselves; the      *)
(* record `s` threads their local variables through these calls.           *)
(***************************************************************************)
EXTENDS Naturals, Sequences, SequencesExt, FiniteSets

CONSTANTS
    Helpers,        \* the helpers that are called
    MaxCount,       \* the largest number of items
    MaxLimit        \* the largest concurrency limit

VARIABLES
    job,            \* the call: its helper, count, limit and how each item behaves
    frame           \* the local variables of the helper, and what can be observed

helperVars == <<job, frame>>

Items(j) == 0..(j.count - 1)

\* The items are numbered from 0; sync: next() is called before the item returns.
Jobs ==
    UNION {[helper : Helpers, count : {n}, limit : 1..MaxLimit,
            sync : [0..(n - 1) -> BOOLEAN], fails : [0..(n - 1) -> BOOLEAN]] : n \in 0..MaxCount}

Fresh ==
    [index |-> 0, sync |-> "undefined", completed |-> 0, silenced |-> FALSE, looping |-> FALSE,
     running |-> {}, ticks |-> <<>>, depth |-> 0, deepest |-> 0,
     begun |-> <<>>, results |-> {}, called |-> <<>>]

\* A call of the callback of the helper.
CallBack(s, outcome) == IF s.silenced THEN s ELSE [s EXCEPT !.called = Append(@, outcome)]

\* (fault) The callback is not replaced by a noop.
FailOnce_Again(s) == CallBack(s, "error")

\* The callback is replaced by a noop, then called with the error.
FailOnce(s) == [CallBack(s, "error") EXCEPT !.silenced = TRUE]

RECURSIVE Invoke(_, _, _), NextInSeries(_, _, _), NextOfSeries(_, _, _), NextOfWhilst(_, _, _),
          NextOfTimesLimit(_, _, _)

\* next() of each(), mapEach(), parallel() and times().
NextOfAll(j, s, i) ==
    IF j.fails[i] THEN FailOnce(s)
    ELSE LET done == [s EXCEPT !.completed = @ + 1]
         IN IF done.completed # j.count THEN done ELSE CallBack(done, "ok")

\* next() of eachSeries(), mapSeries() and timesSeries().
NextInSeries(j, s, i) ==
    IF j.fails[i] THEN CallBack(s, "error")
    ELSE IF s.index >= j.count THEN CallBack(s, "ok")
    ELSE LET known == [s EXCEPT !.sync = IF @ = "undefined" THEN "true" ELSE @,
                                !.index = @ + 1]
         IN IF known.sync = "true" THEN [known EXCEPT !.ticks = Append(@, s.index)]
            ELSE Invoke(j, known, s.index)

\* The call of one function of series(), marked by sync.
Marked(j, s) ==
    [Invoke(j, [s EXCEPT !.sync = "true", !.index = @ + 1], s.index) EXCEPT !.sync = "false"]

\* next() of series(), also its first call.
NextOfSeries(j, s, i) ==
    IF i \in Items(j) /\ j.fails[i] THEN CallBack(s, "error")
    ELSE IF s.index = j.count THEN CallBack(s, "ok")
    ELSE IF s.sync = "true" THEN [s EXCEPT !.ticks = Append(@, s.index)]
    ELSE Marked(j, s)

\* next() of timesLimit(): sync is settled by the first call that starts another.
NextOfTimesLimit(j, s, i) ==
    IF j.fails[i] THEN FailOnce(s)
    ELSE LET done == [s EXCEPT !.completed = @ + 1]
             more == [done EXCEPT !.index = @ + 1]
             known == [more EXCEPT !.sync = IF @ # "undefined" THEN @
                                            ELSE IF s.looping THEN "true" ELSE "false"]
         IN IF done.completed = j.count THEN CallBack(done, "ok")
            ELSE IF more.index >= j.count THEN more
            ELSE IF known.sync = "true" THEN [known EXCEPT !.ticks = Append(@, known.index)]
            ELSE Invoke(j, known, known.index)

\* next() of whilst(): condition() holds `count` times; "1" is a first call under way,
\* "4" one that called next() before it returned, "2" one that had not.
NextOfWhilst(j, s, i) ==
    LET seen == [s EXCEPT !.sync = IF @ = "1" THEN "4" ELSE @]
        next == [seen EXCEPT !.index = @ + 1]
    IN IF i \in Items(j) /\ j.fails[i] THEN CallBack(seen, "error")
       ELSE IF seen.index = j.count THEN CallBack(seen, "ok")
       ELSE IF seen.sync = "undefined"
            THEN LET first == Invoke(j, [next EXCEPT !.sync = "1"], s.index)
                 IN [first EXCEPT !.sync = IF @ = "1" THEN "2" ELSE @]
       ELSE IF seen.sync = "4" THEN [next EXCEPT !.ticks = Append(@, s.index)]
       ELSE Invoke(j, next, s.index)

\* invokeSequentially(): the worker takes the next index, or ends.  Promise.all()
\* settles at the first rejection, or when the last worker ends.
NextOfWorker(j, s, i) ==
    IF j.fails[i] THEN FailOnce(s)
    ELSE IF s.index < j.count THEN Invoke(j, [s EXCEPT !.index = @ + 1], s.index)
    ELSE LET done == [s EXCEPT !.completed = @ + 1]
         IN IF done.completed # j.limit THEN done ELSE CallBack(done, "ok")

NextOf(j, s, i) ==
    CASE j.helper \in {"each", "mapEach", "parallel", "times"} -> NextOfAll(j, s, i)
      [] j.helper \in {"eachSeries", "mapSeries", "timesSeries"} -> NextInSeries(j, s, i)
      [] j.helper = "series" -> NextOfSeries(j, s, i)
      [] j.helper = "timesLimit" -> NextOfTimesLimit(j, s, i)
      [] j.helper = "whilst" -> NextOfWhilst(j, s, i)
      [] j.helper = "promiseTimes" -> NextOfWorker(j, s, i)

\* Item i has called next(); its result is kept at its own place.
Completed(j, s, i) == NextOf(j, [s EXCEPT !.results = @ \cup {i}], i)

\* An item is called.  An async function never answers before it returns.
Invoke(j, s, i) ==
    LET begun == [s EXCEPT !.begun = Append(@, i)]
        nested == [begun EXCEPT !.depth = @ + 1,
                                !.deepest = IF @ > s.depth THEN @ ELSE s.depth + 1]
    IN IF j.sync[i] /\ j.helper # "promiseTimes"
       THEN [Completed(j, nested, i) EXCEPT !.depth = s.depth]
       ELSE [begun EXCEPT !.running = @ \cup {i}]

\* The loop `for (i = 0; i < n; i++)` that starts the first n items.
InvokeUpTo(j, s, n) ==
    LET Loop(t, i) == Invoke(j, t, i)
    IN FoldLeft(Loop, s, [k \in 1..n |-> k - 1])

Each(j) == IF j.count = 0 THEN CallBack(Fresh, "ok") ELSE InvokeUpTo(j, Fresh, j.count)
MapEach(j) == IF j.count = 0 THEN CallBack(Fresh, "ok") ELSE InvokeUpTo(j, Fresh, j.count)
Times(j) == IF j.count = 0 THEN CallBack(Fresh, "ok") ELSE InvokeUpTo(j, Fresh, j.count)
\* There is no test for an empty array.
Parallel(j) == InvokeUpTo(j, Fresh, j.count)

FirstOf(j) ==
    IF j.count = 0 THEN CallBack(Fresh, "ok")
    ELSE LET s == Invoke(j, [Fresh EXCEPT !.index = 1], 0)
         IN [s EXCEPT !.sync = IF @ = "undefined" THEN "false" ELSE @]
EachSeries(j) == FirstOf(j)
MapSeries(j) == FirstOf(j)
TimesSeries(j) == FirstOf(j)
Series(j) == NextOfSeries(j, Fresh, j.count)
Whilst(j) == NextOfWhilst(j, Fresh, j.count)

Least(a, b) == IF a < b THEN a ELSE b

\* (fault) The next index is the limit's own.
TimesLimit_Off(j) ==
    LET limit == Least(j.limit, j.count)
        s == InvokeUpTo(j, [Fresh EXCEPT !.index = limit, !.looping = TRUE], limit)
    IN [s EXCEPT !.looping = FALSE]

\* index is the last item that was started; there is no test for a count of 0.
TimesLimit(j) ==
    LET limit == Least(j.limit, j.count)
        s == InvokeUpTo(j, [Fresh EXCEPT !.index = IF limit = 0 THEN 0 ELSE limit - 1,
                                         !.looping = TRUE], limit)
    IN [s EXCEPT !.looping = FALSE]

\* The workers of times() of promise-utils.js; Promise.all([]) is resolved.
PromiseTimes(j) ==
    IF j.count = 0 THEN CallBack(Fresh, "ok")
    ELSE InvokeUpTo(j, [Fresh EXCEPT !.index = j.limit], j.limit)

Start(j) ==
    CASE j.helper = "each" -> Each(j)
      [] j.helper = "mapEach" -> MapEach(j)
      [] j.helper = "parallel" -> Parallel(j)
      [] j.helper = "times" -> Times(j)
      [] j.helper = "eachSeries" -> EachSeries(j)
      [] j.helper = "mapSeries" -> MapSeries(j)
      [] j.helper = "timesSeries" -> TimesSeries(j)
      [] j.helper = "series" -> Series(j)
      [] j.helper = "timesLimit" -> TimesLimit(j)
      [] j.helper = "whilst" -> Whilst(j)
      [] j.helper = "promiseTimes" -> PromiseTimes(j)

HelperInit ==
    /\ job \in {[j EXCEPT !.limit = IF j.helper = "promiseTimes" THEN Least(@, j.count) ELSE @] :
                    j \in Jobs}
    /\ frame = Start(job)

\* An item that is under way calls next().
ItemAnswers(i) ==
    /\ frame.ticks = <<>>
    /\ i \in frame.running
    /\ frame' = Completed(job, [frame EXCEPT !.running = @ \ {i}], i)
    /\ UNCHANGED job

\* The oldest callback of process.nextTick() runs.
Tick ==
    /\ frame.ticks # <<>>
    /\ LET s == [frame EXCEPT !.ticks = Tail(@)]
       IN frame' = IF job.helper = "series" THEN Marked(job, s)
                   ELSE Invoke(job, s, Head(frame.ticks))
    /\ UNCHANGED job

HelperNext == Tick \/ \E i \in Items(job) : ItemAnswers(i)
HelperSpec == HelperInit /\ [][HelperNext]_helperVars

--------------------------------------------------------------------------
(* Properties                                                              *)

OneByOne == {"eachSeries", "mapSeries", "timesSeries", "series", "whilst"}

AtRest == frame.running = {} /\ frame.ticks = <<>>

\* Neither parallel() nor timesLimit() calls back when there is nothing to do.
NeverCallsBack == job.count = 0 /\ job.helper \in {"parallel", "timesLimit"}

InFlightLimit ==
    IF job.helper \in OneByOne THEN 1
    ELSE IF job.helper \in {"timesLimit", "promiseTimes"} THEN job.limit ELSE job.count

(***************************************************************************)
(* Whichever items call next() before they return, and in whatever order   *)
(* the others do, a helper calls back exactly once: with success when      *)
(* every item has succeeded, with an error as soon as one has failed.  No  *)
(* item is started twice, no more are under way than the limit, those of a *)
(* series are started in order and none after one that failed.  When the   *)
(* items all answer in the same way, calls are never nested by more than   *)
(* one answer, which is what process.nextTick() is used for; series()      *)
(* keeps that for any items.                                               *)
(***************************************************************************)
HelpersCallBackOnce ==
    LET failed == {i \in frame.results : job.fails[i]}
    IN /\ Len(frame.called) <= 1
       /\ (frame.called = <<"error">>) <=> (failed # {})
       /\ frame.called = <<"ok">> => frame.results = Items(job) /\ AtRest
       /\ AtRest => (frame.called = <<>> <=> NeverCallsBack)
       /\ IsInjective(frame.begun)
       /\ Cardinality(frame.running) <= InFlightLimit
       /\ job.helper \in OneByOne =>
             /\ frame.begun = [k \in DOMAIN frame.begun |-> k - 1]
             /\ failed # {} => AtRest
       /\ Cardinality({job.sync[i] : i \in Items(job)}) <= 1 \/ job.helper = "series" =>
             frame.deepest <= 1
=============================================================================
