-------------------------- MODULE ConcurrentStream --------------------------
(***************************************************************************)
(* executeConcurrent() over a readable stream: StreamBasedExecutor of      *)
(* src/lib/concurrent/index.js.  The executor pauses the stream when       *)
(* StreamLevel executions are in flight and resumes it when one is over.   *)
(*                                                                         *)
(* The handlers chained on an execution run in microtasks of their own:    *)
(* the one that decrements inFlight, and a later one that resumes the      *)
(* stream and may resolve the promise.  A stream that flows emits "data"   *)
(* where its source pushes: in a task of its own, when all microtasks have *)
(* run, or, if the source pushes from promise callbacks, in a microtask    *)
(* that may come between those two handlers.                               *)
(* The pc of an execution is                                               *)
(*   unstarted  its item was not taken from the stream                     *)
(*   flight     client.execute is pending                                  *)
(*   counted    inFlight was decremented, the last handler is queued       *)
(*   over                                                                  *)
(***************************************************************************)
EXTENDS ResultSetGroup

CONSTANTS
  Length,            \* the items the stream holds
  StreamLevel        \* options.concurrencyLevel

ASSUME StreamAssumption ==
  /\ Length \in Nat
  /\ StreamLevel \in Nat \ {0}

StreamItems == 0..(Length - 1)

\* The streams: which items are not arrays, whether the stream can emit "error",
\* and whether its source pushes in microtasks.
Sources == [notArrays: SUBSET StreamItems, fails: BOOLEAN, microtasks: BOOLEAN]

VARIABLES
  streamRaise,       \* #raiseOnFirstError: never changed
  source,            \* the stream: never changed
  emitted,           \* "data" events so far
  ended,             \* the stream emitted "end" or "error"
  paused,            \* stream.isPaused()
  inFlight,          \* #inFlight
  index,             \* #index
  readEnded,         \* #readEnded
  streamPc,          \* of each execution, by its index
  streamGroup,       \* #result
  streamPromise      \* the promise of execute()

streamVars == <<streamRaise, source, emitted, ended, paused, inFlight, index, readEnded,
                streamPc, streamGroup, streamPromise>>

StreamTypeOK ==
  /\ streamRaise \in BOOLEAN
  /\ source \in Sources
  /\ emitted \in 0..Length
  /\ ended \in BOOLEAN
  /\ paused \in BOOLEAN
  /\ inFlight \in 0..Length
  /\ index \in 0..Length
  /\ readEnded \in BOOLEAN
  /\ streamPc \in [StreamItems -> {"unstarted", "flight", "counted", "over"}]
  /\ streamGroup \in [totalExecuted: Nat, errors: Nat,
                      resultItems: [StreamItems -> {"hole", "rs", "err"}]]
  /\ streamPromise \in {"pending", "resolved", "rejected"}

StreamInit ==
  /\ streamRaise \in BOOLEAN
  /\ source \in Sources
  /\ emitted = 0
  /\ ended = FALSE
  /\ paused = FALSE
  /\ inFlight = 0
  /\ index = 0
  /\ readEnded = FALSE
  /\ streamPc = [i \in StreamItems |-> "unstarted"]
  /\ streamGroup = NewGroup(StreamItems)
  /\ streamPromise = "pending"

\* A promise keeps its first outcome.
SettledAs(outcome) == IF streamPromise = "pending" THEN outcome ELSE streamPromise

-----------------------------------------------------------------------------

\* (fault) resolves at the end of the stream whatever is in flight.
SetReadEnded_Early(err) ==
  /\ readEnded' = TRUE
  /\ streamPromise' = IF readEnded THEN streamPromise
                      ELSE IF err THEN SettledAs("rejected") ELSE SettledAs("resolved")

\* #setReadEnded: the first time, reject on an error, or resolve when nothing
\* is in flight.
SetReadEnded(err) ==
  /\ readEnded' = TRUE
  /\ streamPromise' = IF readEnded THEN streamPromise
                      ELSE IF err THEN SettledAs("rejected")
                      ELSE IF inFlight = 0 THEN SettledAs("resolved") ELSE streamPromise

\* (fault) the stream is not paused.
StartOne_NeverPauses ==
  /\ inFlight' = inFlight + 1
  /\ index' = index + 1
  /\ streamPc' = [streamPc EXCEPT ![index] = "flight"]
  /\ UNCHANGED <<paused, readEnded, streamPromise>>

StartOne ==
  /\ inFlight' = inFlight + 1
  /\ index' = index + 1
  /\ streamPc' = [streamPc EXCEPT ![index] = "flight"]
  /\ paused' = (inFlight + 1 >= StreamLevel)
  /\ UNCHANGED <<readEnded, streamPromise>>

\* The stream flows, and its source may push now.
Flows ==
  /\ ~paused /\ ~ended
  /\ source.microtasks \/ \A i \in StreamItems : streamPc[i] # "counted"

\* "data" and #executeOne.  Items that follow a read error, or a failure with
\* raiseOnFirstError, are ignored.
Data ==
  /\ Flows
  /\ emitted < Length
  /\ emitted' = emitted + 1
  /\ IF emitted \in source.notArrays
     THEN SetReadEnded(TRUE) /\ UNCHANGED <<inFlight, index, streamPc, paused>>
     ELSE IF readEnded
     THEN UNCHANGED <<inFlight, index, streamPc, paused, readEnded, streamPromise>>
     ELSE StartOne
  /\ UNCHANGED <<ended, streamGroup>>

\* "end" comes after all data, and only to a stream that flows.
End ==
  /\ Flows
  /\ emitted = Length
  /\ ended' = TRUE
  /\ SetReadEnded(FALSE)
  /\ UNCHANGED <<emitted, paused, inFlight, index, streamPc, streamGroup>>

\* "error" comes at any time and destroys the stream.
Error ==
  /\ source.fails
  /\ ~ended
  /\ ended' = TRUE
  /\ SetReadEnded(TRUE)
  /\ UNCHANGED <<emitted, paused, inFlight, index, streamPc, streamGroup>>

\* The first handler of an execution that succeeded.
StreamExecuted(i) ==
  /\ streamPc[i] = "flight"
  /\ streamGroup' = SetResultItem(streamGroup, i)
  /\ inFlight' = inFlight - 1
  /\ streamPc' = [streamPc EXCEPT ![i] = "counted"]
  /\ UNCHANGED <<emitted, ended, paused, index, readEnded, streamPromise>>

\* (fault) inFlight is not decremented for a failed execution.
StreamFailed_KeepsCount(i) ==
  /\ streamPc[i] = "flight"
  /\ streamGroup' = SetError(streamGroup, i)
  /\ streamPc' = [streamPc EXCEPT ![i] = "counted"]
  /\ IF streamRaise
     THEN readEnded' = TRUE /\ streamPromise' = SettledAs("rejected")
     ELSE UNCHANGED <<readEnded, streamPromise>>
  /\ UNCHANGED <<emitted, ended, paused, index, inFlight>>

\* The handler of an execution that failed, and #setError.
StreamFailed(i) ==
  /\ streamPc[i] = "flight"
  /\ inFlight' = inFlight - 1
  /\ streamGroup' = SetError(streamGroup, i)
  /\ streamPc' = [streamPc EXCEPT ![i] = "counted"]
  /\ IF streamRaise
     THEN readEnded' = TRUE /\ streamPromise' = SettledAs("rejected")
     ELSE UNCHANGED <<readEnded, streamPromise>>
  /\ UNCHANGED <<emitted, ended, paused, index>>

\* (faults) the last handler forgets to resume, or to resolve.
Over_StaysPaused(i) ==
  /\ streamPc[i] = "counted"
  /\ streamPromise' = IF readEnded /\ inFlight = 0 THEN SettledAs("resolved") ELSE streamPromise
  /\ streamPc' = [streamPc EXCEPT ![i] = "over"]
  /\ UNCHANGED <<emitted, ended, paused, inFlight, index, readEnded, streamGroup>>

Over_NeverResolves(i) ==
  /\ streamPc[i] = "counted"
  /\ paused' = FALSE
  /\ streamPc' = [streamPc EXCEPT ![i] = "over"]
  /\ UNCHANGED <<emitted, ended, inFlight, index, readEnded, streamGroup, streamPromise>>

\* The last handler: resume the stream, resolve if this was the last one.
Over(i) ==
  /\ streamPc[i] = "counted"
  /\ paused' = FALSE
  /\ streamPromise' = IF readEnded /\ inFlight = 0 THEN SettledAs("resolved") ELSE streamPromise
  /\ streamPc' = [streamPc EXCEPT ![i] = "over"]
  /\ UNCHANGED <<emitted, ended, inFlight, index, readEnded, streamGroup>>

StreamNext ==
  /\ \/ Data \/ End \/ Error
     \/ \E i \in StreamItems : StreamExecuted(i) \/ StreamFailed(i) \/ Over(i)
  /\ UNCHANGED <<streamRaise, source>>

StreamSpec == StreamInit /\ [][StreamNext]_streamVars

\* The stream goes on while it flows, requests complete, microtasks run.
StreamFairness ==
  /\ WF_streamVars((Data \/ End) /\ UNCHANGED <<streamRaise, source>>)
  /\ \A i \in StreamItems :
       /\ WF_streamVars((StreamExecuted(i) \/ StreamFailed(i)) /\ UNCHANGED <<streamRaise, source>>)
       /\ WF_streamVars(Over(i) /\ UNCHANGED <<streamRaise, source>>)

StreamFairSpec == StreamSpec /\ StreamFairness

-----------------------------------------------------------------------------

\* #inFlight is the number of executions the session has, whatever failed.
InFlightIsExact ==
  StreamTypeOK /\ inFlight = Cardinality({i \in StreamItems : streamPc[i] = "flight"})

\* The stream is paused only while some execution is there to resume it.
PausedIsResumed ==
  paused => \E i \in StreamItems : streamPc[i] \in {"flight", "counted"}

\* "The concurrency level to determine the maximum amount of in-flight
\* operations at any given time" (doc of executeConcurrent).
InFlightWithinLevel == inFlight <= StreamLevel

\* The stream is paused in time, whatever order executions complete in, when
\* its source pushes in tasks of its own.
TaskSourceWithinLevel == ~source.microtasks => inFlight <= StreamLevel

\* The counter that pauses the stream is exact, and a paused stream is always
\* resumed: the flow control neither overruns the level nor stalls.
FlowControl == InFlightIsExact /\ PausedIsResumed /\ TaskSourceWithinLevel

\* The promise is settled in the end, whatever the order in which the end of
\* the stream, its errors and the executions' outcomes come.
StreamSettles == <>(streamPromise # "pending")

StreamStatusOf(i) ==
  IF streamGroup.resultItems[i] = "rs" THEN "ok"
  ELSE IF streamGroup.resultItems[i] = "err" THEN "failed"
  ELSE IF streamPc[i] = "flight" THEN "flight" ELSE "todo"

StreamPromised ==
  INSTANCE ExecuteAll WITH
    Items <- StreamItems, raise <- streamRaise, promise <- streamPromise,
    sourceBreaks <- source.fails \/ source.notArrays # {},
    status <- [i \in StreamItems |-> StreamStatusOf(i)]

\* Each item is executed once and the promise is settled for the reasons the
\* documentation gives.
StreamImplementsExecuteAll == StreamPromised!ESpec

=============================================================================
