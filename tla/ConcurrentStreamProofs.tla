----------------------- MODULE ConcurrentStreamProofs -----------------------
(***************************************************************************)
(* Theorems about ConcurrentStream, for streams of any length, any level   *)
(* and any sources.                                                        *)
(***************************************************************************)
EXTENDS ConcurrentStream, FiniteSetTheorems, TLAPS

Groups(indexes) ==
  [totalExecuted: Nat, errors: Nat, resultItems: [indexes -> {"hole", "rs", "err"}]]

\* A group keeps its type whatever it is told.
LEMMA GroupKeeps ==
  ASSUME NEW S, NEW g \in Groups(S), NEW i \in S
  PROVE  SetResultItem(g, i) \in Groups(S) /\ SetError(g, i) \in Groups(S)
<1> USE DEF Groups
<1>1. g.totalExecuted + 1 \in Nat /\ g.errors \in Nat
  OBVIOUS
<1>2. g.errors + (IF g.errors < MaxErrors THEN 1 ELSE 0) \in Nat
  BY <1>1
<1>3. \A what \in {"rs", "err"} :
        [g.resultItems EXCEPT ![i] = what] \in [S -> {"hole", "rs", "err"}]
  OBVIOUS
<1> QED BY <1>1, <1>2, <1>3 DEF SetResultItem, SetError

InFlight == {i \in StreamItems : streamPc[i] = "flight"}
Counted == {i \in StreamItems : streamPc[i] = "counted"}

(***************************************************************************)
(* The invariant of the flow control.  The items below #index are the      *)
(* started ones.  A source that pushes in tasks finds the stream flowing   *)
(* only when there is room for one more execution; it does not push while  *)
(* a last handler is queued, and by then one execution is over.            *)
(***************************************************************************)
FlowInv ==
  /\ StreamTypeOK
  /\ index <= emitted
  /\ \A i \in StreamItems : streamPc[i] = "unstarted" <=> i >= index
  /\ inFlight = Cardinality(InFlight)
  /\ PausedIsResumed
  /\ ~source.microtasks =>
       /\ inFlight <= StreamLevel
       /\ ~paused \/ Counted # {} => inFlight < StreamLevel

\* A set of items is finite, and has no more than N elements.
LEMMA ItemsAreFinite ==
  ASSUME NEW S \in SUBSET StreamItems
  PROVE  IsFiniteSet(S) /\ Cardinality(S) \in 0..Length
<1>1. IsFiniteSet(StreamItems) /\ Cardinality(StreamItems) = Length
  <2>1. Length \in Nat /\ 0 \in Int /\ Length - 1 \in Int
    BY GroupAssumption, StreamAssumption
  <2> QED BY <2>1, FS_Interval DEF StreamItems
<1>2. IsFiniteSet(S) /\ Cardinality(S) <= Length
  BY <1>1, FS_Subset
<1>3. Cardinality(S) \in Nat
  BY <1>2, FS_CardinalityType
<1> QED BY <1>2, <1>3, GroupAssumption, StreamAssumption

\* At first nothing is in flight, and there is room.
LEMMA FlowInvInit == StreamInit => FlowInv
<1> SUFFICES ASSUME StreamInit PROVE FlowInv
  OBVIOUS
<1>1. StreamTypeOK
  <2>1. 0 \in 0..Length
    BY GroupAssumption, StreamAssumption
  <2>2. NewGroup(StreamItems) \in [totalExecuted: Nat, errors: Nat,
                             resultItems: [StreamItems -> {"hole", "rs", "err"}]]
    BY DEF NewGroup
  <2>3. [i \in StreamItems |-> "unstarted"] \in [StreamItems -> {"unstarted", "flight", "counted", "over"}]
    OBVIOUS
  <2> QED BY <2>1, <2>2, <2>3 DEF StreamInit, StreamTypeOK
<1>2. InFlight = {} /\ Counted = {}
  BY DEF StreamInit, InFlight, Counted
<1>3. Cardinality(InFlight) = 0
  BY <1>2, FS_EmptySet
<1>4. \A i \in StreamItems : i >= index /\ streamPc[i] = "unstarted"
  BY GroupAssumption, StreamAssumption DEF StreamInit, StreamItems
<1>5. PausedIsResumed
  BY DEF StreamInit, PausedIsResumed
<1> QED BY <1>1, <1>2, <1>3, <1>4, <1>5, GroupAssumption, StreamAssumption DEF StreamInit, FlowInv

\* An item that is started is counted.
LEMMA StartKeeps ==
  ASSUME FlowInv, Flows, emitted < Length, emitted' = emitted + 1, StartOne, ~readEnded,
         UNCHANGED <<streamRaise, source, ended, streamGroup>>
  PROVE  FlowInv'
<1> USE DEF FlowInv, StartOne
<1>1. /\ Length \in Nat /\ StreamLevel \in Nat \ {0}
      /\ index \in 0..Length /\ emitted \in 0..Length /\ inFlight \in 0..Length
      /\ streamPc \in [StreamItems -> {"unstarted", "flight", "counted", "over"}]
  BY GroupAssumption, StreamAssumption DEF StreamTypeOK
<1>2. index \in StreamItems /\ streamPc[index] = "unstarted"
  BY <1>1 DEF StreamItems
<1>3. InFlight' = InFlight \cup {index} /\ index \notin InFlight
  BY <1>1, <1>2 DEF InFlight
<1>4. IsFiniteSet(InFlight)
  BY ItemsAreFinite DEF InFlight
<1>5. inFlight' = Cardinality(InFlight')
  BY <1>3, <1>4, FS_AddElement
<1>6. Cardinality(InFlight') \in 0..Length
  <2>1. InFlight' \in SUBSET StreamItems
    BY <1>2, <1>3 DEF InFlight
  <2> QED BY <2>1, ItemsAreFinite
<1>7. StreamTypeOK'
  BY <1>1, <1>2, <1>5, <1>6 DEF StreamTypeOK
<1>8. \A i \in StreamItems : streamPc'[i] = "unstarted" <=> i >= index'
  BY <1>1, <1>2 DEF StreamItems
<1>9. PausedIsResumed'
  BY <1>1, <1>2 DEF PausedIsResumed
<1>10. ~source'.microtasks => /\ inFlight' <= StreamLevel
                              /\ ~paused' \/ Counted' # {} => inFlight' < StreamLevel
  <2> SUFFICES ASSUME ~source.microtasks
               PROVE  /\ inFlight + 1 <= StreamLevel
                      /\ ~paused' \/ Counted' # {} => inFlight + 1 < StreamLevel
    OBVIOUS
  <2>1. Counted = {} /\ Counted' = {}
    BY <1>1, <1>2 DEF Flows, Counted
  <2>2. inFlight < StreamLevel
    BY DEF Flows
  <2>3. ~paused' => ~(inFlight + 1 >= StreamLevel)
    BY Zenon
  <2>4. inFlight + 1 <= StreamLevel /\ (~(inFlight + 1 >= StreamLevel) => inFlight + 1 < StreamLevel)
    BY <1>1, <2>2
  <2> QED BY <2>1, <2>3, <2>4
<1> QED BY <1>1, <1>5, <1>7, <1>8, <1>9, <1>10

\* A step that starts and ends no execution.
LEMMA OtherwiseKeeps ==
  ASSUME FlowInv, UNCHANGED <<streamRaise, source, paused, inFlight, index, streamPc, streamGroup>>,
         emitted' \in emitted..Length, ended' \in BOOLEAN, readEnded' \in BOOLEAN,
         streamPromise' \in {"pending", "resolved", "rejected"}
  PROVE  FlowInv'
<1>1. StreamTypeOK'
  BY GroupAssumption, StreamAssumption DEF FlowInv, StreamTypeOK
<1>2. InFlight' = InFlight /\ Counted' = Counted
  BY DEF InFlight, Counted
<1>3. index' <= emitted'
  BY GroupAssumption, StreamAssumption DEF FlowInv, StreamTypeOK
<1> QED BY <1>1, <1>2, <1>3 DEF FlowInv, PausedIsResumed

\* An execution that ends leaves the set that is counted, and one of its
\* handlers is there to resume the stream.
LEMMA EndKeeps ==
  ASSUME FlowInv, NEW i \in StreamItems, streamPc[i] = "flight",
         inFlight' = inFlight - 1, streamPc' = [streamPc EXCEPT ![i] = "counted"],
         streamGroup' = SetResultItem(streamGroup, i) \/ streamGroup' = SetError(streamGroup, i),
         readEnded' \in BOOLEAN, streamPromise' \in {"pending", "resolved", "rejected"},
         UNCHANGED <<streamRaise, source, emitted, ended, paused, index>>
  PROVE  FlowInv'
<1> USE DEF FlowInv
<1>1. /\ Length \in Nat /\ StreamLevel \in Nat \ {0}
      /\ index \in 0..Length /\ emitted \in 0..Length /\ inFlight \in 0..Length
      /\ streamPc \in [StreamItems -> {"unstarted", "flight", "counted", "over"}]
  BY GroupAssumption, StreamAssumption DEF StreamTypeOK
<1>2. InFlight' = InFlight \ {i} /\ i \in InFlight
  BY <1>1 DEF InFlight
<1>3. IsFiniteSet(InFlight)
  BY ItemsAreFinite DEF InFlight
<1>4. inFlight' = Cardinality(InFlight')
  BY <1>2, <1>3, FS_RemoveElement
<1>5. Cardinality(InFlight') \in 0..Length
  <2>1. InFlight' \in SUBSET StreamItems
    BY <1>2 DEF InFlight
  <2> QED BY <2>1, ItemsAreFinite
<1>6. streamGroup' \in [totalExecuted: Nat, errors: Nat, resultItems: [StreamItems -> {"hole", "rs", "err"}]]
  BY GroupKeeps DEF StreamTypeOK, Groups
<1>7. StreamTypeOK'
  BY <1>1, <1>4, <1>5, <1>6 DEF StreamTypeOK
<1>8. \A j \in StreamItems : streamPc'[j] = "unstarted" <=> streamPc[j] = "unstarted"
  BY <1>1
<1>9. PausedIsResumed'
  BY <1>1 DEF PausedIsResumed
<1> QED BY <1>1, <1>4, <1>7, <1>8, <1>9

\* The last handler of an execution resumes the stream when there is room.
LEMMA OverKeeps ==
  ASSUME FlowInv, NEW i \in StreamItems, Over(i), UNCHANGED <<streamRaise, source>>
  PROVE  FlowInv'
<1> USE DEF FlowInv, Over
<1>1. streamPc \in [StreamItems -> {"unstarted", "flight", "counted", "over"}]
  BY DEF StreamTypeOK
<1>2. InFlight' = InFlight
  BY <1>1 DEF InFlight
<1>3. i \in Counted
  BY DEF Counted
<1>4. StreamTypeOK'
  BY DEF StreamTypeOK, SettledAs
<1>5. \A j \in StreamItems : streamPc'[j] = "unstarted" <=> streamPc[j] = "unstarted"
  BY <1>1
<1>6. PausedIsResumed'
  BY DEF PausedIsResumed
<1> QED BY <1>2, <1>3, <1>4, <1>5, <1>6

\* Every step keeps the invariant.
LEMMA FlowInvStep == FlowInv /\ [StreamNext]_streamVars => FlowInv'
<1> SUFFICES ASSUME FlowInv, [StreamNext]_streamVars PROVE FlowInv'
  OBVIOUS
<1>1. /\ Length \in Nat /\ emitted \in 0..Length /\ ended \in BOOLEAN /\ readEnded \in BOOLEAN
      /\ streamPromise \in {"pending", "resolved", "rejected"}
  BY GroupAssumption, StreamAssumption DEF FlowInv, StreamTypeOK
<1>2. CASE Data /\ UNCHANGED <<streamRaise, source>>
  <2>1. CASE emitted \in source.notArrays
    <3>1. /\ emitted' \in emitted..Length
          /\ readEnded' \in BOOLEAN /\ streamPromise' \in {"pending", "resolved", "rejected"}
      BY <1>1, <1>2, <2>1 DEF Data, SetReadEnded, SettledAs
    <3> QED BY <1>1, <1>2, <2>1, <3>1, OtherwiseKeeps DEF Data, SetReadEnded
  <2>2. CASE emitted \notin source.notArrays /\ readEnded
    <3>1. emitted' \in emitted..Length
      BY <1>1, <1>2 DEF Data
    <3> QED BY <1>1, <1>2, <2>2, <3>1, OtherwiseKeeps DEF Data
  <2>3. CASE emitted \notin source.notArrays /\ ~readEnded
    BY <1>2, <2>3, StartKeeps DEF Data
  <2> QED BY <2>1, <2>2, <2>3
<1>3. CASE (End \/ Error) /\ UNCHANGED <<streamRaise, source>>
  <2>1. readEnded' \in BOOLEAN /\ streamPromise' \in {"pending", "resolved", "rejected"}
    BY <1>1, <1>3 DEF End, Error, SetReadEnded, SettledAs
  <2>2. emitted' = emitted /\ ended' = TRUE
    BY <1>3 DEF End, Error
  <2>3. emitted' \in emitted..Length /\ ended' \in BOOLEAN
    BY <1>1, <2>2
  <2> QED BY <1>3, <2>1, <2>3, OtherwiseKeeps DEF End, Error, SetReadEnded
<1>4. ASSUME NEW i \in StreamItems, StreamExecuted(i) \/ StreamFailed(i), UNCHANGED <<streamRaise, source>>
      PROVE  FlowInv'
  <2>1. readEnded' \in BOOLEAN /\ streamPromise' \in {"pending", "resolved", "rejected"}
    BY <1>1, <1>4 DEF StreamExecuted, StreamFailed, SettledAs
  <2> QED BY <1>4, <2>1, EndKeeps DEF StreamExecuted, StreamFailed
<1>5. CASE UNCHANGED streamVars
  BY <1>1, <1>5, OtherwiseKeeps DEF streamVars
<1> QED BY <1>2, <1>3, <1>4, <1>5, OverKeeps DEF StreamNext

\* The invariant holds whatever the stream and the executions do.
THEOREM FlowInvariant == StreamSpec => []FlowInv
BY FlowInvInit, FlowInvStep, PTL DEF StreamSpec

\* For every length, level and source: #inFlight is the number of executions
\* under way, a paused stream has an execution that will resume it, and a
\* source that pushes in tasks never has more than the level in flight.
THEOREM FlowIsControlled == StreamSpec => []FlowControl
<1>1. FlowInv => FlowControl
  BY DEF FlowInv, FlowControl, InFlightIsExact, TaskSourceWithinLevel, InFlight
<1> QED BY <1>1, FlowInvariant, PTL

-----------------------------------------------------------------------------

(***************************************************************************)
(* What the promise depends on: an item has an outcome once its execution  *)
(* was counted; no item is passed over before the reading ends; and a      *)
(* promise still pending after that knows of no failure that should have   *)
(* rejected it.                                                            *)
(***************************************************************************)
ExecInv ==
  /\ FlowInv
  /\ \A i \in StreamItems : streamGroup.resultItems[i] = "hole" <=> streamPc[i] \in {"unstarted", "flight"}
  /\ ~readEnded => index = emitted /\ streamPromise = "pending"
  /\ streamPromise = "pending" /\ readEnded => index = Length
  /\ streamRaise /\ streamPromise = "pending" => \A i \in StreamItems : streamGroup.resultItems[i] # "err"

Status == [i \in StreamItems |-> StreamStatusOf(i)]

\* At first every item is to do.
LEMMA ExecInvInit == StreamInit => ExecInv /\ StreamPromised!EInit
<1> SUFFICES ASSUME StreamInit PROVE ExecInv /\ StreamPromised!EInit
  OBVIOUS
<1>1. \A i \in StreamItems : streamGroup.resultItems[i] = "hole" /\ streamPc[i] = "unstarted"
  BY DEF StreamInit, NewGroup
<1>2. ExecInv
  BY <1>1, FlowInvInit DEF StreamInit, ExecInv
<1>3. (source.fails \/ source.notArrays # {}) \in BOOLEAN
  BY GroupAssumption, StreamAssumption DEF StreamInit
<1>4. [i \in StreamItems |-> StreamStatusOf(i)] \in [StreamItems -> {"todo", "flight"}]
  BY <1>1 DEF StreamStatusOf
<1> QED BY <1>2, <1>3, <1>4 DEF StreamInit, StreamPromised!EInit

\* When nothing is in flight and every item was started, each has an outcome.
LEMMA AllHaveOutcomes ==
  ASSUME ExecInv, inFlight = 0, index = Length
  PROVE  \A i \in StreamItems : streamGroup.resultItems[i] \in {"rs", "err"}
<1> SUFFICES ASSUME NEW i \in StreamItems PROVE streamGroup.resultItems[i] \in {"rs", "err"}
  OBVIOUS
<1> USE DEF ExecInv, FlowInv
<1>1. streamGroup.resultItems[i] \in {"hole", "rs", "err"}
  BY DEF StreamTypeOK
<1>2. streamPc[i] # "unstarted"
  BY GroupAssumption, StreamAssumption DEF StreamItems
<1>3. InFlight = {}
  <2>1. IsFiniteSet(InFlight)
    BY ItemsAreFinite DEF InFlight
  <2> QED BY <2>1, FS_EmptySet
<1>4. streamPc[i] # "flight"
  BY <1>3 DEF InFlight
<1> QED BY <1>1, <1>2, <1>4

\* The steps that end the promise, or leave everything as it is.
LEMMA SettleStep ==
  ASSUME ExecInv, UNCHANGED <<streamRaise, source, Status>>,
         \/ UNCHANGED streamPromise
         \/ /\ streamPromise = "pending" /\ streamPromise' = "resolved"
            /\ inFlight = 0 /\ index = Length
         \/ /\ streamPromise = "pending" /\ streamPromise' = "rejected"
            /\ source.fails \/ source.notArrays # {}
  PROVE  [StreamPromised!ENext]_(StreamPromised!evars)
<1> USE DEF Status
<1>1. CASE UNCHANGED streamPromise
  BY <1>1 DEF StreamPromised!ENext, StreamPromised!evars
<1>2. CASE /\ streamPromise = "pending" /\ streamPromise' = "resolved"
           /\ inFlight = 0 /\ index = Length
  <2>1. \A i \in StreamItems : Status[i] \in {"ok", "failed"}
    BY <1>2, AllHaveOutcomes DEF StreamStatusOf
  <2>2. streamRaise => \A i \in StreamItems : Status[i] = "ok"
    BY <1>2, AllHaveOutcomes DEF StreamStatusOf, ExecInv
  <2>3. StreamPromised!Resolve
    BY <1>2, <2>1, <2>2 DEF StreamPromised!Resolve
  <2> QED BY <2>3 DEF StreamPromised!ENext
<1>3. CASE /\ streamPromise = "pending" /\ streamPromise' = "rejected"
           /\ source.fails \/ source.notArrays # {}
  <2>1. StreamPromised!Reject
    BY <1>3 DEF StreamPromised!Reject
  <2> QED BY <2>1 DEF StreamPromised!ENext
<1> QED BY <1>1, <1>2, <1>3

\* The parts of ExecInv that are not about the flow.
Outcomes ==
  /\ \A i \in StreamItems : streamGroup.resultItems[i] = "hole" <=> streamPc[i] \in {"unstarted", "flight"}
  /\ ~readEnded => index = emitted /\ streamPromise = "pending"
  /\ streamPromise = "pending" /\ readEnded => index = Length
  /\ streamRaise /\ streamPromise = "pending" => \A i \in StreamItems : streamGroup.resultItems[i] # "err"

\* A stream event that starts nothing: the reading may end, and settle.
LEMMA EventStep ==
  ASSUME ExecInv, UNCHANGED <<streamRaise, source, inFlight, index, streamPc, streamGroup>>, NEW err \in BOOLEAN,
         SetReadEnded(err) \/ (readEnded /\ UNCHANGED <<readEnded, streamPromise>>),
         err => source.fails \/ source.notArrays # {},
         ~err => emitted = Length,
         UNCHANGED emitted \/ err \/ readEnded
  PROVE  Outcomes' /\ [StreamPromised!ENext]_(StreamPromised!evars)
<1>1. UNCHANGED Status
  BY DEF Status, StreamStatusOf
<1>2. CASE readEnded
  <2>1. UNCHANGED <<readEnded, streamPromise>>
    BY <1>2 DEF SetReadEnded, ExecInv, FlowInv, StreamTypeOK
  <2>2. Outcomes'
    BY <1>2, <2>1 DEF ExecInv, Outcomes
  <2> QED BY <1>1, <2>1, <2>2, SettleStep
<1>3. CASE ~readEnded
  <2>1. streamPromise = "pending" /\ index = emitted
    BY <1>3 DEF ExecInv
  <2>2. readEnded' = TRUE
    BY <1>3 DEF SetReadEnded
  <2>3. streamPromise' = IF err THEN "rejected" ELSE IF inFlight = 0 THEN "resolved" ELSE "pending"
    BY <1>3, <2>1 DEF SetReadEnded, SettledAs
  <2>4. Outcomes'
    BY <2>1, <2>2, <2>3 DEF ExecInv, Outcomes
  <2>5. [StreamPromised!ENext]_(StreamPromised!evars)
    BY <1>1, <2>1, <2>3, SettleStep
  <2> QED BY <2>4, <2>5
<1> QED BY <1>2, <1>3

\* An item of the stream that is executed is one that was to do.
LEMMA StartStep ==
  ASSUME ExecInv, emitted < Length, emitted' = emitted + 1, StartOne, ~readEnded,
         UNCHANGED <<streamRaise, source, streamGroup>>
  PROVE  Outcomes' /\ [StreamPromised!ENext]_(StreamPromised!evars)
<1> USE DEF ExecInv, FlowInv
<1>1. index \in StreamItems /\ streamPc[index] = "unstarted" /\ streamGroup.resultItems[index] = "hole"
  BY GroupAssumption, StreamAssumption DEF StreamTypeOK, StreamItems
<1>2. streamPc' = [streamPc EXCEPT ![index] = "flight"] /\ streamPc \in [StreamItems -> {"unstarted", "flight", "counted", "over"}]
  BY DEF StartOne, StreamTypeOK
<1>3. Outcomes'
  <2>1. \A i \in StreamItems : streamPc'[i] \in {"unstarted", "flight"} <=> streamPc[i] \in {"unstarted", "flight"}
    BY <1>1, <1>2
  <2> QED BY <2>1 DEF Outcomes, StartOne
<1>4. Status[index] = "todo" /\ Status' = [Status EXCEPT ![index] = "flight"]
  BY <1>1, <1>2 DEF Status, StreamStatusOf
<1>5. StreamPromised!Start(index)
  BY <1>4 DEF StreamPromised!Start, Status
<1>6. UNCHANGED streamPromise
  BY DEF StartOne
<1> QED BY <1>1, <1>3, <1>5, <1>6 DEF StreamPromised!ENext

\* The outcome of an execution is that of one item that was in flight.
LEMMA FinishStep ==
  ASSUME ExecInv, NEW i \in StreamItems, StreamExecuted(i) \/ StreamFailed(i), UNCHANGED <<streamRaise, source>>
  PROVE  Outcomes' /\ [StreamPromised!ENext]_(StreamPromised!evars)
<1> USE DEF ExecInv, FlowInv
<1>1. /\ streamPc[i] = "flight" /\ streamGroup.resultItems[i] = "hole"
      /\ streamPc' = [streamPc EXCEPT ![i] = "counted"]
      /\ streamPc \in [StreamItems -> {"unstarted", "flight", "counted", "over"}]
      /\ streamGroup.resultItems \in [StreamItems -> {"hole", "rs", "err"}]
  BY DEF StreamExecuted, StreamFailed, StreamTypeOK
<1>2. PICK what \in {"rs", "err"} :
         /\ streamGroup'.resultItems = [streamGroup.resultItems EXCEPT ![i] = what]
         /\ IF what = "err" /\ streamRaise THEN readEnded' = TRUE /\ streamPromise' = SettledAs("rejected")
            ELSE UNCHANGED <<readEnded, streamPromise>>
  BY DEF StreamExecuted, StreamFailed, SetResultItem, SetError
<1>3. UNCHANGED <<emitted, index>>
  BY DEF StreamExecuted, StreamFailed
<1>4. /\ Status[i] = "flight"
      /\ Status' = [Status EXCEPT ![i] = IF what = "rs" THEN "ok" ELSE "failed"]
  <2>1. StreamStatusOf(i) = "flight" /\ StreamStatusOf(i)' = IF what = "rs" THEN "ok" ELSE "failed"
    BY <1>1, <1>2 DEF StreamStatusOf
  <2>2. \A j \in StreamItems : j # i => StreamStatusOf(j)' = StreamStatusOf(j)
    BY <1>1, <1>2 DEF StreamStatusOf
  <2> QED BY <2>1, <2>2 DEF Status
<1>5. StreamPromised!Finish(i)
  BY <1>4 DEF StreamPromised!Finish, Status
<1>6. Outcomes'
  <2>1. \A j \in StreamItems : streamGroup'.resultItems[j] = "hole" <=> streamPc'[j] \in {"unstarted", "flight"}
    BY <1>1, <1>2
  <2>2. CASE what = "err" /\ streamRaise
    BY <1>2, <1>3, <2>1, <2>2 DEF Outcomes, SettledAs
  <2>3. CASE ~(what = "err" /\ streamRaise)
    BY <1>1, <1>2, <1>3, <2>1, <2>3 DEF Outcomes
  <2> QED BY <2>2, <2>3
<1>7. StreamPromised!Reject \/ UNCHANGED streamPromise
  <2>1. CASE what = "err" /\ streamRaise /\ streamPromise = "pending"
    <3>1. Status'[i] = "failed" /\ streamPromise' = "rejected"
      BY <1>2, <1>4, <2>1 DEF SettledAs, Status
    <3> QED BY <2>1, <3>1 DEF StreamPromised!Reject, Status
  <2>2. CASE ~(what = "err" /\ streamRaise /\ streamPromise = "pending")
    BY <1>2, <2>2 DEF SettledAs
  <2> QED BY <2>1, <2>2
<1> QED BY <1>5, <1>6, <1>7 DEF StreamPromised!ENext

\* The last handler of an execution may resolve the promise.
LEMMA OverStep ==
  ASSUME ExecInv, NEW i \in StreamItems, Over(i), UNCHANGED <<streamRaise, source>>
  PROVE  Outcomes' /\ [StreamPromised!ENext]_(StreamPromised!evars)
<1>1. /\ streamPc[i] = "counted" /\ streamPc' = [streamPc EXCEPT ![i] = "over"]
      /\ streamPc \in [StreamItems -> {"unstarted", "flight", "counted", "over"}]
      /\ UNCHANGED <<emitted, inFlight, index, readEnded, streamGroup>>
  BY DEF Over, ExecInv, FlowInv, StreamTypeOK
<1>2. UNCHANGED Status
  BY <1>1 DEF Status, StreamStatusOf
<1>3. \/ UNCHANGED streamPromise
      \/ streamPromise = "pending" /\ streamPromise' = "resolved" /\ readEnded /\ inFlight = 0 /\ index = Length
  BY DEF Over, SettledAs, ExecInv
<1>4. Outcomes'
  <2>1. \A j \in StreamItems : streamPc'[j] \in {"unstarted", "flight"} <=> streamPc[j] \in {"unstarted", "flight"}
    BY <1>1
  <2> QED BY <1>1, <1>3, <2>1 DEF Outcomes, ExecInv
<1> QED BY <1>2, <1>3, <1>4, SettleStep

\* Every step keeps the invariant and is a step of ExecuteAll, or none.
LEMMA ExecStep == ExecInv /\ [StreamNext]_streamVars => ExecInv' /\ [StreamPromised!ENext]_(StreamPromised!evars)
<1> SUFFICES ASSUME ExecInv, [StreamNext]_streamVars
             PROVE  Outcomes' /\ [StreamPromised!ENext]_(StreamPromised!evars)
  BY FlowInvStep DEF ExecInv, Outcomes
<1>1. CASE Data /\ UNCHANGED <<streamRaise, source>>
  <2>1. CASE emitted \in source.notArrays
    BY <1>1, <2>1, EventStep DEF Data
  <2>2. CASE emitted \notin source.notArrays /\ readEnded
    <3>1. UNCHANGED <<inFlight, index, streamPc, streamGroup, readEnded, streamPromise, Status>>
      BY <1>1, <2>2 DEF Data, Status, StreamStatusOf
    <3>2. Outcomes'
      BY <1>1, <2>2, <3>1 DEF ExecInv, Outcomes
    <3> QED BY <1>1, <3>1, <3>2, SettleStep
  <2>3. CASE emitted \notin source.notArrays /\ ~readEnded
    BY <1>1, <2>3, StartStep DEF Data
  <2> QED BY <2>1, <2>2, <2>3
<1>2. CASE End /\ UNCHANGED <<streamRaise, source>>
  BY <1>2, EventStep DEF End
<1>3. CASE Error /\ UNCHANGED <<streamRaise, source>>
  BY <1>3, EventStep DEF Error
<1>4. CASE UNCHANGED streamVars
  <2>1. UNCHANGED Status /\ Outcomes'
    BY <1>4 DEF streamVars, Status, StreamStatusOf, ExecInv, Outcomes
  <2> QED BY <1>4, <2>1, SettleStep DEF streamVars
<1> QED BY <1>1, <1>2, <1>3, <1>4, FinishStep, OverStep DEF StreamNext

\* For every stream, level and order of outcomes, the executor keeps what
\* executeConcurrent() promises: each item is executed once, the promise is
\* resolved only when all have an outcome, and rejected only for a failure
\* with raiseOnFirstError or a stream that broke.
THEOREM StreamKeepsThePromise == StreamSpec => StreamImplementsExecuteAll
<1>1. StreamSpec => []ExecInv
  <2>1. ExecInv /\ [StreamNext]_streamVars => ExecInv'
    BY ExecStep
  <2> QED BY <2>1, ExecInvInit, PTL DEF StreamSpec
<1>2. StreamInit => StreamPromised!EInit
  BY ExecInvInit
<1>3. ExecInv /\ [StreamNext]_streamVars => [StreamPromised!ENext]_(StreamPromised!evars)
  BY ExecStep
<1> QED BY <1>1, <1>2, <1>3, PTL DEF StreamSpec, StreamImplementsExecuteAll, StreamPromised!ESpec

=============================================================================
