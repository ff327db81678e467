-------------------------- MODULE ConcurrentArray --------------------------
(***************************************************************************)
(* executeConcurrent() over an array: ArrayBasedExecutor of                *)
(* src/lib/concurrent/index.js.  Level chains of executions (workers) run  *)
(* side by side; worker w executes the items w, w + Level, w + 2 Level...  *)
(* and prepares a query the executor has not prepared yet.                 *)
(*                                                                         *)
(* A worker's pc is the await at which #executeOneAtATime is suspended:    *)
(*   preparing  prepareStatement                                           *)
(*   executing  rustyExecute                                               *)
(*   returned   the microtask that follows setResultItem                   *)
(*   done       the chain is resolved                                      *)
(*   failed     the chain is rejected, by #setError                        *)
(*   broken     the chain is rejected: its item is null and item.query     *)
(*              throws, outside of the try                                 *)
(***************************************************************************)
EXTENDS ResultSetGroup

CONSTANTS
  N,                   \* parameters.length
  ConcurrencyLevel,    \* options.concurrencyLevel
  QueryOf              \* the query of each item

ASSUME ArrayAssumption ==
  /\ N \in Nat
  /\ ConcurrencyLevel \in Nat \ {0}

Items == 0..(N - 1)

Level == IF ConcurrencyLevel < N THEN ConcurrencyLevel ELSE N
Workers == 0..(Level - 1)

VARIABLES
  raise,               \* #raiseOnFirstError: never changed
  nulls,               \* the null items of an array of queries: never changed
  iteration,           \* of each worker
  pc,                  \* of each worker
  stop,                \* #stop
  cache,               \* #cache: the queries prepared so far
  group,               \* #result
  promise              \* the promise of execute()

vars == <<raise, nulls, iteration, pc, stop, cache, group, promise>>

\* (fault) without the stride the items of two workers overlap.
Index_NoStride(w) == w + iteration[w]

Index(w) == w + Level * iteration[w]

TypeOK ==
  /\ raise \in BOOLEAN
  /\ nulls \subseteq Items
  /\ iteration \in [Workers -> 0..N]
  /\ pc \in [Workers -> {"preparing", "executing", "returned", "done", "failed", "broken"}]
  /\ stop \in BOOLEAN
  /\ cache \subseteq {QueryOf[i] : i \in Items}
  /\ group \in [totalExecuted: Nat, errors: Nat,
                resultItems: [Items -> {"hole", "rs", "err"}]]
  /\ promise \in {"pending", "resolved", "rejected"}

\* execute() starts every worker before any of them gets past its first await.
Init ==
  /\ raise \in BOOLEAN
  /\ nulls \in SUBSET Items
  /\ iteration = [w \in Workers |-> 0]
  /\ pc = [w \in Workers |-> IF w \in nulls THEN "broken" ELSE "preparing"]
  /\ stop = FALSE
  /\ cache = {}
  /\ group = NewGroup(Items)
  /\ promise = "pending"

\* (fault) the next item is taken although an execution failed.
TakeNext_IgnoresStop(w) ==
  LET next == Index(w) + Level IN
  /\ iteration' = [iteration EXCEPT ![w] = @ + 1]
  /\ pc' = [pc EXCEPT ![w] =
              IF next >= N THEN "done" ELSE IF next \in nulls THEN "broken"
              ELSE IF QueryOf[next] \in cache THEN "executing" ELSE "preparing"]

\* The recursive call of #executeOneAtATime, up to its first await.
TakeNext(w) ==
  LET next == Index(w) + Level IN
  /\ iteration' = [iteration EXCEPT ![w] = @ + 1]
  /\ pc' = [pc EXCEPT ![w] =
              IF next >= N \/ stop THEN "done" ELSE IF next \in nulls THEN "broken"
              ELSE IF QueryOf[next] \in cache THEN "executing" ELSE "preparing"]

\* The statement is prepared and stored, and the execution starts.
Prepared(w) ==
  /\ pc[w] = "preparing"
  /\ cache' = cache \cup {QueryOf[Index(w)]}
  /\ pc' = [pc EXCEPT ![w] = "executing"]
  /\ UNCHANGED <<iteration, stop, group, promise>>

Executed(w) ==
  /\ pc[w] = "executing"
  /\ group' = SetResultItem(group, Index(w))
  /\ pc' = [pc EXCEPT ![w] = "returned"]
  /\ UNCHANGED <<iteration, stop, cache, promise>>

Returned(w) ==
  /\ pc[w] = "returned"
  /\ TakeNext(w)
  /\ UNCHANGED <<stop, cache, group, promise>>

\* The catch block of a PREPARE or an execution that failed: #setError throws
\* when raiseOnFirstError is set, else the worker goes on at once.
Failed(w) ==
  /\ pc[w] \in {"preparing", "executing"}
  /\ group' = SetError(group, Index(w))
  /\ IF raise
     THEN /\ stop' = TRUE
          /\ pc' = [pc EXCEPT ![w] = "failed"]
          /\ UNCHANGED iteration
     ELSE TakeNext(w) /\ UNCHANGED stop
  /\ UNCHANGED <<cache, promise>>

\* (fault) the promise waits for all chains to be resolved, one of which was
\* rejected.
AllSettled_NeverRejects ==
  /\ promise = "pending"
  /\ \A w \in Workers : pc[w] = "done"
  /\ promise' = "resolved"
  /\ UNCHANGED <<iteration, pc, stop, cache, group>>

\* Promise.all over the workers' promises.
AllSettled ==
  /\ promise = "pending"
  /\ \/ /\ \E w \in Workers : pc[w] \in {"failed", "broken"}
        /\ promise' = "rejected"
     \/ /\ \A w \in Workers : pc[w] = "done"
        /\ promise' = "resolved"
  /\ UNCHANGED <<iteration, pc, stop, cache, group>>

Step(w) == Prepared(w) \/ Executed(w) \/ Returned(w) \/ Failed(w)

Next ==
  /\ (\E w \in Workers : Step(w)) \/ AllSettled
  /\ UNCHANGED <<raise, nulls>>

Spec == Init /\ [][Next]_vars

\* Requests complete and queued microtasks run.
Fairness ==
  /\ \A w \in Workers : WF_vars(Step(w) /\ UNCHANGED <<raise, nulls>>)
  /\ WF_vars(AllSettled /\ UNCHANGED <<raise, nulls>>)

FairSpec == Spec /\ Fairness

-----------------------------------------------------------------------------

\* The counters of the group the user gets agree with its items: no item is
\* executed by two workers, none is counted twice, and no more than maxErrors
\* errors are kept.
GroupConsistent == TypeOK /\ Consistent(group)

\* "Determines whether execution should stop after the first failed
\* execution": after the first failure no worker takes another item, only
\* those it was working on are completed.
StopsTaking ==
  [][stop => \A w \in Workers :
       pc'[w] \in {"preparing", "executing"} => UNCHANGED iteration[w]]_vars

\* The promise is settled; without raiseOnFirstError, and without a null item,
\* it is resolved, with an outcome for every item, however many executions fail.
Settles ==
  <>IF raise \/ nulls # {}
    THEN promise # "pending"
    ELSE promise = "resolved" /\ Got(group, "hole") = {}

StatusOf(i) ==
  IF group.resultItems[i] # "hole"
  THEN IF group.resultItems[i] = "rs" THEN "ok" ELSE "failed"
  ELSE IF \E w \in Workers : Index(w) = i /\ pc[w] \in {"preparing", "executing"}
       THEN "flight" ELSE "todo"

Promised ==
  INSTANCE ExecuteAll WITH
    sourceBreaks <- nulls # {},
    status <- [i \in Items |-> StatusOf(i)]

\* The interleaved chains keep the promise of ExecuteAll: each item once, and
\* settled for the reasons the documentation gives.
ImplementsExecuteAll == Promised!ESpec

=============================================================================
