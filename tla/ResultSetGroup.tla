--------------------------- MODULE ResultSetGroup ---------------------------
(***************************************************************************)
(* What the two executors of executeConcurrent() share: the ResultSetGroup *)
(* (src/lib/concurrent/index.js) with collectResults set: without it,      *)
(* resultItems is simply not kept.  Result sets and errors are abstracted  *)
(* to which of the two an item got.                                        *)
(***************************************************************************)
EXTENDS Naturals, FiniteSets

CONSTANT MaxErrors     \* options.maxErrors

ASSUME GroupAssumption == MaxErrors \in Nat \ {0}

\* An empty group for the given indexes; "hole" is an index without a value.
NewGroup(indexes) ==
  [totalExecuted |-> 0, errors |-> 0, resultItems |-> [i \in indexes |-> "hole"]]

SetResultItem(group, index) ==
  [totalExecuted |-> group.totalExecuted + 1,
   errors        |-> group.errors,
   resultItems   |-> [group.resultItems EXCEPT ![index] = "rs"]]

\* (fault) one error too many is kept.
SetError_OneMore(group, index) ==
  [totalExecuted |-> group.totalExecuted + 1,
   errors        |-> group.errors + (IF group.errors <= MaxErrors THEN 1 ELSE 0),
   resultItems   |-> [group.resultItems EXCEPT ![index] = "err"]]

SetError(group, index) ==
  [totalExecuted |-> group.totalExecuted + 1,
   errors        |-> group.errors + (IF group.errors < MaxErrors THEN 1 ELSE 0),
   resultItems   |-> [group.resultItems EXCEPT ![index] = "err"]]

Got(group, what) ==
  {i \in DOMAIN group.resultItems : group.resultItems[i] = what}

\* The counters say what the items say: as many executions as items with an
\* outcome, and as many errors as failed items, up to maxErrors.
Consistent(group) ==
  LET failed == Cardinality(Got(group, "err")) IN
  /\ group.totalExecuted = Cardinality(Got(group, "rs")) + failed
  /\ group.errors = IF failed < MaxErrors THEN failed ELSE MaxErrors

=============================================================================
