----------------------------- MODULE ExecuteAll -----------------------------
(***************************************************************************)
(* What executeConcurrent() promises, whether the parameters come from an  *)
(* array or from a stream: every item is executed at most once; the        *)
(* promise is resolved only when all were executed, without a failure when *)
(* raiseOnFirstError is set; it is rejected only because of a failure with *)
(* raiseOnFirstError, or because the source of the items broke.            *)
(***************************************************************************)
CONSTANT Items

VARIABLES
  raise,          \* raiseOnFirstError
  sourceBreaks,   \* the source of the items can fail
  status,         \* of each item
  promise         \* the promise returned by executeConcurrent()

evars == <<raise, sourceBreaks, status, promise>>

EInit ==
  /\ raise \in BOOLEAN /\ sourceBreaks \in BOOLEAN
  /\ status \in [Items -> {"todo", "flight"}]
  /\ promise = "pending"

Start(i) ==
  /\ status[i] = "todo"
  /\ status' = [status EXCEPT ![i] = "flight"]

Finish(i) ==
  /\ status[i] = "flight"
  /\ \E outcome \in {"ok", "failed"} : status' = [status EXCEPT ![i] = outcome]

Resolve ==
  /\ promise = "pending"
  /\ \A i \in Items : status[i] \in {"ok", "failed"}
  /\ raise => \A i \in Items : status[i] = "ok"
  /\ promise' = "resolved"
  /\ UNCHANGED status

Reject ==
  /\ promise = "pending"
  /\ sourceBreaks \/ (raise /\ \E i \in Items : status'[i] = "failed")
  /\ promise' = "rejected"

\* An item may finish and another start in one step of the event loop, and a
\* failure may reject the promise at once.
ENext ==
  /\ UNCHANGED <<raise, sourceBreaks>>
  /\ \/ Resolve
     \/ /\ Reject \/ UNCHANGED promise
        /\ \/ UNCHANGED status
           \/ \E i \in Items : Start(i) \/ Finish(i)
           \/ \E i, j \in Items :
                /\ i # j /\ status[i] = "flight" /\ status[j] = "todo"
                /\ \E outcome \in {"ok", "failed"} :
                     status' = [status EXCEPT ![i] = outcome, ![j] = "flight"]

ESpec == EInit /\ [][ENext]_evars

=============================================================================
