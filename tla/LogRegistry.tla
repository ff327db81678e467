---------------------------- MODULE LogRegistry ----------------------------
(***************************************************************************)
(* The process-wide registry of logging callbacks kept by the Rust half of *)
(* the driver (src/src/logging.rs): the CALLBACKS vector, the NEXT_ID      *)
(* counter, the tracing layer that forwards an event to every callback     *)
(* interested in its level, and the queue of each callback's               *)
(* ThreadsafeFunction, which the JS thread drains later.                   *)
(*                                                                         *)
(* Event texts are left out.  A callback is known by its id, the client    *)
(* whose JS closure it is, and its threshold.  A ThreadsafeFunction queue  *)
(* is abstracted to whether it is empty: the JS thread drains the queue of *)
(* one function in one go.                                                 *)
(***************************************************************************)
EXTENDS Naturals

CONSTANT Clients            \* the Client instances of the process

VARIABLES
  callbacks,                \* CALLBACKS: the registered callbacks
  nextId,                   \* NEXT_ID
  pending                   \* callbacks whose ThreadsafeFunction queue is not empty

logVars == <<callbacks, nextId, pending>>

Levels == {"error", "warning", "info", "debug", "trace"}

\* tracing::Level orders levels by verbosity: ERROR < WARN < ... < TRACE.
Verbosity ==
  [error |-> 1, warning |-> 2, info |-> 3, debug |-> 4, trace |-> 5]

Callback == [id: Nat, client: Clients, min_level: Levels]

LogTypeOK ==
  /\ callbacks \in SUBSET Callback
  /\ nextId \in Nat
  /\ pending \in SUBSET Callback

LogInit ==
  /\ callbacks = {}
  /\ nextId = 0
  /\ pending = {}

-----------------------------------------------------------------------------

\* setup_logging: push a callback under a fresh id.
Pushed(cbs, id, client, level) ==
  cbs \cup {[id |-> id, client |-> client, min_level |-> level]}

\* remove_logging: retain every callback with another id; an unknown id is a
\* silent no-op.
Retained(cbs, id) == {cb \in cbs : cb.id # id}

\* JsForwardingLayer::on_event: queue the event on every callback whose
\* threshold is at least as verbose as the event.
OnEvent(level) ==
  LET hit == {cb \in callbacks : Verbosity[level] <= Verbosity[cb.min_level]} IN
  /\ hit # {}
  /\ pending' = pending \cup hit
  /\ UNCHANGED <<callbacks, nextId>>

\* The JS thread runs the queued calls of one ThreadsafeFunction.  A queue
\* outlives the removal of its callback: calls queued before it still run.
Deliver(cb) ==
  /\ cb \in pending
  /\ pending' = pending \ {cb}
  /\ UNCHANGED <<callbacks, nextId>>

=============================================================================
