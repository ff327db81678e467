------------------------------- MODULE Client -------------------------------
(***************************************************************************)
(* The life of the Client instances of one process (src/lib/client.ts):    *)
(* connect(), the implicit connect of execute() and batch(), the           *)
(* executions of executeConcurrent() over an array, shutdown(), garbage    *)
(* collection, and the logging callback each client registers with the     *)
(* Rust side while it is connected.                                        *)
(*                                                                         *)
(* JavaScript runs one thread: the code between two awaits is one action.  *)
(* A call is one invocation of connect(), execute() or batch(), or one     *)
(* execution started by executeConcurrent(); its pc says where the async   *)
(* function is suspended:                                                  *)
(*   idle      not made yet                                                *)
(*   preparing awaits prepareStatement (executeConcurrent only)            *)
(*   prepared  its continuation, the call of rustyExecute, is queued       *)
(*   creating  awaits SessionWrapper.createSession                         *)
(*   waiting   awaits the "connected" event (promiseUtils.fromEvent)       *)
(*   resumed   #connect returned; the continuation of rustyExecute or      *)
(*             #rustyBatch is a queued microtask                           *)
(*   running   the statement is at the session (this.rustClient!)          *)
(*   resolved, rejected   the promise given to the application is settled  *)
(*   undefined            it is rejected with the TypeError of a method    *)
(*                        call on this.rustClient, which is undefined      *)
(*                                                                         *)
(* A definition marked (fault) is a wrong variant of the definition that   *)
(* follows it; no specification uses it.                                   *)
(***************************************************************************)
EXTENDS LogRegistry, Integers

CONSTANTS
  Calls,             \* the calls the application makes
  LogLevel,          \* options.logLevel of each client, "off" included
  ThrowingLog        \* clients whose application's "log" listener throws

ASSUME ClientAssumption ==
  /\ LogLevel \in [Clients -> Levels \cup {"off"}]
  /\ ThrowingLog \subseteq Clients

VARIABLES
  connected,         \* Client.connected
  connecting,        \* Client.connecting
  isShuttingDown,    \* Client.isShuttingDown
  rustClient,        \* how many sessions were assigned to Client.rustClient
  loggingId,         \* Client.#loggingId, or NoId when undefined
  finalizer,         \* ids loggingFinalizationRegistry holds for the client
  collected,         \* the client was garbage collected
  asked,             \* history: shutdown() was called, and returned, on a
                     \* client that was connected or connecting
  target, kind, pc   \* of each call: its client, its method, where it is

flags == <<connected, connecting, isShuttingDown>>
vars == <<callbacks, nextId, pending, connected, connecting, isShuttingDown,
          rustClient, loggingId, finalizer, collected, asked, target, kind, pc>>

NoId == -1
Kinds == {"connect", "execute", "batch", "concurrent"}
Settled == {"resolved", "rejected", "undefined"}
Active == {"preparing", "prepared", "creating", "waiting", "resumed", "running"}
PCs == {"idle"} \cup Active \cup Settled

TypeOK ==
  /\ LogTypeOK
  /\ connected \in [Clients -> BOOLEAN]
  /\ connecting \in [Clients -> BOOLEAN]
  /\ isShuttingDown \in [Clients -> BOOLEAN]
  /\ rustClient \in [Clients -> Nat]
  /\ loggingId \in [Clients -> Nat \cup {NoId}]
  /\ finalizer \in [Clients -> SUBSET Nat]
  /\ collected \in [Clients -> BOOLEAN]
  /\ asked \in [Clients -> BOOLEAN]
  /\ target \in [Calls -> Clients]
  /\ kind \in [Calls -> Kinds]
  /\ pc \in [Calls -> PCs]

\* The constructor, and calls that are still to be made.  Which client and
\* which method a call is about is chosen at the start.
Init ==
  /\ LogInit
  /\ connected = [c \in Clients |-> FALSE]
  /\ connecting = [c \in Clients |-> FALSE]
  /\ isShuttingDown = [c \in Clients |-> FALSE]
  /\ rustClient = [c \in Clients |-> 0]
  /\ loggingId = [c \in Clients |-> NoId]
  /\ finalizer = [c \in Clients |-> {}]
  /\ collected = [c \in Clients |-> FALSE]
  /\ asked = [c \in Clients |-> FALSE]
  /\ target \in [Calls -> Clients]
  /\ kind \in [Calls -> Kinds]
  /\ pc = [k \in Calls |-> "idle"]

\* The calls on c that are suspended at one of the given points.
CallsOf(c, where) == {k \in Calls : target[k] = c /\ pc[k] \in where}

-----------------------------------------------------------------------------
(* Making a call: the synchronous prefix of #connect and of its callers.   *)

\* executeConcurrent prepares before it executes; the others start at once.
Invoked(k) ==
  /\ pc[k] = IF kind[k] = "concurrent" THEN "prepared" ELSE "idle"
  /\ ~collected[target[k]]

Goes(k, where) == pc' = [pc EXCEPT ![k] = where]

\* A method call on this.rustClient!, which is not looked at before.
UsesSession(k, where) ==
  Goes(k, IF rustClient[target[k]] = 0 THEN "undefined" ELSE where)

\* executeConcurrent calls prepareStatement without connecting first, nor does
\* prepareStatement look at connected.
Prepare(k) ==
  /\ kind[k] = "concurrent"
  /\ pc[k] = "idle"
  /\ ~collected[target[k]]
  /\ UsesSession(k, "preparing")
  /\ UNCHANGED <<logVars, flags, rustClient, loggingId, finalizer, collected,
                 asked, target, kind>>

\* The session answers the PREPARE.
Prepared(k) ==
  /\ pc[k] = "preparing"
  /\ \E where \in {"prepared", "rejected"} : Goes(k, where)
  /\ UNCHANGED <<logVars, flags, rustClient, loggingId, finalizer, collected,
                 asked, target, kind>>

\* Where a call goes on a connected client: connect() is done, rustyExecute
\* does not await and is at the session, #rustyBatch awaits #connect anyway.
WhenConnected(k) ==
  IF kind[k] = "connect" THEN "resolved"
  ELSE IF kind[k] = "batch" THEN "resumed" ELSE "running"

\* The client is connected already.
CallConnected(k) ==
  /\ Invoked(k)
  /\ connected[target[k]]
  /\ IF WhenConnected(k) = "running" THEN UsesSession(k, "running")
     ELSE Goes(k, WhenConnected(k))
  /\ UNCHANGED <<logVars, flags, rustClient, loggingId, finalizer, collected,
                 asked, target, kind>>

\* After shutdown(): NoHostAvailableError.
CallAfterShutdown(k) ==
  /\ Invoked(k)
  /\ ~connected[target[k]]
  /\ isShuttingDown[target[k]]
  /\ Goes(k, "rejected")
  /\ UNCHANGED <<logVars, flags, rustClient, loggingId, finalizer, collected,
                 asked, target, kind>>

\* Another call is connecting: wait for the "connected" event.
CallJoins(k) ==
  /\ Invoked(k)
  /\ ~connected[target[k]] /\ ~isShuttingDown[target[k]]
  /\ connecting[target[k]]
  /\ Goes(k, "waiting")
  /\ UNCHANGED <<logVars, flags, rustClient, loggingId, finalizer, collected,
                 asked, target, kind>>

\* utils.log reaches the "log" listeners only at a level the client shows.
Shows(c, level) ==
  LogLevel[c] # "off" /\ Verbosity[level] <= Verbosity[LogLevel[c]]

LogThrows(c, level) == c \in ThrowingLog /\ Shows(c, level)

\* setupLogging and the registration with the finalization registry.
OpenLogging(c) ==
  IF LogLevel[c] = "off"
  THEN UNCHANGED <<callbacks, nextId, loggingId, finalizer>>
  ELSE /\ callbacks' = Pushed(callbacks, nextId, c, LogLevel[c])
       /\ nextId' = nextId + 1
       /\ loggingId' = [loggingId EXCEPT ![c] = nextId]
       /\ finalizer' = [finalizer EXCEPT ![c] = @ \cup {nextId}]

\* (faults) a guard of #connect is missing.
NothingUnderWay_NoConnecting(c) == ~connected[c] /\ ~isShuttingDown[c]
NothingUnderWay_NoShutdown(c) == ~connected[c] /\ ~connecting[c]

NothingUnderWay(c) == ~connected[c] /\ ~isShuttingDown[c] /\ ~connecting[c]

\* The first call starts connecting, up to the await of createSession.
CallStarts(k) ==
  LET c == target[k] IN
  /\ Invoked(k)
  /\ NothingUnderWay(c)
  /\ ~LogThrows(c, "info")
  /\ connecting' = [connecting EXCEPT ![c] = TRUE]
  /\ OpenLogging(c)
  /\ Goes(k, "creating")
  /\ UNCHANGED <<pending, connected, isShuttingDown, rustClient, collected,
                 asked, target, kind>>

\* The "Connecting to cluster" message is logged after connecting was set and
\* before the try block: a listener that throws rejects the call there.
CallLogThrows(k) ==
  LET c == target[k] IN
  /\ Invoked(k)
  /\ NothingUnderWay(c)
  /\ LogThrows(c, "info")
  /\ connecting' = [connecting EXCEPT ![c] = TRUE]
  /\ Goes(k, "rejected")
  /\ UNCHANGED <<logVars, connected, isShuttingDown, rustClient, loggingId,
                 finalizer, collected, asked, target, kind>>

-----------------------------------------------------------------------------
(* The outcome of createSession.                                           *)

\* (fault) the event is emitted before the waiters listen.
Listening_Missed(c) == {}

\* fromEvent: the calls whose promise the "connected" event of c settles.
Listening(c) == CallsOf(c, {"waiting"})

\* How the event, or the return of #connect, leaves a call: the rest of a
\* rustyExecute or #rustyBatch runs in a microtask of its own.
OnConnected(k) == IF kind[k] = "connect" THEN "resolved" ELSE "resumed"

\* (fault) fromEvent does not look at the error.
OnError_Ignored(k) == OnConnected(k)

OnError(k) == "rejected"

\* createSession resolves: every call that takes part has its session.
SessionCreated(k) ==
  LET c == target[k] IN
  /\ pc[k] = "creating"
  /\ rustClient' = [rustClient EXCEPT ![c] = @ + 1]
  /\ connected' = [connected EXCEPT ![c] = TRUE]
  /\ connecting' = [connecting EXCEPT ![c] = FALSE]
  /\ pc' = [j \in Calls |->
              IF j \in Listening(c) \cup {k} THEN OnConnected(j) ELSE pc[j]]
  /\ UNCHANGED <<logVars, isShuttingDown, loggingId, finalizer, collected,
                 asked, target, kind>>

\* (fault) forgets the id without removing the callback.
CloseLogging_ForgetsOnly(c) ==
  /\ loggingId' = [loggingId EXCEPT ![c] = NoId]
  /\ finalizer' = [finalizer EXCEPT ![c] = {}]
  /\ UNCHANGED callbacks

\* #closeLogging: remove the callback, forget its id, unregister the client.
CloseLogging(c) ==
  IF loggingId[c] = NoId
  THEN UNCHANGED <<callbacks, loggingId, finalizer>>
  ELSE /\ callbacks' = Retained(callbacks, loggingId[c])
       /\ loggingId' = [loggingId EXCEPT ![c] = NoId]
       /\ finalizer' = [finalizer EXCEPT ![c] = {}]

\* The catch block: reset the flags, reject every waiting call, stop logging
\* and reject this call.
CreateFailed(k) ==
  LET c == target[k] IN
  /\ pc[k] = "creating"
  /\ connected' = [connected EXCEPT ![c] = FALSE]
  /\ connecting' = [connecting EXCEPT ![c] = FALSE]
  /\ CloseLogging(c)
  /\ pc' = [j \in Calls |->
              IF j = k THEN "rejected"
              ELSE IF j \in Listening(c) THEN OnError(j) ELSE pc[j]]
  /\ UNCHANGED <<nextId, pending, isShuttingDown, rustClient, collected,
                 asked, target, kind>>

\* The continuation after #connect sends the statement to this.rustClient
\* without looking at the state of the client again.
Resume(k) ==
  /\ pc[k] = "resumed"
  /\ UsesSession(k, "running")
  /\ UNCHANGED <<logVars, flags, rustClient, loggingId, finalizer, collected,
                 asked, target, kind>>

\* The session answers the statement.
Answered(k) ==
  /\ pc[k] = "running"
  /\ \E where \in {"resolved", "rejected"} : Goes(k, where)
  /\ UNCHANGED <<logVars, flags, rustClient, loggingId, finalizer, collected,
                 asked, target, kind>>

-----------------------------------------------------------------------------
(* shutdown() and garbage collection.                                      *)

\* (fault) no early return for a client that is not connected.
Shutdown_Unconditional(c) ==
  /\ ~collected[c]
  /\ asked' = [asked EXCEPT ![c] = TRUE]
  /\ connected' = [connected EXCEPT ![c] = FALSE]
  /\ isShuttingDown' = [isShuttingDown EXCEPT ![c] = TRUE]
  /\ CloseLogging(c)
  /\ UNCHANGED <<nextId, pending, connecting, rustClient, collected, target,
                 kind, pc>>

\* The deprecation warning is logged first; a listener that throws ends the
\* call there.  A client that is not connected is left as it is.  The branch
\* of the code that waits for a connect under way comes after that return.
Shutdown(c) ==
  /\ ~collected[c]
  /\ ~LogThrows(c, "warning")
  /\ asked' = [asked EXCEPT ![c] = @ \/ connected[c] \/ connecting[c]]
  /\ IF connected[c]
     THEN /\ connected' = [connected EXCEPT ![c] = FALSE]
          /\ isShuttingDown' = [isShuttingDown EXCEPT ![c] = TRUE]
          /\ CloseLogging(c)
     ELSE UNCHANGED <<connected, isShuttingDown, callbacks, loggingId, finalizer>>
  /\ UNCHANGED <<nextId, pending, connecting, rustClient, collected, target,
                 kind, pc>>

\* The application drops the client and the collector reclaims it.  A pending
\* call keeps its client alive; the logging callback holds a WeakRef only.
Collect(c) ==
  /\ ~collected[c]
  /\ CallsOf(c, Active) = {}
  /\ collected' = [collected EXCEPT ![c] = TRUE]
  /\ UNCHANGED <<logVars, flags, rustClient, loggingId, finalizer, asked,
                 target, kind, pc>>

\* The callback of loggingFinalizationRegistry.
Finalize(c, id) ==
  /\ collected[c]
  /\ id \in finalizer[c]
  /\ callbacks' = Retained(callbacks, id)
  /\ finalizer' = [finalizer EXCEPT ![c] = @ \ {id}]
  /\ UNCHANGED <<nextId, pending, flags, rustClient, loggingId, collected,
                 asked, target, kind, pc>>

\* The Rust side logs, and the JS thread runs queued log callbacks.
Event(level) ==
  /\ OnEvent(level)
  /\ UNCHANGED <<flags, rustClient, loggingId, finalizer, collected, asked,
                 target, kind, pc>>

RunLogCallback(cb) ==
  /\ Deliver(cb)
  /\ UNCHANGED <<flags, rustClient, loggingId, finalizer, collected, asked,
                 target, kind, pc>>

CallStep(k) ==
  \/ Prepare(k) \/ Prepared(k)
  \/ CallConnected(k) \/ CallAfterShutdown(k) \/ CallJoins(k)
  \/ CallStarts(k) \/ CallLogThrows(k)
  \/ SessionCreated(k) \/ CreateFailed(k) \/ Resume(k) \/ Answered(k)

Next ==
  \/ \E k \in Calls : CallStep(k)
  \/ \E c \in Clients : Shutdown(c) \/ Collect(c)
  \/ \E c \in Clients : \E id \in finalizer[c] : Finalize(c, id)
  \/ \E level \in Levels : Event(level)
  \/ \E cb \in pending : RunLogCallback(cb)

Spec == Init /\ [][Next]_vars

\* What the event loop and the session guarantee: queued microtasks run, the
\* futures of createSession, of a PREPARE and of a statement complete, and the
\* JS thread gets to the queued log callbacks of every client.
Fairness ==
  /\ \A k \in Calls :
       /\ WF_vars(SessionCreated(k) \/ CreateFailed(k))
       /\ WF_vars(Prepared(k))
       /\ WF_vars(pc[k] = "prepared" /\ CallStep(k))
       /\ WF_vars(Resume(k))
       /\ WF_vars(Answered(k))
  /\ \A c \in Clients :
       WF_vars(\E cb \in pending : cb.client = c /\ RunLogCallback(cb))

FairSpec == Spec /\ Fairness

-----------------------------------------------------------------------------
(* Safety.                                                                 *)

\* connecting is set exactly while one call, and no more, awaits
\* createSession: it is neither left behind by a failed connect() (the catch
\* block "resets the state to allow successive calls") nor does a second
\* call create a second session.  Only a "log" listener that throws at the
\* first message of #connect, outside its try block, can break this.
SingleCreator ==
  \A c \in Clients :
    LET creating == CallsOf(c, {"creating"}) IN
    /\ \A j, k \in creating : j = k
    /\ creating # {} => connecting[c]
    /\ connecting[c] /\ ~LogThrows(c, "info") => creating # {}

\* "We should close the pools (if any) and reset the state to allow successive
\* calls to connect()" (comment in #connect): connecting does not outlive the
\* call that set it.
FailedConnectResets ==
  \A c \in Clients : connecting[c] => CallsOf(c, {"creating"}) # {}

\* A call waits for the "connected" event only while some call will emit it.
WaitersHaveCreator ==
  \A c \in Clients :
    CallsOf(c, {"waiting"}) # {} /\ ~LogThrows(c, "info")
      => CallsOf(c, {"creating"}) # {}

\* One connect at a time is shared by all the calls that need it: the state is
\* well formed, one call creates the session, and the others wait for it.
ConnectShared == TypeOK /\ SingleCreator /\ WaitersHaveCreator

\* this.rustClient! is defined where rustyExecute and #rustyBatch use it, after
\* an await or without one, whatever happened since connected was looked at,
\* and for the execution that follows a PREPARE; it is the only session the
\* client ever had.  The one call that ends with the TypeError is that of
\* prepareStatement, when executeConcurrent() is given a client that never had
\* a session: "This will be called only after checking that client is
\* connected" (client.ts:243) is not so.
SessionReady ==
  /\ \A k \in Calls : pc[k] = "undefined" => kind[k] = "concurrent"
  /\ \A k \in Calls :
       pc[k] \in {"preparing", "prepared", "resumed", "running"}
         => rustClient[target[k]] = 1
  /\ \A c \in Clients :
       rustClient[c] = IF connected[c] \/ isShuttingDown[c] THEN 1 ELSE 0

\* Every registered logging callback is the current one of its client, is
\* known to the finalization registry, and belongs to a client that is
\* connected or connecting: none is leaked by failed connects, a shutdown or
\* a collection.
LoggingOwned ==
  /\ \A cb \in callbacks :
       /\ loggingId[cb.client] = cb.id
       /\ cb.id \in finalizer[cb.client]
       /\ connected[cb.client] \/ connecting[cb.client]
  /\ \A c \in Clients :
       \A id \in finalizer[c] : \E cb \in callbacks : cb.client = c /\ cb.id = id

\* A client that shut down is neither connected nor connecting, nobody waits
\* for it and it has no logging callback.
ShutdownIsComplete ==
  \A c \in Clients : isShuttingDown[c] =>
    /\ ~connected[c] /\ ~connecting[c]
    /\ CallsOf(c, {"creating", "waiting"}) = {}
    /\ loggingId[c] = NoId /\ \A cb \in callbacks : cb.client # c

-----------------------------------------------------------------------------
(* Action properties.                                                      *)

\* The client takes call k: connects for it, or gives it to the session.
Accepts(k) ==
  /\ pc[k] \in {"idle", "prepared"}
  /\ pc'[k] \notin {"idle", "prepared", "preparing", "rejected", "undefined"}

\* After a shutdown() that found the client connected, every following query
\* is rejected, those executeConcurrent had prepared before included.
RejectsOnceShutDown ==
  [][\A k \in Calls : isShuttingDown[target[k]] => ~Accepts(k)]_vars

\* "The only effect of calling shutdown is rejecting any following queries to
\* the database" (doc of Client.shutdown).
RejectsAfterShutdown ==
  [][\A k \in Calls : asked[target[k]] => ~Accepts(k)]_vars

-----------------------------------------------------------------------------
(* Liveness.                                                               *)

\* Every call that was made is settled: no waiter of connect() hangs, however
\* connects fail, are retried, and race shutdown().  Those of a client whose
\* log listener throws in #connect can hang: see FailedConnectResets.
EveryCallSettles ==
  \A k \in Calls :
    pc[k] \in Active /\ ~LogThrows(target[k], "info") ~> pc[k] \in Settled

\* Once a client is shut down, its log listeners eventually hear nothing
\* more from the Rust side.
ShutdownSilencesLog ==
  \A c \in Clients :
    isShuttingDown[c] ~> [](\A cb \in pending : cb.client # c)

-----------------------------------------------------------------------------
(* The client implements ConnectOnce.                                      *)

PhaseOf(c) ==
  IF connected[c] THEN "open"
  ELSE IF isShuttingDown[c] THEN "shut"
  ELSE IF connecting[c] THEN "opening" ELSE "closed"

\* The clients whose application's listener lets #connect get past its first
\* message.
Quiet == {c \in Clients : ~LogThrows(c, "info")}

Connection ==
  INSTANCE ConnectOnce WITH
    Clients <- Quiet,
    phase <- [c \in Quiet |-> PhaseOf(c)],
    asking <- [c \in Quiet |-> CallsOf(c, {"creating", "waiting"})]

\* Through connecting, the "connected" event and the flags, a client keeps
\* the promise of ConnectOnce: one attempt at a time, ended for everyone at
\* once, one session, and shutdown only from the connected state.
ImplementsConnectOnce == Connection!CSpec

=============================================================================
