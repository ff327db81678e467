---------------------------- MODULE ClientProofs ----------------------------
(***************************************************************************)
(* The safety of Client for any number of clients and calls, any log       *)
(* levels and any listeners, and that it implements ConnectOnce.           *)
(***************************************************************************)
EXTENDS Client, TLAPS

\* A client that registers a callback has a level the Rust side knows.
LEMMA LevelsShown ==
  ASSUME NEW c \in Clients, LogLevel[c] # "off"
  PROVE  LogLevel[c] \in Levels
BY ClientAssumption

\* Opening and closing the log of a client keep the registry well typed.
LEMMA LoggingTyped ==
  ASSUME TypeOK, NEW c \in Clients,
         OpenLogging(c) \/ CloseLogging(c)
  PROVE  /\ callbacks' \in SUBSET Callback
         /\ loggingId' \in [Clients -> Nat \cup {NoId}]
         /\ finalizer' \in [Clients -> SUBSET Nat]
         /\ OpenLogging(c) => nextId' \in Nat
<1>1. CASE OpenLogging(c)
  <2>1. CASE LogLevel[c] = "off"
    BY <1>1, <2>1 DEF OpenLogging, TypeOK, LogTypeOK
  <2>2. CASE LogLevel[c] # "off"
    <3>1. LogLevel[c] \in Levels
      BY <2>2, LevelsShown
    <3> QED BY <1>1, <2>2, <3>1 DEF OpenLogging, Pushed, Callback, TypeOK, LogTypeOK, NoId
  <2> QED BY <2>1, <2>2
<1>2. CASE CloseLogging(c)
  <2>1. callbacks' \in SUBSET Callback
    BY <1>2 DEF CloseLogging, Retained, TypeOK, LogTypeOK
  <2>2. loggingId' \in [Clients -> Nat \cup {NoId}] /\ finalizer' \in [Clients -> SUBSET Nat]
    BY <1>2 DEF CloseLogging, TypeOK
  <2>3. OpenLogging(c) => nextId' \in Nat
    BY DEF OpenLogging, TypeOK, LogTypeOK
  <2> QED BY <2>1, <2>2, <2>3
<1> QED BY <1>1, <1>2

(***************************************************************************)
(* Type correctness: the initial state and every action of Client.         *)
(***************************************************************************)
LEMMA TypeInit == Init => TypeOK
BY DEF Init, LogInit, TypeOK, LogTypeOK, NoId, PCs

\* One step per action of Client.
LEMMA TypeStep == TypeOK /\ [Next]_vars => TypeOK'
<1> SUFFICES ASSUME TypeOK, [Next]_vars PROVE TypeOK'
  OBVIOUS
<1> USE DEF TypeOK, LogTypeOK, logVars, flags, Goes, UsesSession
<1>1. ASSUME NEW k \in Calls, CallStep(k) PROVE TypeOK'
  <2> target[k] \in Clients
    OBVIOUS
  <2>1. CASE Prepare(k) \/ Prepared(k)
    BY <2>1 DEF Prepare, Prepared, PCs, Active, Settled
  <2>2. CASE CallConnected(k) \/ CallAfterShutdown(k) \/ CallJoins(k)
    BY <2>2 DEF CallConnected, CallAfterShutdown, CallJoins, WhenConnected, PCs, Active, Settled
  <2>3. CASE CallStarts(k)
    BY <2>3, LoggingTyped DEF CallStarts, PCs, Active
  <2>4. CASE CallLogThrows(k)
    BY <2>4 DEF CallLogThrows, PCs, Settled
  <2>5. CASE SessionCreated(k)
    BY <2>5 DEF SessionCreated, OnConnected, PCs, Active, Settled
  <2>6. CASE CreateFailed(k)
    BY <2>6, LoggingTyped DEF CreateFailed, OnError, PCs, Active, Settled
  <2>7. CASE Resume(k) \/ Answered(k)
    BY <2>7 DEF Resume, Answered, PCs, Active, Settled
  <2> QED BY <1>1, <2>1, <2>2, <2>3, <2>4, <2>5, <2>6, <2>7 DEF CallStep
<1>2. ASSUME NEW c \in Clients, Shutdown(c) PROVE TypeOK'
  BY <1>2, LoggingTyped DEF Shutdown
<1>3. ASSUME NEW c \in Clients, Collect(c) PROVE TypeOK'
  BY <1>3 DEF Collect
<1>4. ASSUME NEW c \in Clients, NEW id \in finalizer[c], Finalize(c, id) PROVE TypeOK'
  <2>1. callbacks' \in SUBSET Callback
    BY <1>4 DEF Finalize, Retained
  <2> QED BY <1>4, <2>1 DEF Finalize
<1>5. ASSUME NEW level \in Levels, Event(level) PROVE TypeOK'
  BY <1>5 DEF Event, OnEvent
<1>6. ASSUME NEW cb \in pending, RunLogCallback(cb) PROVE TypeOK'
  BY <1>6 DEF RunLogCallback, Deliver
<1>7. CASE UNCHANGED vars
  BY <1>7 DEF vars
<1> QED BY <1>1, <1>2, <1>3, <1>4, <1>5, <1>6, <1>7 DEF Next

\* Every reachable state of Client is well typed: the flags stay Boolean, the
\* logging ids stay numbers and every call stays at a known point.
THEOREM TypeCorrect == Spec => []TypeOK
BY TypeInit, TypeStep, PTL DEF Spec

-----------------------------------------------------------------------------
(***************************************************************************)
(* The connection.  None of the properties is inductive by itself: that a  *)
(* waiter has a creator rests on connecting being reset only by the        *)
(* creator, which rests on there being one; that a session is created once *)
(* rests on connecting excluding connected and isShuttingDown.             *)
(***************************************************************************)
ConnInv ==
  /\ \A c \in Clients :
       /\ connecting[c] => ~connected[c] /\ ~isShuttingDown[c]
       /\ isShuttingDown[c] => ~connected[c]
  /\ \A k \in Calls : pc[k] \in {"creating", "waiting"} => connecting[target[k]]
  /\ \A j, k \in Calls :
       pc[j] = "creating" /\ pc[k] = "creating" /\ target[j] = target[k] => j = k
  /\ \A c \in Clients : connecting[c] /\ ~LogThrows(c, "info") =>
       \E k \in Calls : target[k] = c /\ pc[k] = "creating"
  /\ SessionReady

\* A new client is not connecting, and has no session.
LEMMA ConnInit == Init => ConnInv
BY DEF Init, ConnInv, SessionReady

\* One step per action that touches the connection.
LEMMA ConnStep == TypeOK /\ ConnInv /\ [Next]_vars => ConnInv'
<1> SUFFICES ASSUME TypeOK, ConnInv, [Next]_vars PROVE ConnInv'
  OBVIOUS
<1> USE DEF TypeOK, flags, Goes, UsesSession
<1>1. ASSUME NEW k \in Calls, CallStep(k) PROVE ConnInv'
  <2> target[k] \in Clients
    OBVIOUS
  <2> USE DEF LogThrows, Shows
  <2>1. CASE Prepare(k) \/ Prepared(k)
    BY <2>1 DEF Prepare, Prepared, ConnInv, SessionReady
  <2>2. CASE CallConnected(k)
    BY <2>2 DEF CallConnected, Invoked, WhenConnected, ConnInv, SessionReady
  <2>3. CASE CallAfterShutdown(k)
    BY <2>3 DEF CallAfterShutdown, Invoked, ConnInv, SessionReady
  <2>4. CASE CallJoins(k)
    BY <2>4 DEF CallJoins, Invoked, ConnInv, SessionReady
  <2>5. CASE CallStarts(k)
    BY <2>5 DEF CallStarts, Invoked, NothingUnderWay, ConnInv, SessionReady
  <2>6. CASE CallLogThrows(k)
    BY <2>6 DEF CallLogThrows, Invoked, NothingUnderWay, ConnInv, SessionReady
  <2>7. CASE SessionCreated(k)
    BY <2>7 DEF SessionCreated, Listening, CallsOf, OnConnected, ConnInv, SessionReady
  <2>8. CASE CreateFailed(k)
    BY <2>8 DEF CreateFailed, Listening, CallsOf, OnError, ConnInv, SessionReady
  <2>9. CASE Resume(k) \/ Answered(k)
    BY <2>9 DEF Resume, Answered, Settled, ConnInv, SessionReady
  <2> QED BY <1>1, <2>1, <2>2, <2>3, <2>4, <2>5, <2>6, <2>7, <2>8, <2>9 DEF CallStep
<1>2. ASSUME NEW c \in Clients, Shutdown(c) PROVE ConnInv'
  BY <1>2 DEF Shutdown, ConnInv, SessionReady, LogThrows, Shows
<1>3. CASE UNCHANGED <<connected, connecting, isShuttingDown, rustClient, target, kind, pc>>
  BY <1>3 DEF ConnInv, SessionReady, LogThrows, Shows
<1>4. ASSUME NEW c \in Clients, Collect(c) PROVE ConnInv'
  BY <1>3, <1>4 DEF Collect
<1>5. ASSUME NEW c \in Clients, NEW id \in finalizer[c], Finalize(c, id) PROVE ConnInv'
  BY <1>3, <1>5 DEF Finalize
<1>6. ASSUME NEW level \in Levels, Event(level) PROVE ConnInv'
  BY <1>3, <1>6 DEF Event
<1>7. ASSUME NEW cb \in pending, RunLogCallback(cb) PROVE ConnInv'
  BY <1>3, <1>7 DEF RunLogCallback
<1>8. CASE UNCHANGED vars
  BY <1>3, <1>8 DEF vars
<1> QED BY <1>1, <1>2, <1>4, <1>5, <1>6, <1>7, <1>8 DEF Next

\* The invariant on connecting, its creator and the session holds for any
\* clients and calls, throwing log listeners included.
THEOREM ConnInvariant == Spec => [](TypeOK /\ ConnInv)
<1>1. Init => TypeOK /\ ConnInv
  BY TypeInit, ConnInit
<1>2. TypeOK /\ ConnInv /\ [Next]_vars => (TypeOK /\ ConnInv)'
  BY TypeStep, ConnStep
<1> QED BY <1>1, <1>2, PTL DEF Spec

\* For any clients and calls: connecting is set exactly while one call awaits
\* createSession, unless the first log message of #connect threw.
THEOREM OneCreator == Spec => []SingleCreator
<1>1. TypeOK /\ ConnInv => SingleCreator
  <2> SUFFICES ASSUME TypeOK, ConnInv, NEW c \in Clients
               PROVE  /\ \A j, k \in CallsOf(c, {"creating"}) : j = k
                      /\ CallsOf(c, {"creating"}) # {} => connecting[c]
                      /\ connecting[c] /\ ~LogThrows(c, "info")
                           => CallsOf(c, {"creating"}) # {}
    BY DEF SingleCreator
  <2>1. \A j, k \in CallsOf(c, {"creating"}) : j = k
    BY DEF ConnInv, CallsOf
  <2>2. CallsOf(c, {"creating"}) # {} => connecting[c]
    BY DEF ConnInv, CallsOf
  <2>3. connecting[c] /\ ~LogThrows(c, "info") => CallsOf(c, {"creating"}) # {}
    BY DEF ConnInv, CallsOf
  <2> QED BY <2>1, <2>2, <2>3
<1> QED BY <1>1, ConnInvariant, PTL

\* For any clients and calls: nobody waits for a "connected" event that no
\* call will emit.
THEOREM NoLostWaiter == Spec => []WaitersHaveCreator
<1>1. TypeOK /\ ConnInv => WaitersHaveCreator
  BY DEF TypeOK, ConnInv, WaitersHaveCreator, CallsOf
<1> QED BY <1>1, ConnInvariant, PTL

\* For any clients and calls: the calls that need a session share one connect;
\* one of them creates it and the others wait for that one.
THEOREM ConnectIsShared == Spec => []ConnectShared
<1>1. TypeOK /\ SingleCreator /\ WaitersHaveCreator => ConnectShared
  BY DEF ConnectShared
<1> QED BY <1>1, TypeCorrect, OneCreator, NoLostWaiter, PTL

\* For any clients and calls: the session is there, and is the only one the
\* client ever had, wherever rustyExecute and #rustyBatch use this.rustClient!,
\* and only prepareStatement, called by executeConcurrent(), can find it
\* undefined.
THEOREM SessionIsReady == Spec => []SessionReady
<1>1. ConnInv => SessionReady
  BY DEF ConnInv
<1> QED BY <1>1, ConnInvariant, PTL

-----------------------------------------------------------------------------
(***************************************************************************)
(* Logging.  That #closeLogging and the finalizer remove the callback of   *)
(* this client and no other needs that ids are fresh and never shared.     *)
(***************************************************************************)
LogInv ==
  /\ LoggingOwned
  /\ \A c \in Clients :
       loggingId[c] # NoId =>
         loggingId[c] < nextId /\ (connected[c] \/ connecting[c])
  /\ \A c, d \in Clients :
       loggingId[c] = loggingId[d] /\ loggingId[c] # NoId => c = d

\* At first no callback is registered.
LEMMA LogInvInit == Init => LogInv
BY DEF Init, LogInit, LogInv, LoggingOwned, NoId

\* Opening the log of a client that is neither connected nor connecting.
LEMMA OpenLoggingKeeps ==
  ASSUME TypeOK, LogInv, NEW c \in Clients, ~connected[c], ~connecting[c],
         OpenLogging(c), connected' = connected,
         connecting' = [connecting EXCEPT ![c] = TRUE]
  PROVE  LogInv'
<1> USE DEF TypeOK, LogTypeOK, Callback
<1>1. CASE LogLevel[c] = "off"
  BY <1>1 DEF OpenLogging, LogInv, LoggingOwned
<1>2. CASE LogLevel[c] # "off"
  <2> DEFINE new == [id |-> nextId, client |-> c, min_level |-> LogLevel[c]]
  <2>1. /\ callbacks' = callbacks \cup {new}
        /\ nextId' = nextId + 1
        /\ loggingId' = [loggingId EXCEPT ![c] = nextId]
        /\ finalizer' = [finalizer EXCEPT ![c] = @ \cup {nextId}]
    BY <1>2 DEF OpenLogging, Pushed
  <2>2. loggingId[c] = NoId /\ finalizer[c] = {} /\ \A cb \in callbacks : cb.client # c
    BY DEF LogInv, LoggingOwned
  <2>3. new.id = nextId /\ new.client = c /\ new \in callbacks'
    BY <2>1
  <2> HIDE DEF new
  <2>4. \A cb \in callbacks' :
          /\ loggingId'[cb.client] = cb.id
          /\ cb.id \in finalizer'[cb.client]
          /\ connected'[cb.client] \/ connecting'[cb.client]
    BY <2>1, <2>2, <2>3 DEF LogInv, LoggingOwned
  <2>5. \A d \in Clients : \A id \in finalizer'[d] :
          \E cb \in callbacks' : cb.client = d /\ cb.id = id
    BY <2>1, <2>2, <2>3 DEF LogInv, LoggingOwned
  <2>6. \A d \in Clients : loggingId'[d] # NoId =>
          loggingId'[d] < nextId' /\ (connected'[d] \/ connecting'[d])
    BY <2>1, <2>2 DEF LogInv, NoId
  <2>7. \A d, e \in Clients :
          loggingId'[d] = loggingId'[e] /\ loggingId'[d] # NoId => d = e
    BY <2>1, <2>2 DEF LogInv, NoId
  <2> QED BY <2>4, <2>5, <2>6, <2>7 DEF LogInv, LoggingOwned
<1> QED BY <1>1, <1>2

\* Closing the log of a client that leaves the connected or connecting state.
LEMMA CloseLoggingKeeps ==
  ASSUME TypeOK, LogInv, NEW c \in Clients, CloseLogging(c), nextId' = nextId,
         \A d \in Clients \ {c} :
           connected'[d] = connected[d] /\ connecting'[d] = connecting[d]
  PROVE  LogInv'
<1> USE DEF TypeOK, LogTypeOK, Callback
<1>1. \A cb \in callbacks' : cb \in callbacks /\ cb.client # c
  BY DEF CloseLogging, Retained, LogInv, LoggingOwned, NoId
<1>2. \A cb \in callbacks : cb.client # c => cb \in callbacks'
  BY DEF CloseLogging, Retained, LogInv, LoggingOwned, NoId
<1>3. loggingId' = [loggingId EXCEPT ![c] = NoId]
  BY DEF CloseLogging
<1>4. finalizer' = [finalizer EXCEPT ![c] = {}]
  BY DEF CloseLogging, LogInv, LoggingOwned, NoId
<1>5. LoggingOwned'
  BY <1>1, <1>2, <1>3, <1>4 DEF LogInv, LoggingOwned
<1> QED BY <1>3, <1>5 DEF LogInv, NoId

\* One step per action that touches the registry or a flag it depends on.
LEMMA LogStep == TypeOK /\ ConnInv /\ LogInv /\ [Next]_vars => LogInv'
<1> SUFFICES ASSUME TypeOK, ConnInv, LogInv, [Next]_vars PROVE LogInv'
  OBVIOUS
<1>0. CASE UNCHANGED <<callbacks, nextId, connected, connecting, loggingId, finalizer>>
  BY <1>0 DEF LogInv, LoggingOwned
<1>1. ASSUME NEW k \in Calls, CallStep(k) PROVE LogInv'
  <2> DEFINE c == target[k]
  <2> c \in Clients
    BY DEF TypeOK
  <2>1. CASE Prepare(k) \/ Prepared(k) \/ CallConnected(k) \/ CallAfterShutdown(k)
             \/ CallJoins(k) \/ Resume(k) \/ Answered(k)
    BY <1>0, <2>1 DEF Prepare, Prepared, CallConnected, CallAfterShutdown, CallJoins,
                      Resume, Answered, logVars, flags
  <2>2. CASE CallStarts(k)
    BY <2>2, OpenLoggingKeeps DEF CallStarts, NothingUnderWay
  <2>3. CASE CallLogThrows(k)
    BY <2>3 DEF CallLogThrows, logVars, TypeOK, LogInv, LoggingOwned, LogTypeOK, Callback
  <2>4. CASE SessionCreated(k)
    BY <2>4 DEF SessionCreated, logVars, TypeOK, LogInv, LoggingOwned, LogTypeOK, Callback
  <2>5. CASE CreateFailed(k)
    BY <2>5, CloseLoggingKeeps DEF CreateFailed, TypeOK
  <2> QED BY <1>1, <2>1, <2>2, <2>3, <2>4, <2>5 DEF CallStep
<1>2. ASSUME NEW c \in Clients, Shutdown(c) PROVE LogInv'
  <2>1. CASE connected[c]
    BY <1>2, <2>1, CloseLoggingKeeps DEF Shutdown, TypeOK
  <2>2. CASE ~connected[c]
    BY <1>0, <1>2, <2>2 DEF Shutdown
  <2> QED BY <2>1, <2>2
<1>3. ASSUME NEW c \in Clients, Collect(c) PROVE LogInv'
  BY <1>0, <1>3 DEF Collect, logVars, flags
<1>4. ASSUME NEW c \in Clients, NEW id \in finalizer[c], Finalize(c, id) PROVE LogInv'
  <2> USE DEF TypeOK, LogTypeOK, Callback
  <2>1. \A cb \in callbacks : cb \in callbacks' <=> cb.client # c
    BY <1>4 DEF Finalize, Retained, LogInv, LoggingOwned, NoId
  <2>2. callbacks' \subseteq callbacks
    BY <1>4 DEF Finalize, Retained
  <2>3. finalizer[c] = {id}
    BY DEF LogInv, LoggingOwned
  <2>4. finalizer' = [finalizer EXCEPT ![c] = {}]
    BY <1>4, <2>3 DEF Finalize
  <2>5. UNCHANGED <<nextId, connected, connecting, loggingId>>
    BY <1>4 DEF Finalize, flags
  <2> QED BY <2>1, <2>2, <2>4, <2>5 DEF LogInv, LoggingOwned
<1>5. ASSUME NEW level \in Levels, Event(level) PROVE LogInv'
  BY <1>0, <1>5 DEF Event, OnEvent, flags
<1>6. ASSUME NEW cb \in pending, RunLogCallback(cb) PROVE LogInv'
  BY <1>0, <1>6 DEF RunLogCallback, Deliver, flags
<1>7. CASE UNCHANGED vars
  BY <1>0, <1>7 DEF vars
<1> QED BY <1>1, <1>2, <1>3, <1>4, <1>5, <1>6, <1>7 DEF Next

\* The invariants on types, connection and logging hold together.
THEOREM ClientInvariant == Spec => [](TypeOK /\ ConnInv /\ LogInv)
<1>1. Init => TypeOK /\ ConnInv /\ LogInv
  BY TypeInit, ConnInit, LogInvInit
<1>2. TypeOK /\ ConnInv /\ LogInv /\ [Next]_vars => (TypeOK /\ ConnInv /\ LogInv)'
  BY TypeStep, ConnStep, LogStep
<1> QED BY <1>1, <1>2, PTL DEF Spec

\* For any clients and calls: no logging callback is leaked, and the
\* finalization registry can still remove every one that is registered.
THEOREM NoLoggingLeak == Spec => []LoggingOwned
<1>1. LogInv => LoggingOwned
  BY DEF LogInv
<1> QED BY <1>1, ClientInvariant, PTL

\* For any clients and calls: a shutdown leaves nothing behind.
THEOREM ShutdownCompletes == Spec => []ShutdownIsComplete
<1>1. TypeOK /\ ConnInv /\ LogInv => ShutdownIsComplete
  BY DEF TypeOK, LogTypeOK, ConnInv, LogInv, LoggingOwned, ShutdownIsComplete, CallsOf, Callback
<1> QED BY <1>1, ClientInvariant, PTL

\* For any clients and calls: once isShuttingDown is set, no query is taken.
THEOREM ShutdownRejects == Spec => RejectsOnceShutDown
<1>1. TypeOK /\ ConnInv /\ [Next]_vars =>
        [\A k \in Calls : isShuttingDown[target[k]] => ~Accepts(k)]_vars
  <2> SUFFICES ASSUME TypeOK, ConnInv, Next, NEW k \in Calls,
                      isShuttingDown[target[k]], Accepts(k)
               PROVE  FALSE
    OBVIOUS
  <2> USE DEF TypeOK, Accepts
  <2>1. target[k] \in Clients /\ ~connected[target[k]]
    BY DEF ConnInv
  <2>2. ASSUME NEW j \in Calls, CallStep(j) PROVE FALSE
    <3>1. CASE SessionCreated(j) \/ CreateFailed(j)
      BY <3>1 DEF SessionCreated, CreateFailed, Listening, CallsOf
    <3>2. CASE ~SessionCreated(j) /\ ~CreateFailed(j)
      BY <2>1, <2>2, <3>2
         DEF CallStep, Prepare, Prepared, CallConnected, CallAfterShutdown, CallJoins,
             CallStarts, CallLogThrows, Resume, Answered, Goes, UsesSession, WhenConnected,
             NothingUnderWay
    <3> QED BY <3>1, <3>2
  <2>3. CASE UNCHANGED pc
    BY <2>3
  <2> QED BY <2>2, <2>3 DEF Next, Shutdown, Collect, Finalize, Event, RunLogCallback
<1> QED BY <1>1, ConnInvariant, PTL DEF Spec, RejectsOnceShutDown

-----------------------------------------------------------------------------
(***************************************************************************)
(* Refinement.  Of the actions of Client, starting and joining are Ask,    *)
(* the outcomes of createSession are Open and Fail, a shutdown of a        *)
(* connected client is Shut, and all others change neither flags nor the   *)
(* set of calls that connect.                                              *)
(***************************************************************************)
\* For any clients and calls, and whatever listeners other clients have, every
\* client whose listener does not throw in #connect implements ConnectOnce.
THEOREM ClientImplementsConnectOnce == Spec => ImplementsConnectOnce
<1> DEFINE ph == [c \in Quiet |-> PhaseOf(c)]
           as == [c \in Quiet |-> CallsOf(c, {"creating", "waiting"})]
<1>1. Init => Connection!CInit
  <2> SUFFICES ASSUME Init PROVE Connection!CInit
    OBVIOUS
  <2>1. \A c \in Quiet : PhaseOf(c) = "closed"
    BY DEF Init, PhaseOf, Quiet
  <2>2. \A c \in Quiet : CallsOf(c, {"creating", "waiting"}) = {}
    BY DEF Init, CallsOf
  <2> QED BY <2>1, <2>2 DEF Connection!CInit
<1>2. TypeOK /\ ConnInv /\ [Next]_vars => [Connection!CNext]_(Connection!cvars)
  <2> SUFFICES ASSUME TypeOK, ConnInv, [Next]_vars
               PROVE  Connection!CNext \/ UNCHANGED <<ph, as>>
    BY DEF Connection!cvars
  <2> USE DEF TypeOK, flags, Goes, UsesSession
  <2>0. ASSUME UNCHANGED <<connected, connecting, isShuttingDown, target>>,
               \A j \in Calls : pc'[j] \in {"creating", "waiting"}
                                  <=> pc[j] \in {"creating", "waiting"}
        PROVE  UNCHANGED <<ph, as>>
    <3>1. \A c \in Quiet : PhaseOf(c)' = PhaseOf(c)
      BY <2>0 DEF PhaseOf, Quiet
    <3>2. \A c \in Quiet : CallsOf(c, {"creating", "waiting"})' = CallsOf(c, {"creating", "waiting"})
      BY <2>0 DEF CallsOf, Quiet
    <3> QED BY <3>1, <3>2
  <2>1. ASSUME NEW k \in Calls, CallStep(k) PROVE Connection!CNext \/ UNCHANGED <<ph, as>>
    <3> DEFINE c == target[k]
    <3>0. c \in Clients
      OBVIOUS
    <3>a. CASE c \notin Quiet
      <4>1. \A d \in Quiet : PhaseOf(d)' = PhaseOf(d)
        BY <2>1, <3>0, <3>a
           DEF CallStep, Prepare, Prepared, CallConnected, CallAfterShutdown, CallJoins,
               CallStarts, CallLogThrows, SessionCreated, CreateFailed, Resume, Answered,
               PhaseOf, Quiet
      <4>2. target' = target /\ \A j \in Calls : target[j] \in Quiet => pc'[j] = pc[j]
        BY <2>1, <3>0, <3>a
           DEF CallStep, Prepare, Prepared, CallConnected, CallAfterShutdown, CallJoins,
               CallStarts, CallLogThrows, SessionCreated, CreateFailed, Resume, Answered,
               Listening, CallsOf
      <4>3. \A d \in Quiet : CallsOf(d, {"creating", "waiting"})' = CallsOf(d, {"creating", "waiting"})
        BY <4>2 DEF CallsOf
      <4> QED BY <4>1, <4>3
    <3>b. CASE c \in Quiet
      <4>1. CASE Prepare(k) \/ Prepared(k) \/ CallConnected(k) \/ CallAfterShutdown(k)
                 \/ Resume(k) \/ Answered(k)
        BY <2>0, <4>1 DEF Prepare, Prepared, CallConnected, CallAfterShutdown, Resume,
                          Answered, Invoked, WhenConnected, Settled
      <4>2. CASE CallJoins(k) \/ CallStarts(k)
        <5>1. /\ PhaseOf(c) \in {"closed", "opening"}
              /\ \A d \in Quiet : PhaseOf(d)' = IF d = c THEN "opening" ELSE PhaseOf(d)
          BY <3>0, <3>b, <4>2 DEF CallJoins, CallStarts, NothingUnderWay, PhaseOf, Quiet
        <5>2. k \notin CallsOf(c, {"creating", "waiting"})
          BY <4>2 DEF CallJoins, CallStarts, Invoked, CallsOf
        <5>3. \A d \in Quiet : CallsOf(d, {"creating", "waiting"})' =
                IF d = c THEN CallsOf(d, {"creating", "waiting"}) \cup {k}
                         ELSE CallsOf(d, {"creating", "waiting"})
          BY <4>2 DEF CallJoins, CallStarts, CallsOf
        <5>4. Connection!Ask(c, k)
          BY <3>0, <3>b, <5>1, <5>2, <5>3 DEF Connection!Ask
        <5> QED BY <3>0, <3>b, <5>4 DEF Connection!CNext
      <4>3. CASE CallLogThrows(k)
        BY <3>b, <4>3 DEF CallLogThrows, Quiet
      <4>4. CASE SessionCreated(k)
        <5>1. PhaseOf(c) = "opening"
          BY <3>0, <3>b, <4>4 DEF SessionCreated, ConnInv, PhaseOf, Quiet
        <5>2. \A d \in Quiet : PhaseOf(d)' = IF d = c THEN "open" ELSE PhaseOf(d)
          BY <3>0, <3>b, <4>4 DEF SessionCreated, PhaseOf, Quiet
        <5>3. \A d \in Quiet : CallsOf(d, {"creating", "waiting"})' =
                IF d = c THEN {} ELSE CallsOf(d, {"creating", "waiting"})
          BY <3>0, <3>b, <4>4 DEF SessionCreated, Listening, OnConnected, CallsOf, ConnInv, Quiet
        <5>4. Connection!Open(c)
          BY <3>0, <3>b, <5>1, <5>2, <5>3 DEF Connection!Open, Connection!Ends
        <5> QED BY <3>0, <3>b, <5>4 DEF Connection!CNext
      <4>5. CASE CreateFailed(k)
        <5>1. PhaseOf(c) = "opening"
          BY <3>0, <3>b, <4>5 DEF CreateFailed, ConnInv, PhaseOf, Quiet
        <5>2. \A d \in Quiet : PhaseOf(d)' = IF d = c THEN "closed" ELSE PhaseOf(d)
          BY <3>0, <3>b, <4>5 DEF CreateFailed, ConnInv, PhaseOf, Quiet
        <5>3. \A d \in Quiet : CallsOf(d, {"creating", "waiting"})' =
                IF d = c THEN {} ELSE CallsOf(d, {"creating", "waiting"})
          BY <3>0, <3>b, <4>5 DEF CreateFailed, Listening, OnError, CallsOf, ConnInv, Quiet
        <5>4. Connection!Fail(c)
          BY <3>0, <3>b, <5>1, <5>2, <5>3 DEF Connection!Fail, Connection!Ends
        <5> QED BY <3>0, <3>b, <5>4 DEF Connection!CNext
      <4> QED BY <2>1, <4>1, <4>2, <4>3, <4>4, <4>5 DEF CallStep
    <3> QED BY <3>a, <3>b
  <2>2. ASSUME NEW c \in Clients, Shutdown(c) PROVE Connection!CNext \/ UNCHANGED <<ph, as>>
    <3>0. CASE c \notin Quiet
      <4>1. \A d \in Quiet : PhaseOf(d)' = PhaseOf(d)
        BY <2>2, <3>0 DEF Shutdown, PhaseOf, Quiet
      <4>2. UNCHANGED as
        BY <2>2 DEF Shutdown, CallsOf
      <4> QED BY <4>1, <4>2
    <3>1. CASE c \in Quiet /\ connected[c]
      <4>1. PhaseOf(c) = "open" /\ \A d \in Quiet : PhaseOf(d)' = IF d = c THEN "shut" ELSE PhaseOf(d)
        BY <2>2, <3>1 DEF Shutdown, PhaseOf, Quiet
      <4>2. UNCHANGED as
        BY <2>2 DEF Shutdown, CallsOf
      <4>3. Connection!Shut(c)
        BY <3>1, <4>1, <4>2 DEF Connection!Shut
      <4> QED BY <3>1, <4>3 DEF Connection!CNext
    <3>2. CASE ~connected[c]
      BY <2>0, <2>2, <3>2 DEF Shutdown
    <3> QED BY <3>0, <3>1, <3>2
  <2>3. CASE UNCHANGED <<connected, connecting, isShuttingDown, target, pc>>
    BY <2>0, <2>3
  <2> QED BY <2>1, <2>2, <2>3 DEF Next, Collect, Finalize, Event, RunLogCallback, vars
<1> QED BY <1>1, <1>2, ConnInvariant, PTL DEF Spec, ImplementsConnectOnce, Connection!CSpec

=============================================================================
