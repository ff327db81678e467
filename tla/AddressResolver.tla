--------------------------- MODULE AddressResolver ---------------------------
(***************************************************************************)
(* AddressResolver of utils.js, which turns a host name into addresses and *)
(* hands these out in turn.  A call is cut at its awaits, and the answers  *)
(* of the DNS arrive at any time.                                          *)
(***************************************************************************)
EXTENDS Naturals, Sequences, SequencesExt, FiniteSets

CONSTANTS
    RefreshCalls,       \* concurrent calls of refresh()
    Answers,            \* what resolve4 may answer with, <<>> for a failure
    MaxIndex,           \* stands for 2^31 - 1
    MaxResolutions,     \* bounds the answers of resolve4
    MaxHandedOut        \* bounds the calls of getIp(), below MaxIndex

VARIABLES
    addresses,          \* #addresses, <<>> until init() has resolved the name
    index,              \* #index
    refreshing,         \* #refreshing: "listening" while it is an emitter
    caller,             \* where each call of refresh() is
    asked,              \* how many resolve4 calls have been made
    handedOut,          \* what getIp() returned since the addresses last changed
    wrapped             \* the index was reset since then, once at most

resolverVars == <<addresses, index, refreshing, caller, asked, handedOut, wrapped>>

ResolverInit ==
    /\ addresses = <<>> /\ index = 0 /\ refreshing = "null"
    /\ caller = [k \in RefreshCalls |-> "none"]
    /\ asked = 0 /\ handedOut = <<>> /\ wrapped = FALSE

SetAddresses(answer) ==
    /\ addresses' = IF answer = <<>> THEN addresses ELSE answer
    /\ handedOut' = IF answer = <<>> THEN handedOut ELSE <<>>
    /\ wrapped' = IF answer = <<>> THEN wrapped ELSE FALSE

\* init(), awaited before the resolver is used; it rejects when the name is unknown.
InitResolves(answer) ==
    /\ addresses = <<>>
    /\ asked < MaxResolutions
    /\ asked' = asked + 1
    /\ SetAddresses(answer)
    /\ UNCHANGED <<index, refreshing, caller>>

\* refresh(): the first call resolves, the others wait for it.
Refresh(k) ==
    /\ addresses # <<>>
    /\ caller[k] \in {"none", "done"}
    /\ IF refreshing = "null"
       THEN /\ asked < MaxResolutions
            /\ asked' = asked + 1
            /\ refreshing' = "listening"
            /\ caller' = [caller EXCEPT ![k] = "resolving"]
       ELSE /\ caller' = [caller EXCEPT ![k] = "waiting"]
            /\ UNCHANGED <<asked, refreshing>>
    /\ UNCHANGED <<addresses, index, handedOut, wrapped>>

Waiting == {k \in RefreshCalls : caller[k] = "waiting"}

\* (fault) The emitter is dropped without its event.
Finished_Silent(k) ==
    /\ refreshing' = "null"
    /\ caller' = [caller EXCEPT ![k] = "done"]

\* The event resolves every promise of fromEvent(), then the emitter is dropped.
Finished(k) ==
    /\ refreshing' = "null"
    /\ caller' = [c \in RefreshCalls |->
                     IF c = k \/ c \in Waiting
                     THEN "done" ELSE caller[c]]

\* resolve4 answers the refresh under way; an error is ignored.
Resolves(k, answer) ==
    /\ caller[k] = "resolving"
    /\ SetAddresses(answer)
    /\ Finished(k)
    /\ UNCHANGED <<index, asked>>

\* (fault) The index is not reset at its limit.
NextIndex_Stays(i) == IF i # MaxIndex THEN i + 1 ELSE i

NextIndex(i) == IF i # MaxIndex THEN i + 1 ELSE 0

\* getIp()
GetIp ==
    /\ addresses # <<>>
    /\ Len(handedOut) < MaxHandedOut
    /\ handedOut' = Append(handedOut, addresses[1 + (index % Len(addresses))])
    /\ index' = NextIndex(index)
    /\ wrapped' = (wrapped \/ index = MaxIndex)
    /\ UNCHANGED <<addresses, refreshing, caller, asked>>

ResolverNext ==
    \/ \E answer \in Answers :
          InitResolves(answer) \/ \E k \in RefreshCalls : Resolves(k, answer)
    \/ \E k \in RefreshCalls : Refresh(k)
    \/ GetIp
ResolverSpec == ResolverInit /\ [][ResolverNext]_resolverVars

Times(address) == Cardinality({i \in DOMAIN handedOut : handedOut[i] = address})

(***************************************************************************)
(* Calls of refresh() share one resolution: exactly one of those under way *)
(* asks the DNS while any waits, so that none waits for an event that will *)
(* not come.  Between two resolutions, getIp() hands the addresses out     *)
(* evenly, and no less so across the reset of the index at its limit than  *)
(* by one more turn of an address.                                         *)
(***************************************************************************)
RefreshIsShared ==
    /\ Cardinality({k \in RefreshCalls : caller[k] = "resolving"}) =
          (IF refreshing = "null" THEN 0 ELSE 1)
    /\ Waiting # {} => refreshing # "null"
    /\ \A a, b \in ToSet(addresses) : Times(a) <= Times(b) + (IF wrapped THEN 2 ELSE 1)
=============================================================================
