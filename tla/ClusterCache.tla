---------------------------- MODULE ClusterCache ----------------------------
(***************************************************************************)
(* client.hosts and the cache behind it: SessionWrapper.cluster_snapshot   *)
(* and with_cluster_snapshot (src/src/session.rs), ClusterSnapshot         *)
(* (src/src/metadata/state.rs), get_all_hosts (src/src/metadata/host.rs).  *)
(*                                                                         *)
(* The Rust driver (external) replaces its Arc<ClusterState> in the        *)
(* background.  A state lives at an address until the last Arc to it is    *)
(* dropped; then the address may be used again.  The cache is compared by  *)
(* address only (Arc::ptr_eq).  The topology of a cluster is abstracted to *)
(* a value; a JS HostMap is an object with an identity and the topology it *)
(* was built from, with the number of that state as history.               *)
(***************************************************************************)
EXTENDS Naturals

CONSTANTS
  Addresses,         \* where a ClusterState can be allocated
  Topologies,
  MaxRefreshes       \* bound: refreshes of the cluster state

ASSUME ClusterCacheAssumption ==
  /\ Addresses # {} /\ Topologies # {}
  /\ MaxRefreshes \in Nat

VARIABLES
  state,             \* what is stored at each address: its topology, and as
                     \* history the number of the refresh that made it
  current,           \* the address of the driver's current state
  refreshes,         \* refreshes so far
  cache,             \* cluster_snapshot: at most one record in a set
  holds,             \* the Arc an access took from the driver, while it runs
  since,             \* history: refreshes made before that access began
  nextObject,        \* identities for JS objects
  returned           \* history: at most one HostMap, the last one handed out

cacheVars == <<state, current, refreshes, cache, holds, since, nextObject, returned>>

State == [topology: Topologies, version: Nat]
HostMap == [object: Nat, topology: Topologies, version: Nat]

CacheTypeOK ==
  /\ state \in [Addresses -> State]
  /\ current \in Addresses
  /\ refreshes \in 0..MaxRefreshes
  /\ cache \in SUBSET [inner: Addresses, host_map: HostMap]
  /\ \A c, d \in cache : c = d
  /\ holds \in SUBSET Addresses
  /\ since \in Nat
  /\ nextObject \in Nat
  /\ returned \in SUBSET HostMap
  /\ \A r, s \in returned : r = s

CacheInit ==
  /\ current \in Addresses
  /\ \E t \in Topologies : state = [a \in Addresses |-> [topology |-> t, version |-> 0]]
  /\ refreshes = 0
  /\ cache = {}
  /\ holds = {}
  /\ since = 0
  /\ nextObject = 0
  /\ returned = {}

\* (fault) the snapshot keeps the address without keeping the Arc.
Live_WeakCache == {current} \cup holds

\* The addresses to which an Arc exists: the driver's, the one the cached
\* ClusterSnapshot keeps in inner, and the one a running access took.
Live == {current} \cup holds \cup {c.inner : c \in cache}

\* The driver replaces its state in the background: external.  The old one is
\* freed unless an Arc to it remains.
Refresh(a, t) ==
  /\ refreshes < MaxRefreshes
  /\ a \notin Live
  /\ refreshes' = refreshes + 1
  /\ state' = [state EXCEPT ![a] = [topology |-> t, version |-> refreshes + 1]]
  /\ current' = a
  /\ UNCHANGED <<cache, holds, since, nextObject, returned>>

\* get_all_hosts takes the lock of the cache and the driver's current Arc.
GetClusterState ==
  /\ holds = {}
  /\ holds' = {current}
  /\ since' = refreshes
  /\ UNCHANGED <<state, current, refreshes, cache, nextObject, returned>>

\* (fault) the snapshot is compared with a null pointer.
IsCached_Never(a) == FALSE

\* Arc::ptr_eq of the state at hand and the one the snapshot was built from.
IsCached(a) == \E c \in cache : c.inner = a

\* ClusterSnapshot::new.
NewSnapshot(a) ==
  [inner |-> a,
   host_map |-> [object |-> nextObject,
                 topology |-> state[a].topology, version |-> state[a].version]]

\* The new snapshot takes the place of the old one.
Replaces(snapshot) == cache' = {snapshot}

\* with_cluster_snapshot: a snapshot that is not up to date is replaced.
WithClusterSnapshot(a) ==
  /\ holds = {a}
  /\ \/ IsCached(a) /\ UNCHANGED <<cache, nextObject>>
     \/ ~IsCached(a) /\ Replaces(NewSnapshot(a)) /\ nextObject' = nextObject + 1
  /\ holds' = {}
  /\ UNCHANGED <<state, current, refreshes, since>>

\* get_all_hosts hands out the map of the snapshot.
HandsOut(a) ==
  /\ WithClusterSnapshot(a)
  /\ returned' = {c.host_map : c \in cache'}

\* host_map.get fails, with the snapshot already in the cache: nothing is
\* handed out.
GetFails(a) ==
  /\ WithClusterSnapshot(a)
  /\ UNCHANGED returned

\* Building the JS objects fails: the error is thrown, the cache is kept.
BuildFails(a) ==
  /\ holds = {a}
  /\ ~IsCached(a)
  /\ holds' = {}
  /\ UNCHANGED <<state, current, refreshes, cache, since, nextObject, returned>>

CacheNext ==
  \/ \E a \in Addresses, t \in Topologies : Refresh(a, t)
  \/ GetClusterState
  \/ \E a \in holds : HandsOut(a) \/ GetFails(a) \/ BuildFails(a)

CacheSpec == CacheInit /\ [][CacheNext]_cacheVars

-----------------------------------------------------------------------------

\* Whether the cache was replaced by this access, or by an earlier one that
\* failed after it: the map get_all_hosts hands out shows the topology of the
\* state the access holds, which was current when it began or later; with
\* addresses used again this is what the comment on ABA problems claims.
HandsOutCurrent ==
  [][\A a \in holds, r \in returned' :
       HandsOut(a) => r.version >= since /\ r.topology = state[a].topology]_cacheVars

\* "The same JS HostMap object is returned across calls, for as long as the
\* underlying cluster state doesn't change" (doc of get_all_hosts), and
\* another one as soon as it changed.
SameObjectSameState ==
  [][\A r \in returned, s \in returned' :
       r.version = s.version <=> r.object = s.object]_cacheVars

\* The cached snapshot shows what is stored at the address it is compared by.
CacheTrue ==
  CacheTypeOK /\ \A c \in cache : c.host_map.topology = state[c.inner].topology

=============================================================================
