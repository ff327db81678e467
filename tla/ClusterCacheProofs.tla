------------------------- MODULE ClusterCacheProofs -------------------------
(***************************************************************************)
(* Theorems about ClusterCache, for any number of addresses, topologies    *)
(* and refreshes.                                                          *)
(***************************************************************************)
EXTENDS ClusterCache, TLAPS

(***************************************************************************)
(* The invariant.  A state to which an Arc exists is not replaced, so the  *)
(* cached map goes on showing what is stored at its address, and two live  *)
(* addresses hold different states: an equal address is an equal state.    *)
(* What was handed out last is the cached map, or the map of an older state*)
(* when the accesses since then failed.                                    *)
(***************************************************************************)
CacheInv ==
  /\ CacheTypeOK
  /\ \A a \in Live : state[a].version <= refreshes
  /\ state[current].version = refreshes
  /\ \A a, b \in Live : state[a].version = state[b].version => a = b
  /\ \A a \in holds : state[a].version >= since
  /\ \A c \in cache :
       /\ c.host_map.topology = state[c.inner].topology
       /\ c.host_map.version = state[c.inner].version
       /\ c.host_map.object < nextObject
  /\ \A c \in cache, a \in holds : c.host_map.version <= state[a].version
  /\ \A r \in returned : \E c \in cache :
       \/ r = c.host_map
       \/ r.version < c.host_map.version /\ r.object < c.host_map.object

\* At first nothing is cached.
LEMMA CacheInvInit == CacheInit => CacheInv
BY ClusterCacheAssumption DEF CacheInit, CacheInv, CacheTypeOK, Live, State

\* A refresh writes to an address to which no Arc exists.
LEMMA RefreshKeeps ==
  ASSUME CacheInv, NEW a \in Addresses, NEW t \in Topologies, Refresh(a, t)
  PROVE  CacheInv'
<1> USE DEF CacheInv, Refresh
<1>1. /\ refreshes \in Nat /\ refreshes' \in 0..MaxRefreshes
      /\ refreshes' = refreshes + 1
  BY ClusterCacheAssumption DEF CacheTypeOK
<1>2. state'[a] = [topology |-> t, version |-> refreshes + 1]
  BY DEF CacheTypeOK
<1>3. \A b \in Addresses : b # a => state'[b] = state[b]
  BY DEF CacheTypeOK
<1>4. Live' \subseteq Live \cup {a} /\ a \notin Live /\ Live \subseteq Addresses
  BY DEF Live, CacheTypeOK
<1>5. \A b \in Live : b # a /\ state'[b] = state[b] /\ state[b].version \in Nat
  BY <1>3, <1>4 DEF CacheTypeOK, State
<1>6. CacheTypeOK'
  BY <1>1, <1>2, <1>3 DEF CacheTypeOK, State
<1>7. \A b \in Live' : state'[b].version <= refreshes'
  BY <1>1, <1>2, <1>4, <1>5
<1>8. \A b, d \in Live' : state'[b].version = state'[d].version => b = d
  BY <1>1, <1>2, <1>4, <1>5
<1>9. \A b \in holds : b \in Live
  BY DEF Live
<1>10. \A c \in cache : c.inner \in Live
  BY DEF Live
<1> QED BY <1>1, <1>2, <1>5, <1>6, <1>7, <1>8, <1>9, <1>10

\* An access takes the current Arc.
LEMMA GetKeeps == CacheInv /\ GetClusterState => CacheInv'
<1> SUFFICES ASSUME CacheInv, GetClusterState PROVE CacheInv'
  OBVIOUS
<1>1. Live' = Live
  BY DEF GetClusterState, Live, CacheInv
<1>2. CacheTypeOK'
  BY DEF GetClusterState, CacheInv, CacheTypeOK
<1>3. refreshes \in Nat
  BY DEF CacheInv, CacheTypeOK
<1>4. \A c \in cache : c.host_map.version <= state[current].version
  BY DEF CacheInv, Live
<1> QED BY <1>1, <1>2, <1>3, <1>4 DEF GetClusterState, CacheInv

\* At most one map is remembered as the last one handed out.
LEMMA ReturnedAlike ==
  ASSUME CacheInv
  PROVE  \A r, s \in returned : r.version = s.version <=> r.object = s.object
BY DEF CacheInv, CacheTypeOK

\* An access leaves the snapshot of the state it holds in the cache: the one
\* that was there, or one of a newer state.  Whether or not a map is handed out,
\* the last one handed out is related to the cached one as before.
LEMMA AccessKeeps ==
  ASSUME CacheInv, NEW a \in holds, WithClusterSnapshot(a),
         \/ returned' = returned
         \/ returned' = {c.host_map : c \in cache'}
  PROVE  /\ CacheInv'
         /\ \A c \in cache' : /\ c.host_map.version = state[a].version
                              /\ c.host_map.topology = state[a].topology
         /\ \A r \in returned, s \in returned' :
              r.version = s.version <=> r.object = s.object
<1> USE DEF CacheInv, WithClusterSnapshot
<1>1. a \in Addresses /\ a \in Live /\ state[a] \in State /\ holds = {a}
  BY DEF CacheTypeOK, Live
<1>2. nextObject \in Nat /\ since \in Nat /\ state[a].version \in Nat
  BY <1>1 DEF CacheTypeOK, State
<1>3. /\ \A c \in cache : c.host_map \in HostMap
      /\ \A r \in returned : r \in HostMap
      /\ \A c, d \in cache : c = d
  BY DEF CacheTypeOK
<1>4. \A h \in HostMap : h.version \in Nat /\ h.object \in Nat
  BY DEF HostMap
<1>5. CASE IsCached(a)
  <2>1. PICK c \in cache : c.inner = a
    BY <1>5 DEF IsCached
  <2>2. cache' = cache /\ nextObject' = nextObject /\ cache = {c}
    BY <1>3, <1>5
  <2>3. \/ returned' = returned
        \/ returned' = {c.host_map}
    BY <2>2
  <2>4. CacheTypeOK'
    BY <1>3, <2>2, <2>3 DEF CacheTypeOK
  <2>5. Live' \subseteq Live
    BY <2>2 DEF Live
  <2>6. CacheInv'
    BY <2>2, <2>3, <2>4, <2>5
  <2>7. \A r \in returned, s \in returned' : r.version = s.version <=> r.object = s.object
    <3>1. \A r, s \in returned : r.version = s.version <=> r.object = s.object
      BY <1>3, <1>4, <2>2, ReturnedAlike
    <3> QED BY <1>3, <1>4, <2>2, <2>3, <3>1
  <2> QED BY <2>1, <2>2, <2>6, <2>7
<1>6. CASE ~IsCached(a)
  <2> DEFINE new == NewSnapshot(a)
  <2>1. /\ new.inner = a
        /\ new.host_map = [object |-> nextObject, topology |-> state[a].topology,
                           version |-> state[a].version]
        /\ new \in [inner: Addresses, host_map: HostMap]
        /\ new.host_map \in HostMap
    BY <1>1, <1>2 DEF NewSnapshot, HostMap, State
  <2> HIDE DEF new
  <2>2. cache' = {new} /\ nextObject' = nextObject + 1
    BY <1>6 DEF Replaces, new
  <2>3. \/ returned' = returned
        \/ returned' = {new.host_map}
    BY <2>2
  <2>4. CacheTypeOK'
    BY <1>2, <2>1, <2>2, <2>3 DEF CacheTypeOK
  <2>5. Live' \subseteq Live
    BY <2>1, <2>2, <1>1 DEF Live
  <2>6. \A c \in cache : /\ c.host_map.version < new.host_map.version
                         /\ c.host_map.object < new.host_map.object
    <3> SUFFICES ASSUME NEW c \in cache
                 PROVE  /\ c.host_map.version < new.host_map.version
                        /\ c.host_map.object < new.host_map.object
      OBVIOUS
    <3>1. c.inner # a /\ c.inner \in Live
      BY <1>6 DEF IsCached, Live
    <3>2. c.host_map.object \in Nat /\ c.host_map.version \in Nat
      BY <1>3, <1>4
    <3>3. c.host_map.version # state[a].version
      BY <1>1, <3>1
    <3> QED BY <1>2, <2>1, <3>2, <3>3
  <2>7. \A r \in returned : /\ r.version < new.host_map.version
                            /\ r.object < new.host_map.object
    <3> SUFFICES ASSUME NEW r \in returned
                 PROVE  /\ r.version < new.host_map.version
                        /\ r.object < new.host_map.object
      OBVIOUS
    <3>1. PICK c \in cache :
             \/ r = c.host_map
             \/ r.version < c.host_map.version /\ r.object < c.host_map.object
      OBVIOUS
    <3>2. c.host_map \in HostMap /\ r \in HostMap
      BY <1>3
    <3> QED BY <1>2, <1>4, <2>1, <2>6, <3>1, <3>2
  <2>8. CacheInv'
    <3>1. \A r \in returned' :
             \/ r = new.host_map
             \/ r.version < new.host_map.version /\ r.object < new.host_map.object
      BY <2>3, <2>7
    <3> QED BY <1>2, <2>1, <2>2, <2>4, <2>5, <3>1
  <2>9. \A r \in returned, s \in returned' : r.version = s.version <=> r.object = s.object
    <3>1. \A r, s \in returned : r.version = s.version <=> r.object = s.object
      BY ReturnedAlike
    <3>2. CASE returned' = returned
      BY <3>1, <3>2
    <3>3. CASE returned' = {new.host_map}
      BY <1>3, <1>4, <2>1, <2>7, <3>3
    <3> QED BY <2>3, <3>2, <3>3
  <2> QED BY <2>1, <2>2, <2>8, <2>9
<1> QED BY <1>5, <1>6

\* An access that fails to build its objects only drops its Arc.
LEMMA FailKeeps ==
  ASSUME CacheInv, NEW a \in holds, BuildFails(a)
  PROVE  CacheInv'
<1>1. Live' \subseteq Live
  BY DEF BuildFails, Live
<1>2. CacheTypeOK'
  BY DEF BuildFails, CacheInv, CacheTypeOK
<1> QED BY <1>1, <1>2 DEF BuildFails, CacheInv

\* Every step keeps the invariant.
LEMMA CacheInvStep == CacheInv /\ [CacheNext]_cacheVars => CacheInv'
<1> SUFFICES ASSUME CacheInv, [CacheNext]_cacheVars PROVE CacheInv'
  OBVIOUS
<1>1. CASE CacheNext
  BY <1>1, RefreshKeeps, GetKeeps, AccessKeeps, FailKeeps DEF CacheNext, HandsOut, GetFails
<1>2. CASE UNCHANGED cacheVars
  BY <1>2 DEF cacheVars, CacheInv, CacheTypeOK, Live
<1> QED BY <1>1, <1>2

\* The invariant holds for every reuse of addresses.
THEOREM CacheInvariant == CacheSpec => []CacheInv
BY CacheInvInit, CacheInvStep, PTL DEF CacheSpec

\* For every reuse of addresses: the cached snapshot shows what is stored at
\* the address with_cluster_snapshot compares, so Arc::ptr_eq is enough.
THEOREM CacheIsTrue == CacheSpec => []CacheTrue
<1>1. CacheInv => CacheTrue
  BY DEF CacheInv, CacheTrue
<1> QED BY <1>1, CacheInvariant, PTL

\* A step other than the end of an access hands out nothing.
LEMMA OnlyAccessReturns ==
  ASSUME [CacheNext]_cacheVars, \A a \in holds : ~HandsOut(a)
  PROVE  returned' = returned
BY DEF CacheNext, cacheVars, Refresh, GetClusterState, BuildFails, GetFails

\* For every reuse of addresses, and after accesses that failed: client.hosts
\* shows a state that was current when it was asked, or a later one.
THEOREM HostsAreCurrent == CacheSpec => HandsOutCurrent
<1>1. CacheInv /\ [CacheNext]_cacheVars =>
        [\A a \in holds, r \in returned' :
           HandsOut(a) => r.version >= since /\ r.topology = state[a].topology]_cacheVars
  <2> SUFFICES ASSUME CacheInv, NEW a \in holds, HandsOut(a), NEW r \in returned'
               PROVE  r.version >= since /\ r.topology = state[a].topology
    OBVIOUS
  <2>1. r.version = state[a].version /\ r.topology = state[a].topology
    BY AccessKeeps DEF HandsOut
  <2> QED BY <2>1 DEF CacheInv
<1> QED BY <1>1, CacheInvariant, PTL DEF CacheSpec, HandsOutCurrent

\* For every reuse of addresses: get_all_hosts returns the same JS object as
\* long as the state is the same, and another one otherwise.
THEOREM HostMapIdentity == CacheSpec => SameObjectSameState
<1>1. CacheInv /\ [CacheNext]_cacheVars =>
        [\A r \in returned, s \in returned' :
           r.version = s.version <=> r.object = s.object]_cacheVars
  <2> SUFFICES ASSUME CacheInv, [CacheNext]_cacheVars, NEW r \in returned, NEW s \in returned'
               PROVE  r.version = s.version <=> r.object = s.object
    OBVIOUS
  <2>1. CASE \E a \in holds : HandsOut(a)
    BY <2>1, AccessKeeps DEF HandsOut
  <2>2. CASE returned' = returned
    BY <2>2, ReturnedAlike
  <2> QED BY <2>1, <2>2, OnlyAccessReturns
<1> QED BY <1>1, CacheInvariant, PTL DEF CacheSpec, SameObjectSameState

=============================================================================
