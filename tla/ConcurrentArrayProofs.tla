----------------------- MODULE ConcurrentArrayProofs -----------------------
(***************************************************************************)
(* Theorems about ConcurrentArray, for arrays of any length and any level. *)
(***************************************************************************)
EXTENDS ConcurrentArray, FiniteSetTheorems, TLAPS

Groups(indexes) ==
  [totalExecuted: Nat, errors: Nat, resultItems: [indexes -> {"hole", "rs", "err"}]]

\* A group keeps its type whatever it is told.
LEMMA GroupKeeps ==
  ASSUME NEW S, NEW g \in Groups(S), NEW i \in S
  PROVE  SetResultItem(g, i) \in Groups(S) /\ SetError(g, i) \in Groups(S)
<1> USE DEF Groups
<1>1. g.totalExecuted + 1 \in Nat /\ g.errors \in Nat
  OBVIOUS
<1>2. g.errors + (IF g.errors < MaxErrors THEN 1 ELSE 0) \in Nat
  BY <1>1
<1>3. \A what \in {"rs", "err"} :
        [g.resultItems EXCEPT ![i] = what] \in [S -> {"hole", "rs", "err"}]
  OBVIOUS
<1> QED BY <1>1, <1>2, <1>3 DEF SetResultItem, SetError

\* The counters stay those of the items when an item without an outcome gets
\* one.
LEMMA GroupCounts ==
  ASSUME NEW S, IsFiniteSet(S), NEW g \in Groups(S), NEW i \in S,
         g.resultItems[i] = "hole", Consistent(g)
  PROVE  Consistent(SetResultItem(g, i)) /\ Consistent(SetError(g, i))
<1> USE DEF Groups
<1>1. ASSUME NEW what \in {"rs", "err"}
      PROVE  /\ IsFiniteSet(Got(g, what)) /\ Cardinality(Got(g, what)) \in Nat
             /\ i \notin Got(g, what)
             /\ Cardinality(Got(g, what) \cup {i}) = Cardinality(Got(g, what)) + 1
  <2>1. Got(g, what) \subseteq S
    BY DEF Got
  <2>2. i \notin Got(g, what)
    BY DEF Got
  <2> QED BY <2>1, <2>2, FS_Subset, FS_CardinalityType, FS_AddElement
<1>2. /\ Got(SetResultItem(g, i), "rs") = Got(g, "rs") \cup {i}
      /\ Got(SetResultItem(g, i), "err") = Got(g, "err")
  BY DEF Got, SetResultItem
<1>3. /\ Got(SetError(g, i), "err") = Got(g, "err") \cup {i}
      /\ Got(SetError(g, i), "rs") = Got(g, "rs")
  BY DEF Got, SetError
<1>4. g.totalExecuted \in Nat /\ g.errors \in Nat
  OBVIOUS
<1>5. Consistent(SetResultItem(g, i))
  <2>1. SetResultItem(g, i).totalExecuted = g.totalExecuted + 1 /\ SetResultItem(g, i).errors = g.errors
    BY DEF SetResultItem
  <2>2. /\ Cardinality(Got(SetResultItem(g, i), "rs")) = Cardinality(Got(g, "rs")) + 1
        /\ Cardinality(Got(SetResultItem(g, i), "err")) = Cardinality(Got(g, "err"))
        /\ Cardinality(Got(g, "rs")) \in Nat /\ Cardinality(Got(g, "err")) \in Nat
    BY <1>1, <1>2
  <2> QED BY <1>4, <2>1, <2>2 DEF Consistent
<1>6. Consistent(SetError(g, i))
  <2>1. /\ SetError(g, i).totalExecuted = g.totalExecuted + 1
        /\ SetError(g, i).errors = g.errors + (IF g.errors < MaxErrors THEN 1 ELSE 0)
    BY DEF SetError
  <2>2. MaxErrors \in Nat \ {0}
    BY GroupAssumption, ArrayAssumption
  <2> QED BY <1>1, <1>3, <1>4, <2>1, <2>2 DEF Consistent
<1> QED BY <1>5, <1>6

\* A new group has nothing to count.
LEMMA GroupStarts ==
  ASSUME NEW S
  PROVE  NewGroup(S) \in Groups(S) /\ Consistent(NewGroup(S))
<1>1. NewGroup(S) \in Groups(S)
  BY DEF NewGroup, Groups
<1>2. Got(NewGroup(S), "rs") = {} /\ Got(NewGroup(S), "err") = {}
  BY DEF NewGroup, Got
<1>3. NewGroup(S).totalExecuted = 0 /\ NewGroup(S).errors = 0
  BY DEF NewGroup
<1> QED BY <1>1, <1>2, <1>3, FS_EmptySet, GroupAssumption, ArrayAssumption DEF Consistent

\* Multiples of the level, one stride apart.
LEMMA Strides ==
  ASSUME NEW L \in Nat \ {0}, NEW j \in Nat, NEW k \in Nat
  PROVE  /\ L * k \in Nat /\ k <= L * k
         /\ L * (k + 1) = L * k + L
         /\ j < k => L * j + L <= L * k
<1>1. L * k \in Nat /\ k <= L * k
  OBVIOUS
<1>2. L * (k + 1) = L * k + L
  OBVIOUS
<1>3. ASSUME j < k PROVE L * j + L <= L * k
  <2>1. PICK d \in Nat : k = (j + 1) + d
    <3>1. k - (j + 1) \in Nat /\ k = (j + 1) + (k - (j + 1))
      BY <1>3
    <3> QED BY <3>1
  <2>2. L * k = (L * j + L) + L * d
    BY <2>1
  <2>3. L * d \in Nat /\ L * j \in Nat
    OBVIOUS
  <2> QED BY <2>2, <2>3
<1> QED BY <1>1, <1>2, <1>3

\* Two workers never have an item in common, nor has one the same item twice.
LEMMA Distinct ==
  ASSUME NEW L \in Nat \ {0}, NEW v \in 0..(L - 1), NEW w \in 0..(L - 1),
         NEW j \in Nat, NEW k \in Nat, v + L * j = w + L * k
  PROVE  v = w /\ j = k
<1>1. L * j \in Nat /\ L * k \in Nat
  BY Strides
<1>2. ~(j < k)
  <2> SUFFICES ASSUME j < k PROVE FALSE
    OBVIOUS
  <2>1. L * j + L <= L * k
    BY Strides
  <2> QED BY <1>1, <2>1
<1>3. ~(k < j)
  <2> SUFFICES ASSUME k < j PROVE FALSE
    OBVIOUS
  <2>1. L * k + L <= L * j
    BY Strides
  <2> QED BY <1>1, <2>1
<1>4. j = k
  BY <1>2, <1>3
<1> QED BY <1>1, <1>4

\* Every item is one of some worker's.
LEMMA Covered ==
  ASSUME NEW L \in Nat \ {0}, NEW i \in Nat
  PROVE  \E w \in 0..(L - 1), k \in Nat : i = w + L * k
<1>1. i % L \in 0..(L - 1) /\ i \div L \in Nat
  OBVIOUS
<1>2. i = (i % L) + L * (i \div L)
  OBVIOUS
<1> QED BY <1>1, <1>2

-----------------------------------------------------------------------------

Working == {"preparing", "executing"}

(***************************************************************************)
(* The invariant of the chains.  Of the items of a worker, those before    *)
(* its iteration have an outcome and those after it have none; a chain     *)
(* ends at the end of the array or because another one failed, only        *)
(* raiseOnFirstError makes one fail and only a null item breaks one.       *)
(***************************************************************************)
HoleAt(w, k) == k > iteration[w] \/ (k = iteration[w] /\ pc[w] \in Working \cup {"done", "broken"})

ArrayInv ==
  /\ TypeOK
  /\ \A w \in Workers : pc[w] # "done" => Index(w) < N
  /\ \A w \in Workers, k \in 0..N :
       w + Level * k < N => (group.resultItems[w + Level * k] = "hole" <=> HoleAt(w, k))
  /\ \A w \in Workers : pc[w] = "done" => stop \/ Index(w) >= N
  /\ stop <=> \E w \in Workers : pc[w] = "failed"
  /\ \A w \in Workers : pc[w] = "failed" => raise /\ group.resultItems[Index(w)] = "err"
  /\ \A w \in Workers : pc[w] = "broken" => nulls # {}
  /\ raise /\ ~stop => \A i \in Items : group.resultItems[i] # "err"

\* The numbers of a worker that is not done.
LEMMA WorkerFacts ==
  ASSUME ArrayInv, NEW w \in Workers
  PROVE  /\ N \in Nat /\ Level \in Nat \ {0} /\ w \in 0..(Level - 1) /\ iteration[w] \in 0..N
         /\ Index(w) \in Nat
         /\ pc[w] # "done" => Index(w) \in Items /\ iteration[w] + 1 \in 0..N
<1>1. N \in Nat /\ Level \in Nat
  BY GroupAssumption, ArrayAssumption DEF Level
<1>2. w \in 0..(Level - 1) /\ Level \in Nat \ {0}
  BY <1>1 DEF Workers
<1>3. iteration[w] \in 0..N
  BY DEF ArrayInv, TypeOK
<1>4. Level * iteration[w] \in Nat /\ iteration[w] <= Level * iteration[w]
  BY <1>1, <1>2, <1>3, Strides
<1>5. Index(w) \in Nat /\ iteration[w] <= Index(w)
  BY <1>1, <1>2, <1>3, <1>4 DEF Index
<1>6. pc[w] # "done" => Index(w) < N
  BY DEF ArrayInv
<1> QED BY <1>1, <1>2, <1>3, <1>5, <1>6 DEF Items

\* The item of a worker is no other worker's, and no other of its own.
LEMMA OwnItem ==
  ASSUME ArrayInv, NEW v \in Workers, NEW w \in Workers, NEW k \in Nat,
         Index(w) = v + Level * k
  PROVE  v = w /\ k = iteration[w]
<1>1. /\ Level \in Nat \ {0} /\ v \in 0..(Level - 1) /\ w \in 0..(Level - 1)
      /\ iteration[w] \in Nat
  BY WorkerFacts
<1>2. v + Level * k = w + Level * iteration[w]
  BY DEF Index
<1> QED BY <1>1, <1>2, Distinct

\* A worker's item is a hole while the worker works on it, and no more when
\* it has an outcome; the holes are otherwise where they were.
LEMMA Holes ==
  ASSUME ArrayInv, NEW w \in Workers, pc[w] # "done", NEW what \in {"rs", "err"},
         group'.resultItems = [group.resultItems EXCEPT ![Index(w)] = what]
  PROVE  \A v \in Workers, k \in 0..N :
           v + Level * k < N => (group'.resultItems[v + Level * k] = "hole"
                                 <=> HoleAt(v, k) /\ ~(v = w /\ k = iteration[w]))
<1> SUFFICES ASSUME NEW v \in Workers, NEW k \in 0..N, v + Level * k < N
             PROVE  group'.resultItems[v + Level * k] = "hole"
                    <=> HoleAt(v, k) /\ ~(v = w /\ k = iteration[w])
  OBVIOUS
<1>1. Index(w) \in Items /\ k \in Nat /\ Level \in Nat \ {0} /\ v \in Nat /\ N \in Nat
  BY WorkerFacts
<1>2. v + Level * k \in Items
  <2>1. Level * k \in Nat
    BY <1>1, Strides
  <2> QED BY <1>1, <2>1 DEF Items
<1>3. group.resultItems \in [Items -> {"hole", "rs", "err"}]
  BY DEF ArrayInv, TypeOK
<1>4. group.resultItems[v + Level * k] = "hole" <=> HoleAt(v, k)
  BY DEF ArrayInv
<1>5. CASE Index(w) = v + Level * k
  <2>1. v = w /\ k = iteration[w]
    BY <1>1, <1>5, OwnItem
  <2> QED BY <1>2, <1>3, <1>5, <2>1
<1>6. CASE Index(w) # v + Level * k
  <2>1. ~(v = w /\ k = iteration[w])
    BY <1>6 DEF Index
  <2> QED BY <1>1, <1>2, <1>3, <1>4, <1>6, <2>1
<1> QED BY <1>5, <1>6

\* Taking the next item.
LEMMA Takes ==
  ASSUME ArrayInv, NEW w \in Workers, pc[w] # "done", TakeNext(w)
  PROVE  /\ iteration' \in [Workers -> 0..N] /\ iteration'[w] = iteration[w] + 1
         /\ pc' \in [Workers -> {"preparing", "executing", "returned", "done", "failed", "broken"}]
         /\ pc'[w] \in Working \cup {"done", "broken"}
         /\ pc'[w] = "done" <=> Index(w) + Level >= N \/ stop
         /\ pc'[w] = "broken" => nulls # {}
         /\ \A v \in Workers \ {w} : iteration'[v] = iteration[v] /\ pc'[v] = pc[v]
         /\ Index(w)' = Index(w) + Level
<1>1. /\ iteration \in [Workers -> 0..N]
      /\ pc \in [Workers -> {"preparing", "executing", "returned", "done", "failed", "broken"}]
  BY DEF ArrayInv, TypeOK
<1>2. Level \in Nat \ {0} /\ w \in Nat /\ iteration[w] \in Nat /\ iteration[w] + 1 \in 0..N
  BY WorkerFacts
<1>3. iteration' = [iteration EXCEPT ![w] = iteration[w] + 1]
  BY DEF TakeNext
<1>4. /\ pc' = [pc EXCEPT ![w] = pc'[w]]
      /\ pc'[w] \in Working \cup {"done", "broken"}
      /\ pc'[w] = "done" <=> Index(w) + Level >= N \/ stop
      /\ pc'[w] = "broken" => nulls # {}
  BY <1>1 DEF TakeNext, Working
<1>5. Level * (iteration[w] + 1) = Level * iteration[w] + Level /\ Level * iteration[w] \in Nat
  BY <1>2, Strides
<1>6. Index(w)' = Index(w) + Level
  BY <1>1, <1>2, <1>3, <1>5 DEF Index
<1> QED BY <1>1, <1>2, <1>3, <1>4, <1>6 DEF Working

\* At first every worker has its first item.
LEMMA ArrayInvInit == Init => ArrayInv /\ Consistent(group)
<1> SUFFICES ASSUME Init PROVE ArrayInv /\ Consistent(group)
  OBVIOUS
<1> USE DEF Init
<1>1. N \in Nat /\ Level \in 0..N
  BY GroupAssumption, ArrayAssumption DEF Level
<1>2. group \in Groups(Items) /\ Consistent(group)
  BY GroupStarts
<1>3. TypeOK
  <2>1. 0 \in 0..N
    BY <1>1
  <2> QED BY <1>2, <2>1 DEF TypeOK, Groups
<1>4. \A w \in Workers : w \in 0..(N - 1) /\ Index(w) = w
  BY <1>1 DEF Workers, Index
<1>5. \A i \in Items : group.resultItems[i] = "hole"
  BY DEF NewGroup
<1>6. ASSUME NEW w \in Workers, NEW k \in 0..N, w + Level * k < N
      PROVE  group.resultItems[w + Level * k] = "hole" /\ HoleAt(w, k)
  <2>1. Level \in Nat \ {0} /\ w \in Nat /\ k \in Nat
    BY <1>1 DEF Workers
  <2>2. Level * k \in Nat
    BY <2>1, Strides
  <2>3. w + Level * k \in Items
    BY <1>1, <1>6, <2>1, <2>2 DEF Items
  <2>4. HoleAt(w, k)
    BY <2>1 DEF HoleAt, Working
  <2> QED BY <1>5, <2>3, <2>4
<1>7. ArrayInv
  BY <1>1, <1>3, <1>4, <1>5, <1>6 DEF ArrayInv
<1> QED BY <1>2, <1>7

\* The outcome of a worker's item, whether or not the worker goes on: what
\* does not depend on its next item.
LEMMA OutcomeKeeps ==
  ASSUME ArrayInv, Consistent(group), NEW w \in Workers, pc[w] \in Working,
         group' = SetResultItem(group, Index(w)) \/ group' = SetError(group, Index(w))
  PROVE  /\ group' \in Groups(Items) /\ Consistent(group)'
         /\ \A v \in Workers : v # w /\ pc[v] = "failed" =>
              group'.resultItems[Index(v)] = group.resultItems[Index(v)]
<1>1. Index(w) \in Items /\ IsFiniteSet(Items) /\ N \in Nat
  <2>1. N \in Nat /\ Index(w) \in Items
    BY WorkerFacts DEF Working
  <2>2. IsFiniteSet(0..(N - 1))
    BY <2>1, FS_Interval
  <2> QED BY <2>1, <2>2 DEF Items
<1>2. group \in Groups(Items)
  BY DEF ArrayInv, TypeOK, Groups
<1>3. group.resultItems[Index(w)] = "hole"
  <2>1. HoleAt(w, iteration[w])
    BY DEF HoleAt
  <2>2. iteration[w] \in 0..N /\ Index(w) < N
    BY WorkerFacts DEF ArrayInv, Working
  <2> QED BY <2>1, <2>2 DEF ArrayInv, Index
<1>4. group' \in Groups(Items)
  BY <1>1, <1>2, GroupKeeps
<1>5. Consistent(group)'
  <2>1. Consistent(SetResultItem(group, Index(w))) /\ Consistent(SetError(group, Index(w)))
    BY <1>1, <1>2, <1>3, GroupCounts
  <2> QED BY <2>1
<1>6. ASSUME NEW v \in Workers, v # w, pc[v] = "failed"
      PROVE  group'.resultItems[Index(v)] = group.resultItems[Index(v)]
  <2>1. Index(v) \in Items /\ iteration[v] \in Nat
    BY <1>6, WorkerFacts
  <2>2. Index(w) # Index(v)
    <3> SUFFICES ASSUME Index(w) = Index(v) PROVE FALSE
      OBVIOUS
    <3>1. Index(w) = v + Level * iteration[v]
      BY DEF Index
    <3> QED BY <1>6, <2>1, <3>1, OwnItem
  <2>3. group.resultItems \in [Items -> {"hole", "rs", "err"}]
    BY <1>2 DEF Groups
  <2> QED BY <1>1, <2>1, <2>2, <2>3 DEF SetResultItem, SetError
<1> QED BY <1>4, <1>5, <1>6

\* prepareStatement() returns.
LEMMA PreparedKeeps ==
  ASSUME ArrayInv, NEW w \in Workers, Prepared(w), UNCHANGED <<raise, nulls>>
  PROVE  ArrayInv'
<1>1. Index(w) \in Items
  BY WorkerFacts DEF Prepared
<1>2. TypeOK'
  BY <1>1 DEF Prepared, ArrayInv, TypeOK
<1>3. /\ pc[w] = "preparing" /\ pc' = [pc EXCEPT ![w] = "executing"]
      /\ UNCHANGED <<raise, nulls, iteration, stop, group>>
      /\ pc \in [Workers -> {"preparing", "executing", "returned", "done", "failed", "broken"}]
  BY DEF Prepared, ArrayInv, TypeOK
<1>4. /\ \A v \in Workers : UNCHANGED Index(v)
      /\ \A v \in Workers, k \in 0..N : HoleAt(v, k)' <=> HoleAt(v, k)
      /\ \A v \in Workers, p \in {"done", "failed", "broken"} : pc'[v] = p <=> pc[v] = p
  BY <1>3 DEF Index, HoleAt, Working
<1> QED BY <1>2, <1>3, <1>4 DEF ArrayInv

\* rustyExecute() returns, and the item's result is set.
LEMMA ExecutedKeeps ==
  ASSUME ArrayInv, Consistent(group), NEW w \in Workers, Executed(w), UNCHANGED <<raise, nulls>>
  PROVE  ArrayInv' /\ Consistent(group)'
<1>1. /\ pc[w] = "executing" /\ pc' = [pc EXCEPT ![w] = "returned"]
      /\ group' = SetResultItem(group, Index(w))
      /\ UNCHANGED <<raise, nulls, iteration, stop, cache, promise>>
      /\ pc \in [Workers -> {"preparing", "executing", "returned", "done", "failed", "broken"}]
      /\ iteration \in [Workers -> 0..N]
  BY DEF Executed, ArrayInv, TypeOK
<1>2. /\ group' \in Groups(Items) /\ Consistent(group)'
      /\ \A v \in Workers : v # w /\ pc[v] = "failed" =>
              group'.resultItems[Index(v)] = group.resultItems[Index(v)]
  BY <1>1, OutcomeKeeps DEF Working
<1>3. TypeOK'
  BY <1>1, <1>2 DEF ArrayInv, TypeOK, Groups
<1>4. /\ \A v \in Workers : UNCHANGED Index(v)
      /\ \A v \in Workers, p \in {"done", "failed", "broken"} : pc'[v] = p <=> pc[v] = p
  BY <1>1 DEF Index
<1>5. \A v \in Workers, k \in 0..N :
        v + Level * k < N => (group'.resultItems[v + Level * k] = "hole" <=> HoleAt(v, k)')
  <2>1. group'.resultItems = [group.resultItems EXCEPT ![Index(w)] = "rs"]
    BY <1>1 DEF SetResultItem
  <2>2. \A v \in Workers, k \in 0..N :
          HoleAt(v, k)' <=> HoleAt(v, k) /\ ~(v = w /\ k = iteration[w])
    <3>1. N \in Nat
      BY GroupAssumption, ArrayAssumption
    <3> QED BY <1>1, <3>1 DEF HoleAt, Working
  <2>3. \A v \in Workers, k \in 0..N :
          v + Level * k < N => (group'.resultItems[v + Level * k] = "hole"
                                <=> HoleAt(v, k) /\ ~(v = w /\ k = iteration[w]))
    <3>1. pc[w] # "done" /\ "rs" \in {"rs", "err"}
      BY <1>1
    <3> QED BY <2>1, <3>1, Holes
  <2> QED BY <2>2, <2>3
<1>6. raise' /\ ~stop' => \A i \in Items : group'.resultItems[i] # "err"
  <2>1. Index(w) \in Items /\ group.resultItems \in [Items -> {"hole", "rs", "err"}]
    BY <1>1, WorkerFacts DEF ArrayInv, TypeOK
  <2>2. group'.resultItems = [group.resultItems EXCEPT ![Index(w)] = "rs"]
    BY <1>1 DEF SetResultItem
  <2> QED BY <1>1, <2>1, <2>2 DEF ArrayInv
<1>7. /\ \A v \in Workers : pc'[v] # "done" => Index(v)' < N
      /\ \A v \in Workers : pc'[v] = "done" => stop' \/ Index(v)' >= N
      /\ stop' <=> \E v \in Workers : pc'[v] = "failed"
      /\ \A v \in Workers : pc'[v] = "broken" => nulls' # {}
  BY <1>1, <1>4 DEF ArrayInv
<1>8. \A v \in Workers : pc'[v] = "failed" => raise' /\ group'.resultItems[Index(v)'] = "err"
  BY <1>1, <1>2, <1>4 DEF ArrayInv
<1> QED BY <1>2, <1>3, <1>5, <1>6, <1>7, <1>8 DEF ArrayInv

\* A worker goes on with its next item, when its item has an outcome: what is
\* a hole then, and what the worker may be.
LEMMA GoesOn ==
  ASSUME ArrayInv, NEW w \in Workers, pc[w] # "done", pc[w] # "failed", TakeNext(w), UNCHANGED stop
  PROVE  /\ \A v \in Workers, k \in 0..N : HoleAt(v, k)' <=> HoleAt(v, k) /\ ~(v = w /\ k = iteration[w])
         /\ \A v \in Workers : pc'[v] # "done" => Index(v)' < N
         /\ \A v \in Workers : pc'[v] = "done" => stop' \/ Index(v)' >= N
         /\ \A v \in Workers : pc'[v] = "failed" => pc[v] = "failed" /\ v # w /\ Index(v)' = Index(v)
         /\ \A v \in Workers : pc'[v] = "broken" => nulls # {}
         /\ stop' <=> \E v \in Workers : pc'[v] = "failed"
<1>1. /\ iteration' \in [Workers -> 0..N] /\ iteration'[w] = iteration[w] + 1
      /\ pc' \in [Workers -> {"preparing", "executing", "returned", "done", "failed", "broken"}]
      /\ pc'[w] \in Working \cup {"done", "broken"}
      /\ pc'[w] = "done" <=> Index(w) + Level >= N \/ stop
      /\ pc'[w] = "broken" => nulls # {}
      /\ \A v \in Workers \ {w} : iteration'[v] = iteration[v] /\ pc'[v] = pc[v]
      /\ Index(w)' = Index(w) + Level
  BY Takes
<1>2. N \in Nat /\ Level \in Nat /\ Index(w) \in Nat /\ iteration[w] \in Nat
  BY WorkerFacts
<1>3. ASSUME NEW v \in Workers, NEW k \in 0..N
      PROVE  HoleAt(v, k)' <=> HoleAt(v, k) /\ ~(v = w /\ k = iteration[w])
  <2>1. CASE v = w
    BY <1>1, <1>2, <2>1 DEF HoleAt
  <2>2. CASE v # w
    BY <1>1, <2>2 DEF HoleAt
  <2> QED BY <2>1, <2>2
<1>4. \A v \in Workers \ {w} : Index(v)' = Index(v)
  BY <1>1 DEF Index
<1>5. \A v \in Workers : pc'[v] # "done" => Index(v)' < N
  <2>1. pc'[w] # "done" => Index(w)' < N
    BY <1>1, <1>2
  <2> QED BY <1>1, <1>4, <2>1 DEF ArrayInv
<1>6. \A v \in Workers : pc'[v] = "done" => stop' \/ Index(v)' >= N
  <2>1. pc'[w] = "done" => stop' \/ Index(w)' >= N
    BY <1>1, <1>2
  <2> QED BY <1>1, <1>4, <2>1 DEF ArrayInv
<1>7. \A v \in Workers : pc'[v] = "failed" <=> pc[v] = "failed" /\ v # w
  BY <1>1 DEF Working
<1>8. \A v \in Workers : pc'[v] = "broken" => nulls # {}
  BY <1>1 DEF ArrayInv
<1> QED BY <1>3, <1>4, <1>5, <1>6, <1>7, <1>8 DEF ArrayInv

\* The microtask after setResultItem().
LEMMA ReturnedKeeps ==
  ASSUME ArrayInv, NEW w \in Workers, Returned(w), UNCHANGED <<raise, nulls>>
  PROVE  ArrayInv'
<1>1. pc[w] = "returned" /\ TakeNext(w) /\ UNCHANGED <<raise, nulls, stop, cache, group, promise>>
  BY DEF Returned
<1>2. /\ \A v \in Workers, k \in 0..N : HoleAt(v, k)' <=> HoleAt(v, k) /\ ~(v = w /\ k = iteration[w])
      /\ \A v \in Workers : pc'[v] # "done" => Index(v)' < N
      /\ \A v \in Workers : pc'[v] = "done" => stop' \/ Index(v)' >= N
      /\ \A v \in Workers : pc'[v] = "failed" => pc[v] = "failed" /\ v # w /\ Index(v)' = Index(v)
      /\ \A v \in Workers : pc'[v] = "broken" => nulls # {}
      /\ stop' <=> \E v \in Workers : pc'[v] = "failed"
  BY <1>1, GoesOn
<1>3. TypeOK'
  <2>1. /\ iteration' \in [Workers -> 0..N]
        /\ pc' \in [Workers -> {"preparing", "executing", "returned", "done", "failed", "broken"}]
    BY <1>1, Takes
  <2> QED BY <1>1, <2>1 DEF ArrayInv, TypeOK
<1>4. \A v \in Workers, k \in 0..N : HoleAt(v, k)' <=> HoleAt(v, k)
  <2>1. iteration[w] \in Nat
    BY WorkerFacts
  <2>2. ~HoleAt(w, iteration[w])
    BY <1>1, <2>1 DEF HoleAt, Working
  <2> QED BY <1>2, <2>2
<1>5. \A v \in Workers : pc'[v] = "failed" => raise' /\ group'.resultItems[Index(v)'] = "err"
  BY <1>1, <1>2 DEF ArrayInv
<1> QED BY <1>1, <1>2, <1>3, <1>4, <1>5 DEF ArrayInv

\* The catch block, which ends the chain or goes on with it.
LEMMA FailedKeeps ==
  ASSUME ArrayInv, Consistent(group), NEW w \in Workers, Failed(w), UNCHANGED <<raise, nulls>>
  PROVE  ArrayInv' /\ Consistent(group)'
<1>1. /\ pc[w] \in Working /\ pc[w] # "done" /\ pc[w] # "failed"
      /\ group' = SetError(group, Index(w))
      /\ UNCHANGED <<raise, nulls, cache, promise>>
  BY DEF Failed, Working
<1>2. /\ group' \in Groups(Items) /\ Consistent(group)'
      /\ \A v \in Workers : v # w /\ pc[v] = "failed" =>
              group'.resultItems[Index(v)] = group.resultItems[Index(v)]
  BY <1>1, OutcomeKeeps
<1>3. \A v \in Workers, k \in 0..N :
        v + Level * k < N => (group'.resultItems[v + Level * k] = "hole"
                              <=> HoleAt(v, k) /\ ~(v = w /\ k = iteration[w]))
  <2>1. group'.resultItems = [group.resultItems EXCEPT ![Index(w)] = "err"]
    BY <1>1 DEF SetError
  <2>2. pc[w] # "done" /\ "err" \in {"rs", "err"}
    BY <1>1
  <2> QED BY <2>1, <2>2, Holes
<1>4. CASE raise
  <2>1. /\ stop' = TRUE /\ pc' = [pc EXCEPT ![w] = "failed"] /\ UNCHANGED iteration
        /\ pc \in [Workers -> {"preparing", "executing", "returned", "done", "failed", "broken"}]
        /\ iteration \in [Workers -> 0..N]
    BY <1>4 DEF Failed, ArrayInv, TypeOK
  <2>2. TypeOK'
    BY <1>1, <1>2, <2>1 DEF ArrayInv, TypeOK, Groups
  <2>3. \A v \in Workers, k \in 0..N : HoleAt(v, k)' <=> HoleAt(v, k) /\ ~(v = w /\ k = iteration[w])
    <3>1. iteration[w] \in Nat /\ N \in Nat
      BY WorkerFacts
    <3> QED BY <1>1, <2>1, <3>1 DEF HoleAt, Working
  <2>4. \A v \in Workers : UNCHANGED Index(v)
    BY <2>1 DEF Index
  <2>5. /\ \A v \in Workers : pc'[v] # "done" => Index(v)' < N
        /\ \A v \in Workers : pc'[v] = "broken" => nulls' # {}
        /\ \E v \in Workers : pc'[v] = "failed"
    BY <1>1, <2>1, <2>4 DEF ArrayInv
  <2>6. \A v \in Workers : pc'[v] = "failed" => raise' /\ group'.resultItems[Index(v)'] = "err"
    <3>1. group'.resultItems[Index(w)] = "err"
      <4>1. Index(w) \in Items /\ group.resultItems \in [Items -> {"hole", "rs", "err"}]
        BY <1>1, WorkerFacts DEF ArrayInv, TypeOK
      <4> QED BY <1>1, <4>1 DEF SetError
    <3> QED BY <1>1, <1>2, <1>4, <2>1, <2>4, <3>1 DEF ArrayInv
  <2> QED BY <1>2, <1>3, <2>1, <2>2, <2>3, <2>5, <2>6 DEF ArrayInv
<1>5. CASE ~raise
  <2>1. TakeNext(w) /\ UNCHANGED stop
    BY <1>5 DEF Failed
  <2>2. /\ \A v \in Workers, k \in 0..N : HoleAt(v, k)' <=> HoleAt(v, k) /\ ~(v = w /\ k = iteration[w])
        /\ \A v \in Workers : pc'[v] # "done" => Index(v)' < N
        /\ \A v \in Workers : pc'[v] = "done" => stop' \/ Index(v)' >= N
        /\ \A v \in Workers : pc'[v] = "failed" => pc[v] = "failed" /\ v # w /\ Index(v)' = Index(v)
        /\ \A v \in Workers : pc'[v] = "broken" => nulls # {}
        /\ stop' <=> \E v \in Workers : pc'[v] = "failed"
    BY <1>1, <2>1, GoesOn
  <2>3. TypeOK'
    <3>1. /\ iteration' \in [Workers -> 0..N]
          /\ pc' \in [Workers -> {"preparing", "executing", "returned", "done", "failed", "broken"}]
      BY <1>1, <2>1, Takes
    <3> QED BY <1>1, <1>2, <2>1, <3>1 DEF ArrayInv, TypeOK, Groups
  <2>4. \A v \in Workers : pc'[v] = "failed" => raise' /\ group'.resultItems[Index(v)'] = "err"
    BY <1>1, <1>2, <2>2 DEF ArrayInv
  <2> QED BY <1>1, <1>2, <1>3, <1>5, <2>2, <2>3, <2>4 DEF ArrayInv
<1> QED BY <1>4, <1>5

\* Every step keeps the invariant and the counters.
LEMMA ArrayStep ==
  ArrayInv /\ Consistent(group) /\ [Next]_vars => (ArrayInv /\ Consistent(group))'
<1> SUFFICES ASSUME ArrayInv, Consistent(group), [Next]_vars
             PROVE  ArrayInv' /\ Consistent(group)'
  OBVIOUS
<1>1. ASSUME NEW w \in Workers, Step(w), UNCHANGED <<raise, nulls>> PROVE ArrayInv' /\ Consistent(group)'
  <2>1. CASE Prepared(w)
    BY <1>1, <2>1, PreparedKeeps DEF Prepared, Consistent
  <2>2. CASE Returned(w)
    BY <1>1, <2>2, ReturnedKeeps DEF Returned, Consistent
  <2> QED BY <1>1, <2>1, <2>2, ExecutedKeeps, FailedKeeps DEF Step
<1>2. CASE UNCHANGED <<raise, nulls, iteration, pc, stop, cache, group>> /\ promise' \in {"pending", "resolved", "rejected"}
  BY <1>2 DEF ArrayInv, TypeOK, Index, HoleAt, Consistent
<1>3. CASE AllSettled /\ UNCHANGED <<raise, nulls>>
  BY <1>2, <1>3 DEF AllSettled
<1>4. CASE UNCHANGED vars
  BY <1>2, <1>4 DEF vars, ArrayInv, TypeOK
<1> QED BY <1>1, <1>3, <1>4 DEF Next

LEMMA ArrayInvariance == Spec => [](ArrayInv /\ Consistent(group))
<1> QED BY ArrayInvInit, ArrayStep, PTL DEF Spec

\* For every array, level, sharing of queries and order of outcomes, the
\* counters of the ResultSetGroup are those of its items: no item is executed
\* by two chains or counted twice.
THEOREM ItemsAreCountedOnce == Spec => []GroupConsistent
<1>1. ArrayInv /\ Consistent(group) => GroupConsistent
  BY DEF ArrayInv, GroupConsistent
<1> QED BY <1>1, ArrayInvariance, PTL

\* A step after the first failure under raiseOnFirstError.
LEMMA StopStep ==
  ASSUME ArrayInv, Next, stop, NEW w \in Workers, pc'[w] \in Working
  PROVE  iteration'[w] = iteration[w]
<1>1. ASSUME NEW v \in Workers, pc[v] # "done", TakeNext(v) PROVE iteration'[w] = iteration[w]
  <2>1. pc'[v] = "done" /\ \A u \in Workers \ {v} : iteration'[u] = iteration[u]
    BY <1>1, Takes
  <2> QED BY <2>1 DEF Working
<1>2. ASSUME NEW v \in Workers, Step(v) PROVE iteration'[w] = iteration[w]
  BY <1>1, <1>2 DEF Step, Prepared, Executed, Returned, Failed
<1> QED BY <1>2 DEF Next, AllSettled

\* Once an execution failed under raiseOnFirstError no chain takes another
\* item, whichever chain failed and wherever the others are.
THEOREM FailureStopsTheChains == Spec => StopsTaking
<1>1. ArrayInv /\ Consistent(group) /\ [Next]_vars =>
        [stop => \A w \in Workers :
           pc'[w] \in {"preparing", "executing"} => UNCHANGED iteration[w]]_vars
  BY StopStep DEF Working
<1> QED BY <1>1, ArrayInvariance, PTL DEF Spec, StopsTaking

-----------------------------------------------------------------------------

Status == [i \in Items |-> StatusOf(i)]

\* The items of the workers that are at work are in flight at first.
LEMMA StatusInit == Init => Promised!EInit
<1> SUFFICES ASSUME Init PROVE Promised!EInit
  OBVIOUS
<1>1. \A i \in Items : group.resultItems[i] = "hole"
  BY DEF Init, NewGroup
<1>2. [i \in Items |-> StatusOf(i)] \in [Items -> {"todo", "flight"}]
  BY <1>1 DEF StatusOf
<1> QED BY <1>2 DEF Init, Promised!EInit

\* The item a worker is at work on is in flight.
LEMMA InFlight ==
  ASSUME ArrayInv, NEW w \in Workers, pc[w] \in Working
  PROVE  Index(w) \in Items /\ StatusOf(Index(w)) = "flight"
<1>1. Index(w) \in Items /\ Index(w) < N /\ iteration[w] \in 0..N
  BY WorkerFacts DEF ArrayInv, Working
<1>2. HoleAt(w, iteration[w])
  BY DEF HoleAt
<1>3. group.resultItems[Index(w)] = "hole"
  BY <1>1, <1>2 DEF ArrayInv, Index
<1> QED BY <1>1, <1>3 DEF StatusOf, Working

\* The item a worker takes next is to do.
LEMMA ToDo ==
  ASSUME ArrayInv, NEW w \in Workers, pc[w] # "done", Index(w) + Level < N
  PROVE  /\ Index(w) + Level \in Items /\ Index(w) + Level # Index(w)
         /\ StatusOf(Index(w) + Level) = "todo"
<1>1. /\ N \in Nat /\ Level \in Nat \ {0} /\ Index(w) \in Nat /\ w \in Nat
      /\ iteration[w] \in Nat /\ iteration[w] + 1 \in 0..N
  BY WorkerFacts
<1>2. Index(w) + Level = w + Level * (iteration[w] + 1)
  <2>1. Level * (iteration[w] + 1) = Level * iteration[w] + Level /\ Level * iteration[w] \in Nat
    BY <1>1, Strides
  <2> QED BY <1>1, <2>1 DEF Index
<1>3. Index(w) + Level \in Items /\ Index(w) + Level # Index(w)
  BY <1>1 DEF Items
<1>4. HoleAt(w, iteration[w] + 1)
  BY <1>1 DEF HoleAt
<1>5. group.resultItems[Index(w) + Level] = "hole"
  BY <1>1, <1>2, <1>4 DEF ArrayInv
<1>6. ASSUME NEW v \in Workers, Index(v) = Index(w) + Level PROVE FALSE
  <2>1. w = v /\ iteration[w] + 1 = iteration[v]
    <3>1. Index(v) = w + Level * (iteration[w] + 1) /\ iteration[w] + 1 \in Nat
      BY <1>1, <1>2, <1>6
    <3> QED BY <3>1, OwnItem
  <2> QED BY <1>1, <2>1
<1> QED BY <1>3, <1>5, <1>6 DEF StatusOf

\* A step of a worker leaves the items alone that it does not work on.
LEMMA OtherItems ==
  ASSUME NEW w \in Workers, NEW j \in Items, group'.resultItems[j] = group.resultItems[j],
         \A v \in Workers \ {w} : iteration'[v] = iteration[v] /\ pc'[v] = pc[v],
         \/ group.resultItems[j] # "hole"
         \/ ~(Index(w) = j /\ pc[w] \in Working) /\ ~(Index(w)' = j /\ pc'[w] \in Working)
  PROVE  StatusOf(j)' = StatusOf(j)
<1>1. CASE group.resultItems[j] # "hole"
  BY <1>1 DEF StatusOf
<1>2. CASE ~(Index(w) = j /\ pc[w] \in Working) /\ ~(Index(w)' = j /\ pc'[w] \in Working)
  <2>1. \A v \in Workers \ {w} : Index(v)' = Index(v)
    BY DEF Index
  <2>2. (\E v \in Workers : Index(v)' = j /\ pc'[v] \in Working)
        <=> \E v \in Workers : Index(v) = j /\ pc[v] \in Working
    BY <1>2, <2>1
  <2> QED BY <2>2 DEF StatusOf, Working
<1> QED BY <1>1, <1>2

\* An outcome whose worker does not go on in the same step.
LEMMA FinishStep ==
  ASSUME ArrayInv, NEW w \in Workers, pc[w] \in Working, NEW what \in {"rs", "err"},
         group'.resultItems = [group.resultItems EXCEPT ![Index(w)] = what],
         \A v \in Workers \ {w} : iteration'[v] = iteration[v] /\ pc'[v] = pc[v],
         pc'[w] \notin Working, UNCHANGED <<raise, nulls, promise>>
  PROVE  Promised!ENext
<1>1. Index(w) \in Items /\ StatusOf(Index(w)) = "flight"
  BY InFlight
<1>2. group.resultItems \in [Items -> {"hole", "rs", "err"}]
  BY DEF ArrayInv, TypeOK
<1> DEFINE i == Index(w)
           outcome == IF what = "rs" THEN "ok" ELSE "failed"
<1>3. \A j \in Items : Status'[j] = IF j = i THEN outcome ELSE Status[j]
  <2> SUFFICES ASSUME NEW j \in Items
               PROVE  StatusOf(j)' = IF j = i THEN outcome ELSE StatusOf(j)
    BY DEF Status
  <2>1. CASE j = i
    BY <1>1, <1>2, <2>1 DEF StatusOf
  <2>2. CASE j # i
    <3>1. group'.resultItems[j] = group.resultItems[j]
      BY <1>1, <1>2, <2>2
    <3> QED BY <2>2, <3>1, OtherItems
  <2> QED BY <2>1, <2>2
<1>4. Status' = [Status EXCEPT ![i] = outcome] /\ Status[i] = "flight"
  BY <1>1, <1>3 DEF Status
<1>5. Promised!Finish(i)
  BY <1>4 DEF Promised!Finish, Status
<1> QED BY <1>1, <1>5 DEF Promised!ENext

\* A worker goes on with an item to do, or stops.
LEMMA ReturnStep ==
  ASSUME ArrayInv, NEW w \in Workers, Returned(w), UNCHANGED <<raise, nulls>>
  PROVE  Promised!ENext
<1>1. pc[w] = "returned" /\ TakeNext(w) /\ UNCHANGED <<raise, nulls, stop, group, promise>>
  BY DEF Returned
<1>2. /\ pc'[w] \in Working \cup {"done", "broken"}
      /\ pc'[w] = "done" <=> Index(w) + Level >= N \/ stop
      /\ \A v \in Workers \ {w} : iteration'[v] = iteration[v] /\ pc'[v] = pc[v]
      /\ Index(w)' = Index(w) + Level
  BY <1>1, Takes
<1>3. \A j \in Items : (j = Index(w) + Level /\ pc'[w] \in Working) \/ Status'[j] = Status[j]
  <2> SUFFICES ASSUME NEW j \in Items, ~(j = Index(w) + Level /\ pc'[w] \in Working)
               PROVE  StatusOf(j)' = StatusOf(j)
    BY DEF Status
  <2>1. pc[w] \notin Working /\ group'.resultItems[j] = group.resultItems[j]
    BY <1>1 DEF Working
  <2> QED BY <1>2, <2>1, OtherItems
<1>4. CASE pc'[w] \in {"done", "broken"}
  <2>1. UNCHANGED Status
    BY <1>3, <1>4 DEF Status, Working
  <2> QED BY <1>1, <2>1 DEF Promised!ENext, Status
<1>5. CASE pc'[w] \in Working
  <2>1. N \in Nat /\ Level \in Nat /\ Index(w) \in Nat
    BY WorkerFacts
  <2>2. Index(w) + Level < N
    BY <1>2, <1>5, <2>1 DEF Working
  <2>3. PICK i \in Items : i = Index(w) + Level /\ StatusOf(i) = "todo"
    BY <1>1, <2>2, ToDo
  <2>4. StatusOf(i)' = "flight"
    <3>1. group.resultItems[i] = "hole"
      BY <2>3 DEF StatusOf
    <3> QED BY <1>1, <1>2, <1>5, <2>3, <3>1 DEF StatusOf, Working
  <2>5. Status' = [Status EXCEPT ![i] = "flight"] /\ Status[i] = "todo"
    BY <1>3, <2>3, <2>4 DEF Status
  <2>6. Promised!Start(i)
    BY <2>5 DEF Promised!Start, Status
  <2> QED BY <1>1, <2>3, <2>6 DEF Promised!ENext
<1> QED BY <1>2, <1>4, <1>5

\* A failure without raiseOnFirstError: the worker goes on in the same step.
LEMMA FailStep ==
  ASSUME ArrayInv, NEW w \in Workers, Failed(w), ~raise, UNCHANGED <<raise, nulls>>
  PROVE  Promised!ENext
<1>1. /\ pc[w] \in Working /\ pc[w] # "done" /\ TakeNext(w) /\ UNCHANGED <<raise, nulls, promise>>
      /\ group'.resultItems = [group.resultItems EXCEPT ![Index(w)] = "err"]
  BY DEF Failed, Working, SetError
<1>2. /\ pc'[w] \in Working \cup {"done", "broken"}
      /\ pc'[w] = "done" <=> Index(w) + Level >= N \/ stop
      /\ \A v \in Workers \ {w} : iteration'[v] = iteration[v] /\ pc'[v] = pc[v]
      /\ Index(w)' = Index(w) + Level
  BY <1>1, Takes
<1>3. CASE pc'[w] \in {"done", "broken"}
  <2>1. pc'[w] \notin Working /\ "err" \in {"rs", "err"}
    BY <1>3 DEF Working
  <2> QED BY <1>1, <1>2, <2>1, FinishStep
<1>4. CASE pc'[w] \in Working
  <2>1. N \in Nat /\ Level \in Nat /\ Index(w) \in Nat
    BY WorkerFacts
  <2>2. Index(w) + Level < N
    BY <1>2, <1>4, <2>1 DEF Working
  <2>3. PICK i \in Items, next \in Items :
          /\ i = Index(w) /\ StatusOf(i) = "flight"
          /\ next = Index(w) + Level /\ next # i /\ StatusOf(next) = "todo"
    BY <1>1, <2>2, InFlight, ToDo
  <2>4. group.resultItems \in [Items -> {"hole", "rs", "err"}]
    BY DEF ArrayInv, TypeOK
  <2>5. StatusOf(i)' = "failed"
    BY <1>1, <2>3, <2>4 DEF StatusOf
  <2>6. StatusOf(next)' = "flight"
    <3>1. group.resultItems[next] = "hole"
      BY <2>3 DEF StatusOf
    <3>2. group'.resultItems[next] = "hole"
      BY <1>1, <2>3, <2>4, <3>1
    <3> QED BY <1>2, <1>4, <2>3, <3>2 DEF StatusOf, Working
  <2>7. ASSUME NEW j \in Items, j # i, j # next PROVE StatusOf(j)' = StatusOf(j)
    <3>1. group'.resultItems[j] = group.resultItems[j]
      BY <1>1, <2>3, <2>4, <2>7
    <3> QED BY <1>2, <2>3, <2>7, <3>1, OtherItems
  <2>8. /\ Status[i] = "flight" /\ Status[next] = "todo"
        /\ Status' = [Status EXCEPT ![i] = "failed", ![next] = "flight"]
    <3>1. \A j \in Items : StatusOf(j)' = IF j = next THEN "flight" ELSE IF j = i THEN "failed" ELSE StatusOf(j)
      BY <2>3, <2>5, <2>6, <2>7
    <3> QED BY <2>3, <3>1 DEF Status
  <2> QED BY <1>1, <2>3, <2>8 DEF Promised!ENext, Status
<1> QED BY <1>2, <1>3, <1>4

\* Promise.all() is settled for the reasons the documentation gives.
LEMMA SettleStep ==
  ASSUME ArrayInv, AllSettled, UNCHANGED <<raise, nulls>>
  PROVE  Promised!ENext
<1>1. promise = "pending" /\ UNCHANGED Status
  BY DEF AllSettled, Status, StatusOf, Index
<1>2. CASE promise' = "rejected" /\ \E w \in Workers : pc[w] = "failed"
  <2>1. PICK w \in Workers : pc[w] = "failed"
    BY <1>2
  <2>2. raise /\ group.resultItems[Index(w)] = "err" /\ Index(w) \in Items
    BY <2>1, WorkerFacts DEF ArrayInv
  <2>3. Status'[Index(w)] = "failed"
    BY <1>1, <2>2 DEF Status, StatusOf
  <2>4. Promised!Reject
    BY <1>1, <1>2, <2>2, <2>3 DEF Promised!Reject, Status
  <2> QED BY <1>1, <2>4 DEF Promised!ENext, Status
<1>3. CASE promise' = "resolved" /\ \A w \in Workers : pc[w] = "done"
  <2>1. ~stop /\ \A w \in Workers : Index(w) >= N
    BY <1>3 DEF ArrayInv
  <2>2. ASSUME NEW i \in Items PROVE group.resultItems[i] # "hole"
    <3>1. N \in Nat /\ Level \in Nat \ {0} /\ i \in Nat /\ i < N
      BY GroupAssumption, ArrayAssumption DEF Items, Level
    <3>2. PICK w \in 0..(Level - 1), k \in Nat : i = w + Level * k
      BY <3>1, Covered
    <3>3. w \in Workers /\ w \in Nat /\ k \in 0..N
      <4>1. k <= Level * k /\ Level * k \in Nat
        BY <3>1, Strides
      <4> QED BY <3>1, <3>2, <4>1 DEF Workers
    <3>4. iteration[w] \in Nat /\ Index(w) >= N /\ Level * iteration[w] \in Nat
      BY <2>1, <3>1, <3>3, WorkerFacts, Strides
    <3>5. k < iteration[w]
      <4>1. iteration[w] = k => Index(w) = i
        BY <3>2 DEF Index
      <4>2. iteration[w] < k => Level * iteration[w] + Level <= Level * k
        BY <3>1, <3>4, Strides
      <4>3. Level * k \in Nat
        BY <3>1, Strides
      <4>4. Index(w) = w + Level * iteration[w]
        BY DEF Index
      <4> QED BY <3>1, <3>2, <3>3, <3>4, <4>1, <4>2, <4>3, <4>4
    <3>6. ~HoleAt(w, k)
      BY <3>4, <3>5 DEF HoleAt
    <3> QED BY <3>1, <3>2, <3>3, <3>6 DEF ArrayInv
  <2>3. group.resultItems \in [Items -> {"hole", "rs", "err"}]
    BY DEF ArrayInv, TypeOK
  <2>4. /\ \A i \in Items : Status[i] \in {"ok", "failed"}
        /\ raise => \A i \in Items : Status[i] = "ok"
    BY <2>1, <2>2, <2>3 DEF Status, StatusOf, ArrayInv
  <2>5. Promised!Resolve
    BY <1>1, <1>3, <2>4 DEF Promised!Resolve, Status
  <2> QED BY <2>5 DEF Promised!ENext
<1>4. CASE promise' = "rejected" /\ \E w \in Workers : pc[w] = "broken"
  <2>1. nulls # {}
    BY <1>4 DEF ArrayInv
  <2>2. Promised!Reject
    BY <1>1, <1>4, <2>1 DEF Promised!Reject, Status
  <2> QED BY <1>1, <2>2 DEF Promised!ENext, Status
<1> QED BY <1>2, <1>3, <1>4 DEF AllSettled

\* Every step is a step of ExecuteAll, or none.
LEMMA PromiseStep == ArrayInv /\ [Next]_vars => [Promised!ENext]_(Promised!evars)
<1> SUFFICES ASSUME ArrayInv, [Next]_vars PROVE [Promised!ENext]_(Promised!evars)
  OBVIOUS
<1>1. ASSUME NEW w \in Workers, Step(w), UNCHANGED <<raise, nulls>> PROVE Promised!ENext
  <2>1. pc \in [Workers -> {"preparing", "executing", "returned", "done", "failed", "broken"}]
    BY DEF ArrayInv, TypeOK
  <2>2. CASE Prepared(w)
    <3>1. /\ UNCHANGED <<iteration, group, promise>>
          /\ \A v \in Workers : pc'[v] \in Working <=> pc[v] \in Working
      BY <2>1, <2>2 DEF Prepared, Working
    <3>2. UNCHANGED Status
      BY <3>1 DEF Status, StatusOf, Index, Working
    <3> QED BY <1>1, <3>1, <3>2 DEF Promised!ENext, Status
  <2>3. CASE Executed(w)
    <3>1. /\ pc[w] \in Working /\ pc'[w] \notin Working /\ "rs" \in {"rs", "err"}
          /\ \A v \in Workers \ {w} : iteration'[v] = iteration[v] /\ pc'[v] = pc[v]
          /\ group'.resultItems = [group.resultItems EXCEPT ![Index(w)] = "rs"]
          /\ UNCHANGED promise
      BY <2>1, <2>3 DEF Executed, Working, SetResultItem
    <3> QED BY <1>1, <3>1, FinishStep
  <2>4. CASE Failed(w) /\ raise
    <3>1. /\ pc[w] \in Working /\ pc'[w] \notin Working /\ "err" \in {"rs", "err"}
          /\ \A v \in Workers \ {w} : iteration'[v] = iteration[v] /\ pc'[v] = pc[v]
          /\ group'.resultItems = [group.resultItems EXCEPT ![Index(w)] = "err"]
          /\ UNCHANGED promise
      BY <2>1, <2>4 DEF Failed, Working, SetError
    <3> QED BY <1>1, <3>1, FinishStep
  <2> QED BY <1>1, <2>2, <2>3, <2>4, ReturnStep, FailStep DEF Step
<1>2. CASE UNCHANGED vars
  BY <1>2 DEF vars, Promised!evars, StatusOf, Index
<1> QED BY <1>1, <1>2, SettleStep DEF Next

\* For every array, level and order of outcomes, the chains keep what
\* executeConcurrent() promises: each item is executed once, the promise is
\* resolved only when all have an outcome, and rejected only for a failure
\* with raiseOnFirstError or a null item.
THEOREM ArrayKeepsThePromise == Spec => ImplementsExecuteAll
<1>1. ArrayInv /\ Consistent(group) /\ [Next]_vars => [Promised!ENext]_(Promised!evars)
  BY PromiseStep
<1> QED BY <1>1, StatusInit, ArrayInvariance, PTL DEF Spec, ImplementsExecuteAll, Promised!ESpec

=============================================================================
