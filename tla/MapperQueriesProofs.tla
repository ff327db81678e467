------------------------ MODULE MapperQueriesProofs ------------------------
(***************************************************************************)
(* The queries of a call, for every model and every document: which tables *)
(* they are for, that each has its parameters in the order of its markers, *)
(* restricts a whole partition where it writes, and is repeatable where it *)
(* is marked idempotent.                                                   *)
(***************************************************************************)
EXTENDS MapperQueries, FiniteSetTheorems, WellFoundedInduction, TLAPS

IsSeq(s) == s \in Seq(ToSet(s))

\* What the application may call for.
IsCall(call) ==
    /\ ListsProps(call) /\ call.op \in {"get", "find", "findAll"} \cup Writes
    /\ call.op \in Writes => WritesColumnsOnce(call)

--------------------------------------------------------------------------
(* Sequences                                                               *)

\* Induction over the natural numbers, for a set T instead of a formula.
LEMMA Induction ==
    ASSUME NEW T, 0 \in T, \A n \in Nat : n \in T => n + 1 \in T
    PROVE  \A n \in Nat : n \in T
<1> DEFINE U == Nat \ T
           R == OpToRel(<, Nat)
<1>1. SUFFICES ASSUME U # {} PROVE FALSE
  OBVIOUS
<1>2. \E x \in U : \A y \in U : ~(<<y, x>> \in R)
  <2> HIDE DEF R
  <2>1. IsWellFoundedOn(R, Nat)
    BY NatLessThanWellFounded, Zenon DEF R
  <2>2. U \subseteq Nat
    OBVIOUS
  <2> HIDE DEF U
  <2> QED BY <1>1, <2>1, <2>2, WFMin, Zenon
<1>3. PICK x \in U : \A y \in U : ~(<<y, x>> \in R)
  BY <1>2, Zenon
<1>4. \A y \in U : ~(y < x)
  BY <1>3, Zenon DEF OpToRel
<1>5. x # 0 /\ x - 1 \in Nat
  OBVIOUS
<1> QED BY <1>4, <1>5

\* The list of no elements.
LEMMA NoElements == ASSUME NEW S, NEW s \in Seq(S), Len(s) = 0 PROVE s = <<>>
OBVIOUS

\* A non-empty set of natural numbers has a least one, which Min() returns.
LEMMA MinIsLeast ==
    ASSUME NEW S \in SUBSET Nat, S # {}
    PROVE  Min(S) \in S /\ \A x \in S : Min(S) <= x
<1> DEFINE R == OpToRel(<, Nat)
<1>1. \E x \in S : \A y \in S : ~(<<y, x>> \in R)
  <2> HIDE DEF R
  <2>1. IsWellFoundedOn(R, Nat)
    BY NatLessThanWellFounded, Zenon DEF R
  <2> QED BY <2>1, WFMin, Zenon
<1>2. PICK x \in S : \A y \in S : ~(<<y, x>> \in R)
  BY <1>1, Zenon
<1>3. \A y \in S : ~(y < x) /\ y \in Nat
  BY <1>2, Zenon DEF OpToRel
<1>4. \A y \in S : x <= y
  BY <1>3
<1> QED BY <1>4, Zenon DEF Min

\* What push() and other additions do to a list.
LEMMA AppendSeq ==
    ASSUME NEW s, NEW e, IsSeq(s)
    PROVE  /\ Len(s) \in Nat /\ DOMAIN s = 1..Len(s)
           /\ IsSeq(Append(s, e))
           /\ DOMAIN Append(s, e) = 1..(Len(s) + 1)
           /\ Len(Append(s, e)) = Len(s) + 1
           /\ \A i \in DOMAIN s : Append(s, e)[i] = s[i]
           /\ Append(s, e)[Len(s) + 1] = e
<1> DEFINE S == ToSet(s) \cup {e}
           t == Append(s, e)
<1>1. s \in Seq(ToSet(s)) /\ ToSet(s) \subseteq S /\ e \in S
  BY DEF IsSeq
<1>2. s \in Seq(S)
  <2> HIDE DEF S
  <2> QED BY <1>1
<1>3. /\ Len(s) \in Nat /\ DOMAIN s = 1..Len(s)
      /\ Append(s, e) \in Seq(S) /\ DOMAIN Append(s, e) = 1..(Len(s) + 1)
      /\ Len(Append(s, e)) = Len(s) + 1
      /\ \A i \in DOMAIN s : Append(s, e)[i] = s[i]
      /\ Append(s, e)[Len(s) + 1] = e
  <2> HIDE DEF S
  <2> QED BY <1>1, <1>2
<1>4. t \in Seq(ToSet(t))
  <2>1. t \in Seq(S) /\ DOMAIN t = 1..Len(t) /\ Len(t) \in Nat
    BY <1>3
  <2> HIDE DEF t, S
  <2>2. \A i \in 1..Len(t) : t[i] \in ToSet(t)
    BY <2>1 DEF ToSet
  <2> QED BY <2>1, <2>2
<1> QED BY <1>3, <1>4 DEF IsSeq

\* A list that is made element by element from another.
LEMMA MappedSeq ==
    ASSUME NEW s, NEW f, IsSeq(s), f = [i \in DOMAIN s |-> f[i]]
    PROVE  IsSeq(f) /\ Len(f) = Len(s) /\ DOMAIN f = DOMAIN s
<1>1. DOMAIN s = 1..Len(s) /\ Len(s) \in Nat
  BY DEF IsSeq
<1>2. DOMAIN f = 1..Len(s)
  BY <1>1
<1>3. \A i \in 1..Len(s) : f[i] \in ToSet(f)
  BY <1>2 DEF ToSet
<1>4. f \in Seq(ToSet(f))
  BY <1>1, <1>2, <1>3
<1> QED BY <1>1, <1>2, <1>4 DEF IsSeq

\* What an assignment to an element does to a list.
LEMMA AssignSeq ==
    ASSUME NEW s, NEW i, NEW e, IsSeq(s), NEW t, t = [s EXCEPT ![i] = e]
    PROVE  /\ IsSeq(t) /\ DOMAIN t = DOMAIN s
           /\ \A j \in DOMAIN s : t[j] = IF j = i THEN e ELSE s[j]
<1>1. /\ t = [j \in DOMAIN s |-> t[j]]
      /\ \A j \in DOMAIN s : t[j] = IF j = i THEN e ELSE s[j]
  BY Zenon
<1> QED BY <1>1, MappedSeq, Zenon

\* Two lists, one after the other.
LEMMA ConcatSeq ==
    ASSUME NEW s, NEW t, IsSeq(s), IsSeq(t)
    PROVE  /\ Len(s) \in Nat /\ DOMAIN s = 1..Len(s)
           /\ Len(t) \in Nat /\ DOMAIN t = 1..Len(t)
           /\ IsSeq(s \o t) /\ Len(s \o t) = Len(s) + Len(t)
           /\ DOMAIN (s \o t) = 1..(Len(s) + Len(t))
           /\ \A i \in 1..(Len(s) + Len(t)) :
                 (s \o t)[i] = IF i <= Len(s) THEN s[i] ELSE t[i - Len(s)]
<1> DEFINE S == ToSet(s) \cup ToSet(t)
           u == s \o t
<1>1. s \in Seq(S) /\ t \in Seq(S)
  <2>1. s \in Seq(ToSet(s)) /\ t \in Seq(ToSet(t)) /\ ToSet(s) \subseteq S /\ ToSet(t) \subseteq S
    BY DEF IsSeq
  <2> HIDE DEF S
  <2> QED BY <2>1
<1> HIDE DEF S
<1>2. /\ Len(s) \in Nat /\ DOMAIN s = 1..Len(s)
      /\ Len(t) \in Nat /\ DOMAIN t = 1..Len(t)
      /\ s \o t \in Seq(S) /\ Len(s \o t) = Len(s) + Len(t)
      /\ DOMAIN (s \o t) = 1..(Len(s) + Len(t))
      /\ \A i \in 1..(Len(s) + Len(t)) :
            (s \o t)[i] = IF i <= Len(s) THEN s[i] ELSE t[i - Len(s)]
  BY <1>1
<1>3. u \in Seq(ToSet(u))
  <2>1. u \in Seq(S) /\ DOMAIN u = 1..Len(u) /\ Len(u) \in Nat
    BY <1>2
  <2> HIDE DEF u
  <2>2. \A i \in 1..Len(u) : u[i] \in ToSet(u)
    BY <2>1 DEF ToSet
  <2> QED BY <2>1, <2>2
<1> QED BY <1>2, <1>3 DEF IsSeq

--------------------------------------------------------------------------
(* Keep(), the tables of a call and its queries                            *)

\* The function that Keep() evaluates.
KeptUpTo(s, positions) ==
    CHOOSE f : f = [n \in 0..Len(s) |-> IF n = 0 THEN <<>>
                                        ELSE IF n \in positions THEN Append(f[n - 1], s[n])
                                        ELSE f[n - 1]]

\* The recursive function behind Keep() exists: it satisfies its equation.
LEMMA KeptUpToExists ==
    ASSUME NEW s, IsSeq(s), NEW P
    PROVE  KeptUpTo(s, P) =
              [n \in 0..Len(s) |-> IF n = 0 THEN <<>>
                                   ELSE IF n \in P THEN Append(KeptUpTo(s, P)[n - 1], s[n])
                                   ELSE KeptUpTo(s, P)[n - 1]]
<1> DEFINE Defined(m, f) == f = [n \in 0..m |-> IF n = 0 THEN <<>>
                                                ELSE IF n \in P THEN Append(f[n - 1], s[n])
                                                ELSE f[n - 1]]
           T == {m \in Nat : \E f : Defined(m, f)}
<1>1. 0 \in T
  <2>1. Defined(0, [n \in 0..0 |-> <<>>])
    OBVIOUS
  <2> QED BY <2>1, Zenon
<1>2. ASSUME NEW m \in Nat, m \in T PROVE m + 1 \in T
  <2>1. PICK f : Defined(m, f)
    BY <1>2
  <2> DEFINE g == [n \in 0..(m + 1) |-> IF n = m + 1
                                        THEN IF n \in P THEN Append(f[m], s[n]) ELSE f[m]
                                        ELSE f[n]]
  <2>2. \A n \in 0..m : g[n] = f[n]
    OBVIOUS
  <2>3. ASSUME NEW n \in 0..(m + 1)
        PROVE  g[n] = IF n = 0 THEN <<>>
                      ELSE IF n \in P THEN Append(g[n - 1], s[n]) ELSE g[n - 1]
    <3>1. CASE n = m + 1
      <4>1. n # 0 /\ n - 1 \in 0..m /\ n - 1 = m
        BY <3>1
      <4>2. g[n - 1] = f[m]
        BY <2>2, <4>1
      <4> QED BY <3>1, <4>1, <4>2
    <3>2. CASE n \in 0..m
      <4>1. n = 0 \/ n - 1 \in 0..m
        BY <3>2
      <4>2. g[n] = f[n]
        BY <3>2
      <4>3. f[n] = IF n = 0 THEN <<>>
                   ELSE IF n \in P THEN Append(f[n - 1], s[n]) ELSE f[n - 1]
        BY <2>1, <3>2, Zenon
      <4> QED BY <4>1, <4>2, <4>3, <2>2
    <3> QED BY <3>1, <3>2
  <2>4. Defined(m + 1, g)
    <3> DEFINE h == [n \in 0..(m + 1) |-> IF n = 0 THEN <<>>
                                          ELSE IF n \in P THEN Append(g[n - 1], s[n])
                                          ELSE g[n - 1]]
    <3>1. g = h
      <4>1. \A n \in 0..(m + 1) : g[n] = h[n]
        BY <2>3
      <4> QED BY <4>1
    <3> QED BY <3>1
  <2> HIDE DEF g, Defined
  <2>5. \E h : Defined(m + 1, h)
    BY <2>4
  <2> QED BY <2>5
<1>3. Len(s) \in T
  <2>1. Len(s) \in Nat
    BY DEF IsSeq
  <2> HIDE DEF T
  <2> QED BY <1>1, <1>2, <2>1, Induction
<1> QED BY <1>3, Zenon DEF KeptUpTo

\* filter() returns elements of the list that it was given, all of them at the positions.
LEMMA KeepElements ==
    ASSUME NEW s, IsSeq(s), NEW P
    PROVE  Keep(s, P) \in Seq({s[i] : i \in DOMAIN s \cap P})
<1> DEFINE F == KeptUpTo(s, P)
           G == [n \in 0..Len(s) |-> IF n = 0 THEN <<>>
                                     ELSE IF n \in P THEN Append(F[n - 1], s[n])
                                     ELSE F[n - 1]]
           S == {s[i] : i \in DOMAIN s \cap P}
           Q(n) == n <= Len(s) => F[n] \in Seq(S)
<1>1. F = G
  BY KeptUpToExists
<1>2. Len(s) \in Nat /\ DOMAIN s = 1..Len(s)
  BY DEF IsSeq
<1>3. Q(0)
  <2>1. G[0] = <<>>
    BY <1>2
  <2>2. F[0] = <<>>
    <3> HIDE DEF F, G
    <3> QED BY <1>1, <2>1
  <2> HIDE DEF F, S
  <2> QED BY <2>2
<1>4. ASSUME NEW n \in Nat, Q(n) PROVE Q(n + 1)
  <2>1. SUFFICES ASSUME n + 1 <= Len(s) PROVE F[n + 1] \in Seq(S)
    OBVIOUS
  <2>2. n + 1 \in 0..Len(s) /\ n + 1 # 0 /\ n + 1 - 1 = n
    BY <1>2, <2>1
  <2> HIDE DEF F
  <2>3. G[n + 1] = IF n + 1 = 0 THEN <<>>
                   ELSE IF n + 1 \in P THEN Append(F[n + 1 - 1], s[n + 1])
                   ELSE F[n + 1 - 1]
    BY <2>2
  <2>4. F[n] \in Seq(S)
    BY <1>2, <1>4, <2>1
  <2> HIDE DEF G
  <2>5. F[n + 1] = IF n + 1 \in P THEN Append(F[n], s[n + 1]) ELSE F[n]
    BY <1>1, <2>2, <2>3, Zenon
  <2>6. CASE n + 1 \in P
    <3>1. s[n + 1] \in S
      BY <1>2, <2>1, <2>6
    <3> HIDE DEF S
    <3> QED BY <2>4, <2>5, <2>6, <3>1
  <2>7. CASE n + 1 \notin P
    <3> HIDE DEF S
    <3> QED BY <2>4, <2>5, <2>7
  <2> QED BY <2>6, <2>7
<1>5. \A n \in Nat : Q(n)
  <2> DEFINE T == {n \in Nat : Q(n)}
  <2> HIDE DEF Q
  <2>1. 0 \in T /\ \A n \in Nat : n \in T => n + 1 \in T
    BY <1>3, <1>4
  <2> HIDE DEF T
  <2>2. \A n \in Nat : n \in T
    BY <2>1, Induction
  <2> QED BY <2>2 DEF T
<1>6. F[Len(s)] \in Seq(S)
  <2> HIDE DEF F, S
  <2> QED BY <1>2, <1>5
<1>7. Keep(s, P) = F[Len(s)]
  BY DEF Keep, KeptUpTo
<1> HIDE DEF F
<1> QED BY <1>6, <1>7

\* Lists of no element and of one.
LEMMA ShortSeqs == IsSeq(<<>>) /\ \A x : IsSeq(<<x>>)
<1>1. \A x : <<x>> \in Seq(ToSet(<<x>>))
  <2>1. ASSUME NEW x PROVE <<x>> \in Seq(ToSet(<<x>>))
    <3>1. x \in ToSet(<<x>>)
      BY DEF ToSet
    <3> QED BY <3>1
  <2> QED BY <2>1, Zenon
<1> QED BY <1>1 DEF IsSeq

\* The metadata of all tables is enough for a write.
LEMMA WriteNeedsMetadata ==
    ASSUME NEW known, NEW matching
    PROVE  ForWrite(known, matching) \in {<<>>, ForWrite(AllNames, matching)}
<1>1. HasMetadata(AllNames)
  BY DEF HasMetadata, AllNames
<1> QED BY <1>1 DEF ForWrite

\* The first table that matches is the first of all that do, when the metadata of
\* those before it is there.
LEMMA SelectNeedsMetadata ==
    ASSUME NEW known, NEW pks, NEW infos, NEW fields, NEW orderBy
    PROVE  GetForSelect(known, pks, infos, fields, orderBy)
              \in {<<>>, GetForSelect(AllNames, pks, infos, fields, orderBy)}
<1> DEFINE M(i) == MatchesSelect(Tables[i], pks, infos, fields, orderBy)
           Stops(k) == {i \in DOMAIN Tables : Tables[i].name \notin k \/ M(i)}
           Some == Stops(known)
           All == Stops(AllNames)
           m == Min(Some)
<1>1. SUFFICES ASSUME Some # {}, Tables[m].name \in known
               PROVE  All # {} /\ Min(All) = m /\ Tables[m].name \in AllNames
  BY Zenon DEF GetForSelect
<1>2. DOMAIN Tables = 1..Len(Tables) /\ Len(Tables) \in Nat
  BY TablesAssumption
<1>3. Some \in SUBSET Nat /\ All \in SUBSET Nat
  BY <1>2
<1>4. m \in Some /\ \A i \in Some : m <= i
  <2> HIDE DEF Some
  <2> QED BY <1>1, <1>3, MinIsLeast
<1>5. All = {i \in DOMAIN Tables : M(i)} /\ \A i \in DOMAIN Tables : Tables[i].name \in AllNames
  BY DEF AllNames
<1> HIDE DEF m, M
<1>6. m \in All /\ All \subseteq Some
  BY <1>1, <1>4, <1>5
<1>7. Min(All) \in All /\ \A i \in All : Min(All) <= i
  <2> HIDE DEF All
  <2> QED BY <1>3, <1>6, MinIsLeast
<1>8. Min(All) = m
  <2>1. Min(All) \in Some /\ Min(All) \in Nat /\ m \in Nat
    BY <1>3, <1>4, <1>6, <1>7, Zenon
  <2>2. m <= Min(All) /\ Min(All) <= m
    BY <1>4, <1>6, <1>7, <2>1, Zenon
  <2> HIDE DEF All, Some
  <2> QED BY <2>1, <2>2
<1> QED BY <1>4, <1>5, <1>6, <1>8

\* The tables of a call are lists.
LEMMA TablesAreSeqs ==
    /\ \A known, pks, infos, fields, orderBy :
          LET tables == GetForSelect(known, pks, infos, fields, orderBy)
          IN IsSeq(tables) /\ Len(tables) <= 1
    /\ \A known, matching : IsSeq(ForWrite(known, matching))
    /\ \A conditional, tables : IsSeq(tables) => IsSeq(OneIf(conditional, tables))
<1>1. ASSUME NEW known, NEW pks, NEW infos, NEW fields, NEW orderBy
      PROVE  LET tables == GetForSelect(known, pks, infos, fields, orderBy)
             IN IsSeq(tables) /\ Len(tables) <= 1
  <2> DEFINE tables == GetForSelect(known, pks, infos, fields, orderBy)
  <2>1. tables = <<>> \/ \E x : tables = <<x>>
    BY Zenon DEF GetForSelect
  <2> HIDE DEF tables
  <2>2. IsSeq(tables) /\ Len(tables) <= 1
    <3>1. CASE tables = <<>>
      BY <3>1, ShortSeqs
    <3>2. ASSUME NEW x, tables = <<x>> PROVE IsSeq(tables) /\ Len(tables) <= 1
      <4>1. Len(<<x>>) = 1
        OBVIOUS
      <4> QED BY <3>2, <4>1, ShortSeqs
    <3> QED BY <2>1, <3>1, <3>2
  <2> QED BY <2>2 DEF tables
<1>2. ASSUME NEW known, NEW matching PROVE IsSeq(ForWrite(known, matching))
  <2> DEFINE P == {i \in matching : ~Tables[i].isView}
             S == {Tables[i] : i \in DOMAIN Tables \cap P}
             k == Keep(Tables, P)
  <2>1. IsSeq(Tables)
    BY TablesAssumption DEF IsSeq
  <2>2. k \in Seq(S)
    BY <2>1, KeepElements
  <2>3. ForWrite(known, matching) \in {<<>>, k}
    BY DEF ForWrite
  <2> HIDE DEF S, k
  <2>4. IsSeq(k)
    <3>1. DOMAIN k = 1..Len(k) /\ Len(k) \in Nat
      BY <2>2
    <3>2. \A i \in 1..Len(k) : k[i] \in ToSet(k)
      BY <3>1 DEF ToSet
    <3> QED BY <2>2, <3>1, <3>2 DEF IsSeq
  <2> QED BY <2>3, <2>4, ShortSeqs
<1>3. \A conditional, tables : IsSeq(tables) => IsSeq(OneIf(conditional, tables))
  BY ShortSeqs DEF OneIf
<1> QED BY <1>1, <1>2, <1>3

\* What depends on the metadata in the queries of a call: they are those of the whole
\* metadata or, where a table is missing, none.
LEMMA QueriesNeedMetadata ==
    ASSUME NEW call, NEW known, call.op \in {"get", "find", "findAll"} \cup Writes
    PROVE  Queries(call, known) \in {<<>>, Queries(call, AllNames)}
<1>1. \A conditional, tables, all : tables \in {<<>>, all} =>
         OneIf(conditional, tables) \in {<<>>, OneIf(conditional, all)}
  BY DEF OneIf
<1>2. SelectQueries(call, known) \in {<<>>, SelectQueries(call, AllNames)}
  <2> DEFINE infos  == GetPropertiesInfo(Props(call.doc), <<>>, call.doc)
             fields == GetPropertiesInfo(<<>>, call.fields, call.doc)
             tables(k) == IF call.op = "findAll" THEN <<Tables[1]>>
                          ELSE GetForSelect(k, call.op = "get", infos, fields, OrderByInfo(call))
             queries(ts) == [i \in DOMAIN ts |-> GetSelect(ts[i], call, infos, fields)]
  <2>1. tables(known) \in {<<>>, tables(AllNames)}
    BY SelectNeedsMetadata
  <2>2. queries(<<>>) = <<>>
    OBVIOUS
  <2>3. SelectQueries(call, known) = queries(tables(known))
        /\ SelectQueries(call, AllNames) = queries(tables(AllNames))
    BY DEF SelectQueries
  <2> HIDE DEF queries, tables
  <2> QED BY <2>1, <2>2, <2>3
<1>3. CreateInsertQueries(call, known) \in {<<>>, CreateInsertQueries(call, AllNames)}
  <2> DEFINE infos == GetPropertiesInfo(Props(call.doc), call.fields, call.doc)
             tables(k) == OneIf(call.exists, GetForInsert(k, infos))
             queries(ts) == [i \in DOMAIN ts |-> GetInsert(ts[i], call, infos)]
  <2>1. tables(known) \in {<<>>, tables(AllNames)}
    BY <1>1, WriteNeedsMetadata DEF GetForInsert
  <2>2. queries(<<>>) = <<>>
    OBVIOUS
  <2>3. CreateInsertQueries(call, known) = queries(tables(known))
        /\ CreateInsertQueries(call, AllNames) = queries(tables(AllNames))
    BY DEF CreateInsertQueries
  <2> HIDE DEF queries, tables
  <2> QED BY <2>1, <2>2, <2>3
<1>4. CreateUpdateQueries(call, known) \in {<<>>, CreateUpdateQueries(call, AllNames)}
  <2> DEFINE infos == GetPropertiesInfo(Props(call.doc), call.fields, call.doc)
             when == WhenInfo(call)
             tables(k) == OneIf(when # <<>> \/ call.exists, GetForUpdate(k, infos, when))
             queries(ts) == [i \in DOMAIN ts |-> GetUpdate(ts[i], call, infos, when)]
  <2>1. tables(known) \in {<<>>, tables(AllNames)}
    BY <1>1, WriteNeedsMetadata DEF GetForUpdate
  <2>2. queries(<<>>) = <<>>
    OBVIOUS
  <2>3. CreateUpdateQueries(call, known) = queries(tables(known))
        /\ CreateUpdateQueries(call, AllNames) = queries(tables(AllNames))
    BY DEF CreateUpdateQueries
  <2> HIDE DEF queries, tables
  <2> QED BY <2>1, <2>2, <2>3
<1>5. CreateDeleteQueries(call, known) \in {<<>>, CreateDeleteQueries(call, AllNames)}
  <2> DEFINE infos == GetPropertiesInfo(Props(call.doc), call.fields, call.doc)
             when == WhenInfo(call)
             tables(k) == OneIf(when # <<>> \/ call.exists, GetForDelete(k, infos, when))
             queries(ts) == [i \in DOMAIN ts |-> GetDelete(ts[i], call, infos, when)]
  <2>1. tables(known) \in {<<>>, tables(AllNames)}
    BY <1>1, WriteNeedsMetadata DEF GetForDelete
  <2>2. queries(<<>>) = <<>>
    OBVIOUS
  <2>3. CreateDeleteQueries(call, known) = queries(tables(known))
        /\ CreateDeleteQueries(call, AllNames) = queries(tables(AllNames))
    BY DEF CreateDeleteQueries
  <2> HIDE DEF queries, tables
  <2> QED BY <2>1, <2>2, <2>3
<1> QED BY <1>2, <1>3, <1>4, <1>5 DEF Queries, Writes

\* The queries of a call are a list, and a SELECT is one query.
LEMMA QueriesAreSeqs ==
    ASSUME NEW call, NEW known, call.op \in {"get", "find", "findAll"} \cup Writes
    PROVE  /\ IsSeq(Queries(call, known))
           /\ IsSelect(call) => Len(Queries(call, known)) <= 1
<1> DEFINE q == Queries(call, known)
<1>1. CASE ThrowsAtOnce(call)
  <2>1. q = <<>>
    BY <1>1 DEF Queries
  <2>2. IsSeq(<<>>) /\ Len(<<>>) = 0
    BY ShortSeqs
  <2> HIDE DEF q
  <2>3. IsSeq(q) /\ Len(q) <= 1
    BY <2>1, <2>2
  <2> QED BY <2>3 DEF q
<1>2. CASE ~ThrowsAtOnce(call) /\ IsSelect(call)
  <2> DEFINE infos  == GetPropertiesInfo(Props(call.doc), <<>>, call.doc)
             fields == GetPropertiesInfo(<<>>, call.fields, call.doc)
             tables == IF call.op = "findAll" THEN <<Tables[1]>>
                       ELSE GetForSelect(known, call.op = "get", infos, fields, OrderByInfo(call))
             queries == [i \in DOMAIN tables |-> GetSelect(tables[i], call, infos, fields)]
  <2>1. IsSeq(tables) /\ Len(tables) <= 1
    <3>1. IsSeq(<<Tables[1]>>) /\ Len(<<Tables[1]>>) = 1
      BY ShortSeqs
    <3> QED BY <3>1, TablesAreSeqs
  <2>2. q = queries
    BY <1>2 DEF Queries, SelectQueries, IsSelect
  <2> HIDE DEF tables, q
  <2>3. queries = [i \in DOMAIN tables |-> queries[i]]
    OBVIOUS
  <2> HIDE DEF queries
  <2>4. IsSeq(queries) /\ Len(queries) = Len(tables)
    BY <2>1, <2>3, MappedSeq
  <2> QED BY <2>1, <2>2, <2>4 DEF q
<1>3. CASE ~ThrowsAtOnce(call) /\ ~IsSelect(call)
  <2>1. ASSUME NEW tables, NEW f, IsSeq(tables), f = [i \in DOMAIN tables |-> f[i]]
        PROVE  IsSeq(f)
    BY <2>1, MappedSeq
  <2>2. \A conditional, matching : IsSeq(OneIf(conditional, ForWrite(known, matching)))
    BY TablesAreSeqs, Zenon
  <2>3. IsSeq(CreateInsertQueries(call, known))
    <3> DEFINE infos == GetPropertiesInfo(Props(call.doc), call.fields, call.doc)
               tables == OneIf(call.exists, GetForInsert(known, infos))
    <3>1. IsSeq(tables)
      BY <2>2 DEF GetForInsert
    <3> HIDE DEF tables
    <3> QED BY <2>1, <3>1 DEF CreateInsertQueries, tables
  <2>4. IsSeq(CreateUpdateQueries(call, known))
    <3> DEFINE infos == GetPropertiesInfo(Props(call.doc), call.fields, call.doc)
               when == WhenInfo(call)
               tables == OneIf(when # <<>> \/ call.exists, GetForUpdate(known, infos, when))
    <3>1. IsSeq(tables)
      BY <2>2 DEF GetForUpdate
    <3> QED BY <2>1, <3>1 DEF CreateUpdateQueries
  <2>5. IsSeq(CreateDeleteQueries(call, known))
    <3> DEFINE infos == GetPropertiesInfo(Props(call.doc), call.fields, call.doc)
               when == WhenInfo(call)
               tables == OneIf(when # <<>> \/ call.exists, GetForDelete(known, infos, when))
    <3>1. IsSeq(tables)
      BY <2>2 DEF GetForDelete
    <3> QED BY <2>1, <3>1 DEF CreateDeleteQueries
  <2> QED BY <1>3, <2>3, <2>4, <2>5 DEF Queries, Writes, IsSelect
<1> QED BY <1>1, <1>2, <1>3

--------------------------------------------------------------------------
(* Idempotent queries                                                      *)

\* A statement names its table.
LEMMA TableIsNamed ==
    ASSUME NEW i \in DOMAIN Tables
    PROVE  TableNamed(Tables[i].name) = Tables[i]
<1> DEFINE j == CHOOSE k \in DOMAIN Tables : Tables[k].name = Tables[i].name
<1>1. j \in DOMAIN Tables /\ Tables[j].name = Tables[i].name
  OBVIOUS
<1>2. j = i
  <2> HIDE DEF j
  <2> QED BY <1>1, TablesAssumption
<1>3. TableNamed(Tables[i].name) = Tables[j]
  BY DEF TableNamed
<1> QED BY <1>2, <1>3, Zenon

\* Joining no lists gives none.
LEMMA FlattenNone == FlattenSeq(<<>>) = <<>>
<1> DEFINE Is(f) == f = [n \in 0..0 |-> IF n = 0 THEN <<>> ELSE f[n - 1] \o <<>>[n]]
           F == CHOOSE f : Is(f)
<1>1. Is([n \in 0..0 |-> <<>>])
  OBVIOUS
<1>2. Is(F)
  <2> HIDE DEF Is
  <2> QED BY <1>1
<1>3. F[0] = <<>>
  <2> HIDE DEF F
  <2> QED BY <1>2
<1>4. FlattenSeq(<<>>) = F[0]
  BY DEF FlattenSeq
<1> QED BY <1>3, <1>4

\* Without conditions there is no IF clause.
LEMMA NoCondition == ConditionWithOperators(<<>>) = <<>>
<1>1. ConditionWithOperators(<<>>) = FlattenSeq(<<>>)
  BY DEF ConditionWithOperators
<1> QED BY <1>1, FlattenNone

\* The properties of a document are a list.
LEMMA InfosAreSeqs ==
    ASSUME NEW call, ListsProps(call)
    PROVE  IsSeq(GetPropertiesInfo(Props(call.doc), call.fields, call.doc))
<1> DEFINE keys == IF call.fields # <<>> THEN call.fields ELSE Props(call.doc)
           infos == GetPropertiesInfo(Props(call.doc), call.fields, call.doc)
<1>1. IsSeq(call.doc) /\ IsSeq(call.fields)
  BY DEF ListsProps, IsSeq
<1>2. IsSeq(Props(call.doc))
  <2>1. Props(call.doc) = [i \in DOMAIN call.doc |-> Props(call.doc)[i]]
    BY DEF Props
  <2> QED BY <1>1, <2>1, MappedSeq
<1>3. IsSeq(keys)
  BY <1>1, <1>2
<1>4. infos = [i \in DOMAIN keys |-> infos[i]]
  BY DEF GetPropertiesInfo
<1> HIDE DEF keys, infos
<1>5. IsSeq(infos)
  BY <1>3, <1>4, MappedSeq
<1> QED BY <1>5 DEF infos

\* A SELECT is repeatable.
LEMMA SelectIsRepeatable ==
    ASSUME NEW table, NEW call, NEW infos, NEW fields
    PROVE  Repeatable(GetSelect(table, call, infos, fields).query)
<1> DEFINE st == GetSelect(table, call, infos, fields).query
<1>1. st.cond = <<>> /\ st.exists = FALSE /\ st.set = <<>>
  BY Zenon DEF GetSelect, Query, Statement
<1> HIDE DEF st
<1>2. Repeatable(st)
  BY <1>1 DEF Repeatable
<1> QED BY <1>2 DEF st

\* An INSERT that is marked idempotent has no condition.
LEMMA InsertIsRepeatable ==
    ASSUME NEW table, NEW call, NEW infos, GetInsert(table, call, infos).isIdempotent
    PROVE  Repeatable(GetInsert(table, call, infos).query)
<1> DEFINE st == GetInsert(table, call, infos).query
<1>1. st.cond = <<>> /\ ~st.exists /\ st.set = <<>>
  BY Zenon DEF GetInsert, Query, Statement
<1> HIDE DEF st
<1>2. Repeatable(st)
  BY <1>1 DEF Repeatable
<1> QED BY <1>2 DEF st

\* A DELETE that is marked idempotent has no condition.
LEMMA DeleteIsRepeatable ==
    ASSUME NEW table, NEW call, NEW infos, NEW when,
           GetDelete(table, call, infos, when).isIdempotent
    PROVE  Repeatable(GetDelete(table, call, infos, when).query)
<1> DEFINE st == GetDelete(table, call, infos, when).query
<1>1. when = <<>> /\ ~call.exists
  BY Zenon DEF GetDelete, Query
<1>2. st.cond = ConditionWithOperators(when) /\ ~st.exists /\ st.set = <<>>
  BY <1>1, Zenon DEF GetDelete, Query, Statement
<1> HIDE DEF st
<1>3. Repeatable(st)
  BY <1>1, <1>2, NoCondition DEF Repeatable
<1> QED BY <1>3 DEF st

\* An UPDATE that is marked idempotent has no condition, and adds nothing to a list
\* or to a counter.
LEMMA UpdateIsRepeatable ==
    ASSUME NEW i \in DOMAIN Tables, NEW call, NEW infos, NEW when, IsSeq(infos),
           GetUpdate(Tables[i], call, infos, when).isIdempotent
    PROVE  Repeatable(GetUpdate(Tables[i], call, infos, when).query)
<1> DEFINE table == Tables[i]
           own == OfTable(infos, table)
           others == OthersOf(own, table)
           st == GetUpdate(table, call, infos, when).query
<1>1. /\ when = <<>> /\ ~call.exists
      /\ ~AppendsToList(own, table)
      /\ \A j \in DOMAIN own : TypeOf(own[j].column, table) # "counter"
  BY Zenon DEF GetUpdate, Query
<1>2. /\ st.cond = ConditionWithOperators(when) /\ ~st.exists
      /\ st.set = [k \in DOMAIN others |-> Assignment(others[k])]
      /\ st.table = table.name
  BY <1>1, Zenon DEF GetUpdate, Query, Statement
<1>3. \A k \in DOMAIN others : \E j \in DOMAIN own : others[k] = own[j]
  <2> DEFINE P == {j \in DOMAIN infos : infos[j].column \in ColumnsOf(table)}
             S == {infos[j] : j \in DOMAIN infos \cap P}
  <2>1. own \in Seq(S)
    BY KeepElements DEF OfTable
  <2> HIDE DEF S, own
  <2>2. IsSeq(own)
    <3>1. DOMAIN own = 1..Len(own) /\ Len(own) \in Nat
      BY <2>1
    <3>2. \A k \in 1..Len(own) : own[k] \in ToSet(own)
      BY <3>1 DEF ToSet
    <3> QED BY <2>1, <3>1, <3>2 DEF IsSeq
  <2> DEFINE Q == {j \in DOMAIN own : own[j].column \notin ToSet(PrimaryKeys(table))}
             R == {own[j] : j \in DOMAIN own \cap Q}
  <2>3. others \in Seq(R)
    BY <2>2, KeepElements DEF OthersOf
  <2>4. \A k \in DOMAIN others : others[k] \in R
    <3> HIDE DEF R, others
    <3> QED BY <2>3
  <2> QED BY <2>4, Zenon
<1>4. \A k \in DOMAIN others :
         Len(Assignment(others[k])) = 1
         \/ TypeOf(Assignment(others[k])[1], table) \notin {"list", "counter"}
  <2> SUFFICES ASSUME NEW k \in DOMAIN others
               PROVE  Len(Assignment(others[k])) = 1
                      \/ TypeOf(Assignment(others[k])[1], table) \notin {"list", "counter"}
    BY Zenon
  <2>1. PICK j \in DOMAIN own : others[k] = own[j]
    BY <1>3
  <2> HIDE DEF own, others
  <2>2. CASE own[j].v.is # "assign"
    <3>1. Assignment(own[j]) = <<own[j].column>>
      BY <2>2 DEF Assignment
    <3> QED BY <2>1, <3>1
  <2>3. CASE own[j].v.is = "assign"
    <3>1. Assignment(own[j])[1] = own[j].column
      BY <2>3 DEF Assignment
    <3>2. TypeOf(own[j].column, table) \notin {"list", "counter"}
      BY <1>1, <2>3 DEF AppendsToList
    <3> QED BY <2>1, <3>1, <3>2
  <2> QED BY <2>2, <2>3
<1>5. TableNamed(st.table) = table
  <2> HIDE DEF st
  <2> QED BY <1>2, TableIsNamed
<1> HIDE DEF st, others
<1>6. Repeatable(st)
  <2>1. \A k \in DOMAIN st.set :
           Len(st.set[k]) = 1 \/ TypeOf(st.set[k][1], table) \notin {"list", "counter"}
    BY <1>2, <1>4
  <2> HIDE DEF table
  <2>2. st.cond = <<>> /\ ~st.exists
    BY <1>1, <1>2, NoCondition
  <2> QED BY <1>5, <2>1, <2>2 DEF Repeatable
<1> QED BY <1>6 DEF st

\* A query that is marked idempotent is repeatable, whatever call it is for.
LEMMA MarkedIsRepeatable ==
    ASSUME NEW call, IsCall(call), NEW q \in ToSet(Queries(call, AllNames)),
           q.isIdempotent
    PROVE  Repeatable(q.query)
<1>1. ListsProps(call) /\ call.op \in {"get", "find", "findAll"} \cup Writes
  BY DEF IsCall
<1> DEFINE infos == GetPropertiesInfo(Props(call.doc), call.fields, call.doc)
           when == WhenInfo(call)
<1>2. IsSeq(infos)
  BY <1>1, InfosAreSeqs
<1>3. PICK k \in DOMAIN Queries(call, AllNames) : q = Queries(call, AllNames)[k]
  BY DEF ToSet
<1>4. CASE ThrowsAtOnce(call)
  <2>1. Queries(call, AllNames) = <<>>
    BY <1>4 DEF Queries
  <2> QED BY <1>3, <2>1
<1>5. CASE ~ThrowsAtOnce(call) /\ call.op \in {"get", "find", "findAll"}
  <2>1. Queries(call, AllNames) = SelectQueries(call, AllNames)
    BY <1>5 DEF Queries
  <2> DEFINE is == GetPropertiesInfo(Props(call.doc), <<>>, call.doc)
             fields == GetPropertiesInfo(<<>>, call.fields, call.doc)
             tables == IF call.op = "findAll" THEN <<Tables[1]>>
                       ELSE GetForSelect(AllNames, call.op = "get", is, fields, OrderByInfo(call))
  <2>2. Queries(call, AllNames) = [i \in DOMAIN tables |-> GetSelect(tables[i], call, is, fields)]
    BY <2>1 DEF SelectQueries
  <2> HIDE DEF is, fields, tables
  <2>3. q = GetSelect(tables[k], call, is, fields)
    BY <1>3, <2>2
  <2> QED BY <2>3, SelectIsRepeatable
<1>6. CASE ~ThrowsAtOnce(call) /\ call.op = "insert"
  <2>1. Queries(call, AllNames) = CreateInsertQueries(call, AllNames)
    BY <1>6 DEF Queries
  <2>2. \E table : q = GetInsert(table, call, infos)
    BY <1>3, <2>1 DEF CreateInsertQueries
  <2> HIDE DEF infos
  <2> QED BY <2>2, InsertIsRepeatable
<1>7. CASE ~ThrowsAtOnce(call) /\ call.op = "remove"
  <2>1. Queries(call, AllNames) = CreateDeleteQueries(call, AllNames)
    BY <1>7 DEF Queries
  <2>2. \E table : q = GetDelete(table, call, infos, when)
    BY <1>3, <2>1 DEF CreateDeleteQueries
  <2> HIDE DEF infos, when
  <2> QED BY <2>2, DeleteIsRepeatable
<1>8. CASE ~ThrowsAtOnce(call) /\ call.op = "update"
  <2>1. Queries(call, AllNames) = CreateUpdateQueries(call, AllNames)
    BY <1>8 DEF Queries
  <2> DEFINE M == {i \in DOMAIN Tables : MatchesUpdate(Tables[i], infos, when)}
             P == {i \in M : ~Tables[i].isView}
             S == {Tables[i] : i \in DOMAIN Tables \cap P}
             tables == OneIf(when # <<>> \/ call.exists, GetForUpdate(AllNames, infos, when))
  <2>2. tables \in {<<>>, Keep(Tables, P)}
    BY DEF OneIf, GetForUpdate, ForWrite
  <2>3. Keep(Tables, P) \in Seq(S)
    <3>1. IsSeq(Tables)
      BY TablesAssumption DEF IsSeq
    <3> QED BY <3>1, KeepElements
  <2>4. \A j \in DOMAIN tables : \E i \in DOMAIN Tables : tables[j] = Tables[i]
    <3>1. \A x \in S : \E i \in DOMAIN Tables : x = Tables[i]
      OBVIOUS
    <3>2. tables \in Seq(S)
      <4> HIDE DEF S, tables, P
      <4>1. <<>> \in Seq(S)
        OBVIOUS
      <4> QED BY <2>2, <2>3, <4>1, Zenon
    <3>3. \A j \in DOMAIN tables : tables[j] \in S
      <4> HIDE DEF S, tables
      <4> QED BY <3>2
    <3> HIDE DEF tables, S
    <3> QED BY <3>1, <3>3
  <2>5. k \in DOMAIN tables /\ q = GetUpdate(tables[k], call, infos, when)
    <3> DEFINE queries == [i \in DOMAIN tables |-> GetUpdate(tables[i], call, infos, when)]
    <3>1. Queries(call, AllNames) = queries
      BY <2>1 DEF CreateUpdateQueries
    <3> HIDE DEF tables, infos, when
    <3> QED BY <1>3, <3>1
  <2> HIDE DEF tables, infos, when
  <2>6. \E i \in DOMAIN Tables : q = GetUpdate(Tables[i], call, infos, when)
    BY <2>4, <2>5
  <2> QED BY <1>2, <2>6, UpdateIsRepeatable
<1> QED BY <1>1, <1>4, <1>5, <1>6, <1>7, <1>8 DEF Writes

\* A SELECT is marked idempotent.
LEMMA SelectIsMarked ==
    ASSUME NEW call, IsSelect(call), NEW k \in DOMAIN Queries(call, AllNames)
    PROVE  Queries(call, AllNames)[k].isIdempotent
<1> DEFINE queries == Queries(call, AllNames)
           infos == GetPropertiesInfo(Props(call.doc), <<>>, call.doc)
           fields == GetPropertiesInfo(<<>>, call.fields, call.doc)
           tables == IF call.op = "findAll" THEN <<Tables[1]>>
                     ELSE GetForSelect(AllNames, call.op = "get", infos, fields, OrderByInfo(call))
<1>1. ~ThrowsAtOnce(call)
  <2>1. ThrowsAtOnce(call) => queries = <<>>
    BY DEF Queries
  <2> HIDE DEF queries
  <2>2. k \in DOMAIN queries
    BY DEF queries
  <2> QED BY <2>1, <2>2
<1>2. queries = [i \in DOMAIN tables |-> GetSelect(tables[i], call, infos, fields)]
  BY <1>1 DEF Queries, SelectQueries, IsSelect
<1> HIDE DEF tables, infos, fields
<1>3. queries[k] = GetSelect(tables[k], call, infos, fields)
  <2>1. k \in DOMAIN queries
    OBVIOUS
  <2> HIDE DEF queries
  <2> QED BY <1>2, <2>1
<1>4. GetSelect(tables[k], call, infos, fields).isIdempotent = TRUE
  BY DEF GetSelect, Query
<1> QED BY <1>3, <1>4


--------------------------------------------------------------------------
(* The markers of a statement and its parameters                           *)

\* The column, or the part of the docInfo, that a parameter is for.
MarkerOf(g) == IF g.obj = "docInfo" THEN g.prop ELSE GetColumnName(g.prop)

\* A list of markers, and of conditions, each with its parameter.
Fits(names, ps) ==
    /\ IsSeq(names) /\ IsSeq(ps) /\ Len(names) = Len(ps)
    /\ \A k \in 1..Len(ps) : names[k] = MarkerOf(ps[k])

CondFits(conds, ps) ==
    /\ IsSeq(conds) /\ IsSeq(ps) /\ Len(conds) = Len(ps)
    /\ \A k \in 1..Len(ps) : conds[k][1] = MarkerOf(ps[k])

Firsts(s) == [k \in DOMAIN s |-> s[k][1]]

\* Parts that fit make a whole that fits.
LEMMA FitsConcat ==
    ASSUME NEW a, NEW b, NEW p, NEW q, Fits(a, p), Fits(b, q)
    PROVE  Fits(a \o b, p \o q)
<1>1. /\ IsSeq(a) /\ IsSeq(b) /\ IsSeq(p) /\ IsSeq(q) /\ Len(a) = Len(p) /\ Len(b) = Len(q)
      /\ \A k \in 1..Len(p) : a[k] = MarkerOf(p[k])
      /\ \A k \in 1..Len(q) : b[k] = MarkerOf(q[k])
  BY DEF Fits
<1>2. /\ Len(a) \in Nat /\ Len(b) \in Nat
      /\ IsSeq(a \o b) /\ Len(a \o b) = Len(a) + Len(b)
      /\ \A i \in 1..(Len(a) + Len(b)) : (a \o b)[i] = IF i <= Len(a) THEN a[i] ELSE b[i - Len(a)]
  BY <1>1, ConcatSeq, Zenon
<1>3. /\ IsSeq(p \o q) /\ Len(p \o q) = Len(p) + Len(q)
      /\ \A i \in 1..(Len(p) + Len(q)) : (p \o q)[i] = IF i <= Len(p) THEN p[i] ELSE q[i - Len(p)]
  BY <1>1, ConcatSeq, Zenon
<1>4. \A i \in 1..(Len(p) + Len(q)) : (a \o b)[i] = MarkerOf((p \o q)[i])
  <2> SUFFICES ASSUME NEW i \in 1..(Len(p) + Len(q)) PROVE (a \o b)[i] = MarkerOf((p \o q)[i])
    OBVIOUS
  <2>1. CASE i <= Len(p)
    <3>1. i \in 1..Len(p)
      BY <1>1, <1>2, <2>1
    <3> QED BY <1>1, <1>2, <1>3, <2>1, <3>1, Zenon
  <2>2. CASE ~(i <= Len(p))
    <3>1. i - Len(p) \in 1..Len(q)
      BY <1>1, <1>2, <2>2
    <3> QED BY <1>1, <1>2, <1>3, <2>2, <3>1, Zenon
  <2> QED BY <2>1, <2>2
<1> QED BY <1>1, <1>2, <1>3, <1>4, Zenon DEF Fits

\* Conditions that fit one after the other fit together.
LEMMA CondFitsConcat ==
    ASSUME NEW a, NEW b, NEW p, NEW q, CondFits(a, p), CondFits(b, q)
    PROVE  CondFits(a \o b, p \o q)
<1>1. /\ IsSeq(a) /\ IsSeq(b) /\ IsSeq(p) /\ IsSeq(q) /\ Len(a) = Len(p) /\ Len(b) = Len(q)
      /\ \A k \in 1..Len(p) : a[k][1] = MarkerOf(p[k])
      /\ \A k \in 1..Len(q) : b[k][1] = MarkerOf(q[k])
  BY DEF CondFits
<1>2. /\ Len(a) \in Nat /\ Len(b) \in Nat
      /\ IsSeq(a \o b) /\ Len(a \o b) = Len(a) + Len(b)
      /\ \A i \in 1..(Len(a) + Len(b)) : (a \o b)[i] = IF i <= Len(a) THEN a[i] ELSE b[i - Len(a)]
  BY <1>1, ConcatSeq, Zenon
<1>3. /\ IsSeq(p \o q) /\ Len(p \o q) = Len(p) + Len(q)
      /\ \A i \in 1..(Len(p) + Len(q)) : (p \o q)[i] = IF i <= Len(p) THEN p[i] ELSE q[i - Len(p)]
  BY <1>1, ConcatSeq, Zenon
<1>4. \A i \in 1..(Len(p) + Len(q)) : (a \o b)[i][1] = MarkerOf((p \o q)[i])
  <2> SUFFICES ASSUME NEW i \in 1..(Len(p) + Len(q)) PROVE (a \o b)[i][1] = MarkerOf((p \o q)[i])
    OBVIOUS
  <2>1. CASE i <= Len(p)
    <3>1. i \in 1..Len(p)
      BY <1>1, <1>2, <2>1
    <3> QED BY <1>1, <1>2, <1>3, <2>1, <3>1, Zenon
  <2>2. CASE ~(i <= Len(p))
    <3>1. i - Len(p) \in 1..Len(q)
      BY <1>1, <1>2, <2>2
    <3>2. (a \o b)[i] = b[i - Len(p)] /\ (p \o q)[i] = q[i - Len(p)]
      BY <1>1, <1>2, <1>3, <2>2, Zenon
    <3>3. b[i - Len(p)][1] = MarkerOf(q[i - Len(p)])
      BY <1>1, <3>1, Zenon
    <3> QED BY <3>2, <3>3, Zenon
  <2> QED BY <2>1, <2>2
<1> QED BY <1>1, <1>2, <1>3, <1>4, Zenon DEF CondFits

\* The columns of conditions that fit.
LEMMA FirstsFit ==
    ASSUME NEW a, NEW p, CondFits(a, p)
    PROVE  Fits(Firsts(a), p)
<1> DEFINE f == Firsts(a)
<1>1. IsSeq(a) /\ f = [k \in DOMAIN a |-> f[k]] /\ \A k \in DOMAIN a : f[k] = a[k][1]
  BY DEF CondFits, Firsts
<1> HIDE DEF f
<1>2. IsSeq(f) /\ Len(f) = Len(a) /\ DOMAIN a = 1..Len(a)
  <2>1. DOMAIN a = 1..Len(a)
    BY <1>1 DEF IsSeq
  <2> QED BY <1>1, <2>1, MappedSeq
<1>3. Fits(f, p)
  BY <1>1, <1>2 DEF CondFits, Fits
<1> QED BY <1>3 DEF f

--------------------------------------------------------------------------
(* Joined lists                                                            *)

\* The function that FlattenSeq() evaluates.
JoinedUpTo(seqs) ==
    CHOOSE f : f = [n \in 0..Len(seqs) |-> IF n = 0 THEN <<>> ELSE f[n - 1] \o seqs[n]]

\* The recursive function behind FlattenSeq() exists.
LEMMA JoinedUpToExists ==
    ASSUME NEW s, IsSeq(s)
    PROVE  JoinedUpTo(s) = [n \in 0..Len(s) |-> IF n = 0 THEN <<>> ELSE JoinedUpTo(s)[n - 1] \o s[n]]
<1> DEFINE Defined(m, f) == f = [n \in 0..m |-> IF n = 0 THEN <<>> ELSE f[n - 1] \o s[n]]
           T == {m \in Nat : \E f : Defined(m, f)}
<1>1. 0 \in T
  <2>1. Defined(0, [n \in 0..0 |-> <<>>])
    OBVIOUS
  <2> QED BY <2>1, Zenon
<1>2. ASSUME NEW m \in Nat, m \in T PROVE m + 1 \in T
  <2>1. PICK f : Defined(m, f)
    BY <1>2
  <2> DEFINE g == [n \in 0..(m + 1) |-> IF n = m + 1 THEN f[m] \o s[n] ELSE f[n]]
  <2>2. \A n \in 0..m : g[n] = f[n]
    OBVIOUS
  <2>3. ASSUME NEW n \in 0..(m + 1)
        PROVE  g[n] = IF n = 0 THEN <<>> ELSE g[n - 1] \o s[n]
    <3>1. CASE n = m + 1
      <4>1. n # 0 /\ n - 1 \in 0..m /\ n - 1 = m
        BY <3>1
      <4>2. g[n - 1] = f[m]
        BY <2>2, <4>1
      <4> QED BY <3>1, <4>1, <4>2
    <3>2. CASE n \in 0..m
      <4>1. n = 0 \/ n - 1 \in 0..m
        BY <3>2
      <4>2. g[n] = f[n]
        BY <3>2
      <4>3. f[n] = IF n = 0 THEN <<>> ELSE f[n - 1] \o s[n]
        BY <2>1, <3>2, Zenon
      <4> QED BY <4>1, <4>2, <4>3, <2>2
    <3> QED BY <3>1, <3>2
  <2>4. Defined(m + 1, g)
    <3> DEFINE h == [n \in 0..(m + 1) |-> IF n = 0 THEN <<>> ELSE g[n - 1] \o s[n]]
    <3>1. g = h
      <4>1. \A n \in 0..(m + 1) : g[n] = h[n]
        BY <2>3
      <4> QED BY <4>1
    <3> QED BY <3>1
  <2> HIDE DEF g, Defined
  <2>5. \E h : Defined(m + 1, h)
    BY <2>4
  <2> QED BY <2>5
<1>3. Len(s) \in T
  <2>1. Len(s) \in Nat
    BY DEF IsSeq
  <2> HIDE DEF T
  <2> QED BY <1>1, <1>2, <2>1, Induction
<1> QED BY <1>3, Zenon DEF JoinedUpTo

\* FlattenSeq() adds the lists one by one.
LEMMA JoinedSteps ==
    ASSUME NEW s, IsSeq(s)
    PROVE  /\ JoinedUpTo(s)[0] = <<>>
           /\ \A n \in Nat : n + 1 <= Len(s) => JoinedUpTo(s)[n + 1] = JoinedUpTo(s)[n] \o s[n + 1]
           /\ FlattenSeq(s) = JoinedUpTo(s)[Len(s)]
<1> DEFINE F == JoinedUpTo(s)
           G == [n \in 0..Len(s) |-> IF n = 0 THEN <<>> ELSE F[n - 1] \o s[n]]
<1>1. F = G
  BY JoinedUpToExists
<1>2. Len(s) \in Nat
  BY DEF IsSeq
<1>3. G[0] = <<>>
  <2> HIDE DEF F
  <2> QED BY <1>2
<1>4. ASSUME NEW n \in Nat, n + 1 <= Len(s) PROVE F[n + 1] = F[n] \o s[n + 1]
  <2> HIDE DEF F
  <2>1. n + 1 \in 0..Len(s) /\ n + 1 # 0 /\ (n + 1) - 1 = n
    BY <1>2, <1>4
  <2>2. G[n + 1] = IF n + 1 = 0 THEN <<>> ELSE F[(n + 1) - 1] \o s[n + 1]
    BY <2>1
  <2> HIDE DEF G
  <2> QED BY <1>1, <2>1, <2>2, Zenon
<1>5. FlattenSeq(s) = F[Len(s)]
  BY DEF FlattenSeq, JoinedUpTo
<1> HIDE DEF F, G
<1>6. F[0] = <<>> /\ FlattenSeq(s) = F[Len(s)]
      /\ \A n \in Nat : n + 1 <= Len(s) => F[n + 1] = F[n] \o s[n + 1]
  BY <1>1, <1>3, <1>4, <1>5
<1> QED BY <1>6 DEF F

\* Joined conditions fit the joined lists of their parameters.
LEMMA FlattenFits ==
    ASSUME NEW ss, NEW ps, IsSeq(ss), IsSeq(ps), Len(ss) = Len(ps),
           \A i \in DOMAIN ss : CondFits(ss[i], ps[i])
    PROVE  CondFits(FlattenSeq(ss), FlattenSeq(ps))
<1> DEFINE F == JoinedUpTo(ss)
           G == JoinedUpTo(ps)
           T == {n \in Nat : n <= Len(ss) => CondFits(F[n], G[n])}
<1>1. Len(ss) \in Nat /\ DOMAIN ss = 1..Len(ss)
  BY DEF IsSeq
<1>2. /\ F[0] = <<>> /\ FlattenSeq(ss) = F[Len(ss)]
      /\ \A n \in Nat : n + 1 <= Len(ss) => F[n + 1] = F[n] \o ss[n + 1]
  BY JoinedSteps, Zenon
<1>3. /\ G[0] = <<>> /\ FlattenSeq(ps) = G[Len(ss)]
      /\ \A n \in Nat : n + 1 <= Len(ss) => G[n + 1] = G[n] \o ps[n + 1]
  BY JoinedSteps, Zenon
<1> HIDE DEF F, G
<1>4. 0 \in T
  <2>1. CondFits(<<>>, <<>>)
    BY ShortSeqs DEF CondFits
  <2> QED BY <1>2, <1>3, <2>1
<1>5. ASSUME NEW n \in Nat, n \in T PROVE n + 1 \in T
  <2> SUFFICES ASSUME n + 1 <= Len(ss) PROVE CondFits(F[n + 1], G[n + 1])
    OBVIOUS
  <2>1. n <= Len(ss) /\ n + 1 \in DOMAIN ss
    BY <1>1
  <2>2. CondFits(F[n], G[n]) /\ CondFits(ss[n + 1], ps[n + 1])
    BY <1>5, <2>1
  <2> QED BY <1>2, <1>3, <2>2, CondFitsConcat
<1>6. Len(ss) \in T
  <2> HIDE DEF T
  <2> QED BY <1>1, <1>4, <1>5, Induction
<1> QED BY <1>1, <1>2, <1>3, <1>6

\* Joining lists of one element each gives the list of the elements.
LEMMA FlattenOnes ==
    ASSUME NEW ss, NEW xs, IsSeq(ss), IsSeq(xs), Len(ss) = Len(xs),
           \A i \in DOMAIN ss : ss[i] = <<xs[i]>>
    PROVE  FlattenSeq(ss) = xs
<1> DEFINE F == JoinedUpTo(ss)
           T == {n \in Nat : n <= Len(ss) => /\ IsSeq(F[n]) /\ Len(F[n]) = n
                                            /\ \A k \in 1..n : F[n][k] = xs[k]}
<1>1. Len(ss) \in Nat /\ DOMAIN ss = 1..Len(ss)
  BY DEF IsSeq
<1>2. /\ F[0] = <<>> /\ FlattenSeq(ss) = F[Len(ss)]
      /\ \A n \in Nat : n + 1 <= Len(ss) => F[n + 1] = F[n] \o ss[n + 1]
  BY JoinedSteps, Zenon
<1> HIDE DEF F
<1>3. 0 \in T
  <2>1. IsSeq(<<>>) /\ Len(<<>>) = 0
    BY ShortSeqs
  <2> QED BY <1>2, <2>1
<1>4. ASSUME NEW n \in Nat, n \in T PROVE n + 1 \in T
  <2> SUFFICES ASSUME n + 1 <= Len(ss)
               PROVE  /\ IsSeq(F[n + 1]) /\ Len(F[n + 1]) = n + 1
                      /\ \A k \in 1..(n + 1) : F[n + 1][k] = xs[k]
    OBVIOUS
  <2> DEFINE a == F[n]
             b == <<xs[n + 1]>>
  <2>1. IsSeq(a) /\ Len(a) = n /\ \A k \in 1..n : a[k] = xs[k]
    BY <1>1, <1>4
  <2>2. F[n + 1] = a \o b
    <3>1. n + 1 \in DOMAIN ss
      BY <1>1
    <3> QED BY <1>2, <3>1, Zenon
  <2>3. IsSeq(b) /\ Len(b) = 1 /\ b[1] = xs[n + 1]
    BY ShortSeqs
  <2> HIDE DEF a, b
  <2>4. /\ IsSeq(a \o b) /\ Len(a \o b) = n + 1
        /\ \A i \in 1..(n + 1) : (a \o b)[i] = IF i <= n THEN a[i] ELSE b[i - n]
    <3>1. /\ IsSeq(a \o b) /\ Len(a \o b) = Len(a) + Len(b)
          /\ \A i \in 1..(Len(a) + Len(b)) :
                (a \o b)[i] = IF i <= Len(a) THEN a[i] ELSE b[i - Len(a)]
      BY <2>1, <2>3, ConcatSeq, Zenon
    <3> QED BY <2>1, <2>3, <3>1, Zenon
  <2>5. ASSUME NEW k \in 1..(n + 1) PROVE (a \o b)[k] = xs[k]
    <3>1. CASE k <= n
      BY <2>1, <2>4, <3>1
    <3>2. CASE ~(k <= n)
      <4>1. k = n + 1 /\ k - n = 1
        BY <3>2
      <4> QED BY <2>3, <2>4, <3>2, <4>1
    <3> QED BY <3>1, <3>2
  <2> QED BY <2>2, <2>4, <2>5
<1>5. Len(ss) \in T
  <2> HIDE DEF T
  <2> QED BY <1>1, <1>3, <1>4, Induction
<1> DEFINE y == FlattenSeq(ss)
<1>6. IsSeq(y) /\ Len(y) = Len(xs) /\ \A k \in 1..Len(xs) : y[k] = xs[k]
  BY <1>1, <1>2, <1>5
<1> HIDE DEF y
<1>7. y = xs
  BY <1>6 DEF IsSeq
<1> QED BY <1>7 DEF y

--------------------------------------------------------------------------
(* The conditions of one value, and the places that they read              *)

\* One step of the recursion of SingleCondition() and of Reads.
ConditionOf(column, f, v) ==
    CASE v.is = "and" -> f[v.l] \o f[v.r]
      [] v.is = "op"  -> << <<column, v.key>> >>
      [] OTHER        -> << <<column, "=">> >>

Below(side, reads) == [k \in DOMAIN reads |-> [reads[k] EXCEPT !.path = <<"value", side>> \o @]]

ReadsOf(f, v) ==
    CASE v.is = "and" -> Below(0, f[v.l]) \o Below(1, f[v.r])
      [] v.is = "op"  -> << [path |-> <<"value">>, isIn |-> v.key = "IN"] >>
      [] OTHER        -> << [path |-> <<>>, isIn |-> FALSE] >>

\* The function that SingleCondition() evaluates.
ConditionsOf(column) == CHOOSE f : f = [v \in DocValues |-> ConditionOf(column, f, v)]

\* The conditions of a value are those of the values it joins, which are nested less.
LEMMA ConditionsExist ==
    ASSUME NEW column
    PROVE  ConditionsOf(column) = [v \in DocValues |-> ConditionOf(column, ConditionsOf(column), v)]
<1> DEFINE Defined(m, f) == \A v \in DocValues : Nesting[v] < m => f[v] = ConditionOf(column, f, v)
           T == {m \in Nat : \E f : f = [v \in DocValues |-> f[v]] /\ Defined(m, f)}
           Is(f) == f = [v \in DocValues |-> ConditionOf(column, f, v)]
<1>0. /\ MaxNesting \in Nat /\ \A v \in DocValues : Nesting[v] \in Nat /\ Nesting[v] < MaxNesting + 1
      /\ \A v \in DocValues : v.is = "and" =>
            /\ v.l \in DocValues /\ Nesting[v.l] < Nesting[v]
            /\ v.r \in DocValues /\ Nesting[v.r] < Nesting[v]
  BY DocValuesAssumption
<1>1. 0 \in T
  <2> DEFINE f == [v \in DocValues |-> <<>>]
  <2>1. f = [v \in DocValues |-> f[v]]
    OBVIOUS
  <2>2. Defined(0, f)
    BY <1>0
  <2> HIDE DEF f, Defined
  <2> QED BY <2>1, <2>2
<1>2. ASSUME NEW m \in Nat, m \in T PROVE m + 1 \in T
  <2>1. PICK f : f = [v \in DocValues |-> f[v]] /\ Defined(m, f)
    BY <1>2
  <2> DEFINE g == [v \in DocValues |-> IF Nesting[v] < m THEN f[v] ELSE ConditionOf(column, f, v)]
  <2>2. g = [v \in DocValues |-> g[v]]
    OBVIOUS
  <2>3. \A v \in DocValues : Nesting[v] < m => g[v] = f[v]
    OBVIOUS
  <2>4. \A v \in DocValues : Nesting[v] < m + 1 => g[v] = ConditionOf(column, f, v)
    BY <2>1, Zenon
  <2> HIDE DEF g
  <2>5. ASSUME NEW v \in DocValues, Nesting[v] < m + 1
        PROVE  ConditionOf(column, f, v) = ConditionOf(column, g, v)
    <3>1. CASE v.is = "and"
      <4>1. v.l \in DocValues /\ Nesting[v.l] < m /\ v.r \in DocValues /\ Nesting[v.r] < m
        BY <1>0, <2>5, <3>1
      <4>2. g[v.l] = f[v.l] /\ g[v.r] = f[v.r]
        BY <2>3, <4>1
      <4> QED BY <4>2, Zenon DEF ConditionOf
    <3>2. CASE v.is # "and"
      BY <3>2, Zenon DEF ConditionOf
    <3> QED BY <3>1, <3>2
  <2>6. Defined(m + 1, g)
    BY <2>4, <2>5, Zenon
  <2> HIDE DEF Defined
  <2> QED BY <2>2, <2>6
<1>3. MaxNesting + 1 \in T
  <2> HIDE DEF T
  <2> QED BY <1>0, <1>1, <1>2, Induction
<1>4. PICK f : f = [v \in DocValues |-> f[v]] /\ Defined(MaxNesting + 1, f)
  BY <1>3
<1>5. Is(f)
  <2> DEFINE g == [v \in DocValues |-> ConditionOf(column, f, v)]
  <2>1. \A v \in DocValues : f[v] = g[v]
    BY <1>0, <1>4, Zenon
  <2>2. g = [v \in DocValues |-> g[v]]
    OBVIOUS
  <2> HIDE DEF g
  <2>3. f = g
    BY <1>4, <2>1, <2>2
  <2> QED BY <2>3 DEF g
<1>6. ConditionsOf(column) = CHOOSE h : Is(h)
  BY DEF ConditionsOf
<1> HIDE DEF Is
<1>7. Is(ConditionsOf(column))
  BY <1>5, <1>6, Zenon
<1> QED BY <1>7 DEF Is

\* The same for the places that the conditions read.
LEMMA ReadsExist == Reads = [v \in DocValues |-> ReadsOf(Reads, v)]
<1> DEFINE Defined(m, f) == \A v \in DocValues : Nesting[v] < m => f[v] = ReadsOf(f, v)
           T == {m \in Nat : \E f : f = [v \in DocValues |-> f[v]] /\ Defined(m, f)}
           Is(f) == f = [v \in DocValues |-> ReadsOf(f, v)]
<1>0. /\ MaxNesting \in Nat /\ \A v \in DocValues : Nesting[v] \in Nat /\ Nesting[v] < MaxNesting + 1
      /\ \A v \in DocValues : v.is = "and" =>
            /\ v.l \in DocValues /\ Nesting[v.l] < Nesting[v]
            /\ v.r \in DocValues /\ Nesting[v.r] < Nesting[v]
  BY DocValuesAssumption
<1>1. 0 \in T
  <2> DEFINE f == [v \in DocValues |-> <<>>]
  <2>1. f = [v \in DocValues |-> f[v]]
    OBVIOUS
  <2>2. Defined(0, f)
    BY <1>0
  <2> HIDE DEF f, Defined
  <2> QED BY <2>1, <2>2
<1>2. ASSUME NEW m \in Nat, m \in T PROVE m + 1 \in T
  <2>1. PICK f : f = [v \in DocValues |-> f[v]] /\ Defined(m, f)
    BY <1>2
  <2> DEFINE g == [v \in DocValues |-> IF Nesting[v] < m THEN f[v] ELSE ReadsOf(f, v)]
  <2>2. g = [v \in DocValues |-> g[v]]
    OBVIOUS
  <2>3. \A v \in DocValues : Nesting[v] < m => g[v] = f[v]
    OBVIOUS
  <2>4. \A v \in DocValues : Nesting[v] < m + 1 => g[v] = ReadsOf(f, v)
    BY <2>1, Zenon
  <2> HIDE DEF g
  <2>5. ASSUME NEW v \in DocValues, Nesting[v] < m + 1 PROVE ReadsOf(f, v) = ReadsOf(g, v)
    <3>1. CASE v.is = "and"
      <4>1. v.l \in DocValues /\ Nesting[v.l] < m /\ v.r \in DocValues /\ Nesting[v.r] < m
        BY <1>0, <2>5, <3>1
      <4>2. g[v.l] = f[v.l] /\ g[v.r] = f[v.r]
        BY <2>3, <4>1
      <4> QED BY <4>2, Zenon DEF ReadsOf
    <3>2. CASE v.is # "and"
      BY <3>2, Zenon DEF ReadsOf
    <3> QED BY <3>1, <3>2
  <2>6. Defined(m + 1, g)
    BY <2>4, <2>5, Zenon
  <2> HIDE DEF Defined
  <2> QED BY <2>2, <2>6
<1>3. MaxNesting + 1 \in T
  <2> HIDE DEF T
  <2> QED BY <1>0, <1>1, <1>2, Induction
<1>4. PICK f : f = [v \in DocValues |-> f[v]] /\ Defined(MaxNesting + 1, f)
  BY <1>3
<1>5. Is(f)
  <2> DEFINE g == [v \in DocValues |-> ReadsOf(f, v)]
  <2>1. \A v \in DocValues : f[v] = g[v]
    BY <1>0, <1>4, Zenon
  <2>2. g = [v \in DocValues |-> g[v]]
    OBVIOUS
  <2> HIDE DEF g
  <2>3. f = g
    BY <1>4, <2>1, <2>2
  <2> QED BY <2>3 DEF g
<1>6. Reads = CHOOSE h : Is(h)
  BY Zenon DEF Reads, ReadsOf, Below
<1> HIDE DEF Is
<1>7. Is(Reads)
  BY <1>5, <1>6, Zenon
<1> QED BY <1>7 DEF Is

\* Below() changes the places, and not their number.
LEMMA BelowKeeps ==
    ASSUME NEW side, NEW reads, IsSeq(reads)
    PROVE  IsSeq(Below(side, reads)) /\ Len(Below(side, reads)) = Len(reads)
<1> DEFINE f == Below(side, reads)
<1>1. f = [k \in DOMAIN reads |-> f[k]]
  BY Zenon DEF Below
<1> HIDE DEF f
<1>2. IsSeq(f) /\ Len(f) = Len(reads)
  BY <1>1, MappedSeq
<1> QED BY <1>2 DEF f

\* There are as many conditions as places that they read, each on the column.
LEMMA AsManyReads ==
    ASSUME NEW column, NEW value \in DocValues
    PROVE  LET conds == SingleCondition(column, value) IN
           /\ IsSeq(conds) /\ IsSeq(Reads[value]) /\ Len(conds) = Len(Reads[value])
           /\ \A k \in 1..Len(conds) : conds[k][1] = column
           /\ value.is # "and" => Len(Reads[value]) = 1
<1> DEFINE C == ConditionsOf(column)
           Same(c, r) == IsSeq(c) /\ IsSeq(r) /\ Len(c) = Len(r) /\ \A k \in 1..Len(c) : c[k][1] = column
           T == {n \in Nat : \A v \in DocValues : Nesting[v] < n => Same(C[v], Reads[v])}
<1>1. /\ MaxNesting \in Nat /\ \A v \in DocValues : Nesting[v] \in Nat /\ Nesting[v] < MaxNesting + 1
      /\ \A v \in DocValues : v.is = "and" =>
            /\ v.l \in DocValues /\ Nesting[v.l] < Nesting[v]
            /\ v.r \in DocValues /\ Nesting[v.r] < Nesting[v]
  BY DocValuesAssumption
<1>2. \A v \in DocValues : C[v] = ConditionOf(column, C, v)
  <2> DEFINE D == [v \in DocValues |-> ConditionOf(column, C, v)]
  <2>1. C = D
    BY ConditionsExist
  <2>2. \A v \in DocValues : D[v] = ConditionOf(column, C, v)
    BY Zenon
  <2> HIDE DEF C, D
  <2> QED BY <2>1, <2>2
<1>3. \A v \in DocValues : Reads[v] = ReadsOf(Reads, v)
  <2> DEFINE D == [v \in DocValues |-> ReadsOf(Reads, v)]
  <2>1. Reads = D
    BY ReadsExist
  <2>2. \A v \in DocValues : D[v] = ReadsOf(Reads, v)
    BY Zenon
  <2> HIDE DEF D
  <2> QED BY <2>1, <2>2
<1>4. SingleCondition(column, value) = C[value]
  BY Zenon DEF SingleCondition, ConditionsOf, ConditionOf
<1> HIDE DEF C
<1>5. \A a, b : IsSeq(<< <<column, a>> >>) /\ IsSeq(<<b>>) /\ Len(<< <<column, a>> >>) = 1
                /\ Len(<<b>>) = 1 /\ \A k \in 1..1 : << <<column, a>> >>[k][1] = column
  <2> SUFFICES ASSUME NEW a, NEW b, NEW x, x = <<column, a>>
               PROVE  /\ IsSeq(<<x>>) /\ IsSeq(<<b>>) /\ Len(<<x>>) = 1 /\ Len(<<b>>) = 1
                      /\ \A k \in 1..1 : <<x>>[k][1] = column
    BY Zenon
  <2>1. x[1] = column
    OBVIOUS
  <2>2. <<x>>[1] = x /\ Len(<<x>>) = 1 /\ Len(<<b>>) = 1
    OBVIOUS
  <2>3. \A k \in 1..1 : k = 1
    OBVIOUS
  <2> QED BY <2>1, <2>2, <2>3, ShortSeqs, Zenon
<1>6. \A a, b : Same(<< <<column, a>> >>, <<b>>)
  BY <1>5, Zenon
<1>7. ASSUME NEW v \in DocValues, v.is # "and" PROVE Same(C[v], Reads[v]) /\ Len(Reads[v]) = 1
  <2>1. \E a : C[v] = << <<column, a>> >>
    BY <1>2, <1>7, Zenon DEF ConditionOf
  <2>2. \E b : Reads[v] = <<b>>
    BY <1>3, <1>7, Zenon DEF ReadsOf
  <2> HIDE DEF Same
  <2> QED BY <1>5, <1>6, <2>1, <2>2, Zenon
<1>8. 0 \in T
  BY <1>1
<1>9. ASSUME NEW n \in Nat, n \in T PROVE n + 1 \in T
  <2> SUFFICES ASSUME NEW v \in DocValues, Nesting[v] < n + 1 PROVE Same(C[v], Reads[v])
    OBVIOUS
  <2>1. CASE v.is # "and"
    BY <1>7, <2>1
  <2>2. CASE v.is = "and"
    <3> DEFINE a == C[v.l]
               b == C[v.r]
               p == Reads[v.l]
               q == Reads[v.r]
               r == Below(0, p)
               s == Below(1, q)
    <3>1. v.l \in DocValues /\ Nesting[v.l] < n /\ v.r \in DocValues /\ Nesting[v.r] < n
      BY <1>1, <2>2
    <3>2. Same(a, p) /\ Same(b, q)
      BY <1>9, <3>1
    <3>3. C[v] = a \o b
      BY <1>2, <2>2, Zenon DEF ConditionOf
    <3>4. Reads[v] = r \o s
      BY <1>3, <2>2, Zenon DEF ReadsOf
    <3> HIDE DEF a, b, p, q
    <3>5. IsSeq(r) /\ Len(r) = Len(p) /\ IsSeq(s) /\ Len(s) = Len(q)
      BY <3>2, BelowKeeps, Zenon
    <3> HIDE DEF r, s
    <3>6. IsSeq(r \o s) /\ Len(r \o s) = Len(p) + Len(q)
      BY <3>5, ConcatSeq, Zenon
    <3>7. /\ IsSeq(a \o b) /\ Len(a \o b) = Len(a) + Len(b) /\ Len(a) \in Nat /\ Len(b) \in Nat
          /\ \A i \in 1..(Len(a) + Len(b)) : (a \o b)[i] = IF i <= Len(a) THEN a[i] ELSE b[i - Len(a)]
      BY <3>2, ConcatSeq, Zenon
    <3>8. ASSUME NEW k \in 1..(Len(a) + Len(b)) PROVE (a \o b)[k][1] = column
      <4>1. CASE k <= Len(a)
        <5>1. k \in 1..Len(a)
          BY <3>7, <4>1
        <5> QED BY <3>2, <3>7, <4>1, <5>1, Zenon
      <4>2. CASE ~(k <= Len(a))
        <5>1. k - Len(a) \in 1..Len(b)
          BY <3>7, <4>2
        <5>2. (a \o b)[k] = b[k - Len(a)]
          BY <3>7, <4>2, Zenon
        <5>3. b[k - Len(a)][1] = column
          BY <3>2, <5>1, Zenon
        <5> QED BY <5>2, <5>3, Zenon
      <4> QED BY <4>1, <4>2
    <3>9. Len(a \o b) = Len(r \o s)
      BY <3>2, <3>6, <3>7, Zenon
    <3>10. Same(a \o b, r \o s)
      BY <3>6, <3>7, <3>8, <3>9, Zenon
    <3> QED BY <3>3, <3>4, <3>10, Zenon
  <2> QED BY <2>1, <2>2
<1>10. MaxNesting + 1 \in T
  <2> HIDE DEF T
  <2> QED BY <1>1, <1>8, <1>9, Induction
<1>11. Same(C[value], Reads[value])
  BY <1>1, <1>10
<1> QED BY <1>4, <1>7, <1>11

\* What getPropertiesInfo() makes of a document: each property with its column.
InfoOK(p) == p.column = GetColumnName(p.prop) /\ p.v \in DocValues

InfosOK(infos) == IsSeq(infos) /\ \A i \in DOMAIN infos : InfoOK(infos[i])

\* The conditions of a property fit the parameters that are read for it.
LEMMA SingleFits ==
    ASSUME NEW obj \in {"doc", "when"}, NEW p, InfoOK(p)
    PROVE  /\ CondFits(SingleCondition(p.column, p.v), ValueGetterSingle(obj, p))
           /\ p.v.is # "and" => \E g : ValueGetterSingle(obj, p) = <<g>> /\ MarkerOf(g) = p.column
<1> DEFINE conds == SingleCondition(p.column, p.v)
           reads == Reads[p.v]
           ps == ValueGetterSingle(obj, p)
<1>1. p.column = GetColumnName(p.prop) /\ p.v \in DocValues
  BY DEF InfoOK
<1>2. /\ IsSeq(conds) /\ IsSeq(reads) /\ Len(conds) = Len(reads)
      /\ \A k \in 1..Len(conds) : conds[k][1] = p.column
      /\ p.v.is # "and" => Len(reads) = 1
  BY <1>1, AsManyReads, Zenon
<1>3. ps = [k \in DOMAIN reads |-> ps[k]]
  BY Zenon DEF ValueGetterSingle
<1>4. ASSUME NEW k \in DOMAIN reads PROVE MarkerOf(ps[k]) = p.column
  <2>1. ps[k] = Getter(obj, p, reads[k].path, reads[k].isIn)
    BY <1>4, Zenon DEF ValueGetterSingle
  <2>2. \A path, isIn : Getter(obj, p, path, isIn).obj = obj /\ Getter(obj, p, path, isIn).prop = p.prop
    BY DEF Getter
  <2> HIDE DEF ps, reads
  <2>3. ps[k].obj = obj /\ ps[k].prop = p.prop
    BY <2>1, <2>2
  <2> QED BY <1>1, <2>3 DEF MarkerOf
<1> HIDE DEF conds, reads, ps
<1>5. IsSeq(ps) /\ Len(ps) = Len(reads) /\ DOMAIN ps = DOMAIN reads /\ DOMAIN ps = 1..Len(ps)
  <2>1. IsSeq(ps) /\ Len(ps) = Len(reads) /\ DOMAIN ps = DOMAIN reads
    BY <1>2, <1>3, MappedSeq, Zenon
  <2> QED BY <2>1 DEF IsSeq
<1>6. CondFits(conds, ps)
  BY <1>2, <1>4, <1>5 DEF CondFits
<1>7. p.v.is # "and" => ps = <<ps[1]>> /\ MarkerOf(ps[1]) = p.column
  BY <1>2, <1>4, <1>5 DEF IsSeq
<1> QED BY <1>6, <1>7 DEF conds, ps

--------------------------------------------------------------------------
(* The clauses of a statement                                              *)

\* The conditions of a WHERE or IF clause fit their parameters.
LEMMA ConditionsFit ==
    ASSUME NEW obj \in {"doc", "when"}, NEW infos, InfosOK(infos)
    PROVE  CondFits(ConditionWithOperators(infos), ValueGetters(obj, infos))
<1> DEFINE ss == [i \in DOMAIN infos |-> SingleCondition(infos[i].column, infos[i].v)]
           ps == [i \in DOMAIN infos |-> ValueGetterSingle(obj, infos[i])]
<1>1. IsSeq(infos) /\ \A i \in DOMAIN infos : InfoOK(infos[i])
  BY DEF InfosOK
<1>2. \A i \in DOMAIN infos : CondFits(ss[i], ps[i])
  BY <1>1, SingleFits, Zenon
<1>3. ss = [i \in DOMAIN infos |-> ss[i]] /\ ps = [i \in DOMAIN infos |-> ps[i]]
  BY Zenon
<1>4. ConditionWithOperators(infos) = FlattenSeq(ss) /\ ValueGetters(obj, infos) = FlattenSeq(ps)
  BY Zenon DEF ConditionWithOperators, ValueGetters
<1> HIDE DEF ss, ps
<1>5. IsSeq(ss) /\ IsSeq(ps) /\ Len(ss) = Len(ps) /\ DOMAIN ss = DOMAIN infos
  BY <1>1, <1>3, MappedSeq, Zenon
<1>6. CondFits(FlattenSeq(ss), FlattenSeq(ps))
  BY <1>2, <1>5, FlattenFits, Zenon
<1> QED BY <1>4, <1>6, Zenon

\* Columns with one value each fit the parameters of the values.
LEMMA ValuesFit ==
    ASSUME NEW infos, InfosOK(infos), \A i \in DOMAIN infos : infos[i].v.is # "and"
    PROVE  /\ CondFits(Equalities(infos), ValueGetters("doc", infos))
           /\ Fits(Names(infos), ValueGetters("doc", infos))
<1> DEFINE ps == [i \in DOMAIN infos |-> ValueGetterSingle("doc", infos[i])]
           xs == [i \in DOMAIN infos |-> ps[i][1]]
           es == Equalities(infos)
           ns == Names(infos)
<1>1. IsSeq(infos) /\ DOMAIN infos = 1..Len(infos) /\ \A i \in DOMAIN infos : InfoOK(infos[i])
  BY DEF InfosOK, IsSeq
<1>2. ASSUME NEW i \in DOMAIN infos
      PROVE  ps[i] = <<xs[i]>> /\ MarkerOf(xs[i]) = infos[i].column
  <2>1. PICK g : ValueGetterSingle("doc", infos[i]) = <<g>> /\ MarkerOf(g) = infos[i].column
    BY <1>1, SingleFits, Zenon
  <2>2. ps[i] = <<g>> /\ xs[i] = ps[i][1]
    BY <2>1, Zenon
  <2> HIDE DEF ps, xs
  <2>3. xs[i] = g
    BY <2>2
  <2> QED BY <2>1, <2>2, <2>3
<1>3. /\ xs = [i \in DOMAIN infos |-> xs[i]] /\ ps = [i \in DOMAIN infos |-> ps[i]]
      /\ ValueGetters("doc", infos) = FlattenSeq(ps)
  BY Zenon DEF ValueGetters
<1>4. /\ es = [i \in DOMAIN infos |-> es[i]] /\ ns = [i \in DOMAIN infos |-> ns[i]]
      /\ \A i \in DOMAIN infos : es[i] = <<infos[i].column, "=">> /\ ns[i] = infos[i].column
  BY Zenon DEF Equalities, Names
<1> HIDE DEF ps, xs, es, ns
<1>5. /\ IsSeq(ps) /\ Len(ps) = Len(infos) /\ DOMAIN ps = DOMAIN infos
      /\ IsSeq(xs) /\ Len(xs) = Len(infos)
      /\ IsSeq(es) /\ Len(es) = Len(infos)
      /\ IsSeq(ns) /\ Len(ns) = Len(infos)
  BY <1>1, <1>3, <1>4, MappedSeq, Zenon
<1>6. FlattenSeq(ps) = xs
  BY <1>2, <1>5, FlattenOnes, Zenon
<1>7. \A i \in 1..Len(xs) : es[i][1] = MarkerOf(xs[i]) /\ ns[i] = MarkerOf(xs[i])
  <2> SUFFICES ASSUME NEW i \in DOMAIN infos
               PROVE  es[i][1] = MarkerOf(xs[i]) /\ ns[i] = MarkerOf(xs[i])
    BY <1>1, <1>5, Zenon
  <2>1. es[i] = <<infos[i].column, "=">> /\ ns[i] = infos[i].column /\ MarkerOf(xs[i]) = infos[i].column
    BY <1>2, <1>4, Zenon
  <2>2. es[i][1] = infos[i].column
    BY <2>1
  <2> QED BY <2>1, <2>2, Zenon
<1>8. CondFits(es, xs) /\ Fits(ns, xs)
  BY <1>5, <1>7, Zenon DEF CondFits, Fits
<1> QED BY <1>3, <1>6, <1>8, Zenon DEF es, ns

\* The assignments of an UPDATE fit their parameters.
LEMMA AssignmentsFit ==
    ASSUME NEW infos, InfosOK(infos)
    PROVE  CondFits([i \in DOMAIN infos |-> Assignment(infos[i])], AssignmentGetters(infos))
<1> DEFINE as == [i \in DOMAIN infos |-> Assignment(infos[i])]
           gs == AssignmentGetters(infos)
<1>1. IsSeq(infos) /\ DOMAIN infos = 1..Len(infos) /\ \A i \in DOMAIN infos : InfoOK(infos[i])
  BY DEF InfosOK, IsSeq
<1>2. as = [i \in DOMAIN infos |-> as[i]] /\ gs = [i \in DOMAIN infos |-> gs[i]]
  BY Zenon DEF AssignmentGetters
<1>3. ASSUME NEW i \in DOMAIN infos PROVE as[i][1] = infos[i].column
  <2>1. \A a, b, c : <<a>>[1] = a /\ <<a, b, c>>[1] = a
    OBVIOUS
  <2>2. as[i] = Assignment(infos[i])
    BY Zenon
  <2> QED BY <2>1, <2>2, Zenon DEF Assignment
<1>4. ASSUME NEW i \in DOMAIN infos PROVE MarkerOf(gs[i]) = infos[i].column
  <2>1. \A p, path, isIn : Getter("doc", p, path, isIn).obj = "doc"
                           /\ Getter("doc", p, path, isIn).prop = p.prop
    BY DEF Getter
  <2>2. PICK path, isIn : gs[i] = Getter("doc", infos[i], path, isIn)
    BY Zenon DEF AssignmentGetters
  <2> HIDE DEF gs
  <2>3. gs[i].obj = "doc" /\ gs[i].prop = infos[i].prop
    BY <2>1, <2>2
  <2> QED BY <1>1, <2>3 DEF MarkerOf, InfoOK
<1> HIDE DEF as, gs
<1>5. IsSeq(as) /\ Len(as) = Len(infos) /\ IsSeq(gs) /\ Len(gs) = Len(infos)
  BY <1>1, <1>2, MappedSeq, Zenon
<1>6. CondFits(as, gs)
  BY <1>1, <1>3, <1>4, <1>5, Zenon DEF CondFits
<1> QED BY <1>6 DEF as, gs

\* The marker of a limit or a time-to-live fits its parameter.
LEMMA DocInfoFits ==
    ASSUME NEW name, NEW wanted
    PROVE  Fits(IF wanted THEN <<name>> ELSE <<>>, DocInfoGetter(name, wanted))
<1>1. Fits(<<>>, <<>>)
  BY ShortSeqs DEF Fits
<1>2. ASSUME NEW g, MarkerOf(g) = name PROVE Fits(<<name>>, <<g>>)
  BY <1>2, ShortSeqs DEF Fits
<1> DEFINE g == [obj |-> "docInfo", prop |-> name, path |-> <<>>, form |-> "as is"]
<1>3. MarkerOf(g) = name
  BY DEF MarkerOf
<1> QED BY <1>1, <1>2, <1>3, Zenon DEF DocInfoGetter

--------------------------------------------------------------------------
(* The properties of a document, and those that a table has                *)

\* filter() keeps each element that is at one of the positions.
LEMMA KeepsAll ==
    ASSUME NEW s, IsSeq(s), NEW P
    PROVE  \A i \in DOMAIN s \cap P : \E k \in DOMAIN Keep(s, P) : Keep(s, P)[k] = s[i]
<1> DEFINE F == KeptUpTo(s, P)
           G == [n \in 0..Len(s) |-> IF n = 0 THEN <<>>
                                     ELSE IF n \in P THEN Append(F[n - 1], s[n])
                                     ELSE F[n - 1]]
           Has(f, n) == IsSeq(f) /\ \A i \in (1..n) \cap P : \E k \in DOMAIN f : f[k] = s[i]
           T == {n \in Nat : n <= Len(s) => Has(F[n], n)}
<1>1. F = G
  BY KeptUpToExists
<1>2. Len(s) \in Nat /\ DOMAIN s = 1..Len(s)
  BY DEF IsSeq
<1>3. F[0] = <<>>
  <2>1. G[0] = <<>>
    BY <1>2
  <2> HIDE DEF F, G
  <2> QED BY <1>1, <2>1
<1>4. ASSUME NEW n \in Nat, n + 1 <= Len(s)
      PROVE  F[n + 1] = IF n + 1 \in P THEN Append(F[n], s[n + 1]) ELSE F[n]
  <2> HIDE DEF F
  <2>1. n + 1 \in 0..Len(s) /\ n + 1 # 0 /\ (n + 1) - 1 = n
    BY <1>2, <1>4
  <2>2. G[n + 1] = IF n + 1 = 0 THEN <<>>
                   ELSE IF n + 1 \in P THEN Append(F[(n + 1) - 1], s[n + 1])
                   ELSE F[(n + 1) - 1]
    BY <2>1
  <2> HIDE DEF G
  <2> QED BY <1>1, <2>1, <2>2, Zenon
<1>5. Keep(s, P) = F[Len(s)]
  BY DEF Keep, KeptUpTo
<1> HIDE DEF F
<1>6. 0 \in T
  BY <1>3, ShortSeqs
<1>7. ASSUME NEW n \in Nat, n \in T PROVE n + 1 \in T
  <2> SUFFICES ASSUME n + 1 <= Len(s) PROVE Has(F[n + 1], n + 1)
    OBVIOUS
  <2> DEFINE f == F[n]
  <2>1. Has(f, n)
    BY <1>2, <1>7
  <2>2. F[n + 1] = IF n + 1 \in P THEN Append(f, s[n + 1]) ELSE f
    BY <1>4
  <2> HIDE DEF f
  <2>3. \A i \in 1..(n + 1) : i \in 1..n \/ i = n + 1
    OBVIOUS
  <2>4. CASE n + 1 \notin P
    BY <2>1, <2>2, <2>3, <2>4
  <2>5. CASE n + 1 \in P
    <3> DEFINE g == Append(f, s[n + 1])
    <3>1. /\ IsSeq(g) /\ DOMAIN f \subseteq DOMAIN g /\ Len(f) + 1 \in DOMAIN g
          /\ \A i \in DOMAIN f : g[i] = f[i]
          /\ g[Len(f) + 1] = s[n + 1]
      <4>1. /\ Len(f) \in Nat /\ DOMAIN f = 1..Len(f) /\ IsSeq(g) /\ DOMAIN g = 1..(Len(f) + 1)
            /\ \A i \in DOMAIN f : g[i] = f[i]
            /\ g[Len(f) + 1] = s[n + 1]
        <5>1. IsSeq(f)
          BY <2>1
        <5> QED BY <5>1, AppendSeq
      <4> HIDE DEF g
      <4> QED BY <4>1
    <3>2. F[n + 1] = g
      BY <2>2, <2>5
    <3> HIDE DEF g
    <3>3. ASSUME NEW i \in (1..(n + 1)) \cap P PROVE \E k \in DOMAIN g : g[k] = s[i]
      <4>1. CASE i = n + 1
        BY <3>1, <4>1
      <4>2. CASE i \in 1..n
        <5>1. PICK k \in DOMAIN f : f[k] = s[i]
          BY <2>1, <4>2
        <5> QED BY <3>1, <5>1
      <4> QED BY <2>3, <4>1, <4>2
    <3> QED BY <3>1, <3>2, <3>3
  <2> QED BY <2>4, <2>5
<1>8. Len(s) \in T
  <2> HIDE DEF T
  <2> QED BY <1>2, <1>6, <1>7, Induction
<1> QED BY <1>2, <1>5, <1>8

\* The properties that a filter keeps are some of the document's, each with its column.
LEMMA KeptInfos ==
    ASSUME NEW infos, InfosOK(infos), NEW P
    PROVE  /\ InfosOK(Keep(infos, P))
           /\ \A k \in DOMAIN Keep(infos, P) : \E i \in DOMAIN infos : Keep(infos, P)[k] = infos[i]
<1> DEFINE S == {infos[i] : i \in DOMAIN infos \cap P}
           kept == Keep(infos, P)
<1>1. kept \in Seq(S)
  BY KeepElements DEF InfosOK
<1>2. \A x \in S : \E i \in DOMAIN infos : x = infos[i]
  OBVIOUS
<1> HIDE DEF S, kept
<1>3. IsSeq(kept) /\ \A k \in DOMAIN kept : kept[k] \in S
  <2>1. DOMAIN kept = 1..Len(kept) /\ Len(kept) \in Nat /\ \A k \in DOMAIN kept : kept[k] \in S
    BY <1>1
  <2>2. \A k \in 1..Len(kept) : kept[k] \in ToSet(kept)
    BY <2>1 DEF ToSet
  <2> QED BY <1>1, <2>1, <2>2 DEF IsSeq
<1>4. \A k \in DOMAIN kept : \E i \in DOMAIN infos : kept[k] = infos[i]
  BY <1>2, <1>3
<1>5. InfosOK(kept)
  BY <1>3, <1>4, Zenon DEF InfosOK
<1> QED BY <1>4, <1>5 DEF kept

\* getPropertiesInfo() gives each property its column and a value of the document.
LEMMA InfosAreOK ==
    ASSUME NEW doc, NEW fields, IsSeq(doc), IsSeq(fields),
           \A i \in DOMAIN doc : doc[i].v \in DocValues
    PROVE  LET infos == GetPropertiesInfo(Props(doc), fields, doc) IN
           /\ InfosOK(infos)
           /\ \A i \in DOMAIN infos : infos[i].v = Plain \/ \E j \in DOMAIN doc : infos[i].v = doc[j].v
<1> DEFINE keys == IF fields # <<>> THEN fields ELSE Props(doc)
           infos == GetPropertiesInfo(Props(doc), fields, doc)
<1>1. IsSeq(Props(doc))
  <2>1. Props(doc) = [i \in DOMAIN doc |-> Props(doc)[i]]
    BY DEF Props
  <2> QED BY <2>1, MappedSeq
<1>2. IsSeq(keys)
  BY <1>1
<1>3. infos = [i \in DOMAIN keys |-> infos[i]]
  BY DEF GetPropertiesInfo
<1>4. ASSUME NEW i \in DOMAIN keys
      PROVE  /\ infos[i].prop = keys[i] /\ infos[i].column = GetColumnName(keys[i])
             /\ infos[i].v = ValueAt(doc, keys[i])
  <2>1. infos[i] = [prop |-> keys[i], column |-> GetColumnName(keys[i]),
                    v |-> ValueAt(doc, keys[i]), fromModel |-> GetFromModelFn(keys[i])]
    BY Zenon DEF GetPropertiesInfo
  <2> HIDE DEF infos, keys
  <2> QED BY <2>1
<1>5. ASSUME NEW prop PROVE ValueAt(doc, prop) = Plain \/ \E j \in DOMAIN doc : ValueAt(doc, prop) = doc[j].v
  <2> DEFINE at == {i \in DOMAIN doc : doc[i].prop = prop}
  <2>1. at # {} => Min(at) \in at
    <3>1. at \in SUBSET Nat
      BY DEF IsSeq
    <3> HIDE DEF at
    <3> QED BY <3>1, MinIsLeast
  <2>2. ValueAt(doc, prop) = IF at = {} THEN Plain ELSE doc[Min(at)].v
    BY DEF ValueAt
  <2> QED BY <2>1, <2>2, Zenon
<1> HIDE DEF infos, keys
<1>6. IsSeq(infos) /\ DOMAIN infos = DOMAIN keys
  BY <1>2, <1>3, MappedSeq, Zenon
<1>7. \A i \in DOMAIN infos : infos[i].v = Plain \/ \E j \in DOMAIN doc : infos[i].v = doc[j].v
  BY <1>4, <1>5, <1>6, Zenon
<1>8. InfosOK(infos)
  <2>1. Plain \in DocValues
    BY DocValuesAssumption
  <2>2. \A i \in DOMAIN infos : infos[i].v \in DocValues
    BY <1>7, <2>1, Zenon
  <2> QED BY <1>4, <1>6, <2>2, Zenon DEF InfosOK, InfoOK
<1> QED BY <1>7, <1>8 DEF infos

\* As many properties of the keys as there are keys, no two for one column: each key
\* has its property.
LEMMA IncludedKeys ==
    ASSUME NEW keys, IsSeq(keys), NEW infos, IsSeq(infos),
           \A i, j \in DOMAIN keys : keys[i] = keys[j] => i = j,
           \A i, j \in DOMAIN infos : infos[i].column = infos[j].column => i = j,
           KeysAreIncluded(keys, infos) = "all"
    PROVE  \A c \in ToSet(keys) : \E i \in DOMAIN infos : infos[i].column = c
<1> DEFINE K == ToSet(keys)
           M == {i \in DOMAIN infos : infos[i].column \in K}
           f == [i \in M |-> infos[i].column]
<1>1. Cardinality(M) = Len(keys)
  BY Zenon DEF KeysAreIncluded
<1>2. Len(keys) \in Nat /\ DOMAIN keys = 1..Len(keys) /\ keys \in [1..Len(keys) -> K]
  BY DEF IsSeq
<1>3. keys \in Bijection(1..Len(keys), K)
  <2>1. \A c \in K : \E i \in 1..Len(keys) : keys[i] = c
    BY <1>2 DEF ToSet
  <2> HIDE DEF K
  <2> QED BY <1>2, <2>1, Zenon DEF Bijection, Injection, Surjection, IsInjective
<1>4. IsFiniteSet(K) /\ Cardinality(K) = Len(keys)
  <2>1. ExistsBijection(1..Len(keys), K)
    <3> HIDE DEF K
    <3> QED BY <1>3, Zenon DEF ExistsBijection
  <2> HIDE DEF K
  <2>2. IsFiniteSet(K)
    BY <1>2, <2>1, FS_NatBijection, Zenon
  <2> QED BY <1>2, <2>1, <2>2, FS_CountingElements, Zenon
<1>5. f \in Injection(M, K)
  <2>1. f \in [M -> K] /\ DOMAIN f = M
    BY Zenon
  <2>2. \A i, j \in M : f[i] = f[j] => i = j
    BY Zenon
  <2> HIDE DEF f, M, K
  <2> QED BY <2>1, <2>2, Zenon DEF Injection, IsInjective
<1>6. \A i \in M : f[i] = infos[i].column /\ i \in DOMAIN infos
  BY Zenon
<1> HIDE DEF f, M, K
<1>7. f \in Surjection(M, K)
  BY <1>1, <1>4, <1>5, FS_Injection, Zenon
<1>8. \A c \in K : \E i \in M : f[i] = c
  BY <1>7, Zenon DEF Surjection
<1>9. \A c \in K : \E i \in DOMAIN infos : infos[i].column = c
  BY <1>6, <1>8, Zenon
<1> QED BY <1>9 DEF K

\* What is in one of two lists is in both together.
LEMMA ConcatHas ==
    ASSUME NEW a, NEW b, IsSeq(a), IsSeq(b)
    PROVE  ToSet(a) \subseteq ToSet(a \o b) /\ ToSet(b) \subseteq ToSet(a \o b)
<1>1. /\ Len(a) \in Nat /\ DOMAIN a = 1..Len(a) /\ Len(b) \in Nat /\ DOMAIN b = 1..Len(b)
      /\ DOMAIN (a \o b) = 1..(Len(a) + Len(b))
      /\ \A i \in 1..(Len(a) + Len(b)) : (a \o b)[i] = IF i <= Len(a) THEN a[i] ELSE b[i - Len(a)]
  BY ConcatSeq, Zenon
<1>2. ASSUME NEW i \in DOMAIN a PROVE a[i] \in ToSet(a \o b)
  <2>1. i \in 1..(Len(a) + Len(b)) /\ i <= Len(a)
    BY <1>1
  <2> QED BY <1>1, <2>1, Zenon DEF ToSet
<1>3. ASSUME NEW i \in DOMAIN b PROVE b[i] \in ToSet(a \o b)
  <2>1. i + Len(a) \in 1..(Len(a) + Len(b)) /\ ~(i + Len(a) <= Len(a)) /\ (i + Len(a)) - Len(a) = i
    BY <1>1
  <2>2. (a \o b)[i + Len(a)] = b[i]
    BY <1>1, <2>1, Zenon
  <2> QED BY <1>1, <2>1, <2>2, Zenon DEF ToSet
<1> QED BY <1>2, <1>3, Zenon DEF ToSet

\* Lists that fit are the markers and the parameters of one statement.
LEMMA FitsIsEqual ==
    ASSUME NEW names, NEW ps, Fits(names, ps)
    PROVE  names = [k \in DOMAIN ps |-> MarkerOf(ps[k])]
<1> DEFINE f == [k \in DOMAIN ps |-> MarkerOf(ps[k])]
<1>1. DOMAIN names = 1..Len(ps) /\ DOMAIN ps = 1..Len(ps) /\ names = [k \in 1..Len(ps) |-> names[k]]
  BY DEF Fits, IsSeq
<1>2. \A k \in DOMAIN ps : names[k] = f[k]
  BY <1>1, Zenon DEF Fits
<1>3. f = [k \in 1..Len(ps) |-> f[k]]
  BY <1>1, Zenon
<1> HIDE DEF f
<1>4. names = f
  BY <1>1, <1>2, <1>3
<1> QED BY <1>4 DEF f

--------------------------------------------------------------------------
(* The statements of each kind                                             *)

\* The keys of a table are columns of it, no column of the partition key twice.
TableOK(table) ==
    /\ IsSeq(table.partitionKeys) /\ IsSeq(table.clusteringKeys)
    /\ ToSet(table.partitionKeys) \subseteq ColumnsOf(table)
    /\ \A j, k \in DOMAIN table.partitionKeys :
          table.partitionKeys[j] = table.partitionKeys[k] => j = k

\* No property of a document is a q.and().
OneValueEach(infos) == \A i \in DOMAIN infos : infos[i].v.is # "and"

\* The properties of the partition key are among the markers.
Restricts(markers, infos, table) ==
    \A i \in DOMAIN infos : infos[i].column \in ToSet(table.partitionKeys) =>
                               infos[i].column \in ToSet(markers)

\* The tables of the metadata are such tables.
LEMMA TablesAreOK == \A t \in DOMAIN Tables : TableOK(Tables[t])
<1> SUFFICES ASSUME NEW t \in DOMAIN Tables PROVE TableOK(Tables[t])
  OBVIOUS
<1> DEFINE pk == Tables[t].partitionKeys
           ck == Tables[t].clusteringKeys
           S == ColumnsOf(Tables[t])
<1>1. pk \in Seq(S) /\ ck \in Seq(S) /\ \A j, k \in DOMAIN pk : pk[j] = pk[k] => j = k
  BY TablesAssumption
<1> HIDE DEF pk, ck, S
<1>2. ASSUME NEW s \in Seq(S) PROVE IsSeq(s) /\ ToSet(s) \subseteq S
  <2>1. DOMAIN s = 1..Len(s) /\ Len(s) \in Nat /\ \A i \in 1..Len(s) : s[i] \in S
    OBVIOUS
  <2>2. \A i \in 1..Len(s) : s[i] \in ToSet(s)
    BY <2>1 DEF ToSet
  <2>3. ToSet(s) \subseteq S
    BY <2>1 DEF ToSet
  <2> QED BY <2>1, <2>2, <2>3 DEF IsSeq
<1>3. IsSeq(pk) /\ IsSeq(ck) /\ ToSet(pk) \subseteq S
  BY <1>1, <1>2, Zenon
<1> QED BY <1>1, <1>3, Zenon DEF TableOK, pk, ck, S

\* The properties of a table, and those of its keys.
LEMMA OwnInfos ==
    ASSUME NEW infos, InfosOK(infos), NEW table, TableOK(table)
    PROVE  LET own == OfTable(infos, table)
               keys == KeysOf(own, table)
               others == OthersOf(own, table) IN
           /\ InfosOK(own) /\ InfosOK(keys) /\ InfosOK(others)
           /\ OneValueEach(infos) => OneValueEach(own) /\ OneValueEach(keys)
           /\ \A i \in DOMAIN infos : infos[i].column \in ToSet(table.partitionKeys) =>
                 /\ \E k \in DOMAIN own : own[k].column = infos[i].column
                 /\ \E k \in DOMAIN keys : keys[k].column = infos[i].column
<1> DEFINE P == {i \in DOMAIN infos : infos[i].column \in ColumnsOf(table)}
           own == OfTable(infos, table)
           Q == {i \in DOMAIN own : own[i].column \in ToSet(PrimaryKeys(table))}
           keys == KeysOf(own, table)
           R == {i \in DOMAIN own : own[i].column \notin ToSet(PrimaryKeys(table))}
           others == OthersOf(own, table)
<1>1. own = Keep(infos, P)
  BY DEF OfTable
<1> HIDE DEF own
<1>2. InfosOK(own) /\ \A k \in DOMAIN own : \E i \in DOMAIN infos : own[k] = infos[i]
  <2> HIDE DEF P
  <2> QED BY <1>1, KeptInfos
<1>3. keys = Keep(own, Q) /\ others = Keep(own, R)
  BY DEF KeysOf, OthersOf
<1> HIDE DEF keys, others
<1>4. /\ InfosOK(keys) /\ \A k \in DOMAIN keys : \E i \in DOMAIN own : keys[k] = own[i]
      /\ InfosOK(others)
  <2> HIDE DEF Q, R
  <2> QED BY <1>2, <1>3, KeptInfos
<1>5. OneValueEach(infos) => OneValueEach(own) /\ OneValueEach(keys)
  BY <1>2, <1>4 DEF OneValueEach
<1>6. ASSUME NEW i \in DOMAIN infos, infos[i].column \in ToSet(table.partitionKeys)
      PROVE  /\ \E k \in DOMAIN own : own[k].column = infos[i].column
             /\ \E k \in DOMAIN keys : keys[k].column = infos[i].column
  <2>1. i \in DOMAIN infos \cap P
    BY <1>6, Zenon DEF TableOK
  <2>2. PICK k \in DOMAIN own : own[k] = infos[i]
    <3>1. IsSeq(infos)
      BY DEF InfosOK
    <3> HIDE DEF P
    <3> QED BY <1>1, <2>1, <3>1, KeepsAll, Zenon
  <2>3. own[k].column \in ToSet(PrimaryKeys(table))
    BY <1>6, <2>2, ConcatHas, Zenon DEF PrimaryKeys, TableOK
  <2>4. k \in DOMAIN own \cap Q
    BY <2>3, Zenon
  <2>5. PICK m \in DOMAIN keys : keys[m] = own[k]
    <3>1. IsSeq(own)
      BY <1>2 DEF InfosOK
    <3> HIDE DEF Q
    <3> QED BY <1>3, <2>4, <3>1, KeepsAll, Zenon
  <2> QED BY <2>2, <2>5, Zenon
<1> QED BY <1>2, <1>4, <1>5, <1>6, Zenon DEF own, keys, others

\* The parameters of a SELECT fit its markers.
LEMMA SelectFits ==
    ASSUME NEW table, NEW call, NEW infos, InfosOK(infos), NEW fields
    PROVE  Fits(Markers(GetSelect(table, call, infos, fields).query),
                GetSelect(table, call, infos, fields).params)
<1> DEFINE q == GetSelect(table, call, infos, fields)
           st == q.query
           conds == ConditionWithOperators(infos)
           values == ValueGetters("doc", infos)
           limit == IF call.limit THEN <<"limit">> ELSE <<>>
<1>1. /\ st.verb = "SELECT" /\ st.where = conds /\ st.limit = call.limit
      /\ q.params = values \o DocInfoGetter("limit", call.limit)
  BY Zenon DEF GetSelect, Query, Statement
<1>2. Fits(Firsts(conds), values)
  BY ConditionsFit, FirstsFit, Zenon
<1>3. Fits(limit, DocInfoGetter("limit", call.limit))
  BY DocInfoFits, Zenon
<1> HIDE DEF st, conds, values
<1>4. Markers(st) = Firsts(conds) \o limit
  BY <1>1, Zenon DEF Markers, Firsts
<1>5. Fits(Firsts(conds) \o limit, values \o DocInfoGetter("limit", call.limit))
  BY <1>2, <1>3, FitsConcat, Zenon
<1> QED BY <1>1, <1>4, <1>5, Zenon DEF st

\* The parameters of an INSERT fit its markers, which have the partition key.
LEMMA InsertFits ==
    ASSUME NEW table, TableOK(table), NEW call, NEW infos, InfosOK(infos), OneValueEach(infos)
    PROVE  LET q == GetInsert(table, call, infos) IN
           Fits(Markers(q.query), q.params) /\ Restricts(Markers(q.query), infos, table)
<1> DEFINE q == GetInsert(table, call, infos)
           st == q.query
           own == OfTable(infos, table)
           values == ValueGetters("doc", own)
           ttl == IF call.ttl THEN <<"ttl">> ELSE <<>>
<1>1. /\ st.verb = "INSERT" /\ st.cols = Names(own) /\ st.ttl = call.ttl
      /\ q.params = values \o DocInfoGetter("ttl", call.ttl)
  BY Zenon DEF GetInsert, Query, Statement
<1>2. /\ InfosOK(own) /\ OneValueEach(own)
      /\ \A i \in DOMAIN infos : infos[i].column \in ToSet(table.partitionKeys) =>
            \E k \in DOMAIN own : own[k].column = infos[i].column
  BY OwnInfos
<1> HIDE DEF st, own
<1>3. Fits(Names(own), values)
  BY <1>2, ValuesFit, Zenon DEF OneValueEach
<1>4. Fits(ttl, DocInfoGetter("ttl", call.ttl))
  BY DocInfoFits, Zenon
<1> HIDE DEF values
<1>5. Markers(st) = Names(own) \o ttl
  BY <1>1, Zenon DEF Markers
<1>6. Fits(Names(own) \o ttl, values \o DocInfoGetter("ttl", call.ttl))
  BY <1>3, <1>4, FitsConcat, Zenon
<1>7. ToSet(Names(own)) \subseteq ToSet(Markers(st))
  BY <1>3, <1>4, <1>5, ConcatHas, Zenon DEF Fits
<1>8. \A k \in DOMAIN own : own[k].column \in ToSet(Names(own))
  BY Zenon DEF ToSet, Names
<1>9. Restricts(Markers(st), infos, table)
  BY <1>2, <1>7, <1>8, Zenon DEF Restricts
<1> QED BY <1>1, <1>5, <1>6, <1>9, Zenon DEF st

\* The columns of equalities.
LEMMA EqualityHas ==
    ASSUME NEW infos, NEW k \in DOMAIN infos
    PROVE  infos[k].column \in ToSet(Firsts(Equalities(infos)))
<1> DEFINE e == Equalities(infos)
           f == Firsts(e)
<1>1. DOMAIN e = DOMAIN infos /\ e[k] = <<infos[k].column, "=">>
  BY Zenon DEF Equalities
<1> HIDE DEF e
<1>2. DOMAIN f = DOMAIN e /\ f[k] = e[k][1]
  BY <1>1, Zenon DEF Firsts
<1>3. f[k] = infos[k].column
  BY <1>1, <1>2
<1> QED BY <1>1, <1>2, <1>3, Zenon DEF ToSet, e

\* The parameters of an UPDATE fit its markers, which have the partition key.
LEMMA UpdateFits ==
    ASSUME NEW table, TableOK(table), NEW call, NEW infos, InfosOK(infos), OneValueEach(infos),
           NEW when, InfosOK(when), call.exists => when = <<>>
    PROVE  LET q == GetUpdate(table, call, infos, when) IN
           Fits(Markers(q.query), q.params) /\ Restricts(Markers(q.query), infos, table)
<1> DEFINE q == GetUpdate(table, call, infos, when)
           st == q.query
           own == OfTable(infos, table)
           keys == KeysOf(own, table)
           others == OthersOf(own, table)
           set == [i \in DOMAIN others |-> Assignment(others[i])]
           cond == ConditionWithOperators(when)
           ttl == IF call.ttl THEN <<"ttl">> ELSE <<>>
           m1 == ttl \o Firsts(set)
           m2 == m1 \o Firsts(Equalities(keys))
           p1 == DocInfoGetter("ttl", call.ttl) \o AssignmentGetters(others)
           p2 == p1 \o ValueGetters("doc", keys)
<1>1. /\ st.verb = "UPDATE" /\ st.set = set /\ st.where = Equalities(keys) /\ st.ttl = call.ttl
      /\ st.cond = IF call.exists THEN <<>> ELSE cond
      /\ q.params = p2 \o ValueGetters("when", when)
  BY Zenon DEF GetUpdate, UpdateParams, Query, Statement
<1>2. /\ InfosOK(keys) /\ OneValueEach(keys) /\ InfosOK(others)
      /\ \A i \in DOMAIN infos : infos[i].column \in ToSet(table.partitionKeys) =>
            \E k \in DOMAIN keys : keys[k].column = infos[i].column
  BY OwnInfos
<1>3. st.cond = cond
  BY <1>1, NoCondition, Zenon
<1> HIDE DEF st, keys, others, own
<1>4. Fits(Firsts(set), AssignmentGetters(others))
  BY <1>2, AssignmentsFit, FirstsFit, Zenon
<1>5. Fits(Firsts(Equalities(keys)), ValueGetters("doc", keys))
  BY <1>2, ValuesFit, FirstsFit, Zenon DEF OneValueEach
<1>6. Fits(Firsts(cond), ValueGetters("when", when))
  BY ConditionsFit, FirstsFit, Zenon
<1>7. Markers(st) = m2 \o Firsts(cond)
  <2> HIDE DEF cond, set
  <2> QED BY <1>1, <1>3, Zenon DEF Markers, Firsts
<1> HIDE DEF set, cond
<1>8. Fits(m1, p1)
  BY <1>4, DocInfoFits, FitsConcat, Zenon
<1> HIDE DEF m1, p1
<1>9. Fits(m2, p2)
  BY <1>5, <1>8, FitsConcat, Zenon
<1>10. ToSet(Firsts(Equalities(keys))) \subseteq ToSet(m2)
  BY <1>5, <1>8, ConcatHas, Zenon DEF Fits
<1> HIDE DEF m2, p2
<1>11. Fits(m2 \o Firsts(cond), p2 \o ValueGetters("when", when))
  BY <1>6, <1>9, FitsConcat, Zenon
<1>12. ToSet(m2) \subseteq ToSet(Markers(st))
  BY <1>6, <1>7, <1>9, ConcatHas, Zenon DEF Fits
<1>13. Restricts(Markers(st), infos, table)
  <2>1. ASSUME NEW k \in DOMAIN keys PROVE keys[k].column \in ToSet(Firsts(Equalities(keys)))
    BY EqualityHas
  <2> QED BY <1>2, <1>10, <1>12, <2>1, Zenon DEF Restricts
<1> QED BY <1>1, <1>7, <1>11, <1>13, Zenon DEF st

\* The parameters of a DELETE fit its markers, which have the partition key.
LEMMA DeleteFits ==
    ASSUME NEW table, TableOK(table), NEW call, NEW infos, InfosOK(infos), OneValueEach(infos),
           NEW when, InfosOK(when), call.exists => when = <<>>
    PROVE  LET q == GetDelete(table, call, infos, when) IN
           Fits(Markers(q.query), q.params) /\ Restricts(Markers(q.query), infos, table)
<1> DEFINE q == GetDelete(table, call, infos, when)
           st == q.query
           own == OfTable(infos, table)
           keys == KeysOf(own, table)
           cond == ConditionWithOperators(when)
           m1 == Firsts(Equalities(keys))
           p1 == ValueGetters("doc", keys)
<1>1. /\ st.verb = "DELETE" /\ st.where = Equalities(keys)
      /\ st.cond = IF call.exists THEN <<>> ELSE cond
      /\ q.params = p1 \o ValueGetters("when", when)
  BY Zenon DEF GetDelete, Query, Statement
<1>2. /\ InfosOK(keys) /\ OneValueEach(keys)
      /\ \A i \in DOMAIN infos : infos[i].column \in ToSet(table.partitionKeys) =>
            \E k \in DOMAIN keys : keys[k].column = infos[i].column
  BY OwnInfos
<1>3. st.cond = cond
  BY <1>1, NoCondition, Zenon
<1> HIDE DEF st, keys, own
<1>4. Fits(m1, p1)
  BY <1>2, ValuesFit, FirstsFit, Zenon DEF OneValueEach
<1>5. Fits(Firsts(cond), ValueGetters("when", when))
  BY ConditionsFit, FirstsFit, Zenon
<1>6. Markers(st) = m1 \o Firsts(cond)
  <2> HIDE DEF cond
  <2> QED BY <1>1, <1>3, Zenon DEF Markers, Firsts
<1> HIDE DEF cond, p1
<1>7. Fits(m1 \o Firsts(cond), p1 \o ValueGetters("when", when))
  BY <1>4, <1>5, FitsConcat, Zenon
<1>8. ToSet(m1) \subseteq ToSet(Markers(st))
  BY <1>4, <1>5, <1>6, ConcatHas, Zenon DEF Fits
<1>9. Restricts(Markers(st), infos, table)
  <2>1. ASSUME NEW k \in DOMAIN keys PROVE keys[k].column \in ToSet(m1)
    BY EqualityHas
  <2> QED BY <1>2, <1>8, <2>1, Zenon DEF Restricts
<1> QED BY <1>1, <1>6, <1>7, <1>9, Zenon DEF st

\* A write goes to tables that match.
LEMMA WriteTables ==
    ASSUME NEW conditional, NEW matching, NEW tables,
           tables = OneIf(conditional, ForWrite(AllNames, matching)), NEW k \in DOMAIN tables
    PROVE  \E t \in DOMAIN Tables : t \in matching /\ tables[k] = Tables[t]
<1> DEFINE P == {i \in matching : ~Tables[i].isView}
           S == {Tables[i] : i \in DOMAIN Tables \cap P}
<1>1. tables \in {<<>>, Keep(Tables, P)}
  BY DEF OneIf, ForWrite
<1>2. Keep(Tables, P) \in Seq(S)
  <2>1. IsSeq(Tables)
    BY TablesAssumption DEF IsSeq
  <2> QED BY <2>1, KeepElements
<1>3. \A x \in S : \E t \in DOMAIN Tables : t \in matching /\ x = Tables[t]
  OBVIOUS
<1> HIDE DEF S, P
<1>4. tables[k] \in S
  <2>1. tables \in Seq(S)
    <3>1. <<>> \in Seq(S)
      OBVIOUS
    <3> QED BY <1>1, <1>2, <3>1, Zenon
  <2> QED BY <2>1
<1> QED BY <1>3, <1>4

\* A query of a call or an item, and the partition that it writes.
QueryOK(q) == Fits(Markers(q.query), q.params)

WritesItsPartition(q) ==
    ToSet(TableNamed(q.query.table).partitionKeys) \subseteq ToSet(Markers(q.query))

\* A statement whose markers have the properties of a partition key that the document
\* has all of.
LEMMA WholePartition ==
    ASSUME NEW t \in DOMAIN Tables, NEW q, q.query.table = Tables[t].name, NEW infos,
           Restricts(Markers(q.query), infos, Tables[t]),
           \A c \in ToSet(Tables[t].partitionKeys) : \E i \in DOMAIN infos : infos[i].column = c
    PROVE  WritesItsPartition(q)
<1>1. TableNamed(q.query.table) = Tables[t]
  BY TableIsNamed, Zenon
<1>2. ToSet(Tables[t].partitionKeys) \subseteq ToSet(Markers(q.query))
  BY Zenon DEF Restricts
<1> QED BY <1>1, <1>2, Zenon DEF WritesItsPartition

\* What the application gives to a call: lists of properties, and for a write one
\* value for each column.
LEMMA CallFacts ==
    ASSUME NEW call, IsCall(call)
    PROVE  LET infos == GetPropertiesInfo(Props(call.doc), call.fields, call.doc)
               selected == GetPropertiesInfo(Props(call.doc), <<>>, call.doc) IN
           /\ call.op \in {"get", "find", "findAll"} \cup Writes
           /\ InfosOK(infos) /\ InfosOK(selected) /\ InfosOK(WhenInfo(call))
           /\ call.when = <<>> => WhenInfo(call) = <<>>
           /\ call.op \in Writes =>
                 /\ OneValueEach(infos)
                 /\ \A i, j \in DOMAIN infos : infos[i].column = infos[j].column => i = j
<1> DEFINE infos == GetPropertiesInfo(Props(call.doc), call.fields, call.doc)
           selected == GetPropertiesInfo(Props(call.doc), <<>>, call.doc)
<1>1. ListsProps(call) /\ call.op \in {"get", "find", "findAll"} \cup Writes
  BY DEF IsCall
<1>2. /\ IsSeq(call.doc) /\ IsSeq(call.fields) /\ IsSeq(call.when) /\ IsSeq(<<>>)
      /\ \A i \in DOMAIN call.doc : call.doc[i].v \in DocValues
      /\ \A i \in DOMAIN call.when : call.when[i].v \in DocValues
  BY <1>1, ShortSeqs, Zenon DEF ListsProps, IsSeq
<1>3. /\ InfosOK(infos)
      /\ \A i \in DOMAIN infos :
            infos[i].v = Plain \/ \E j \in DOMAIN call.doc : infos[i].v = call.doc[j].v
  BY <1>2, InfosAreOK
<1>4. InfosOK(selected)
  BY <1>2, InfosAreOK
<1>5. InfosOK(WhenInfo(call))
  BY <1>2, InfosAreOK DEF WhenInfo
<1>6. call.when = <<>> => WhenInfo(call) = <<>>
  BY DEF WhenInfo, GetPropertiesInfo, Props
<1>7. ASSUME call.op \in Writes
      PROVE  /\ OneValueEach(infos)
             /\ \A i, j \in DOMAIN infos : infos[i].column = infos[j].column => i = j
  <2>1. WritesColumnsOnce(call)
    BY <1>7 DEF IsCall
  <2>2. /\ \A i \in DOMAIN call.doc : call.doc[i].v.is # "and"
        /\ \A i, j \in DOMAIN infos : infos[i].column = infos[j].column => i = j
    BY <2>1 DEF WritesColumnsOnce
  <2>3. Plain.is # "and"
    BY DEF Plain
  <2> HIDE DEF infos
  <2> QED BY <1>3, <2>2, <2>3 DEF OneValueEach
<1> QED BY <1>1, <1>3, <1>4, <1>5, <1>6, <1>7

\* The queries of an INSERT.
LEMMA InsertQueries ==
    ASSUME NEW call, IsCall(call), call.op = "insert",
           NEW k \in DOMAIN CreateInsertQueries(call, AllNames)
    PROVE  LET q == CreateInsertQueries(call, AllNames)[k] IN QueryOK(q) /\ WritesItsPartition(q)
<1> DEFINE infos == GetPropertiesInfo(Props(call.doc), call.fields, call.doc)
           matching == {i \in DOMAIN Tables : MatchesInsert(Tables[i], infos)}
           tables == OneIf(call.exists, ForWrite(AllNames, matching))
           queries == CreateInsertQueries(call, AllNames)
           q == queries[k]
<1>1. /\ InfosOK(infos) /\ IsSeq(infos) /\ OneValueEach(infos)
      /\ \A i, j \in DOMAIN infos : infos[i].column = infos[j].column => i = j
  <2>1. call.op \in Writes
    BY DEF Writes
  <2> QED BY <2>1, CallFacts DEF InfosOK
<1>2. queries = [i \in DOMAIN tables |-> GetInsert(tables[i], call, infos)]
  BY Zenon DEF CreateInsertQueries, GetForInsert
<1>3. k \in DOMAIN tables /\ q = GetInsert(tables[k], call, infos)
  BY <1>2, Zenon
<1> HIDE DEF q
<1>4. PICK t \in DOMAIN Tables : t \in matching /\ tables[k] = Tables[t]
  <2>1. tables = OneIf(call.exists, ForWrite(AllNames, matching))
    OBVIOUS
  <2> HIDE DEF tables, matching
  <2> QED BY <1>3, <2>1, WriteTables
<1> HIDE DEF tables
<1>5. KeysAreIncluded(Tables[t].partitionKeys, infos) = "all"
  BY <1>4, Zenon DEF MatchesInsert
<1> HIDE DEF infos, matching
<1>6. q = GetInsert(Tables[t], call, infos)
  BY <1>3, <1>4, Zenon
<1>7. TableOK(Tables[t])
  BY TablesAreOK, Zenon
<1>8. QueryOK(q) /\ Restricts(Markers(q.query), infos, Tables[t])
  BY <1>1, <1>6, <1>7, InsertFits, Zenon DEF QueryOK
<1>9. \A c \in ToSet(Tables[t].partitionKeys) : \E i \in DOMAIN infos : infos[i].column = c
  BY <1>1, <1>5, <1>7, IncludedKeys, Zenon DEF TableOK
<1>10. q.query.table = Tables[t].name
  BY <1>6, Zenon DEF GetInsert, Query, Statement
<1>11. WritesItsPartition(q)
  BY <1>8, <1>9, <1>10, WholePartition
<1> QED BY <1>8, <1>11 DEF q

\* The queries of an UPDATE.
LEMMA UpdateQueries ==
    ASSUME NEW call, IsCall(call), call.op = "update", ~ThrowsAtOnce(call),
           NEW k \in DOMAIN CreateUpdateQueries(call, AllNames)
    PROVE  LET q == CreateUpdateQueries(call, AllNames)[k] IN QueryOK(q) /\ WritesItsPartition(q)
<1> DEFINE infos == GetPropertiesInfo(Props(call.doc), call.fields, call.doc)
           when == WhenInfo(call)
           matching == {i \in DOMAIN Tables : MatchesUpdate(Tables[i], infos, when)}
           tables == OneIf(when # <<>> \/ call.exists, ForWrite(AllNames, matching))
           queries == CreateUpdateQueries(call, AllNames)
           q == queries[k]
<1>1. /\ InfosOK(infos) /\ IsSeq(infos) /\ OneValueEach(infos)
      /\ InfosOK(when) /\ (call.exists => when = <<>>)
      /\ \A i, j \in DOMAIN infos : infos[i].column = infos[j].column => i = j
  <2>1. call.op \in Writes /\ (call.exists => call.when = <<>>)
    BY DEF Writes, ThrowsAtOnce
  <2> QED BY <2>1, CallFacts DEF InfosOK
<1>2. queries = [i \in DOMAIN tables |-> GetUpdate(tables[i], call, infos, when)]
  BY Zenon DEF CreateUpdateQueries, GetForUpdate
<1>3. k \in DOMAIN tables /\ q = GetUpdate(tables[k], call, infos, when)
  BY <1>2, Zenon
<1> HIDE DEF q
<1>4. PICK t \in DOMAIN Tables : t \in matching /\ tables[k] = Tables[t]
  <2>1. tables = OneIf(when # <<>> \/ call.exists, ForWrite(AllNames, matching))
    OBVIOUS
  <2> HIDE DEF tables, matching
  <2> QED BY <1>3, <2>1, WriteTables
<1> HIDE DEF tables
<1>5. KeysAreIncluded(Tables[t].partitionKeys, infos) = "all"
  BY <1>4, Zenon DEF MatchesUpdate
<1> HIDE DEF infos, matching, when
<1>6. q = GetUpdate(Tables[t], call, infos, when)
  BY <1>3, <1>4, Zenon
<1>7. TableOK(Tables[t])
  BY TablesAreOK, Zenon
<1>8. QueryOK(q) /\ Restricts(Markers(q.query), infos, Tables[t])
  BY <1>1, <1>6, <1>7, UpdateFits, Zenon DEF QueryOK
<1>9. \A c \in ToSet(Tables[t].partitionKeys) : \E i \in DOMAIN infos : infos[i].column = c
  BY <1>1, <1>5, <1>7, IncludedKeys, Zenon DEF TableOK
<1>10. q.query.table = Tables[t].name
  BY <1>6, Zenon DEF GetUpdate, Query, Statement
<1>11. WritesItsPartition(q)
  BY <1>8, <1>9, <1>10, WholePartition
<1> QED BY <1>8, <1>11 DEF q

\* The queries of a DELETE.
LEMMA DeleteQueries ==
    ASSUME NEW call, IsCall(call), call.op = "remove", ~ThrowsAtOnce(call),
           NEW k \in DOMAIN CreateDeleteQueries(call, AllNames)
    PROVE  LET q == CreateDeleteQueries(call, AllNames)[k] IN QueryOK(q) /\ WritesItsPartition(q)
<1> DEFINE infos == GetPropertiesInfo(Props(call.doc), call.fields, call.doc)
           when == WhenInfo(call)
           matching == {i \in DOMAIN Tables : MatchesDelete(Tables[i], infos, when)}
           tables == OneIf(when # <<>> \/ call.exists, ForWrite(AllNames, matching))
           queries == CreateDeleteQueries(call, AllNames)
           q == queries[k]
<1>1. /\ InfosOK(infos) /\ IsSeq(infos) /\ OneValueEach(infos)
      /\ InfosOK(when) /\ (call.exists => when = <<>>)
      /\ \A i, j \in DOMAIN infos : infos[i].column = infos[j].column => i = j
  <2>1. call.op \in Writes /\ (call.exists => call.when = <<>>)
    BY DEF Writes, ThrowsAtOnce
  <2> QED BY <2>1, CallFacts DEF InfosOK
<1>2. queries = [i \in DOMAIN tables |-> GetDelete(tables[i], call, infos, when)]
  BY Zenon DEF CreateDeleteQueries, GetForDelete
<1>3. k \in DOMAIN tables /\ q = GetDelete(tables[k], call, infos, when)
  BY <1>2, Zenon
<1> HIDE DEF q
<1>4. PICK t \in DOMAIN Tables : t \in matching /\ tables[k] = Tables[t]
  <2>1. tables = OneIf(when # <<>> \/ call.exists, ForWrite(AllNames, matching))
    OBVIOUS
  <2> HIDE DEF tables, matching
  <2> QED BY <1>3, <2>1, WriteTables
<1> HIDE DEF tables
<1>5. ToSet(PrimaryKeys(Tables[t])) \subseteq {infos[i].column : i \in DOMAIN infos}
  BY <1>4, Zenon DEF MatchesDelete
<1> HIDE DEF infos, matching, when
<1>6. q = GetDelete(Tables[t], call, infos, when)
  BY <1>3, <1>4, Zenon
<1>7. TableOK(Tables[t])
  BY TablesAreOK, Zenon
<1>8. QueryOK(q) /\ Restricts(Markers(q.query), infos, Tables[t])
  BY <1>1, <1>6, <1>7, DeleteFits, Zenon DEF QueryOK
<1>9. \A c \in ToSet(Tables[t].partitionKeys) : \E i \in DOMAIN infos : infos[i].column = c
  BY <1>5, <1>7, ConcatHas, Zenon DEF TableOK, PrimaryKeys
<1>10. q.query.table = Tables[t].name
  BY <1>6, Zenon DEF GetDelete, Query, Statement
<1>11. WritesItsPartition(q)
  BY <1>8, <1>9, <1>10, WholePartition
<1> QED BY <1>8, <1>11 DEF q

\* The queries of a SELECT.
LEMMA SelectQueriesFit ==
    ASSUME NEW call, IsCall(call), NEW k \in DOMAIN SelectQueries(call, AllNames)
    PROVE  QueryOK(SelectQueries(call, AllNames)[k])
<1> DEFINE infos == GetPropertiesInfo(Props(call.doc), <<>>, call.doc)
           fields == GetPropertiesInfo(<<>>, call.fields, call.doc)
           tables == IF call.op = "findAll" THEN <<Tables[1]>>
                     ELSE GetForSelect(AllNames, call.op = "get", infos, fields, OrderByInfo(call))
           queries == SelectQueries(call, AllNames)
<1>1. InfosOK(infos)
  BY CallFacts
<1>2. queries = [i \in DOMAIN tables |-> GetSelect(tables[i], call, infos, fields)]
  BY Zenon DEF SelectQueries
<1>3. k \in DOMAIN queries
  OBVIOUS
<1> HIDE DEF tables, infos, fields, queries
<1>4. queries[k] = GetSelect(tables[k], call, infos, fields)
  BY <1>2, <1>3, Zenon
<1>5. QueryOK(queries[k])
  BY <1>1, <1>4, SelectFits, Zenon DEF QueryOK
<1> QED BY <1>5 DEF queries

\* The queries of any call.
LEMMA QueriesFit ==
    ASSUME NEW call, IsCall(call), NEW q \in ToSet(Queries(call, AllNames))
    PROVE  QueryOK(q) /\ (call.op \in Writes => WritesItsPartition(q))
<1>1. PICK k \in DOMAIN Queries(call, AllNames) : q = Queries(call, AllNames)[k]
  BY DEF ToSet
<1>2. call.op \in {"get", "find", "findAll"} \cup Writes
  BY CallFacts
<1>3. CASE ThrowsAtOnce(call)
  <2>1. Queries(call, AllNames) = <<>>
    BY <1>3 DEF Queries
  <2> QED BY <1>1, <2>1
<1>4. CASE ~ThrowsAtOnce(call) /\ call.op \in {"get", "find", "findAll"}
  <2>1. Queries(call, AllNames) = SelectQueries(call, AllNames) /\ call.op \notin Writes
    BY <1>4 DEF Queries, Writes
  <2> QED BY <1>1, <2>1, SelectQueriesFit, Zenon
<1>5. CASE ~ThrowsAtOnce(call) /\ call.op = "insert"
  <2>1. Queries(call, AllNames) = CreateInsertQueries(call, AllNames)
    BY <1>5 DEF Queries
  <2> QED BY <1>1, <1>5, <2>1, InsertQueries, Zenon
<1>6. CASE ~ThrowsAtOnce(call) /\ call.op = "update"
  <2>1. Queries(call, AllNames) = CreateUpdateQueries(call, AllNames)
    BY <1>6 DEF Queries
  <2> QED BY <1>1, <1>6, <2>1, UpdateQueries, Zenon
<1>7. CASE ~ThrowsAtOnce(call) /\ call.op = "remove"
  <2>1. Queries(call, AllNames) = CreateDeleteQueries(call, AllNames)
    BY <1>7 DEF Queries
  <2> QED BY <1>1, <1>7, <2>1, DeleteQueries, Zenon
<1> QED BY <1>2, <1>3, <1>4, <1>5, <1>6, <1>7 DEF Writes

=============================================================================
