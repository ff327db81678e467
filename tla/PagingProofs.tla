---------------------------- MODULE PagingProofs ----------------------------
(***************************************************************************)
(* The two readers of a paged result give its rows in order, each once,    *)
(* and the stream asks for pages one at a time: proofs for every set of    *)
(* results and every high water mark.                                      *)
(*                                                                         *)
(* The stream's handlers are functions on a record (Now, Read, Add, ...),  *)
(* so the lemmas come in three layers: sequences and UpTo; what each       *)
(* function does to the rows of the record; what each action does to the   *)
(* invariant.                                                              *)
(***************************************************************************)
EXTENDS Paging, SequenceTheorems, WellFoundedInduction, TLAPS

-----------------------------------------------------------------------------
(* Sequences, and the rows of the first pages of a result.                 *)

\* Induction over the natural numbers, for a set T instead of a formula.
LEMMA Induction ==
  ASSUME NEW T, 0 \in T, \A n \in Nat : n \in T => n + 1 \in T
  PROVE  \A n \in Nat : n \in T
<1> DEFINE U == Nat \ T
           R == OpToRel(<, Nat)
<1>1. SUFFICES ASSUME U # {} PROVE FALSE
  OBVIOUS
<1>2. \E x \in U : \A y \in U : ~(<<y, x>> \in R)
  <2> HIDE DEF R
  <2>1. IsWellFoundedOn(R, Nat)
    BY NatLessThanWellFounded DEF R
  <2>2. U \subseteq Nat
    OBVIOUS
  <2> HIDE DEF U
  <2> QED BY <1>1, <2>1, <2>2, WFMin
<1>3. PICK x \in U : \A y \in U : ~(<<y, x>> \in R)
  BY <1>2
<1>4. \A y \in U : ~(y < x)
  BY <1>3 DEF OpToRel
<1>5. x # 0 /\ x - 1 \in Nat
  OBVIOUS
<1> QED BY <1>4, <1>5

\* The function that UpTo evaluates.
PagesRows(s) == CHOOSE f : f = [p \in 0..Len(s) |-> IF p = 0 THEN <<>> ELSE f[p-1] \o s[p]]

\* The recursive function behind UpTo exists: it satisfies the equation that
\* defines it.
LEMMA PagesRowsExists ==
  ASSUME NEW S, NEW s \in Seq(Seq(S))
  PROVE  PagesRows(s) = [p \in 0..Len(s) |-> IF p = 0 THEN <<>> ELSE PagesRows(s)[p-1] \o s[p]]
<1> DEFINE Defined(n, f) == f = [p \in 0..n |-> IF p = 0 THEN <<>> ELSE f[p-1] \o s[p]]
           T == {n \in Nat : \E f : Defined(n, f)}
<1>1. 0 \in T
  <2>1. Defined(0, [p \in 0..0 |-> <<>>])
    OBVIOUS
  <2> QED BY <2>1
<1>2. ASSUME NEW n \in Nat, n \in T PROVE n + 1 \in T
  <2>1. PICK f : Defined(n, f)
    BY <1>2
  <2> DEFINE g == [p \in 0..(n + 1) |-> IF p = n + 1 THEN f[p-1] \o s[p] ELSE f[p]]
  <2>2. \A p \in 0..n : g[p] = f[p]
    OBVIOUS
  <2>3. ASSUME NEW p \in 0..(n + 1)
        PROVE  g[p] = IF p = 0 THEN <<>> ELSE g[p-1] \o s[p]
    <3>1. CASE p = n + 1
      <4>1. p # 0 /\ p - 1 \in 0..n
        BY <3>1
      <4> QED BY <3>1, <4>1, <2>2
    <3>2. CASE p \in 0..n
      <4>1. p = 0 \/ p - 1 \in 0..n
        BY <3>2
      <4>2. g[p] = f[p]
        BY <3>2
      <4>3. f[p] = IF p = 0 THEN <<>> ELSE f[p-1] \o s[p]
        BY <2>1, <3>2
      <4> QED BY <4>1, <4>2, <4>3, <2>2
    <3> QED BY <3>1, <3>2
  <2>4. Defined(n + 1, g)
    <3> DEFINE h == [p \in 0..(n + 1) |-> IF p = 0 THEN <<>> ELSE g[p-1] \o s[p]]
    <3>1. g = h
      <4>1. \A p \in 0..(n + 1) : g[p] = h[p]
        BY <2>3
      <4> QED BY <4>1
    <3> QED BY <3>1
  <2> HIDE DEF g, Defined
  <2>5. \E h : Defined(n + 1, h)
    BY <2>4
  <2> QED BY <2>5
<1>3. Len(s) \in T
  <2> HIDE DEF T
  <2> QED BY <1>1, <1>2, Induction
<1> QED BY <1>3 DEF PagesRows

\* The first 0 pages of a result have no rows.
LEMMA UpToZero ==
  ASSUME NEW S, NEW s \in Seq(Seq(S))
  PROVE  UpTo(s, 0) = <<>>
<1> DEFINE F == PagesRows(s)
           G == [p \in 0..Len(s) |-> IF p = 0 THEN <<>> ELSE F[p-1] \o s[p]]
<1>1. F = G
  BY PagesRowsExists
<1>2. G[0] = <<>>
  OBVIOUS
<1> HIDE DEF G
<1>3. UpTo(s, 0) = F[0]
  BY DEF UpTo, PagesRows
<1> HIDE DEF F
<1> QED BY <1>1, <1>2, <1>3

\* One page more adds its rows after those of the pages before it.
LEMMA UpToStep ==
  ASSUME NEW S, NEW s \in Seq(Seq(S)), NEW p \in 0..(Len(s) - 1)
  PROVE  UpTo(s, p + 1) = UpTo(s, p) \o s[p + 1]
<1> DEFINE F == PagesRows(s)
           G == [q \in 0..Len(s) |-> IF q = 0 THEN <<>> ELSE F[q-1] \o s[q]]
<1>1. F = G
  BY PagesRowsExists
<1>2. G[p + 1] = F[p] \o s[p + 1]
  <2>1. p + 1 \in 0..Len(s)
    OBVIOUS
  <2> HIDE DEF F
  <2>2. G[p + 1] = IF p + 1 = 0 THEN <<>> ELSE F[p + 1 - 1] \o s[p + 1]
    BY <2>1
  <2>3. p + 1 # 0 /\ p + 1 - 1 = p
    OBVIOUS
  <2> HIDE DEF G
  <2> QED BY <2>2, <2>3, Zenon
<1> HIDE DEF G
<1>3. UpTo(s, p + 1) = F[p + 1] /\ UpTo(s, p) = F[p]
  BY DEF UpTo, PagesRows
<1> HIDE DEF F
<1> QED BY <1>1, <1>2, <1>3

\* The rows of the first pages are rows.
LEMMA UpToType ==
  ASSUME NEW S, NEW s \in Seq(Seq(S))
  PROVE  \A p \in 0..Len(s) : UpTo(s, p) \in Seq(S)
<1> DEFINE P(p) == p <= Len(s) => UpTo(s, p) \in Seq(S)
<1>1. P(0)
  <2>1. UpTo(s, 0) = <<>>
    BY UpToZero
  <2>2. <<>> \in Seq(S)
    OBVIOUS
  <2> QED BY <2>1, <2>2, Zenon
<1>2. ASSUME NEW p \in Nat, P(p) PROVE P(p + 1)
  <2>1. SUFFICES ASSUME p + 1 <= Len(s) PROVE UpTo(s, p + 1) \in Seq(S)
    OBVIOUS
  <2>2. UpTo(s, p + 1) = UpTo(s, p) \o s[p + 1]
    BY <2>1, UpToStep
  <2>3. UpTo(s, p) \in Seq(S) /\ s[p + 1] \in Seq(S)
    BY <1>2, <2>1
  <2>4. UpTo(s, p) \o s[p + 1] \in Seq(S)
    BY <2>3, ConcatProperties, Zenon
  <2> QED BY <2>2, <2>4, Zenon
<1>3. \A n \in Nat : P(n)
  <2> DEFINE T == {n \in Nat : P(n)}
  <2> HIDE DEF P
  <2>1. 0 \in T /\ \A n \in Nat : n \in T => n + 1 \in T
    BY <1>1, <1>2
  <2>2. \A n \in Nat : n \in T
    <3> HIDE DEF T
    <3> QED BY <2>1, Induction
  <2> QED BY <2>2
<1> QED BY <1>3

\* A sequence is a prefix of itself,
LEMMA PrefixOfItself ==
  ASSUME NEW S, NEW a \in Seq(S)
  PROVE  IsPrefix(a, a)
<1>1. Len(a) \in Nat /\ SubSeq(a, 1, Len(a)) = a
  BY SubSeqFull
<1> QED BY <1>1 DEF IsPrefix

\* and stays a prefix of what it is a prefix of when that one grows at its end.
LEMMA PrefixExtends ==
  ASSUME NEW S, NEW a \in Seq(S), NEW u \in Seq(S), NEW b \in Seq(S), IsPrefix(a, u)
  PROVE  IsPrefix(a, u \o b)
<1>1. Len(a) <= Len(u) /\ a = SubSeq(u, 1, Len(a))
  BY DEF IsPrefix
<1>2. Len(u \o b) = Len(u) + Len(b)
  OBVIOUS
<1>3. SubSeq(u \o b, 1, Len(a)) = SubSeq(u, 1, Len(a))
  <2>1. CASE Len(a) = 0
    BY <2>1, SubSeqEmpty
  <2>2. CASE Len(a) # 0
    <3>1. 1 \in 1..Len(u) /\ Len(a) \in 1..Len(u)
      BY <1>1, <2>2
    <3> QED BY <3>1, SubSeqOfConcat1
  <2> QED BY <2>1, <2>2
<1> QED BY <1>1, <1>2, <1>3 DEF IsPrefix

\* What starts the rows of the first p pages starts those of more pages.
LEMMA UpToPrefix ==
  ASSUME NEW S, NEW s \in Seq(Seq(S)), NEW p \in 0..Len(s),
         NEW a \in Seq(S), IsPrefix(a, UpTo(s, p))
  PROVE  \A q \in p..Len(s) : IsPrefix(a, UpTo(s, q))
<1> DEFINE P(q) == p <= q /\ q <= Len(s) => IsPrefix(a, UpTo(s, q))
<1>1. P(0)
  <2>1. p <= 0 => p = 0
    OBVIOUS
  <2> QED BY <2>1
<1>2. ASSUME NEW q \in Nat, P(q) PROVE P(q + 1)
  <2>1. CASE q + 1 = p
    BY <2>1
  <2>2. CASE p <= q /\ q + 1 <= Len(s)
    <3>1. IsPrefix(a, UpTo(s, q))
      BY <1>2, <2>2
    <3>2. UpTo(s, q + 1) = UpTo(s, q) \o s[q + 1]
      BY <2>2, UpToStep
    <3>3. UpTo(s, q) \in Seq(S) /\ s[q + 1] \in Seq(S)
      BY <2>2, UpToType
    <3>4. IsPrefix(a, UpTo(s, q) \o s[q + 1])
      BY <3>1, <3>3, PrefixExtends
    <3> QED BY <3>2, <3>4
  <2> QED BY <2>1, <2>2
<1>3. \A n \in Nat : P(n)
  <2> DEFINE T == {n \in Nat : P(n)}
  <2> HIDE DEF P
  <2>1. 0 \in T /\ \A n \in Nat : n \in T => n + 1 \in T
    BY <1>1, <1>2
  <2>2. \A n \in Nat : n \in T
    <3> HIDE DEF T
    <3> QED BY <2>1, Induction
  <2> QED BY <2>2
<1> QED BY <1>3

\* A sequence is the first n of its elements and the others after them.
LEMMA Cut ==
  ASSUME NEW S, NEW b \in Seq(S), NEW n \in 0..Len(b)
  PROVE  /\ SubSeq(b, 1, n) \in Seq(S) /\ Len(SubSeq(b, 1, n)) = n
         /\ SubSeq(b, n + 1, Len(b)) \in Seq(S) /\ Len(SubSeq(b, n + 1, Len(b))) = Len(b) - n
         /\ SubSeq(b, 1, n) \o SubSeq(b, n + 1, Len(b)) = b
<1>1. SubSeq(b, 1, n) \in Seq(S) /\ Len(SubSeq(b, 1, n)) = n
  BY SubSeqProperties
<1>2. SubSeq(b, n + 1, Len(b)) \in Seq(S) /\ Len(SubSeq(b, n + 1, Len(b))) = Len(b) - n
  BY SubSeqProperties
<1>3. SubSeq(b, 1, n) \o SubSeq(b, n + 1, Len(b)) = b
  <2>1. 1 \in 1..(Len(b) + 1) /\ n \in (1 - 1)..Len(b) /\ Len(b) \in n..Len(b)
    OBVIOUS
  <2>2. SubSeq(b, 1, n) \o SubSeq(b, n + 1, Len(b)) = SubSeq(b, 1, Len(b))
    BY <2>1, ConcatAdjacentSubSeq
  <2> QED BY <2>2, SubSeqFull
<1> QED BY <1>1, <1>2, <1>3

\* Cutting r with an end marker at a place before the marker cuts r there.
LEMMA CutBeforeEnd ==
  ASSUME NEW S, NEW r \in Seq(S), NEW e, NEW n \in 0..Len(r)
  PROVE  /\ SubSeq(Append(r, e), 1, n) = SubSeq(r, 1, n)
         /\ SubSeq(Append(r, e), n + 1, Len(r) + 1) = Append(SubSeq(r, n + 1, Len(r)), e)
<1> DEFINE T == S \cup {e}
           b == Append(r, e)
<1>0. r \in Seq(T) /\ e \in T /\ b \in Seq(T) /\ Len(b) = Len(r) + 1
  BY SeqMonotonic
<1>0a. /\ \A i \in 1..Len(r) : b[i] = r[i]
       /\ b[Len(r) + 1] = e
  OBVIOUS
<1> HIDE DEF b, T
<1>1. SubSeq(b, 1, n) = SubSeq(r, 1, n)
  <2>1. /\ SubSeq(b, 1, n) \in Seq(T) /\ Len(SubSeq(b, 1, n)) = n
        /\ \A i \in 1..n : SubSeq(b, 1, n)[i] = b[i]
    BY <1>0, SubSeqProperties
  <2>2. /\ SubSeq(r, 1, n) \in Seq(T) /\ Len(SubSeq(r, 1, n)) = n
        /\ \A i \in 1..n : SubSeq(r, 1, n)[i] = r[i]
    BY <1>0, SubSeqProperties
  <2>3. \A i \in 1..n : SubSeq(b, 1, n)[i] = SubSeq(r, 1, n)[i]
    BY <2>1, <2>2, <1>0a
  <2> QED BY <2>1, <2>2, <2>3, SeqEqual
<1>2. SubSeq(b, n + 1, Len(r) + 1) = Append(SubSeq(r, n + 1, Len(r)), e)
  <2> DEFINE x == SubSeq(b, n + 1, Len(r) + 1)
             z == SubSeq(r, n + 1, Len(r))
             y == Append(z, e)
  <2>1. /\ x \in Seq(T) /\ Len(x) = Len(r) + 1 - n
        /\ \A i \in 1..(Len(r) + 1 - n) : x[i] = b[n + i]
    <3>1. /\ \A i \in (n + 1)..(Len(r) + 1) : b[i] \in T
          /\ n + 1 \in Int /\ Len(r) + 1 \in Int
      BY <1>0
    <3>2. /\ x \in Seq(T)
          /\ Len(x) = IF n + 1 <= Len(r) + 1 THEN Len(r) + 1 - (n + 1) + 1 ELSE 0
          /\ \A i \in 1..(Len(r) + 1 - (n + 1) + 1) : x[i] = b[n + 1 + i - 1]
      BY <3>1, SubSeqProperties
    <3> HIDE DEF x
    <3> QED BY <3>2
  <2>2. /\ z \in Seq(T) /\ Len(z) = Len(r) - n
        /\ \A i \in 1..(Len(r) - n) : z[i] = r[n + i]
    <3>1. /\ \A i \in (n + 1)..Len(r) : r[i] \in T
          /\ n + 1 \in Int /\ Len(r) \in Int
      BY <1>0
    <3>2. /\ z \in Seq(T)
          /\ Len(z) = IF n + 1 <= Len(r) THEN Len(r) - (n + 1) + 1 ELSE 0
          /\ \A i \in 1..(Len(r) - (n + 1) + 1) : z[i] = r[n + 1 + i - 1]
      BY <3>1, SubSeqProperties
    <3> HIDE DEF z
    <3> QED BY <3>2
  <2> HIDE DEF x, z
  <2>3. /\ y \in Seq(T) /\ Len(y) = Len(r) + 1 - n
        /\ \A i \in 1..(Len(r) - n) : y[i] = z[i]
        /\ y[Len(r) - n + 1] = e
    BY <1>0, <2>2
  <2> HIDE DEF y
  <2>4. \A i \in 1..(Len(r) + 1 - n) : x[i] = y[i]
    <3> TAKE i \in 1..(Len(r) + 1 - n)
    <3>1. CASE i = Len(r) + 1 - n
      BY <3>1, <2>1, <2>3, <1>0a
    <3>2. CASE i \in 1..(Len(r) - n)
      <4>1. n + i \in 1..Len(r)
        BY <3>2
      <4> QED BY <3>2, <4>1, <2>1, <2>2, <2>3, <1>0a
    <3> QED BY <3>1, <3>2
  <2>5. x = y
    BY <2>1, <2>3, <2>4, SeqEqual
  <2> QED BY <2>5 DEF x, y, z
<1> QED BY <1>1, <1>2 DEF b

\* Cutting r with an end marker after the marker takes all of it, and Front
\* gives r back.
LEMMA CutAtEnd ==
  ASSUME NEW S, NEW r \in Seq(S), NEW e
  PROVE  /\ SubSeq(Append(r, e), 1, Len(r) + 1) = Append(r, e)
         /\ SubSeq(Append(r, e), Len(r) + 2, Len(r) + 1) = <<>>
         /\ Front(Append(r, e)) = r
<1> DEFINE T == S \cup {e}
<1>0. r \in Seq(T) /\ e \in T /\ Append(r, e) \in Seq(T) /\ Len(Append(r, e)) = Len(r) + 1
  BY SeqMonotonic
<1>1. SubSeq(Append(r, e), 1, Len(r) + 1) = Append(r, e)
  BY <1>0, SubSeqFull
<1>2. SubSeq(Append(r, e), Len(r) + 2, Len(r) + 1) = <<>>
  BY SubSeqEmpty
<1>3. Front(Append(r, e)) = SubSeq(r, 1, Len(r))
  <2>1. Len(r) \in 0..Len(r) /\ Len(r) + 1 - 1 = Len(r)
    OBVIOUS
  <2>2. SubSeq(Append(r, e), 1, Len(r)) = SubSeq(r, 1, Len(r))
    BY <2>1, CutBeforeEnd
  <2> QED BY <1>0, <2>1, <2>2 DEF Front
<1> QED BY <1>1, <1>2, <1>3, SubSeqFull

-----------------------------------------------------------------------------
(* The functions the handlers are composed of.                             *)

\* The records the steps of a handler are composed of.
StreamState ==
  [buffer : Seq(RowSet \cup {Null}), paused : BOOLEAN, readNext : BOOLEAN,
   readable : Seq(RowSet), eof : BOOLEAN, asks : Nat]

\* A buffer without and with the end marker.
Open(b) == b \in Seq(RowSet)
Closed(b) == \E r \in Seq(RowSet) : b = Append(r, Null)

\* All of a buffer without an end marker is rows.
LEMMA OpenRows ==
  ASSUME NEW b, Open(b)
  PROVE  b \in Seq(RowSet \cup {Null}) /\ RowsIn(b) = b /\ RowsIn(b) \in Seq(RowSet)
<1>1. b \in Seq(RowSet \cup {Null})
  BY SeqMonotonic DEF Open
<1>2. b # <<>> => b[Len(b)] \in RowSet
  BY DEF Open
<1> QED BY <1>1, <1>2, RowStreamAssumption DEF Open, RowsIn, RowStreamAssumption

\* The rows of a buffer with an end marker are the ones before the marker.
LEMMA ClosedRows ==
  ASSUME NEW r \in Seq(RowSet)
  PROVE  /\ Append(r, Null) \in Seq(RowSet \cup {Null}) /\ Append(r, Null) # <<>>
         /\ Len(Append(r, Null)) = Len(r) + 1
         /\ RowsIn(Append(r, Null)) = r
<1> DEFINE b == Append(r, Null)
<1>1. r \in Seq(RowSet \cup {Null})
  BY SeqMonotonic
<1>2. b \in Seq(RowSet \cup {Null}) /\ b # <<>> /\ Len(b) = Len(r) + 1 /\ b[Len(b)] = Null
  BY <1>1, AppendProperties
<1>3. Front(b) = r
  BY CutAtEnd
<1> QED BY <1>2, <1>3 DEF RowsIn

\* The end of _read() leaves the rows where they are and at most sends the
\* request that was kept, when nothing is buffered.
LEMMA ReadRestFields ==
  ASSUME NEW s \in StreamState
  PROVE  LET t == ReadRest(s) IN
         /\ t \in StreamState
         /\ t.buffer = s.buffer /\ t.readable = s.readable /\ t.eof = s.eof
         /\ \/ t.asks = s.asks /\ t.readNext = s.readNext
            \/ t.asks = s.asks + 1 /\ s.readNext /\ ~t.readNext /\ t.buffer = <<>>
<1> DEFINE u == [s EXCEPT !.asks = @ + 1, !.readNext = FALSE]
<1>1. /\ u.buffer = s.buffer /\ u.readable = s.readable /\ u.eof = s.eof
      /\ u.asks = s.asks + 1 /\ u.readNext = FALSE
  BY Zenon DEF StreamState
<1>1a. u \in StreamState
  <2>1. \A k \in Nat, f \in BOOLEAN : [s EXCEPT !.asks = k, !.readNext = f] \in StreamState
    BY DEF StreamState
  <2>2. s.asks + 1 \in Nat
    BY DEF StreamState
  <2> QED BY <2>1, <2>2, Zenon
<1> HIDE DEF u
<1>2. CASE ~s.paused /\ s.buffer = <<>> /\ s.readNext
  <2>1. ReadRest(s) = u
    BY <1>2 DEF ReadRest, u
  <2> QED BY <1>1, <1>1a, <1>2, <2>1
<1>3. CASE ~(~s.paused /\ s.buffer = <<>> /\ s.readNext)
  <2>1. ReadRest(s) = s
    BY <1>3, Zenon DEF ReadRest
  <2> QED BY <2>1
<1> QED BY <1>2, <1>3

\* The number of chunks _read() pushes.
Pushed(s) == IF Len(s.buffer) < Room(s) THEN Len(s.buffer) ELSE Room(s)

\* _read() pushes no more than there is, fills the Readable at most up to its
\* high water mark, and pushes a single chunk when it is full already.
LEMMA PushedBounds ==
  ASSUME NEW s \in StreamState
  PROVE  /\ Pushed(s) \in 0..Len(s.buffer)
         /\ Len(s.readable) < HighWaterMark => Len(s.readable) + Pushed(s) <= HighWaterMark
         /\ Len(s.readable) >= HighWaterMark => Pushed(s) <= 1
<1>1. Len(s.buffer) \in Nat /\ Len(s.readable) \in Nat /\ HighWaterMark \in Nat
  BY RowStreamAssumption DEF StreamState, RowStreamAssumption
<1>2. /\ Len(s.readable) < HighWaterMark => Room(s) = HighWaterMark - Len(s.readable)
      /\ Len(s.readable) >= HighWaterMark => Room(s) = 1
  <2>1. Room(s) = IF Len(s.readable) < HighWaterMark THEN HighWaterMark - Len(s.readable) ELSE 1
    BY Zenon DEF Room
  <2>2. Len(s.readable) >= HighWaterMark => ~(Len(s.readable) < HighWaterMark)
    BY <1>1
  <2> QED BY <2>1, <2>2, Zenon
<1>3. \/ Pushed(s) = Len(s.buffer) /\ Len(s.buffer) < Room(s)
      \/ Pushed(s) = Room(s) /\ ~(Len(s.buffer) < Room(s))
  BY DEF Pushed
<1> QED BY <1>1, <1>2, <1>3

\* What _read() leaves in each field, given the rows it pushed.
LEMMA ReadFields ==
  ASSUME NEW s \in StreamState,
         NEW rows, NEW end \in BOOLEAN,
         end = (Pushed(s) > 0 /\ SubSeq(s.buffer, 1, Pushed(s))[Pushed(s)] = Null),
         rows = s.readable \o (IF end THEN Front(SubSeq(s.buffer, 1, Pushed(s)))
                                      ELSE SubSeq(s.buffer, 1, Pushed(s))),
         rows \in Seq(RowSet)
  PROVE  LET t == Read(s) IN
         /\ t \in StreamState
         /\ t.buffer = SubSeq(s.buffer, Pushed(s) + 1, Len(s.buffer))
         /\ t.readable = rows
         /\ t.eof = (s.eof \/ end)
         /\ \/ t.asks = s.asks /\ t.readNext = s.readNext
            \/ t.asks = s.asks + 1 /\ s.readNext /\ ~t.readNext /\ t.buffer = <<>>
<1> DEFINE n == Pushed(s)
           rest == SubSeq(s.buffer, n + 1, Len(s.buffer))
           p == n > 0 /\ (end \/ Len(rows) >= HighWaterMark)
           u == [s EXCEPT !.buffer = rest, !.readable = rows, !.eof = @ \/ end, !.paused = p]
<1>1. Read(s) = ReadRest(u)
  BY Zenon DEF Read, Pushed
<1>2. rest \in Seq(RowSet \cup {Null})
  <2>1. s.buffer \in Seq(RowSet \cup {Null}) /\ n \in 0..Len(s.buffer)
    BY PushedBounds DEF StreamState
  <2> HIDE DEF n
  <2> QED BY <2>1, Cut
<1>3. p \in BOOLEAN
  OBVIOUS
<1> HIDE DEF p, rest
<1>4. /\ u \in StreamState /\ u.buffer = rest /\ u.readable = rows /\ u.eof = (s.eof \/ end)
      /\ u.asks = s.asks /\ u.readNext = s.readNext
  BY <1>2, <1>3 DEF StreamState
<1> HIDE DEF u
<1>5. LET t == ReadRest(u) IN
      /\ t \in StreamState
      /\ t.buffer = u.buffer /\ t.readable = u.readable /\ t.eof = u.eof
      /\ \/ t.asks = u.asks /\ t.readNext = u.readNext
         \/ t.asks = u.asks + 1 /\ u.readNext /\ ~t.readNext /\ t.buffer = <<>>
  BY <1>4, ReadRestFields
<1> QED BY <1>1, <1>4, <1>5, Zenon DEF rest

\* From s to t, at most the request that was kept is sent, and only when the
\* buffer is empty.
Asked(s, t) ==
  \/ t.asks = s.asks /\ t.readNext = s.readNext
  \/ t.asks = s.asks + 1 /\ s.readNext /\ ~t.readNext /\ t.buffer = <<>>

\* A buffer holds an end marker at its end, or none.
Marked(s) == Open(s.buffer) \/ Closed(s.buffer)

\* From s to t, rows were moved to the Readable, and the end marker after them.
Moved(s, t) ==
  /\ t \in StreamState
  /\ t.readable \o RowsIn(t.buffer) = s.readable \o RowsIn(s.buffer)
  /\ Open(s.buffer) => Open(t.buffer) /\ t.eof = s.eof
  /\ Closed(s.buffer) => \/ Closed(t.buffer) /\ t.eof = s.eof
                         \/ t.buffer = <<>> /\ t.eof
  /\ Len(RowsIn(t.buffer)) <= Len(RowsIn(s.buffer))

\* A buffer is not both with and without an end marker.
LEMMA OpenNotClosed ==
  ASSUME NEW b, Open(b)
  PROVE  ~Closed(b)
<1> SUFFICES ASSUME NEW r \in Seq(RowSet), b = Append(r, Null) PROVE FALSE
  BY DEF Closed
<1>1. b[Len(r) + 1] = Null /\ Len(b) = Len(r) + 1
  OBVIOUS
<1>2. b[Len(r) + 1] \in RowSet
  BY <1>1 DEF Open
<1> QED BY <1>1, <1>2, RowStreamAssumption DEF RowStreamAssumption

\* Concatenation is associative: the form in which the proofs below use it.
LEMMA RowsAssociate ==
  \A a, b, c \in Seq(RowSet) : (a \o b) \o c = a \o (b \o c)
BY ConcatAssociative

\* _read() on a buffer without an end marker.
LEMMA ReadOpen ==
  ASSUME NEW s \in StreamState, Open(s.buffer)
  PROVE  LET t == Read(s) IN
         Moved(s, t) /\ Asked(s, t) /\ Len(t.readable) = Len(s.readable) + Pushed(s)
<1> DEFINE n == Pushed(s)
           b == s.buffer
           front == SubSeq(b, 1, n)
           rest == SubSeq(b, n + 1, Len(b))
           rows == s.readable \o front
<1>0. n \in 0..Len(b) /\ b \in Seq(RowSet) /\ s.readable \in Seq(RowSet)
  BY PushedBounds DEF Open, StreamState
<1> HIDE DEF n, b
<1>1. /\ front \in Seq(RowSet) /\ Len(front) = n
      /\ rest \in Seq(RowSet) /\ Len(rest) = Len(b) - n /\ front \o rest = b
  BY <1>0, Cut
<1> HIDE DEF front, rest
<1>2. rows \in Seq(RowSet) /\ Len(rows) = Len(s.readable) + n
  BY <1>0, <1>1, ConcatProperties
<1>3. ~(n > 0 /\ front[n] = Null)
  <2> SUFFICES ASSUME n > 0, front[n] = Null PROVE FALSE
    OBVIOUS
  <2>1. front[n] \in RowSet
    BY <1>0, <1>1
  <2> QED BY <2>1, RowStreamAssumption DEF RowStreamAssumption
<1>4. /\ FALSE = (Pushed(s) > 0 /\ SubSeq(s.buffer, 1, Pushed(s))[Pushed(s)] = Null)
      /\ rows = s.readable \o (IF FALSE THEN Front(SubSeq(s.buffer, 1, Pushed(s)))
                                        ELSE SubSeq(s.buffer, 1, Pushed(s)))
  BY <1>3, Zenon DEF n, b, front, rows
<1> HIDE DEF rows
<1>5. LET t == Read(s) IN
      /\ t \in StreamState /\ t.buffer = rest /\ t.readable = rows /\ t.eof = (s.eof \/ FALSE)
      /\ Asked(s, t)
  BY <1>2, <1>4, ReadFields DEF Asked, n, b, rest
<1>6. RowsIn(rest) = rest /\ RowsIn(b) = b
  BY <1>0, <1>1, OpenRows DEF Open
<1>7. rows \o rest = s.readable \o b
  <2>1. rows = s.readable \o front
    BY DEF rows
  <2>2. (s.readable \o front) \o rest = s.readable \o (front \o rest)
    BY <1>0, <1>1, RowsAssociate, Zenon
  <2> QED BY <1>1, <2>1, <2>2, Zenon
<1>8. Len(rest) <= Len(b) /\ ~Closed(b) /\ Open(rest)
  BY <1>0, <1>1, OpenNotClosed DEF Open
<1>9. s.eof \in BOOLEAN
  BY DEF StreamState
<1> QED
  <2>1. Moved(s, Read(s))
    BY <1>5, <1>6, <1>7, <1>8, <1>9, Zenon DEF Moved, b
  <2> QED BY <1>2, <1>5, <2>1, Zenon DEF n

\* _read() on a buffer with an end marker: the marker is pushed after all rows
\* only, and nothing is left then.
LEMMA ReadClosed ==
  ASSUME NEW s \in StreamState, Closed(s.buffer)
  PROVE  LET t == Read(s) IN
         Moved(s, t) /\ Asked(s, t) /\ Len(t.readable) <= Len(s.readable) + Pushed(s)
<1>a. PICK r \in Seq(RowSet) : s.buffer = Append(r, Null)
  BY DEF Closed
<1> DEFINE n == Pushed(s)
           b == Append(r, Null)
<1>0. n \in 0..Len(b) /\ s.readable \in Seq(RowSet) /\ s.eof \in BOOLEAN
  BY <1>a, PushedBounds DEF StreamState
<1>0a. Len(b) = Len(r) + 1 /\ RowsIn(b) = r /\ ~Open(b) /\ Closed(b) /\ b # <<>>
  BY <1>a, ClosedRows, OpenNotClosed DEF Closed
<1> HIDE DEF n, b
<1>1. CASE n <= Len(r)
  <2> DEFINE front == SubSeq(r, 1, n)
             rest == SubSeq(r, n + 1, Len(r))
             rows == s.readable \o front
  <2>0. n \in 0..Len(r)
    BY <1>0, <1>1
  <2>1. /\ front \in Seq(RowSet) /\ Len(front) = n
        /\ rest \in Seq(RowSet) /\ Len(rest) = Len(r) - n /\ front \o rest = r
    BY <2>0, Cut
  <2>2. /\ SubSeq(b, 1, n) = front
        /\ SubSeq(b, n + 1, Len(b)) = Append(rest, Null)
    BY <2>0, <1>0a, CutBeforeEnd DEF b
  <2> HIDE DEF front, rest
  <2>3. rows \in Seq(RowSet) /\ Len(rows) = Len(s.readable) + n
    BY <1>0, <2>1, ConcatProperties
  <2>4. ~(n > 0 /\ front[n] = Null)
    <3> SUFFICES ASSUME n > 0, front[n] = Null PROVE FALSE
      OBVIOUS
    <3>1. front[n] \in RowSet
      BY <2>0, <2>1
    <3> QED BY <3>1, RowStreamAssumption DEF RowStreamAssumption
  <2>5. /\ FALSE = (Pushed(s) > 0 /\ SubSeq(s.buffer, 1, Pushed(s))[Pushed(s)] = Null)
        /\ rows = s.readable \o (IF FALSE THEN Front(SubSeq(s.buffer, 1, Pushed(s)))
                                          ELSE SubSeq(s.buffer, 1, Pushed(s)))
    BY <1>a, <2>2, <2>4, Zenon DEF n, b, rows
  <2> HIDE DEF rows
  <2>6. LET t == Read(s) IN
        /\ t \in StreamState /\ t.buffer = SubSeq(b, n + 1, Len(b))
        /\ t.readable = rows /\ t.eof = (s.eof \/ FALSE)
        /\ Asked(s, t)
    BY <1>a, <2>3, <2>5, ReadFields DEF Asked, n, b
  <2>7. /\ RowsIn(Append(rest, Null)) = rest /\ Closed(Append(rest, Null))
    BY <2>1, ClosedRows DEF Closed
  <2>8. rows \o rest = s.readable \o r
    <3>1. rows = s.readable \o front
      BY DEF rows
    <3>2. (s.readable \o front) \o rest = s.readable \o (front \o rest)
      BY <1>0, <2>1, RowsAssociate, Zenon
    <3> QED BY <2>1, <3>1, <3>2, Zenon
  <2>9. Len(rest) <= Len(r)
    BY <2>0, <2>1
  <2> HIDE DEF b
  <2>10. Moved(s, Read(s))
    BY <1>a, <1>0, <1>0a, <2>2, <2>6, <2>7, <2>8, <2>9, Zenon DEF Moved, b
  <2>11. Len(rows) <= Len(s.readable) + n
    BY <1>0, <2>3
  <2> QED BY <2>6, <2>10, <2>11, Zenon DEF n
<1>2. CASE n = Len(r) + 1
  <2> DEFINE rows == s.readable \o r
  <2>1. /\ SubSeq(b, 1, n) = b /\ SubSeq(b, n + 1, Len(b)) = <<>> /\ Front(b) = r
    <3>1. n + 1 = Len(r) + 2
      BY <1>2
    <3> QED BY <3>1, <1>0a, <1>2, CutAtEnd DEF b
  <2>2. n > 0 /\ b[n] = Null
    BY <1>2 DEF b
  <2>3. rows \in Seq(RowSet) /\ Len(rows) <= Len(s.readable) + n
    <3>1. rows \in Seq(RowSet) /\ Len(rows) = Len(s.readable) + Len(r)
      BY <1>0, ConcatProperties
    <3>2. Len(s.readable) \in Nat /\ Len(r) \in Nat
      BY <1>0
    <3> HIDE DEF rows
    <3> QED BY <1>2, <3>1, <3>2
  <2>4. /\ TRUE = (Pushed(s) > 0 /\ SubSeq(s.buffer, 1, Pushed(s))[Pushed(s)] = Null)
        /\ rows = s.readable \o (IF TRUE THEN Front(SubSeq(s.buffer, 1, Pushed(s)))
                                         ELSE SubSeq(s.buffer, 1, Pushed(s)))
    BY <1>a, <2>1, <2>2, Zenon DEF n, b, rows
  <2> HIDE DEF rows
  <2>5. LET t == Read(s) IN
        /\ t \in StreamState /\ t.buffer = SubSeq(b, n + 1, Len(b))
        /\ t.readable = rows /\ t.eof = (s.eof \/ TRUE)
        /\ Asked(s, t)
    BY <1>a, <2>3, <2>4, ReadFields DEF Asked, n, b
  <2>6. Open(<<>>) /\ RowsIn(<<>>) = <<>> /\ Len(<<>>) <= Len(r)
    <3>1. Open(<<>>)
      BY DEF Open
    <3>2. Len(<<>>) <= Len(r)
      OBVIOUS
    <3> QED BY <3>1, <3>2, OpenRows, Zenon
  <2>7. rows \o <<>> = s.readable \o r
    BY <2>3, ConcatEmptySeq DEF rows
  <2>8. Moved(s, Read(s))
    BY <1>a, <1>0a, <2>1, <2>5, <2>6, <2>7, Zenon DEF Moved, b
  <2> QED BY <2>3, <2>5, <2>8, Zenon DEF n
<1> QED BY <1>0, <1>0a, <1>1, <1>2

\* _read() moves rows and loses none; the Readable gets above its high water
\* mark by one row at most, and only if it was full.
LEMMA ReadMoves ==
  ASSUME NEW s \in StreamState, Marked(s), Len(s.readable) <= HighWaterMark
  PROVE  LET t == Read(s) IN
         /\ Moved(s, t) /\ Asked(s, t)
         /\ Len(t.readable) <= HighWaterMark + 1
         /\ Len(s.readable) < HighWaterMark => Len(t.readable) <= HighWaterMark
<1>1. /\ Moved(s, Read(s)) /\ Asked(s, Read(s))
      /\ Len(Read(s).readable) <= Len(s.readable) + Pushed(s)
  <2>1. CASE Open(s.buffer)
    <3>1. Moved(s, Read(s)) /\ Asked(s, Read(s)) /\ Len(Read(s).readable) = Len(s.readable) + Pushed(s)
      BY <2>1, ReadOpen
    <3>2. Len(s.readable) + Pushed(s) \in Nat
      <4>1. Len(s.readable) \in Nat /\ Len(s.buffer) \in Nat
        BY DEF StreamState
      <4> QED BY <4>1, PushedBounds
    <3> QED BY <3>1, <3>2
  <2>2. CASE Closed(s.buffer)
    BY <2>2, ReadClosed
  <2> QED BY <2>1, <2>2 DEF Marked
<1>2. Len(s.readable) \in Nat /\ Pushed(s) \in Nat /\ HighWaterMark \in Nat
  <2>1. Len(s.readable) \in Nat /\ Len(s.buffer) \in Nat /\ HighWaterMark \in Nat
    BY RowStreamAssumption DEF StreamState, RowStreamAssumption
  <2> QED BY <2>1, PushedBounds
<1>3. Len(Read(s).readable) \in Nat
  <2>1. Read(s).readable \in Seq(RowSet)
    BY <1>1 DEF Moved, StreamState
  <2> QED BY <2>1
<1>4. /\ Len(s.readable) < HighWaterMark => Len(s.readable) + Pushed(s) <= HighWaterMark
      /\ Len(s.readable) >= HighWaterMark => Pushed(s) <= 1
  BY PushedBounds
<1>5. /\ Len(Read(s).readable) <= HighWaterMark + 1
      /\ Len(s.readable) < HighWaterMark => Len(Read(s).readable) <= HighWaterMark
  BY <1>1, <1>2, <1>3, <1>4
<1> QED BY <1>1, <1>5

\* Doing nothing moves nothing.
LEMMA Stays ==
  ASSUME NEW s \in StreamState, Marked(s)
  PROVE  Moved(s, s) /\ Asked(s, s)
<1>1. RowsIn(s.buffer) \in Seq(RowSet)
  BY OpenRows, ClosedRows DEF Marked, Closed
<1>2. Len(RowsIn(s.buffer)) <= Len(RowsIn(s.buffer))
  BY <1>1
<1> QED BY <1>2 DEF Moved, Asked

\* read(0) never fills the Readable above its high water mark.
LEMMA ReadZeroMoves ==
  ASSUME NEW s \in StreamState, Marked(s), Len(s.readable) <= HighWaterMark
  PROVE  LET t == ReadZero(s) IN
         Moved(s, t) /\ Asked(s, t) /\ Len(t.readable) <= HighWaterMark
<1>1. CASE s.eof \/ Len(s.readable) >= HighWaterMark
  <2>1. ReadZero(s) = s
    BY <1>1, Zenon DEF ReadZero
  <2> QED BY <2>1, Stays, Zenon
<1>2. CASE ~(s.eof \/ Len(s.readable) >= HighWaterMark)
  <2>1. ReadZero(s) = Read(s)
    BY <1>2, Zenon DEF ReadZero
  <2>2. Len(s.readable) < HighWaterMark
    <3>1. Len(s.readable) \in Nat /\ HighWaterMark \in Nat
      BY RowStreamAssumption DEF StreamState, RowStreamAssumption
    <3> QED BY <1>2, <3>1
  <2>3. Moved(s, Read(s)) /\ Asked(s, Read(s)) /\ Len(Read(s).readable) <= HighWaterMark
    BY <2>2, ReadMoves
  <2> QED BY <2>1, <2>3, Zenon
<1> QED BY <1>1, <1>2

\* add() of the rows of a page puts them after the rows at hand.
LEMMA AddRows ==
  ASSUME NEW s \in StreamState, Open(s.buffer), Len(s.readable) <= HighWaterMark,
         NEW chunks \in Seq(RowSet)
  PROVE  LET t == Add(s, chunks) IN
         /\ t \in StreamState /\ Open(t.buffer) /\ t.eof = s.eof
         /\ t.readable \o t.buffer = (s.readable \o s.buffer) \o chunks
         /\ Len(t.readable) <= HighWaterMark
         /\ Len(t.buffer) <= Len(s.buffer) + Len(chunks)
         /\ Asked(s, t)
<1>0. /\ s.buffer \in Seq(RowSet) /\ s.readable \in Seq(RowSet) /\ Marked(s)
      /\ s.readable \o s.buffer \in Seq(RowSet)
  BY DEF StreamState, Open, Marked
<1>1. CASE chunks = <<>>
  <2>1. Add(s, chunks) = s
    BY <1>1, Zenon DEF Add
  <2>2. (s.readable \o s.buffer) \o chunks = s.readable \o s.buffer
    BY <1>0, <1>1, ConcatEmptySeq, Zenon
  <2>3. Len(s.buffer) <= Len(s.buffer) + Len(chunks)
    BY <1>0
  <2>4. Asked(s, s)
    BY <1>0, Stays
  <2> QED BY <2>1, <2>2, <2>3, <2>4, Zenon
<1>2. CASE chunks # <<>>
  <2> DEFINE b == s.buffer \o chunks
             u == [s EXCEPT !.buffer = b]
             t == ReadZero(u)
  <2>1. Add(s, chunks) = t
    BY <1>2, Zenon DEF Add
  <2>2. b \in Seq(RowSet) /\ Len(b) = Len(s.buffer) + Len(chunks)
    BY <1>0, ConcatProperties
  <2>3. Open(b) /\ b \in Seq(RowSet \cup {Null}) /\ RowsIn(b) = b
    BY <2>2, OpenRows DEF Open
  <2> HIDE DEF b
  <2>4. /\ u \in StreamState /\ u.buffer = b /\ u.readable = s.readable /\ u.eof = s.eof
        /\ u.asks = s.asks /\ u.readNext = s.readNext
    BY <2>3 DEF StreamState
  <2> HIDE DEF u
  <2>5. Moved(u, t) /\ Asked(u, t) /\ Len(t.readable) <= HighWaterMark
    BY <2>3, <2>4, ReadZeroMoves DEF Marked
  <2> HIDE DEF t
  <2>6. Asked(s, t)
    BY <2>4, <2>5 DEF Asked
  <2>7. t \in StreamState /\ Open(t.buffer) /\ t.eof = s.eof
    BY <2>3, <2>4, <2>5 DEF Moved
  <2>8. RowsIn(t.buffer) = t.buffer
    BY <2>7, OpenRows
  <2>9. t.readable \o t.buffer = s.readable \o b
    BY <2>3, <2>4, <2>5, <2>8, Zenon DEF Moved
  <2>10. Len(t.buffer) <= Len(b)
    BY <2>3, <2>4, <2>5, <2>8, Zenon DEF Moved
  <2>11. (s.readable \o s.buffer) \o chunks = s.readable \o b
    <3>1. (s.readable \o s.buffer) \o chunks = s.readable \o (s.buffer \o chunks)
      BY <1>0, RowsAssociate, Zenon
    <3> QED BY <3>1, Zenon DEF b
  <2> QED BY <2>1, <2>2, <2>5, <2>6, <2>7, <2>9, <2>10, <2>11, Zenon
<1> QED BY <1>1, <1>2

\* add(null) ends the stream at once or leaves the marker after the last row;
\* the request that was kept is dropped.
LEMMA AddEndMarks ==
  ASSUME NEW s \in StreamState, Open(s.buffer), ~s.eof, Len(s.readable) <= HighWaterMark
  PROVE  LET t == AddEnd(s) IN
         /\ t \in StreamState
         /\ (t.eof /\ t.buffer = <<>>) \/ (~t.eof /\ Closed(t.buffer))
         /\ t.readable \o RowsIn(t.buffer) = s.readable \o s.buffer
         /\ Len(t.readable) <= HighWaterMark
         /\ Len(RowsIn(t.buffer)) <= Len(s.buffer)
         /\ t.asks = s.asks /\ ~t.readNext
<1> DEFINE v == [s EXCEPT !.readNext = FALSE]
           b == s.buffer \o <<Null>>
           u == [v EXCEPT !.buffer = b]
           t == ReadZero(u)
<1>1. AddEnd(s) = t
  <2>1. v.buffer = s.buffer
    BY DEF StreamState
  <2>2. <<Null>> # <<>>
    OBVIOUS
  <2> QED BY <2>1, <2>2, Zenon DEF AddEnd, Add
<1>2. b = Append(s.buffer, Null) /\ s.buffer \in Seq(RowSet)
  <2>1. s.buffer \in Seq(RowSet \cup {Null}) /\ Null \in RowSet \cup {Null}
    BY DEF StreamState
  <2> QED BY <2>1, AppendIsConcat DEF Open
<1>3. Closed(b) /\ b \in Seq(RowSet \cup {Null}) /\ RowsIn(b) = s.buffer
  <2> HIDE DEF b
  <2> QED BY <1>2, ClosedRows DEF Closed
<1> HIDE DEF b
<1>4. /\ v \in StreamState /\ v.readable = s.readable /\ v.eof = s.eof
      /\ v.asks = s.asks /\ v.readNext = FALSE
  BY DEF StreamState
<1> HIDE DEF v
<1>5. /\ u \in StreamState /\ u.buffer = b /\ u.readable = s.readable /\ u.eof = s.eof
      /\ u.asks = s.asks /\ u.readNext = FALSE
  BY <1>3, <1>4 DEF StreamState
<1> HIDE DEF u
<1>6. Moved(u, t) /\ Asked(u, t) /\ Len(t.readable) <= HighWaterMark
  BY <1>3, <1>5, ReadZeroMoves DEF Marked
<1> HIDE DEF t
<1>7. t \in StreamState /\ t.asks = s.asks /\ ~t.readNext
  BY <1>5, <1>6 DEF Asked, Moved
<1>8. (t.eof /\ t.buffer = <<>>) \/ (~t.eof /\ Closed(t.buffer))
  BY <1>3, <1>5, <1>6, Zenon DEF Moved
<1>9. /\ t.readable \o RowsIn(t.buffer) = s.readable \o s.buffer
      /\ Len(RowsIn(t.buffer)) <= Len(s.buffer)
  BY <1>3, <1>5, <1>6, Zenon DEF Moved
<1> QED BY <1>1, <1>6, <1>7, <1>8, <1>9, Zenon

-----------------------------------------------------------------------------
(* The actions of the stream.                                              *)

\* The rows that were received and not taken yet, and the pages whose rows
\* were received: a request that fails counts as answered.
AtHand == readable \o RowsIn(buffer)
Received == IF error THEN answered - 1 ELSE answered

\* No more is buffered than a page has rows.
FitsAPage == \E p \in DOMAIN pages : Len(RowsIn(buffer)) <= Len(pages[p])

\* The inductive invariant of the stream.  The first two conjuncts are the
\* exact form of InOrder: what the consumer has and what is at hand are the
\* rows of the pages received.  The conjuncts on finished, readNext and the end
\* marker tie the three flags to the request that is out, if any: without them
\* a late page could follow the marker, or the valve send a second request.
StreamInv ==
  /\ TypeOK
  /\ got \o AtHand = UpTo(pages, Received)
  /\ Len(readable) <= HighWaterMark
  /\ requested <= answered + 1
  /\ error => answered > 0
  /\ finished = 0 => ~eof /\ Open(buffer) /\ ~error /\ answered < Len(pages)
  /\ finished = 1 => /\ requested = answered /\ ~readNext
                     /\ error \/ answered = Len(pages)
                     /\ (eof /\ buffer = <<>>) \/ (~eof /\ Closed(buffer))
  /\ readNext => ~autoPage /\ requested = answered /\ finished = 0
  /\ ~autoPage => /\ answered < requested => buffer = <<>>
                  /\ FitsAPage

\* The state of the stream as a record, in a state of the invariant.
LEMMA NowFields ==
  ASSUME StreamInv
  PROVE  /\ Now \in StreamState /\ Marked(Now)
         /\ Now.buffer = buffer /\ Now.readable = readable /\ Now.eof = eof
         /\ Now.readNext = readNext /\ Now.paused = paused /\ Now.asks = 0
<1>1. Now \in StreamState
  BY DEF StreamInv, TypeOK, Now, StreamState
<1>2. /\ Now.buffer = buffer /\ Now.readable = readable /\ Now.eof = eof
      /\ Now.readNext = readNext /\ Now.paused = paused /\ Now.asks = 0
  BY DEF Now
<1>3. Open(buffer) \/ Closed(buffer)
  <2>1. finished \in {0, 1}
    BY DEF StreamInv, TypeOK
  <2>2. Open(<<>>)
    BY DEF Open
  <2> QED BY <2>1, <2>2 DEF StreamInv
<1> QED BY <1>1, <1>2, <1>3, Zenon DEF Marked

\* The new values of the variables after a handler.
LEMMA BecomesFields ==
  ASSUME NEW t, Becomes(t)
  PROVE  /\ buffer' = t.buffer /\ paused' = t.paused /\ readNext' = t.readNext
         /\ readable' = t.readable /\ eof' = t.eof /\ requested' = requested + t.asks
BY DEF Becomes

\* The types of the fields of the record.
LEMMA StateTypes ==
  ASSUME NEW t \in StreamState
  PROVE  /\ t.buffer \in Seq(RowSet \cup {Null}) /\ t.paused \in BOOLEAN
         /\ t.readNext \in BOOLEAN /\ t.readable \in Seq(RowSet) /\ t.eof \in BOOLEAN
         /\ t.asks \in Nat
BY DEF StreamState

\* A page arrives: its rows follow those of the pages before it, and at most
\* one of a request, the valve and the end marker comes after them.
LEMMA PageArrivesKeepsInv ==
  ASSUME StreamInv, PageArrives
  PROVE  StreamInv'
<1> DEFINE arrived == answered + 1
           added == Add(Now, pages[arrived])
<1>1. /\ answered < requested /\ ~error /\ answered' = answered + 1
      /\ UNCHANGED <<autoPage, pages, error, got>>
      /\ IF HasNext(arrived)
         THEN /\ Becomes(IF autoPage THEN [added EXCEPT !.asks = @ + 1] ELSE Valve(added))
              /\ UNCHANGED finished
         ELSE Becomes(AddEnd(added)) /\ finished' = finished + 1
  BY DEF PageArrives
<1>2. /\ answered \in Nat /\ requested \in Nat /\ requested = answered + 1 /\ answered < Len(pages)
      /\ finished = 0 /\ ~readNext /\ ~eof /\ Open(buffer)
      /\ pages \in Seq(Seq(RowSet)) /\ Len(pages) \in Nat /\ autoPage \in BOOLEAN
      /\ got \in Seq(RowSet)
  <2>1. /\ pages \in Seq(Seq(RowSet)) /\ autoPage \in BOOLEAN /\ got \in Seq(RowSet)
    BY RowStreamAssumption DEF RowStreamAssumption, StreamInv, TypeOK
  <2>2. Len(pages) \in Nat
    BY <2>1
  <2>3. answered \in Nat /\ requested \in Nat /\ requested <= answered + 1
    BY <2>2 DEF StreamInv, TypeOK
  <2>4. finished = 0
    <3>1. finished \in {0, 1}
      BY DEF StreamInv, TypeOK
    <3>2. finished = 1 => requested = answered
      BY DEF StreamInv
    <3> QED BY <1>1, <2>3, <3>1, <3>2
  <2>5. answered < Len(pages) /\ ~eof /\ Open(buffer)
    BY <2>4 DEF StreamInv
  <2>6. ~readNext
    BY <1>1, <2>3 DEF StreamInv
  <2> QED BY <1>1, <2>1, <2>2, <2>3, <2>4, <2>5, <2>6
<1>3. arrived \in 1..Len(pages) /\ pages[arrived] \in Seq(RowSet)
  BY <1>2
<1>4. /\ added \in StreamState /\ Open(added.buffer) /\ ~added.eof
      /\ added.readable \o added.buffer = (readable \o buffer) \o pages[arrived]
      /\ Len(added.readable) <= HighWaterMark
      /\ Len(added.buffer) <= Len(buffer) + Len(pages[arrived])
      /\ added.asks = 0 /\ ~added.readNext
  <2>1. /\ Now \in StreamState /\ Open(Now.buffer) /\ Len(Now.readable) <= HighWaterMark
        /\ Now.buffer = buffer /\ Now.readable = readable /\ Now.eof = eof
        /\ Now.readNext = readNext /\ Now.asks = 0
    BY <1>2, NowFields DEF StreamInv
  <2>2. /\ added \in StreamState /\ Open(added.buffer) /\ added.eof = Now.eof
        /\ added.readable \o added.buffer = (Now.readable \o Now.buffer) \o pages[arrived]
        /\ Len(added.readable) <= HighWaterMark
        /\ Len(added.buffer) <= Len(Now.buffer) + Len(pages[arrived])
        /\ Asked(Now, added)
    BY <1>3, <2>1, AddRows
  <2> HIDE DEF added, arrived
  <2>3. added.asks = 0 /\ ~added.readNext
    BY <1>2, <2>1, <2>2 DEF Asked
  <2> QED BY <1>2, <2>1, <2>2, <2>3, Zenon
<1>5. got \o (added.readable \o added.buffer) = UpTo(pages, arrived)
  <2>1. RowsIn(buffer) = buffer /\ buffer \in Seq(RowSet) /\ readable \in Seq(RowSet)
    BY <1>2, OpenRows DEF Open, StreamInv, TypeOK
  <2>2. got \o (readable \o buffer) = UpTo(pages, answered)
    BY <1>1, <2>1, Zenon DEF StreamInv, AtHand, Received
  <2>3. UpTo(pages, arrived) = UpTo(pages, answered) \o pages[arrived]
    <3>1. answered \in 0..(Len(pages) - 1)
      BY <1>2
    <3> QED BY <1>2, <3>1, UpToStep
  <2>4. readable \o buffer \in Seq(RowSet)
    BY <2>1
  <2>5. (got \o (readable \o buffer)) \o pages[arrived] = got \o ((readable \o buffer) \o pages[arrived])
    BY <1>2, <1>3, <2>4, RowsAssociate, Zenon
  <2> HIDE DEF added, arrived
  <2> QED BY <1>4, <2>2, <2>3, <2>5, Zenon
<1> HIDE DEF added
\* The new state t of the stream.
<1>6. ASSUME NEW t \in StreamState, Becomes(t),
             t.readable \o RowsIn(t.buffer) = added.readable \o added.buffer,
             Len(t.readable) <= HighWaterMark
      PROVE  /\ got' \o AtHand' = UpTo(pages, Received)'
             /\ Len(readable)' <= HighWaterMark
             /\ buffer' = t.buffer /\ eof' = t.eof /\ readNext' = t.readNext
             /\ requested' = answered' + t.asks
             /\ buffer' \in Seq(RowSet \cup {Null}) /\ paused' \in BOOLEAN
             /\ readNext' \in BOOLEAN /\ eof' \in BOOLEAN /\ readable' \in Seq(RowSet)
  <2>1. /\ buffer' = t.buffer /\ paused' = t.paused /\ readNext' = t.readNext
        /\ readable' = t.readable /\ eof' = t.eof /\ requested' = requested + t.asks
    BY <1>6, BecomesFields
  <2>2. got' \o AtHand' = UpTo(pages, Received)'
    <3>1. got' = got /\ pages' = pages /\ Received' = arrived
      BY <1>1 DEF Received
    <3>2. AtHand' = added.readable \o added.buffer
      BY <1>6, <2>1, Zenon DEF AtHand
    <3> QED BY <1>5, <3>1, <3>2, Zenon
  <2>3. requested' = answered' + t.asks
    BY <1>1, <1>2, <2>1
  <2> QED BY <1>6, <2>1, <2>2, <2>3, StateTypes
<1>7. /\ autoPage' = autoPage /\ pages' = pages /\ pages \in Results /\ error' = error
      /\ got' \in Seq(RowSet) /\ error \in BOOLEAN
  BY <1>1, <1>2 DEF StreamInv, TypeOK
<1>8. ~autoPage => Len(added.buffer) <= Len(pages[arrived])
  <2> SUFFICES ASSUME ~autoPage PROVE Len(added.buffer) <= Len(pages[arrived])
    OBVIOUS
  <2>1. buffer = <<>>
    BY <1>1 DEF StreamInv
  <2>2. Len(buffer) = 0 /\ Len(pages[arrived]) \in Nat
    BY <1>3, <2>1
  <2> HIDE DEF arrived
  <2> QED BY <1>4, <2>2
<1>9. RowsIn(added.buffer) = added.buffer
  BY <1>4, OpenRows
<1>10. CASE HasNext(arrived) /\ autoPage
  <2> DEFINE t == [added EXCEPT !.asks = @ + 1]
  <2>1. /\ t \in StreamState /\ t.buffer = added.buffer /\ t.readable = added.readable
        /\ t.eof = added.eof /\ t.readNext = added.readNext /\ t.asks = 1
    <3>1. /\ t.buffer = added.buffer /\ t.readable = added.readable
          /\ t.eof = added.eof /\ t.readNext = added.readNext /\ t.asks = added.asks + 1
      BY <1>4 DEF StreamState
    <3>2. \A k \in Nat : [added EXCEPT !.asks = k] \in StreamState
      BY <1>4 DEF StreamState
    <3>3. added.asks + 1 = 1 /\ added.asks + 1 \in Nat
      BY <1>4
    <3> QED BY <3>1, <3>2, <3>3, Zenon
  <2>2. Becomes(t) /\ finished' = finished
    BY <1>1, <1>10, Zenon
  <2> HIDE DEF t
  <2>3. t.readable \o RowsIn(t.buffer) = added.readable \o added.buffer
    BY <1>9, <2>1, Zenon
  <2>4. /\ got' \o AtHand' = UpTo(pages, Received)'
        /\ Len(readable)' <= HighWaterMark
        /\ buffer' = t.buffer /\ eof' = t.eof /\ readNext' = t.readNext
        /\ requested' = answered' + t.asks
        /\ buffer' \in Seq(RowSet \cup {Null}) /\ paused' \in BOOLEAN
        /\ readNext' \in BOOLEAN /\ eof' \in BOOLEAN /\ readable' \in Seq(RowSet)
    BY <1>4, <1>6, <2>1, <2>2, <2>3
  <2>5. answered' < Len(pages)
    BY <1>1, <1>10 DEF HasNext
  <2>6. /\ ~eof' /\ Open(buffer)' /\ ~readNext'
    BY <1>4, <2>1, <2>4, Zenon DEF Open
  <2>7. requested' = answered' + 1
    BY <2>1, <2>4
  <2>8. TypeOK'
    BY <1>1, <1>2, <1>7, <2>2, <2>4, <2>5, <2>7 DEF TypeOK
  <2> QED BY <1>1, <1>2, <1>7, <1>10, <2>2, <2>4, <2>5, <2>6, <2>7, <2>8 DEF StreamInv
<1>11. CASE HasNext(arrived) /\ ~autoPage
  <2> DEFINE t == Valve(added)
  <2>1. /\ t \in StreamState /\ t.buffer = added.buffer /\ t.readable = added.readable
        /\ t.eof = added.eof
        /\ \/ t.asks = 0
           \/ t.asks = 1 /\ t.readNext = FALSE /\ t.buffer = <<>>
    <3>1. CASE added.paused \/ added.buffer # <<>>
      <4> DEFINE u == [added EXCEPT !.readNext = TRUE]
      <4>1. t = u
        BY <3>1, Zenon DEF Valve
      <4>2. /\ u \in StreamState /\ u.buffer = added.buffer /\ u.readable = added.readable
            /\ u.eof = added.eof /\ u.asks = added.asks
        BY <1>4 DEF StreamState
      <4> QED BY <1>4, <4>1, <4>2, Zenon
    <3>2. CASE ~(added.paused \/ added.buffer # <<>>)
      <4> DEFINE u == [added EXCEPT !.asks = @ + 1, !.readNext = FALSE]
      <4>1. t = u
        BY <3>2, Zenon DEF Valve
      <4>2. /\ u.buffer = added.buffer /\ u.readable = added.readable
            /\ u.eof = added.eof /\ u.asks = added.asks + 1 /\ u.readNext = FALSE
        BY <1>4, Zenon DEF StreamState
      <4>3. \A k \in Nat, f \in BOOLEAN : [added EXCEPT !.asks = k, !.readNext = f] \in StreamState
        BY <1>4 DEF StreamState
      <4>4. added.asks + 1 = 1 /\ added.asks + 1 \in Nat
        BY <1>4
      <4> QED BY <3>2, <4>1, <4>2, <4>3, <4>4, Zenon
    <3> QED BY <3>1, <3>2
  <2>2. Becomes(t) /\ finished' = finished
    BY <1>1, <1>11, Zenon
  <2> HIDE DEF t
  <2>3. t.readable \o RowsIn(t.buffer) = added.readable \o added.buffer
    BY <1>9, <2>1, Zenon
  <2>4. /\ got' \o AtHand' = UpTo(pages, Received)'
        /\ Len(readable)' <= HighWaterMark
        /\ buffer' = t.buffer /\ eof' = t.eof /\ readNext' = t.readNext
        /\ requested' = answered' + t.asks
        /\ buffer' \in Seq(RowSet \cup {Null}) /\ paused' \in BOOLEAN
        /\ readNext' \in BOOLEAN /\ eof' \in BOOLEAN /\ readable' \in Seq(RowSet)
    BY <1>4, <1>6, <2>1, <2>2, <2>3
  <2>5. answered' < Len(pages)
    BY <1>1, <1>11 DEF HasNext
  <2>6. ~eof' /\ Open(buffer)'
    BY <1>4, <2>1, <2>4, Zenon DEF Open
  <2>7. \/ requested' = answered'
        \/ requested' = answered' + 1 /\ readNext' = FALSE /\ buffer' = <<>>
    BY <1>1, <1>2, <2>1, <2>4
  <2>8. TypeOK'
    BY <1>1, <1>2, <1>7, <2>2, <2>4, <2>5, <2>7 DEF TypeOK
  <2>9. FitsAPage'
    <3>1. arrived \in DOMAIN pages' /\ RowsIn(buffer)' = added.buffer
      BY <1>2, <1>3, <1>7, <1>9, <2>1, <2>4
    <3> HIDE DEF arrived
    <3> QED BY <1>7, <1>8, <1>11, <3>1, Zenon DEF FitsAPage
  <2> QED BY <1>1, <1>2, <1>7, <1>11, <2>2, <2>4, <2>5, <2>6, <2>7, <2>8, <2>9 DEF StreamInv
<1>12. CASE ~HasNext(arrived)
  <2> DEFINE t == AddEnd(added)
  <2>1. /\ t \in StreamState
        /\ (t.eof /\ t.buffer = <<>>) \/ (~t.eof /\ Closed(t.buffer))
        /\ t.readable \o RowsIn(t.buffer) = added.readable \o added.buffer
        /\ Len(t.readable) <= HighWaterMark
        /\ Len(RowsIn(t.buffer)) <= Len(added.buffer)
        /\ t.asks = added.asks /\ ~t.readNext
    BY <1>4, AddEndMarks
  <2>2. Becomes(t) /\ finished' = 1
    BY <1>1, <1>2, <1>12
  <2> HIDE DEF t
  <2>3. /\ got' \o AtHand' = UpTo(pages, Received)'
        /\ Len(readable)' <= HighWaterMark
        /\ buffer' = t.buffer /\ eof' = t.eof /\ readNext' = t.readNext
        /\ requested' = answered' + t.asks
        /\ buffer' \in Seq(RowSet \cup {Null}) /\ paused' \in BOOLEAN
        /\ readNext' \in BOOLEAN /\ eof' \in BOOLEAN /\ readable' \in Seq(RowSet)
    BY <1>6, <2>1, <2>2
  <2>4. answered' = Len(pages) /\ requested' = answered'
    BY <1>1, <1>2, <1>4, <1>12, <2>1, <2>3 DEF HasNext
  <2>5. (eof' /\ buffer' = <<>>) \/ (~eof' /\ Closed(buffer)')
    BY <2>1, <2>3, Zenon DEF Closed
  <2>6. TypeOK'
    BY <1>1, <1>2, <1>7, <2>2, <2>3, <2>4 DEF TypeOK
  <2>7. ~autoPage' => FitsAPage'
    <3> SUFFICES ASSUME ~autoPage PROVE FitsAPage'
      BY <1>7
    <3>1. arrived \in DOMAIN pages'
      BY <1>2, <1>3, <1>7
    <3>2. Len(RowsIn(t.buffer)) <= Len(pages[arrived])
      <4>1. Len(added.buffer) \in Nat /\ Len(pages[arrived]) \in Nat /\ Len(RowsIn(t.buffer)) \in Nat
        <5>1. added.buffer \in Seq(RowSet) /\ RowsIn(t.buffer) \in Seq(RowSet)
          <6>1. Open(<<>>)
            BY DEF Open
          <6>2. t.buffer = <<>> \/ Closed(t.buffer)
            BY <2>1
          <6> QED BY <1>4, <6>1, <6>2, OpenRows, ClosedRows DEF Open, Closed
        <5> QED BY <1>3, <5>1
      <4> HIDE DEF arrived
      <4> QED BY <1>8, <2>1, <4>1
    <3>3. RowsIn(buffer)' = RowsIn(t.buffer)
      BY <2>3 DEF RowsIn
    <3> HIDE DEF arrived
    <3> QED BY <1>7, <3>1, <3>2, <3>3, Zenon DEF FitsAPage
  <2> QED BY <1>1, <1>2, <1>7, <2>1, <2>2, <2>3, <2>4, <2>5, <2>6, <2>7 DEF StreamInv
<1> QED BY <1>10, <1>11, <1>12

\* What the other proofs need of a state of the invariant.
LEMMA StreamFacts ==
  ASSUME StreamInv
  PROVE  /\ pages \in Results /\ pages \in Seq(Seq(RowSet)) /\ Len(pages) \in Nat
         /\ answered \in Nat /\ requested \in Nat /\ finished \in {0, 1}
         /\ answered <= Len(pages) /\ answered <= requested
         /\ got \in Seq(RowSet) /\ readable \in Seq(RowSet)
         /\ RowsIn(buffer) \in Seq(RowSet) /\ AtHand \in Seq(RowSet)
<1>1. /\ pages \in Results /\ pages \in Seq(Seq(RowSet)) /\ got \in Seq(RowSet)
      /\ readable \in Seq(RowSet) /\ finished \in {0, 1}
  BY RowStreamAssumption DEF RowStreamAssumption, StreamInv, TypeOK
<1>2. Len(pages) \in Nat
  BY <1>1
<1>3. /\ answered \in Nat /\ requested \in Nat /\ answered <= Len(pages) /\ answered <= requested
  BY <1>2 DEF StreamInv, TypeOK
<1>4. RowsIn(buffer) \in Seq(RowSet)
  BY NowFields, OpenRows, ClosedRows DEF Marked, Closed
<1>5. AtHand \in Seq(RowSet)
  BY <1>1, <1>4 DEF AtHand
<1> QED BY <1>1, <1>2, <1>3, <1>4, <1>5

\* A request fails: the rows at hand stay, and the stream ends after them.
LEMMA PageFailsKeepsInv ==
  ASSUME StreamInv, PageFails
  PROVE  StreamInv'
<1> DEFINE t == AddEnd(Now)
<1>1. /\ answered < requested /\ ~error /\ answered' = answered + 1 /\ error' = TRUE
      /\ Becomes(t) /\ finished' = finished + 1 /\ UNCHANGED <<autoPage, pages, got>>
  BY DEF PageFails
<1>2. /\ finished = 0 /\ requested = answered + 1 /\ answered < Len(pages)
      /\ ~eof /\ Open(buffer)
  <2>1. finished = 0
    BY <1>1, StreamFacts DEF StreamInv
  <2>2. requested = answered + 1
    BY <1>1, StreamFacts DEF StreamInv
  <2> QED BY <2>1, <2>2 DEF StreamInv
<1>3. /\ t \in StreamState
      /\ (t.eof /\ t.buffer = <<>>) \/ (~t.eof /\ Closed(t.buffer))
      /\ t.readable \o RowsIn(t.buffer) = readable \o buffer
      /\ Len(t.readable) <= HighWaterMark
      /\ Len(RowsIn(t.buffer)) <= Len(buffer)
      /\ t.asks = 0 /\ ~t.readNext
  <2>1. /\ Now \in StreamState /\ Open(Now.buffer) /\ ~Now.eof /\ Len(Now.readable) <= HighWaterMark
        /\ Now.buffer = buffer /\ Now.readable = readable /\ Now.asks = 0
    BY <1>2, NowFields DEF StreamInv
  <2>2. /\ t \in StreamState
        /\ (t.eof /\ t.buffer = <<>>) \/ (~t.eof /\ Closed(t.buffer))
        /\ t.readable \o RowsIn(t.buffer) = Now.readable \o Now.buffer
        /\ Len(t.readable) <= HighWaterMark
        /\ Len(RowsIn(t.buffer)) <= Len(Now.buffer)
        /\ t.asks = Now.asks /\ ~t.readNext
    BY <2>1, AddEndMarks
  <2> HIDE DEF t
  <2> QED BY <2>1, <2>2, Zenon
<1>4. RowsIn(buffer) = buffer
  BY <1>2, OpenRows
<1> HIDE DEF t
<1>5. /\ buffer' = t.buffer /\ paused' = t.paused /\ readNext' = t.readNext
      /\ readable' = t.readable /\ eof' = t.eof /\ requested' = requested + t.asks
  BY <1>1, BecomesFields
<1>6. (got \o AtHand = UpTo(pages, Received))'
  <2>1. AtHand' = AtHand
    BY <1>3, <1>4, <1>5, Zenon DEF AtHand
  <2>2. Received' = Received
    BY <1>1, StreamFacts DEF Received
  <2>3. got \o AtHand = UpTo(pages, Received)
    BY DEF StreamInv
  <2> QED BY <1>1, <2>1, <2>2, <2>3, Zenon
<1>7. requested' = answered'
  BY <1>1, <1>2, <1>3, <1>5, StreamFacts
<1>8. TypeOK'
  <2>1. /\ buffer' \in Seq(RowSet \cup {Null}) /\ paused' \in BOOLEAN
        /\ readNext' \in BOOLEAN /\ eof' \in BOOLEAN /\ readable' \in Seq(RowSet)
    BY <1>3, <1>5, StateTypes
  <2>2. autoPage' \in BOOLEAN /\ pages' = pages
    BY <1>1 DEF StreamInv, TypeOK
  <2> QED BY <1>1, <1>2, <1>7, <2>1, <2>2, StreamFacts DEF TypeOK
<1>9. ~autoPage' => FitsAPage'
  <2> SUFFICES ASSUME ~autoPage PROVE FitsAPage'
    BY <1>1
  <2>1. PICK p \in DOMAIN pages : Len(RowsIn(buffer)) <= Len(pages[p])
    BY DEF StreamInv, FitsAPage
  <2>2. RowsIn(buffer)' = RowsIn(t.buffer)
    BY <1>5
  <2>3. Len(RowsIn(t.buffer)) \in Nat /\ Len(buffer) \in Nat /\ Len(pages[p]) \in Nat
    <3>1. RowsIn(t.buffer) \in Seq(RowSet)
      <4>1. Open(<<>>)
        BY DEF Open
      <4> QED BY <1>3, <4>1, OpenRows, ClosedRows DEF Closed
    <3>2. pages[p] \in Seq(RowSet) /\ buffer \in Seq(RowSet)
      BY <1>2, StreamFacts DEF Open
    <3> QED BY <3>1, <3>2
  <2>4. Len(RowsIn(t.buffer)) <= Len(pages[p])
    BY <1>3, <1>4, <2>1, <2>3
  <2> QED BY <1>1, <2>2, <2>4, Zenon DEF FitsAPage
<1>10. /\ finished' = 1 /\ ~readNext' /\ error' /\ answered' > 0
       /\ (eof' /\ buffer' = <<>>) \/ (~eof' /\ Closed(buffer)')
       /\ Len(readable)' <= HighWaterMark
  <2>1. (eof' /\ buffer' = <<>>) \/ (~eof' /\ Closed(buffer)')
    BY <1>3, <1>5, Zenon DEF Closed
  <2> QED BY <1>1, <1>2, <1>3, <1>5, <2>1, StreamFacts
<1>11. requested' <= answered' + 1 /\ ~(answered' < requested')
  BY <1>1, <1>7, StreamFacts
<1> QED BY <1>1, <1>6, <1>7, <1>8, <1>9, <1>10, <1>11 DEF StreamInv

\* Moving rows towards the consumer keeps the invariant.
LEMMA MoveKeepsInv ==
  ASSUME StreamInv, NEW s \in StreamState, Moved(Now, s), Asked(Now, s),
         NEW t \in StreamState, Becomes(t),
         t.buffer = s.buffer, t.eof = s.eof, t.readNext = s.readNext, t.asks = s.asks,
         Len(t.readable) <= HighWaterMark,
         UNCHANGED <<autoPage, pages, answered, error, finished>>,
         got' \in Seq(RowSet),
         got' \o (t.readable \o RowsIn(t.buffer)) = got \o AtHand
  PROVE  StreamInv'
<1>1. /\ buffer' = t.buffer /\ paused' = t.paused /\ readNext' = t.readNext
      /\ readable' = t.readable /\ eof' = t.eof /\ requested' = requested + t.asks
  BY BecomesFields
<1>2. /\ Marked(Now) /\ Now \in StreamState
      /\ Now.buffer = buffer /\ Now.readable = readable /\ Now.eof = eof
      /\ Now.readNext = readNext /\ Now.asks = 0
  BY NowFields
<1>3. (got \o AtHand = UpTo(pages, Received))'
  <2>1. got' \o AtHand' = got \o AtHand
    BY <1>1, Zenon DEF AtHand
  <2>2. Received' = Received /\ pages' = pages
    BY DEF Received
  <2>3. got \o AtHand = UpTo(pages, Received)
    BY DEF StreamInv
  <2> QED BY <2>1, <2>2, <2>3, Zenon
<1>4. \/ requested' = requested /\ readNext' = readNext
      \/ requested' = requested + 1 /\ readNext /\ ~readNext' /\ buffer' = <<>>
  BY <1>1, <1>2, StreamFacts DEF Asked
<1>5. Len(RowsIn(buffer)') <= Len(RowsIn(buffer)) /\ RowsIn(buffer)' \in Seq(RowSet)
  <2>1. Len(RowsIn(s.buffer)) <= Len(RowsIn(buffer))
    BY <1>2, Zenon DEF Moved
  <2>2. RowsIn(s.buffer) \in Seq(RowSet)
    <3>1. Open(<<>>)
      BY DEF Open
    <3>2. Open(s.buffer) \/ Closed(s.buffer)
      BY <1>2, <3>1 DEF Marked, Moved
    <3> QED BY <3>2, OpenRows, ClosedRows DEF Closed
  <2> QED BY <1>1, <2>1, <2>2, Zenon
<1>6. buffer = <<>> => buffer' = <<>>
  <2> SUFFICES ASSUME buffer = <<>> PROVE buffer' = <<>>
    OBVIOUS
  <2>1. Open(buffer)
    BY DEF Open
  <2>2. Open(buffer')
    BY <1>1, <1>2, <2>1, Zenon DEF Moved
  <2>3. RowsIn(buffer) = buffer /\ RowsIn(buffer') = buffer'
    BY <2>1, <2>2, OpenRows
  <2>4. Len(buffer') <= 0 /\ buffer' \in Seq(RowSet)
    BY <1>5, <2>2, <2>3 DEF Open
  <2> QED BY <2>4, EmptySeq
<1>7. finished = 0 => ~eof' /\ Open(buffer)'
  <2> SUFFICES ASSUME finished = 0 PROVE ~eof' /\ Open(buffer)'
    OBVIOUS
  <2>1. Open(Now.buffer) /\ ~Now.eof
    BY <1>2 DEF StreamInv
  <2>2. Open(s.buffer) /\ ~s.eof
    BY <2>1 DEF Moved
  <2> QED BY <1>1, <2>2, Zenon DEF Open
<1>8. finished = 1 => (eof' /\ buffer' = <<>>) \/ (~eof' /\ Closed(buffer'))
  <2> SUFFICES ASSUME finished = 1 PROVE (eof' /\ buffer' = <<>>) \/ (~eof' /\ Closed(buffer'))
    OBVIOUS
  <2>1. CASE eof /\ buffer = <<>>
    <3>1. Open(buffer)
      BY <2>1 DEF Open
    <3> QED BY <1>1, <1>2, <1>6, <2>1, <3>1, Zenon DEF Moved
  <2>2. CASE ~eof /\ Closed(buffer)
    BY <1>1, <1>2, <2>2, Zenon DEF Moved
  <2> QED BY <2>1, <2>2 DEF StreamInv
<1>9. ~autoPage' => FitsAPage'
  <2> SUFFICES ASSUME ~autoPage PROVE FitsAPage'
    OBVIOUS
  <2>1. PICK p \in DOMAIN pages : Len(RowsIn(buffer)) <= Len(pages[p])
    BY DEF StreamInv, FitsAPage
  <2>2. Len(RowsIn(buffer)') \in Nat /\ Len(RowsIn(buffer)) \in Nat /\ Len(pages[p]) \in Nat
    <3>1. pages[p] \in Seq(RowSet) /\ RowsIn(buffer) \in Seq(RowSet)
      BY StreamFacts
    <3> QED BY <1>5, <3>1
  <2>3. Len(RowsIn(buffer)') <= Len(pages[p])
    BY <1>5, <2>1, <2>2
  <2> QED BY <2>3, Zenon DEF FitsAPage
<1>10. /\ autoPage \in BOOLEAN /\ pages \in Results /\ error \in BOOLEAN
       /\ requested <= answered + 1
       /\ error => answered > 0
       /\ readNext => ~autoPage /\ requested = answered /\ finished = 0
       /\ finished = 0 => ~error /\ answered < Len(pages)
       /\ finished = 1 => requested = answered /\ ~readNext /\ (error \/ answered = Len(pages))
       /\ ~autoPage /\ answered < requested => buffer = <<>>
  BY DEF StreamInv, TypeOK
<1>11. TypeOK'
  <2>1. /\ buffer' \in Seq(RowSet \cup {Null}) /\ paused' \in BOOLEAN
        /\ readNext' \in BOOLEAN /\ eof' \in BOOLEAN /\ readable' \in Seq(RowSet)
    BY <1>1, StateTypes
  <2>2. requested' \in answered'..Len(pages')
    BY <1>4, <1>10, StreamFacts DEF StreamInv, TypeOK
  <2>3. answered' \in 0..Len(pages') /\ finished' \in 0..1
    BY StreamFacts
  <2> QED BY <1>10, <2>1, <2>2, <2>3 DEF TypeOK
<1>12. /\ requested' <= answered' + 1
       /\ readNext' => ~autoPage' /\ requested' = answered' /\ finished' = 0
       /\ finished' = 1 => requested' = answered' /\ ~readNext'
       /\ ~autoPage' /\ answered' < requested' => buffer' = <<>>
  <2>0. /\ requested \in Nat /\ answered \in Nat /\ finished \in {0, 1} /\ finished' = finished
        /\ answered' = answered /\ autoPage' = autoPage
    BY StreamFacts
  <2>1. CASE requested' = requested /\ readNext' = readNext
    BY <1>6, <1>10, <2>0, <2>1
  <2>2. CASE requested' = requested + 1 /\ readNext /\ ~readNext' /\ buffer' = <<>>
    BY <1>10, <2>0, <2>2
  <2> QED BY <1>4, <2>1, <2>2
<1> QED BY <1>1, <1>3, <1>7, <1>8, <1>9, <1>10, <1>11, <1>12 DEF StreamInv

\* What TakeFirst says.
TakesFirst(a, r, rest) ==
  /\ Append(a, Head(r)) \in Seq(RowSet) /\ Tail(r) \in Seq(RowSet)
  /\ Len(Tail(r)) = Len(r) - 1
  /\ Append(a, Head(r)) \o (Tail(r) \o rest) = a \o (r \o rest)

\* Taking the first row of the Readable moves it to the end of those the
\* consumer has.
LEMMA TakeFirst ==
  \A a, r, rest \in Seq(RowSet) : r # <<>> => TakesFirst(a, r, rest)
<1> SUFFICES ASSUME NEW a \in Seq(RowSet), NEW r \in Seq(RowSet), NEW rest \in Seq(RowSet),
                    r # <<>>
             PROVE  /\ Append(a, Head(r)) \in Seq(RowSet) /\ Tail(r) \in Seq(RowSet)
                    /\ Len(Tail(r)) = Len(r) - 1
                    /\ Append(a, Head(r)) \o (Tail(r) \o rest) = a \o (r \o rest)
  BY DEF TakesFirst
<1> DEFINE h == Head(r)
           tl == Tail(r)
           first == <<h>>
<1>1. /\ h \in RowSet /\ tl \in Seq(RowSet) /\ Len(tl) = Len(r) - 1 /\ first \o tl = r
  BY HeadTailProperties
<1> HIDE DEF h, tl
<1>2. Append(a, h) = a \o first /\ first \in Seq(RowSet) /\ Append(a, h) \in Seq(RowSet)
  BY <1>1, AppendIsConcat
<1> HIDE DEF first
<1>3. tl \o rest \in Seq(RowSet)
  BY <1>1
<1>4. (a \o first) \o (tl \o rest) = a \o (first \o (tl \o rest))
  BY <1>2, <1>3, RowsAssociate, Zenon
<1>5. (first \o tl) \o rest = first \o (tl \o rest)
  <2>1. first \in Seq(RowSet) /\ tl \in Seq(RowSet)
    BY <1>1, <1>2
  <2> QED BY <2>1, RowsAssociate, Zenon
<1>6. Append(a, h) \o (tl \o rest) = a \o (r \o rest)
  BY <1>1, <1>2, <1>4, <1>5, Zenon
<1> QED BY <1>1, <1>2, <1>6 DEF h, tl

\* A _read() that the consumer or the Readable asks for keeps the invariant.
LEMMA PollKeepsInv ==
  ASSUME StreamInv, Poll
  PROVE  StreamInv'
<1> DEFINE t == Read(Now)
<1>1. /\ Now \in StreamState /\ Marked(Now) /\ Now.readable = readable /\ Now.buffer = buffer
  BY NowFields
<1>2. Len(readable) < HighWaterMark /\ Len(readable) <= HighWaterMark
  BY DEF Poll, StreamInv
<1>3. Moved(Now, t) /\ Asked(Now, t) /\ Len(t.readable) <= HighWaterMark
  BY <1>1, <1>2, ReadMoves
<1>4. /\ Becomes(t) /\ UNCHANGED <<autoPage, pages, answered, error, finished>> /\ got' = got
  BY DEF Poll
<1> HIDE DEF t
<1>5. t \in StreamState
  BY <1>3 DEF Moved
<1>6. got' \o (t.readable \o RowsIn(t.buffer)) = got \o AtHand
  BY <1>1, <1>3, <1>4, Zenon DEF Moved, AtHand
<1>7. got' \in Seq(RowSet)
  BY <1>4, StreamFacts
<1> QED BY <1>3, <1>4, <1>5, <1>6, <1>7, MoveKeepsInv

\* The consumer takes a row: read() calls _read() before it.
LEMMA ConsumeKeepsInv ==
  ASSUME StreamInv, Consume
  PROVE  StreamInv'
<1> DEFINE s == IF eof \/ Len(readable) - 1 >= HighWaterMark THEN Now ELSE Read(Now)
           t == [s EXCEPT !.readable = Tail(@)]
<1>1. /\ Now \in StreamState /\ Marked(Now) /\ Now.readable = readable /\ Now.buffer = buffer
  BY NowFields
<1>2. /\ Len(readable) <= HighWaterMark /\ Len(readable) \in Nat /\ HighWaterMark \in Nat
      /\ readable # <<>> /\ readable \in Seq(RowSet)
  <2>1. Len(readable) <= HighWaterMark
    BY DEF StreamInv
  <2>2. readable \in Seq(RowSet)
    BY StreamFacts
  <2> QED BY <2>1, <2>2, RowStreamAssumption DEF RowStreamAssumption, Consume
<1>3. /\ Becomes(t) /\ UNCHANGED <<autoPage, pages, answered, error, finished>>
      /\ got' = Append(got, Head(s.readable))
  BY Zenon DEF Consume
<1>4. Moved(Now, s) /\ Asked(Now, s) /\ Len(s.readable) <= HighWaterMark + 1
  <2>1. CASE eof \/ Len(readable) - 1 >= HighWaterMark
    <3>1. s = Now
      BY <2>1, Zenon
    <3>2. Moved(Now, Now) /\ Asked(Now, Now)
      BY <1>1, Stays
    <3>3. Len(Now.readable) <= HighWaterMark + 1
      BY <1>1, <1>2
    <3> QED BY <3>1, <3>2, <3>3, Zenon
  <2>2. CASE ~(eof \/ Len(readable) - 1 >= HighWaterMark)
    <3>1. s = Read(Now)
      BY <2>2, Zenon
    <3>2. Moved(Now, Read(Now)) /\ Asked(Now, Read(Now)) /\ Len(Read(Now).readable) <= HighWaterMark + 1
      BY <1>1, <1>2, ReadMoves
    <3> QED BY <3>1, <3>2, Zenon
  <2> QED BY <2>1, <2>2
<1> HIDE DEF s
<1>5. /\ s \in StreamState /\ s.readable \in Seq(RowSet)
      /\ s.readable \o RowsIn(s.buffer) = readable \o RowsIn(buffer)
      /\ Len(RowsIn(s.buffer)) <= Len(RowsIn(buffer))
  <2>1. s \in StreamState
    BY <1>4 DEF Moved
  <2>2. s.readable \in Seq(RowSet)
    BY <2>1, StateTypes
  <2>3. /\ s.readable \o RowsIn(s.buffer) = readable \o RowsIn(buffer)
        /\ Len(RowsIn(s.buffer)) <= Len(RowsIn(buffer))
    BY <1>1, <1>4, Zenon DEF Moved
  <2> QED BY <2>1, <2>2, <2>3
<1>6. RowsIn(s.buffer) \in Seq(RowSet) /\ RowsIn(buffer) \in Seq(RowSet)
  <2>1. Open(<<>>)
    BY DEF Open
  <2>2. Open(s.buffer) \/ Closed(s.buffer)
    BY <1>1, <1>4, <2>1 DEF Marked, Moved
  <2>3. RowsIn(s.buffer) \in Seq(RowSet)
    BY <2>2, OpenRows, ClosedRows DEF Closed
  <2> QED BY <2>3, StreamFacts
<1>7. s.readable # <<>>
  <2>1. /\ Len(s.readable \o RowsIn(s.buffer)) = Len(s.readable) + Len(RowsIn(s.buffer))
        /\ Len(readable \o RowsIn(buffer)) = Len(readable) + Len(RowsIn(buffer))
    BY <1>2, <1>5, <1>6, ConcatProperties
  <2>2. /\ Len(s.readable) \in Nat /\ Len(RowsIn(s.buffer)) \in Nat
        /\ Len(readable) \in Nat /\ Len(RowsIn(buffer)) \in Nat
    BY <1>2, <1>5, <1>6
  <2>3. Len(s.readable) + Len(RowsIn(s.buffer)) = Len(readable) + Len(RowsIn(buffer))
    BY <1>5, <2>1, Zenon
  <2>4. Len(readable) > 0
    BY <1>2, EmptySeq
  <2>5. Len(s.readable) > 0
    <3>1. Len(RowsIn(s.buffer)) <= Len(RowsIn(buffer))
      BY <1>5
    <3>2. \A a, b, c, d \in Nat : a + b = c + d /\ b <= d /\ c > 0 => a > 0
      OBVIOUS
    <3> QED BY <2>2, <2>3, <2>4, <3>1, <3>2, Zenon
  <2> QED BY <2>5
<1>8. /\ Append(got, Head(s.readable)) \in Seq(RowSet) /\ Tail(s.readable) \in Seq(RowSet)
      /\ Len(Tail(s.readable)) = Len(s.readable) - 1
      /\ Append(got, Head(s.readable)) \o (Tail(s.readable) \o RowsIn(s.buffer))
           = got \o (s.readable \o RowsIn(s.buffer))
  <2>1. got \in Seq(RowSet)
    BY StreamFacts
  <2>2. s.readable \in Seq(RowSet)
    BY <1>5
  <2>3. RowsIn(s.buffer) \in Seq(RowSet)
    BY <1>6
  <2>4. TakesFirst(got, s.readable, RowsIn(s.buffer))
    BY <1>7, <2>1, <2>2, <2>3, TakeFirst, Zenon
  <2> QED BY <2>4, Zenon DEF TakesFirst
<1>9. /\ t \in StreamState /\ t.buffer = s.buffer /\ t.eof = s.eof /\ t.readNext = s.readNext
      /\ t.asks = s.asks /\ t.readable = Tail(s.readable)
  <2>1. \A r \in Seq(RowSet) : [s EXCEPT !.readable = r] \in StreamState
    BY <1>5 DEF StreamState
  <2>2. /\ t.buffer = s.buffer /\ t.eof = s.eof /\ t.readNext = s.readNext
        /\ t.asks = s.asks /\ t.readable = Tail(s.readable)
    BY <1>5 DEF StreamState
  <2> QED BY <1>8, <2>1, <2>2
<1> HIDE DEF t
<1>10. Len(t.readable) <= HighWaterMark
  <2>1. Len(s.readable) \in Nat
    BY <1>5
  <2> QED BY <1>2, <1>4, <1>8, <1>9, <2>1
<1>11. got' \o (t.readable \o RowsIn(t.buffer)) = got \o AtHand
  BY <1>3, <1>5, <1>8, <1>9, Zenon DEF AtHand
<1>12. got' \in Seq(RowSet)
  BY <1>3, <1>8
<1> QED BY <1>3, <1>4, <1>5, <1>9, <1>10, <1>11, <1>12, MoveKeepsInv

\* The invariant holds when stream() has sent its first request.
LEMMA InitStreamInv ==
  ASSUME Init
  PROVE  StreamInv
<1>1. pages \in Results /\ pages \in Seq(Seq(RowSet)) /\ pages # <<>> /\ HighWaterMark \in Nat
  BY RowStreamAssumption DEF RowStreamAssumption, Init
<1>2. Len(pages) \in Nat /\ Len(pages) >= 1 /\ 1 \in DOMAIN pages /\ pages[1] \in Seq(RowSet)
  BY <1>1
<1>3. Open(<<>>)
  BY DEF Open
<1>4. RowsIn(buffer) = <<>>
  BY DEF Init, RowsIn
<1>5. got \o AtHand = UpTo(pages, Received)
  <2>1. got = <<>> /\ readable = <<>> /\ Received = 0
    BY DEF Init, Received
  <2>2. UpTo(pages, 0) = <<>>
    BY <1>1, UpToZero
  <2> QED BY <1>4, <2>1, <2>2 DEF AtHand
<1>6. FitsAPage
  BY <1>2, <1>4 DEF FitsAPage
<1>7. TypeOK
  <2>1. requested \in 0..Len(pages) /\ answered \in 0..requested /\ finished \in 0..1
    BY <1>2 DEF Init
  <2>2. <<>> \in Seq(RowSet) /\ <<>> \in Seq(RowSet \cup {Null})
    OBVIOUS
  <2> QED BY <1>1, <2>1, <2>2, Zenon DEF Init, TypeOK
<1> QED BY <1>1, <1>2, <1>3, <1>5, <1>6, <1>7 DEF Init, StreamInv

\* Every step of the stream keeps the invariant.
LEMMA NextKeepsInv ==
  ASSUME StreamInv, [Next]_vars
  PROVE  StreamInv'
<1>1. CASE UNCHANGED vars
  BY <1>1 DEF vars, StreamInv, TypeOK, AtHand, Received, FitsAPage
<1> QED
  BY <1>1, PageArrivesKeepsInv, PageFailsKeepsInv, ConsumeKeepsInv, PollKeepsInv DEF Next

\* The invariant implies StreamExact.
LEMMA InvImpliesExact ==
  ASSUME StreamInv
  PROVE  StreamExact
<1>1. TypeOK /\ got \o AtHand = UpTo(pages, Received)
  BY DEF StreamInv
<1>2. Rows = UpTo(pages, Len(pages))
  BY DEF Rows
<1>3. got \o readable \o RowsIn(buffer) = got \o AtHand
  <2>1. (got \o readable) \o RowsIn(buffer) = got \o (readable \o RowsIn(buffer))
    BY StreamFacts, RowsAssociate, Zenon
  <2> QED BY <2>1 DEF AtHand
<1>4. Received \in 0..Len(pages)
  BY StreamFacts DEF Received, StreamInv
<1>5. IsPrefix(UpTo(pages, Received), UpTo(pages, Len(pages)))
  <2>1. Len(pages) \in Received..Len(pages)
    BY <1>4, StreamFacts
  <2>2. UpTo(pages, Received) \in Seq(RowSet)
    BY <1>4, StreamFacts, UpToType
  <2>3. IsPrefix(UpTo(pages, Received), UpTo(pages, Received))
    BY <2>2, PrefixOfItself
  <2> QED BY <1>4, <2>1, <2>2, <2>3, StreamFacts, UpToPrefix
<1>6. InOrder
  BY <1>1, <1>2, <1>3, <1>5, Zenon DEF InOrder
<1>7. EndsAtTheEnd
  <2> SUFFICES ASSUME eof, ~error PROVE got \o readable = Rows
    BY DEF EndsAtTheEnd
  <2>1. finished = 1
    BY StreamFacts DEF StreamInv
  <2>2. answered = Len(pages) /\ buffer = <<>>
    BY <2>1 DEF StreamInv
  <2>3. AtHand = readable
    <3>1. RowsIn(buffer) = <<>>
      BY <2>2 DEF RowsIn
    <3> QED BY <3>1, StreamFacts, ConcatEmptySeq DEF AtHand
  <2> QED BY <1>1, <1>2, <2>2, <2>3, Zenon DEF Received
<1> QED BY <1>6, <1>7 DEF StreamExact

\* The invariant implies StreamThrottled.
LEMMA InvImpliesThrottled ==
  ASSUME StreamInv
  PROVE  StreamThrottled
<1>1. OneRequestAtATime
  <2>1. requested <= answered + 1 /\ (finished = 1 => requested = answered)
    BY DEF StreamInv
  <2> QED BY <2>1, StreamFacts DEF OneRequestAtATime
<1>2. BufferBounded
  BY DEF StreamInv, FitsAPage, BufferBounded
<1> QED BY <1>1, <1>2 DEF StreamThrottled

-----------------------------------------------------------------------------
(* The iterator.                                                           *)

\* No page before the last one is empty.
NoEmptyPage == \A p \in 1..(Len(pages) - 1) : pages[p] # <<>>

\* The inductive invariant of the iterator: the rows yielded are those of the
\* pages before the one at hand and the first ones of that page.
IteratorInv ==
  /\ Iterator!TypeOK
  /\ got = UpTo(pages, page - 1) \o SubSeq(pages[page], 1, index)
  /\ fetching => page < Len(pages) /\ index = Len(pages[page])
  /\ NoEmptyPage /\ done => page = Len(pages) /\ index = Len(pages[page])

\* What the proofs need of a state of the iterator's invariant.
LEMMA IteratorFacts ==
  ASSUME IteratorInv
  PROVE  /\ pages \in Results /\ pages \in Seq(Seq(RowSet)) /\ Len(pages) \in Nat
         /\ page \in 1..Len(pages) /\ pages[page] \in Seq(RowSet) /\ Len(pages[page]) \in Nat
         /\ index \in 0..Len(pages[page]) /\ got \in Seq(RowSet)
         /\ fetching \in BOOLEAN /\ done \in BOOLEAN /\ failures \in 0..MaxFailures
         /\ UpTo(pages, page - 1) \in Seq(RowSet)
         /\ UpTo(pages, page) = UpTo(pages, page - 1) \o pages[page]
<1>1. /\ pages \in Results /\ pages \in Seq(Seq(RowSet))
      /\ page \in 1..Len(pages) /\ index \in 0..Len(pages[page]) /\ got \in Seq(RowSet)
      /\ fetching \in BOOLEAN /\ done \in BOOLEAN /\ failures \in 0..MaxFailures
  BY RowStreamAssumption DEF RowStreamAssumption, IteratorInv, Iterator!TypeOK
<1>2. Len(pages) \in Nat
  BY <1>1
<1>3. pages[page] \in Seq(RowSet) /\ Len(pages[page]) \in Nat
  BY <1>1
<1>4. page - 1 \in 0..(Len(pages) - 1) /\ page - 1 \in 0..Len(pages) /\ page - 1 + 1 = page
  BY <1>1, <1>2
<1>5. UpTo(pages, page - 1) \in Seq(RowSet)
  BY <1>1, <1>4, UpToType
<1>6. UpTo(pages, page - 1 + 1) = UpTo(pages, page - 1) \o pages[page - 1 + 1]
  BY <1>1, <1>4, UpToStep
<1>7. UpTo(pages, page) = UpTo(pages, page - 1) \o pages[page]
  BY <1>4, <1>6, Zenon
<1> QED BY <1>1, <1>2, <1>3, <1>5, <1>7

\* One element more of a sequence.
LEMMA CutGrows ==
  ASSUME NEW b \in Seq(RowSet), NEW i \in 0..(Len(b) - 1)
  PROVE  /\ SubSeq(b, 1, i) \in Seq(RowSet) /\ b[i + 1] \in RowSet
         /\ SubSeq(b, 1, i + 1) = Append(SubSeq(b, 1, i), b[i + 1])
<1>0. Len(b) \in Nat /\ i + 1 \in 1..Len(b)
  OBVIOUS
<1>1. /\ SubSeq(b, 1, i) \in Seq(RowSet) /\ Len(SubSeq(b, 1, i)) = i
      /\ \A j \in 1..i : SubSeq(b, 1, i)[j] = b[j]
  BY SubSeqProperties
<1>2. /\ SubSeq(b, 1, i + 1) \in Seq(RowSet) /\ Len(SubSeq(b, 1, i + 1)) = i + 1
      /\ \A j \in 1..(i + 1) : SubSeq(b, 1, i + 1)[j] = b[j]
  BY <1>0, SubSeqProperties
<1> DEFINE short == SubSeq(b, 1, i)
           long == SubSeq(b, 1, i + 1)
<1> HIDE DEF short, long
<1>3. long = Append(short, b[i + 1])
  <2>1. short \in Seq(RowSet) /\ Len(short) = i /\ \A j \in 1..i : short[j] = b[j]
    BY <1>1 DEF short
  <2>2. long \in Seq(RowSet) /\ Len(long) = i + 1 /\ \A j \in 1..(i + 1) : long[j] = b[j]
    BY <1>2 DEF long
  <2>3. b[i + 1] \in RowSet
    BY <1>0
  <2>4. /\ Append(short, b[i + 1]) \in Seq(RowSet) /\ Len(Append(short, b[i + 1])) = i + 1
        /\ \A j \in 1..i : Append(short, b[i + 1])[j] = short[j]
        /\ Append(short, b[i + 1])[i + 1] = b[i + 1]
    BY <2>1, <2>3, AppendProperties
  <2> DEFINE a == Append(short, b[i + 1])
  <2>5. \A j \in 1..(i + 1) : a[j] = long[j]
    <3> SUFFICES ASSUME NEW j \in 1..(i + 1) PROVE a[j] = long[j]
      OBVIOUS
    <3>1. j \in 1..i \/ j = i + 1
      OBVIOUS
    <3> HIDE DEF a
    <3> QED BY <2>1, <2>2, <2>4, <3>1 DEF a
  <2> HIDE DEF a
  <2>6. a \in Seq(RowSet) /\ Len(a) = i + 1
    BY <2>4 DEF a
  <2>7. a = long
    BY <2>2, <2>5, <2>6, SeqEqual
  <2> QED BY <2>7 DEF a
<1>4. SubSeq(b, 1, i + 1) = Append(SubSeq(b, 1, i), b[i + 1])
  BY <1>3, Zenon DEF short, long
<1>5. b[i + 1] \in RowSet
  BY <1>0
<1> QED BY <1>1, <1>4, <1>5, Zenon

\* Appending to the second of two sequences appends to both.
LEMMA AppendAssociates ==
  \A a, b \in Seq(RowSet) : \A e \in RowSet : Append(a \o b, e) = a \o Append(b, e)
<1> SUFFICES ASSUME NEW a \in Seq(RowSet), NEW b \in Seq(RowSet), NEW e \in RowSet
             PROVE  Append(a \o b, e) = a \o Append(b, e)
  OBVIOUS
<1> DEFINE c == a \o b
           last == <<e>>
<1>1. c \in Seq(RowSet) /\ last \in Seq(RowSet)
  OBVIOUS
<1>2. Append(b, e) = b \o last
  BY AppendIsConcat
<1>3. Append(c, e) = c \o last
  <2> HIDE DEF c
  <2> QED BY <1>1, AppendIsConcat
<1> HIDE DEF last
<1>4. (a \o b) \o last = a \o (b \o last)
  BY <1>1, RowsAssociate, Zenon
<1> QED BY <1>2, <1>3, <1>4, Zenon

\* next() with a row at hand or at the end keeps the invariant.
LEMMA NextHereKeepsInv ==
  ASSUME IteratorInv, Iterator!NextHere
  PROVE  IteratorInv'
<1>1. /\ ~done /\ ~fetching /\ UNCHANGED <<pages, page, fetching, failures>>
      /\ pages[1] = <<>> \/ ~(index >= Len(pages[page]) /\ page < Len(pages))
      /\ IF index < Len(pages[page])
         THEN got' = Append(got, pages[page][index + 1]) /\ index' = index + 1 /\ UNCHANGED done
         ELSE done' = TRUE /\ UNCHANGED <<got, index>>
  BY DEF Iterator!NextHere, Iterator!Called, Iterator!FirstPageEmpty, Iterator!UsedUp,
         Iterator!PageState, Iterator!Yield
<1>2. CASE index < Len(pages[page])
  <2> DEFINE row == pages[page][index + 1]
  <2>1. got' = Append(got, row) /\ index' = index + 1 /\ done' = done
    BY <1>1, <1>2
  <2>2. /\ SubSeq(pages[page], 1, index) \in Seq(RowSet) /\ row \in RowSet
        /\ SubSeq(pages[page], 1, index + 1) = Append(SubSeq(pages[page], 1, index), row)
    <3>1. index \in 0..(Len(pages[page]) - 1) /\ pages[page] \in Seq(RowSet)
      BY <1>2, IteratorFacts
    <3> QED BY <3>1, CutGrows
  <2> HIDE DEF row
  <2>3. got' = UpTo(pages, page - 1) \o SubSeq(pages[page], 1, index + 1)
    <3>1. got = UpTo(pages, page - 1) \o SubSeq(pages[page], 1, index)
      BY DEF IteratorInv
    <3>2. UpTo(pages, page - 1) \in Seq(RowSet)
      BY IteratorFacts
    <3>3. Append(UpTo(pages, page - 1) \o SubSeq(pages[page], 1, index), row)
            = UpTo(pages, page - 1) \o Append(SubSeq(pages[page], 1, index), row)
      BY <2>2, <3>2, AppendAssociates, Zenon
    <3> QED BY <2>1, <2>2, <3>1, <3>3, Zenon
  <2>4. (got = UpTo(pages, page - 1) \o SubSeq(pages[page], 1, index))'
    BY <1>1, <2>1, <2>3, Zenon
  <2>5. Iterator!TypeOK'
    <3>1. index' \in 0..Len(pages[page])
      BY <1>2, <2>1, IteratorFacts
    <3>2. got' \in Seq(RowSet)
      BY <2>1, <2>2, IteratorFacts
    <3> QED BY <1>1, <2>1, <3>1, <3>2, IteratorFacts DEF Iterator!TypeOK
  <2> QED BY <1>1, <2>1, <2>4, <2>5 DEF IteratorInv
<1>3. CASE ~(index < Len(pages[page]))
  <2>1. done' = TRUE /\ got' = got /\ index' = index /\ index = Len(pages[page])
    BY <1>1, <1>3, IteratorFacts
  <2>2. NoEmptyPage => page = Len(pages)
    <3> SUFFICES ASSUME NoEmptyPage PROVE page = Len(pages)
      OBVIOUS
    <3>1. CASE pages[1] = <<>>
      <4>1. Len(pages) <= 1
        BY <3>1, IteratorFacts DEF NoEmptyPage
      <4> QED BY <4>1, IteratorFacts
    <3>2. CASE ~(index >= Len(pages[page]) /\ page < Len(pages))
      BY <2>1, <3>2, IteratorFacts
    <3> QED BY <1>1, <3>1, <3>2
  <2>3. Iterator!TypeOK'
    BY <1>1, <2>1, IteratorFacts DEF Iterator!TypeOK
  <2> QED BY <1>1, <2>1, <2>2, <2>3 DEF IteratorInv, NoEmptyPage
<1> QED BY <1>2, <1>3

\* next() that asks for a page keeps it,
LEMMA NextFetchesKeepsInv ==
  ASSUME IteratorInv, Iterator!NextFetches
  PROVE  IteratorInv'
<1>1. /\ ~done /\ fetching' = TRUE /\ UNCHANGED <<pages, page, index, failures, got, done>>
      /\ index >= Len(pages[page]) /\ page < Len(pages)
  BY DEF Iterator!NextFetches, Iterator!Called, Iterator!UsedUp, Iterator!PageState
<1>2. index = Len(pages[page])
  BY <1>1, IteratorFacts
<1>3. Iterator!TypeOK'
  BY <1>1, IteratorFacts DEF Iterator!TypeOK
<1> QED BY <1>1, <1>2, <1>3 DEF IteratorInv, NoEmptyPage

\* and so does a fetch that fails,
LEMMA FetchFailedKeepsInv ==
  ASSUME IteratorInv, Iterator!FetchFailed
  PROVE  IteratorInv'
<1>1. /\ fetching' = FALSE /\ failures < MaxFailures /\ failures' = failures + 1
      /\ UNCHANGED <<pages, page, index, got, done>>
  BY DEF Iterator!FetchFailed
<1>2. failures' \in 0..MaxFailures
  BY <1>1, IteratorFacts, PagingAssumption DEF PagingAssumption
<1>3. Iterator!TypeOK'
  BY <1>1, <1>2, IteratorFacts DEF Iterator!TypeOK
<1> QED BY <1>1, <1>3 DEF IteratorInv, NoEmptyPage

\* and the rest of next() on the page that was fetched.
LEMMA PageFetchedKeepsInv ==
  ASSUME IteratorInv, Iterator!PageFetched
  PROVE  IteratorInv'
<1> DEFINE next == pages[page + 1]
<1>1. /\ fetching /\ fetching' = FALSE /\ page' = page + 1 /\ UNCHANGED <<pages, failures>>
      /\ IF next # <<>>
         THEN got' = Append(got, next[1]) /\ index' = 1 /\ UNCHANGED done
         ELSE done' = TRUE /\ index' = 0 /\ UNCHANGED got
  BY DEF Iterator!PageFetched
<1>2. page < Len(pages) /\ index = Len(pages[page])
  BY <1>1 DEF IteratorInv
<1>3. /\ page' \in 1..Len(pages) /\ page' - 1 = page /\ pages'[page'] = next
      /\ next \in Seq(RowSet) /\ Len(next) \in Nat
  <2>1. page + 1 \in 1..Len(pages)
    BY <1>2, IteratorFacts
  <2>2. next \in Seq(RowSet)
    BY <2>1, IteratorFacts
  <2>3. page' = page + 1 /\ pages' = pages /\ page \in Nat
    BY <1>1, IteratorFacts
  <2>4. pages'[page'] = next
    BY <2>3, Zenon
  <2>5. page' - 1 = page
    BY <2>3
  <2>6. Len(next) \in Nat
    <3> HIDE DEF next
    <3> QED BY <2>2
  <2> QED BY <2>1, <2>2, <2>3, <2>4, <2>5, <2>6, Zenon
<1>4. got = UpTo(pages, page) /\ got \in Seq(RowSet)
  <2>1. SubSeq(pages[page], 1, index) = pages[page]
    BY <1>2, IteratorFacts, SubSeqFull
  <2>2. got = UpTo(pages, page - 1) \o SubSeq(pages[page], 1, index)
    BY DEF IteratorInv
  <2>3. UpTo(pages, page) = UpTo(pages, page - 1) \o pages[page] /\ got \in Seq(RowSet)
    BY IteratorFacts
  <2> QED BY <2>1, <2>2, <2>3, Zenon
<1> HIDE DEF next
<1>5. CASE next # <<>>
  <2>1. got' = Append(got, next[1]) /\ index' = 1 /\ done' = done /\ Len(next) >= 1
    BY <1>1, <1>3, <1>5
  <2>2. SubSeq(next, 1, 0) = <<>> /\ next[1] \in RowSet /\ SubSeq(next, 1, 1) = Append(<<>>, next[1])
    <3>1. 0 \in 0..(Len(next) - 1) /\ 0 + 1 = 1
      BY <1>3, <2>1
    <3>2. /\ next[0 + 1] \in RowSet
          /\ SubSeq(next, 1, 0 + 1) = Append(SubSeq(next, 1, 0), next[0 + 1])
      BY <1>3, <3>1, CutGrows
    <3>3. SubSeq(next, 1, 0) = <<>>
      BY SubSeqEmpty
    <3> QED BY <3>1, <3>2, <3>3, Zenon
  <2>3. got' = UpTo(pages, page) \o SubSeq(next, 1, 1) /\ got' \in Seq(RowSet)
    <3>1. Append(<<>>, next[1]) = <<next[1]>> /\ Append(got, next[1]) = got \o <<next[1]>>
      BY <1>4, <2>2, AppendIsConcat
    <3>2. Append(got, next[1]) \in Seq(RowSet)
      BY <1>4, <2>2
    <3> QED BY <1>4, <2>1, <2>2, <3>1, <3>2, Zenon
  <2>4. (got = UpTo(pages, page - 1) \o SubSeq(pages[page], 1, index))'
    BY <1>1, <1>3, <2>1, <2>3, Zenon
  <2>5. Iterator!TypeOK'
    <3>1. index' \in 0..Len(next)
      BY <1>3, <2>1
    <3> QED BY <1>1, <1>3, <2>1, <2>3, <3>1, IteratorFacts DEF Iterator!TypeOK
  <2>6. ~(NoEmptyPage' /\ done')
    <3>1. page \in 1..Len(pages) /\ (NoEmptyPage /\ done => page = Len(pages))
      BY IteratorFacts DEF IteratorInv
    <3>2. NoEmptyPage' = NoEmptyPage
      BY <1>1 DEF NoEmptyPage
    <3> QED BY <1>2, <2>1, <3>1, <3>2, IteratorFacts
  <2> QED BY <1>1, <2>4, <2>5, <2>6 DEF IteratorInv
<1>6. CASE next = <<>>
  <2>1. got' = got /\ index' = 0 /\ done' = TRUE /\ Len(next) = 0
    BY <1>1, <1>6
  <2>2. SubSeq(next, 1, 0) = <<>> /\ UpTo(pages, page) \o <<>> = UpTo(pages, page)
    BY <1>4, SubSeqEmpty, ConcatEmptySeq
  <2>3. (got = UpTo(pages, page - 1) \o SubSeq(pages[page], 1, index))'
    BY <1>1, <1>3, <1>4, <2>1, <2>2, Zenon
  <2>4. Iterator!TypeOK'
    <3>1. index' \in 0..Len(next)
      BY <2>1
    <3> QED BY <1>1, <1>3, <1>4, <2>1, <3>1, IteratorFacts DEF Iterator!TypeOK
  <2>5. NoEmptyPage' => page' = Len(pages')
    <3> SUFFICES ASSUME NoEmptyPage PROVE page' = Len(pages)
      BY <1>1 DEF NoEmptyPage
    <3>1. ~(page + 1 \in 1..(Len(pages) - 1))
      BY <1>6 DEF NoEmptyPage, next
    <3>2. page \in Nat /\ Len(pages) \in Nat /\ page' = page + 1
      BY <1>1, IteratorFacts
    <3> QED BY <1>2, <3>1, <3>2
  <2> QED BY <1>1, <1>3, <2>1, <2>3, <2>4, <2>5 DEF IteratorInv
<1> QED BY <1>5, <1>6

\* The iterator starts before the first row of the first page.
LEMMA InitIteratorInv ==
  ASSUME Iterator!Init
  PROVE  IteratorInv
<1>1. pages \in Results /\ pages \in Seq(Seq(RowSet)) /\ pages # <<>>
  BY RowStreamAssumption DEF RowStreamAssumption, Iterator!Init
<1>2. /\ Len(pages) \in Nat /\ 1 \in 1..Len(pages) /\ pages[1] \in Seq(RowSet)
      /\ 0 \in 0..Len(pages[1])
  BY <1>1
<1>3. page = 1 /\ index = 0 /\ got = <<>> /\ fetching = FALSE /\ done = FALSE /\ failures = 0
  BY DEF Iterator!Init
<1>4. UpTo(pages, page - 1) = <<>>
  <2>1. page - 1 = 0 /\ UpTo(pages, 0) = <<>>
    BY <1>1, <1>3, UpToZero
  <2> QED BY <2>1
<1>5. SubSeq(pages[page], 1, index) = <<>>
  BY <1>3, SubSeqEmpty
<1>6. got = UpTo(pages, page - 1) \o SubSeq(pages[page], 1, index)
  BY <1>3, <1>4, <1>5
<1>7. Iterator!TypeOK
  <2>1. failures \in 0..MaxFailures /\ <<>> \in Seq(RowSet)
    BY <1>3, PagingAssumption DEF PagingAssumption
  <2> QED BY <1>1, <1>2, <1>3, <2>1 DEF Iterator!TypeOK
<1> QED BY <1>3, <1>6, <1>7 DEF IteratorInv

\* Every step of the iterator keeps the invariant.
LEMMA IteratorNextKeepsInv ==
  ASSUME IteratorInv, Iterator!Next
  PROVE  IteratorInv'
BY NextHereKeepsInv, NextFetchesKeepsInv, PageFetchedKeepsInv, FetchFailedKeepsInv
   DEF Iterator!Next

\* The invariant implies what the iterator promises, if no page before the
\* last one is empty.
LEMMA InvImpliesYields ==
  ASSUME IteratorInv
  PROVE  /\ Iterator!TypeOK /\ IsPrefix(got, Rows)
         /\ NoEmptyPage /\ done => got = Rows
<1>1. Rows = UpTo(pages, Len(pages))
  BY DEF Rows
<1> DEFINE before == UpTo(pages, page - 1)
           front == SubSeq(pages[page], 1, index)
           rest == SubSeq(pages[page], index + 1, Len(pages[page]))
<1>2. /\ got = before \o front /\ before \in Seq(RowSet)
      /\ UpTo(pages, page) = before \o pages[page]
  BY IteratorFacts DEF IteratorInv
<1>3. front \in Seq(RowSet) /\ rest \in Seq(RowSet) /\ front \o rest = pages[page]
  BY IteratorFacts, Cut
<1>4. IsPrefix(got, UpTo(pages, page))
  <2> HIDE DEF before, front, rest
  <2>1. (before \o front) \o rest = before \o (front \o rest)
    BY <1>2, <1>3, RowsAssociate, Zenon
  <2>2. got \o rest = UpTo(pages, page)
    BY <1>2, <1>3, <2>1, Zenon
  <2>3. got \in Seq(RowSet) /\ IsPrefix(got, got)
    BY IteratorFacts, PrefixOfItself
  <2>4. IsPrefix(got, got \o rest)
    BY <1>3, <2>3, PrefixExtends
  <2> QED BY <2>2, <2>4, Zenon
<1>5. IsPrefix(got, Rows)
  <2>1. page \in 0..Len(pages) /\ Len(pages) \in page..Len(pages)
    BY IteratorFacts
  <2>2. \A q \in page..Len(pages) : IsPrefix(got, UpTo(pages, q))
    BY <1>4, <2>1, IteratorFacts, UpToPrefix
  <2> QED BY <1>1, <2>1, <2>2, Zenon
<1>6. ASSUME NoEmptyPage, done PROVE got = Rows
  <2>1. page = Len(pages) /\ index = Len(pages[page])
    BY <1>6 DEF IteratorInv
  <2>2. front = pages[page]
    BY <2>1, IteratorFacts, SubSeqFull
  <2> HIDE DEF before, front
  <2> QED BY <1>1, <1>2, <2>1, <2>2, Zenon
<1> QED BY <1>5, <1>6 DEF IteratorInv

-----------------------------------------------------------------------------
(* Both readers.                                                           *)

\* The stream's variables at their first values.
StreamStarts ==
  /\ autoPage \in BOOLEAN /\ requested = 1 /\ answered = 0 /\ error = FALSE /\ buffer = <<>>
  /\ paused = TRUE /\ readNext = FALSE /\ readable = <<>> /\ eof = FALSE /\ finished = 0

\* The inductive invariant of both.
PagingInv ==
  /\ reader \in {"stream", "iterator"}
  /\ reader = "stream" => StreamInv
  /\ reader = "iterator" =>
       IteratorInv /\ StreamStarts /\ (IteratorEmptyPages \/ NoEmptyPage)

\* The invariant of both readers holds at the start,
LEMMA PagingInitInv ==
  ASSUME PagingInit
  PROVE  PagingInv
<1>1. reader \in {"stream", "iterator"} /\ Init /\ Iterator!Init
  BY DEF PagingInit
<1>2. StreamInv /\ IteratorInv
  BY <1>1, InitStreamInv, InitIteratorInv
<1>3. StreamStarts
  BY <1>1 DEF Init, StreamStarts
<1>4. reader = "iterator" => IteratorEmptyPages \/ NoEmptyPage
  BY DEF PagingInit, NoEmptyPage
<1> QED BY <1>1, <1>2, <1>3, <1>4 DEF PagingInv

\* and every step keeps it.
LEMMA PagingNextInv ==
  ASSUME PagingInv, [PagingNext]_pagingVars
  PROVE  PagingInv'
<1>1. CASE ByStream(Next)
  <2>1. reader = "stream" /\ reader' = reader /\ Next
    BY <1>1 DEF ByStream
  <2>2. StreamInv'
    BY <2>1, NextKeepsInv DEF PagingInv
  <2> QED BY <2>1, <2>2 DEF PagingInv
<1>2. CASE ByIterator
  <2>1. reader = "iterator" /\ reader' = reader /\ Iterator!Next /\ UNCHANGED streamOnly
    BY <1>2 DEF ByIterator
  <2>2. IteratorInv'
    BY <2>1, IteratorNextKeepsInv DEF PagingInv
  <2>3. StreamStarts'
    BY <2>1 DEF PagingInv, StreamStarts, streamOnly
  <2>4. pages' = pages
    BY <2>1 DEF Iterator!Next, Iterator!NextHere, Iterator!NextFetches, Iterator!PageFetched,
                Iterator!FetchFailed
  <2>5. (IteratorEmptyPages \/ NoEmptyPage)'
    BY <2>1, <2>4 DEF PagingInv, NoEmptyPage
  <2> QED BY <2>1, <2>2, <2>3, <2>5 DEF PagingInv
<1>3. CASE UNCHANGED pagingVars
  <2>1. /\ UNCHANGED vars /\ reader' = reader
        /\ UNCHANGED <<page, index, fetching, failures, done>>
    BY <1>3 DEF pagingVars, iteratorOnly
  <2>2. StreamInv => StreamInv'
    BY <2>1, NextKeepsInv
  <2>3. IteratorInv => IteratorInv'
    BY <2>1 DEF vars, IteratorInv, Iterator!TypeOK, NoEmptyPage
  <2>4. StreamStarts => StreamStarts'
    BY <2>1 DEF vars, StreamStarts
  <2>5. NoEmptyPage => NoEmptyPage'
    BY <2>1 DEF vars, NoEmptyPage
  <2> QED BY <2>1, <2>2, <2>3, <2>4, <2>5 DEF PagingInv
<1> QED BY <1>1, <1>2, <1>3 DEF PagingNext

\* It implies the three properties.
LEMMA PagingInvImplies ==
  ASSUME PagingInv
  PROVE  StreamExact /\ StreamThrottled /\ (~IteratorEmptyPages => IteratorYieldsAllRows)
<1>1. CASE reader = "stream"
  <2>1. reader # "iterator"
    BY <1>1
  <2> QED BY <1>1, <2>1, InvImpliesExact, InvImpliesThrottled DEF PagingInv, IteratorYieldsAllRows
<1>2. CASE reader = "iterator"
  <2>1. IteratorInv /\ StreamStarts /\ (IteratorEmptyPages \/ NoEmptyPage)
    BY <1>2 DEF PagingInv
  <2>2. RowsIn(buffer) = <<>> /\ readable = <<>> /\ ~eof
    BY <2>1 DEF StreamStarts, RowsIn
  <2>3. TypeOK
    <3>1. <<>> \in Seq(RowSet) /\ <<>> \in Seq(RowSet \cup {Null})
      OBVIOUS
    <3>2. pages \in Results /\ got \in Seq(RowSet) /\ 1 \in 0..Len(pages)
      BY <2>1, IteratorFacts
    <3>3. requested \in 0..Len(pages) /\ answered \in 0..requested /\ finished \in 0..1
      BY <2>1, <3>2 DEF StreamStarts
    <3> QED BY <2>1, <3>1, <3>2, <3>3, Zenon DEF StreamStarts, TypeOK
  <2>4. InOrder
    <3>1. got \o readable \o RowsIn(buffer) = got
      BY <2>1, <2>2, IteratorFacts, ConcatEmptySeq
    <3> QED BY <2>1, <2>3, <3>1, InvImpliesYields DEF InOrder
  <2>5. EndsAtTheEnd /\ OneRequestAtATime
    BY <2>1 DEF EndsAtTheEnd, OneRequestAtATime, StreamStarts
  <2>6. BufferBounded
    <3>1. 1 \in DOMAIN pages /\ Len(pages[1]) \in Nat /\ HighWaterMark \in Nat
      BY <2>1, IteratorFacts, RowStreamAssumption DEF RowStreamAssumption
    <3>2. Len(RowsIn(buffer)) = 0 /\ Len(readable) = 0
      BY <2>2
    <3> QED BY <3>1, <3>2 DEF BufferBounded
  <2>7. ~IteratorEmptyPages => IteratorYieldsAllRows
    BY <2>1, InvImpliesYields DEF IteratorYieldsAllRows
  <2> QED BY <2>4, <2>5, <2>6, <2>7 DEF StreamExact, StreamThrottled
<1> QED BY <1>1, <1>2 DEF PagingInv

\* PagingInv is an invariant of the two readers of a paged result, for every
\* set of results and every high water mark.
THEOREM PagingInvariant == PagingSpec => []PagingInv
<1>1. PagingInit => PagingInv
  BY PagingInitInv
<1>2. PagingInv /\ [PagingNext]_pagingVars => PagingInv'
  BY PagingNextInv
<1> QED BY <1>1, <1>2, PTL DEF PagingSpec

\* Client.stream() gives the rows of every result in order, none twice and
\* none left out, and ends only after the last one or an error, whatever the
\* sizes of the pages, the high water mark and the speed of the consumer.
THEOREM StreamIsExact == PagingSpec => []StreamExact
<1>1. PagingInv => StreamExact
  BY PagingInvImplies
<1> QED BY <1>1, PagingInvariant, PTL

\* ResultStream's valve lets one request out at a time, never after the end,
\* and never has more than one page buffered when autoPage is off.
THEOREM StreamIsThrottled == PagingSpec => []StreamThrottled
<1>1. PagingInv => StreamThrottled
  BY PagingInvImplies
<1> QED BY <1>1, PagingInvariant, PTL

\* The async iterator of a ResultSet yields all rows in order, each once, also
\* when fetches failed and next() was called again - provided that no page
\* before the last one is empty.  Without that it does not: see the run
\* PagingEmptyPages.
THEOREM IteratorIsExact ==
  ASSUME ~IteratorEmptyPages
  PROVE  PagingSpec => []IteratorYieldsAllRows
<1>1. PagingInv => IteratorYieldsAllRows
  BY PagingInvImplies
<1> QED BY <1>1, PagingInvariant, PTL

=============================================================================
