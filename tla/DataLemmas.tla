------------------------------ MODULE DataLemmas ------------------------------
(***************************************************************************)
(* What the theorems about lists, streams, tables and shards need of the   *)
(* data: induction over numbers, sequences and how they are put together,  *)
(* the sequences that FlattenSeq makes, and the numbers that digits make.  *)
(* The induction of the library takes a predicate, which no prover here    *)
(* can instantiate; these lemmas take the set of the numbers that satisfy  *)
(* it.                                                                     *)
(***************************************************************************)
EXTENDS Integers, Sequences, SequencesExt, FiniteSetTheorems, TLAPS

\* Every set of natural numbers that is not empty has a least element: of the
\* intervals 0 .. n with n in the set, one is minimal.
LEMMA LeastNatural ==
  ASSUME NEW T \in SUBSET Nat, T # {}
  PROVE  \E m \in T : \A n \in T : m <= n
<1> DEFINE Intervals == {0 .. n : n \in T}
<1>1. IsWellFoundedOn(StrictSubsetOrdering(Nat), FiniteSubsetsOf(Nat))
  BY FS_StrictSubsetOrderingWellFounded
<1>2. Intervals \subseteq FiniteSubsetsOf(Nat)
  <2>1. ASSUME NEW n \in T PROVE 0 .. n \in FiniteSubsetsOf(Nat)
    <3>1. IsFiniteSet(0 .. n)
      BY FS_Interval
    <3> QED
      BY <3>1 DEF FiniteSubsetsOf
  <2> QED
    BY <2>1
<1>3. Intervals # {}
  OBVIOUS
<1>4. \E x \in Intervals : \A y \in Intervals : <<y, x>> \notin StrictSubsetOrdering(Nat)
  <2> HIDE DEF Intervals
  <2> QED
    BY <1>1, <1>2, <1>3, WFMin
<1>5. PICK m \in T : \A n \in T : <<0 .. n, 0 .. m>> \notin StrictSubsetOrdering(Nat)
  BY <1>4
<1>6. ASSUME NEW n \in T PROVE m <= n
  <2>1. CASE n < m
    <3>1. 0 .. n \subseteq 0 .. m /\ 0 .. m \subseteq Nat /\ m \in 0 .. m /\ m \notin 0 .. n
      BY <2>1
    <3>2. <<0 .. n, 0 .. m>> \in StrictSubsetOrdering(Nat)
      BY <3>1, Zenon DEF StrictSubsetOrdering
    <3> QED
      BY <1>5, <3>2
  <2> QED
    BY <2>1
<1> QED
  BY <1>6

\* Induction from 0 up to a number.
LEMMA UpTo ==
  ASSUME NEW N \in Nat, NEW T, 0 \in T, \A n \in 0 .. N : n < N /\ n \in T => n + 1 \in T
  PROVE  0 .. N \subseteq T
<1> DEFINE Left == {n \in 0 .. N : n \notin T}
<1> SUFFICES ASSUME Left # {} PROVE FALSE
  OBVIOUS
<1>1. PICK m \in Left : \A n \in Left : m <= n
  <2>1. Left \subseteq Nat
    OBVIOUS
  <2> HIDE DEF Left
  <2> QED
    BY <2>1, LeastNatural
<1>2. m # 0 /\ m \in 0 .. N /\ m \notin T
  OBVIOUS
<1>3. m - 1 \in 0 .. N /\ m - 1 < N /\ m - 1 \notin Left
  BY <1>1, <1>2
<1>4. m - 1 \in T
  BY <1>3
<1> QED
  BY <1>2, <1>3, <1>4

\* Induction over all natural numbers.
LEMMA AllNatural ==
  ASSUME NEW T, 0 \in T, \A n \in Nat : n \in T => n + 1 \in T
  PROVE  Nat \subseteq T
<1>1. ASSUME NEW N \in Nat PROVE N \in T
  <2>1. 0 .. N \subseteq T
    BY UpTo
  <2> QED
    BY <2>1
<1> QED
  BY <1>1

------------------------------------------------------------------------------
(* Sequences.                                                              *)

LEMMA Ended ==
  ASSUME NEW S, NEW s \in Seq(S), NEW e \in S
  PROVE  /\ Append(s, e) \in Seq(S) /\ Len(Append(s, e)) = Len(s) + 1
         /\ \A i \in 1 .. Len(s) : Append(s, e)[i] = s[i]
         /\ Append(s, e)[Len(s) + 1] = e
         /\ Len(s) \in Nat
  OBVIOUS

LEMMA Shortened ==
  ASSUME NEW S, NEW s \in Seq(S), s # <<>>
  PROVE  /\ Tail(s) \in Seq(S) /\ Len(Tail(s)) = Len(s) - 1
         /\ \A i \in 1 .. Len(s) - 1 : Tail(s)[i] = s[i + 1]
         /\ Len(s) \in Nat \ {0} /\ s[1] \in S
  OBVIOUS

LEMMA Headed ==
  ASSUME NEW S, NEW s \in Seq(S), NEW e \in S
  PROVE  /\ <<e>> \o s \in Seq(S) /\ Len(<<e>> \o s) = Len(s) + 1
         /\ (<<e>> \o s)[1] = e
         /\ \A i \in 1 .. Len(s) : (<<e>> \o s)[i + 1] = s[i]
         /\ Len(s) \in Nat
  OBVIOUS

LEMMA SequencesEqual ==
  ASSUME NEW S, NEW s \in Seq(S), NEW t \in Seq(S), Len(s) = Len(t),
         \A i \in 1 .. Len(s) : s[i] = t[i]
  PROVE  s = t
  OBVIOUS

\* A stretch of a sequence, and what is behind it.
LEMMA Stretch ==
  ASSUME NEW S, NEW s \in Seq(S), NEW n \in Nat, n <= Len(s)
  PROVE  /\ SubSeq(s, 1, n) \in Seq(S) /\ Len(SubSeq(s, 1, n)) = n
         /\ SubSeq(s, n + 1, Len(s)) \in Seq(S)
  OBVIOUS

LEMMA Joined ==
  ASSUME NEW S, NEW s \in Seq(S), NEW t \in Seq(S)
  PROVE  /\ s \o t \in Seq(S) /\ Len(s \o t) = Len(s) + Len(t)
         /\ \A i \in 1 .. Len(s) : (s \o t)[i] = s[i]
  OBVIOUS

LEMMA Empty ==
  ASSUME NEW S
  PROVE  <<>> \in Seq(S)
  OBVIOUS

LEMMA Appended ==
  ASSUME NEW S, NEW s \in Seq(S), NEW e \in S
  PROVE  Append(s, e) \in Seq(S)
  OBVIOUS

Regrouped(x, y, z, w) ==
  /\ x \o (y \o z) \o w = x \o y \o z \o w
  /\ x \o (y \o z) \o w = (x \o y) \o (z \o w)

LEMMA FourJoined ==
  ASSUME NEW S, NEW x \in Seq(S), NEW y \in Seq(S), NEW z \in Seq(S), NEW w \in Seq(S)
  PROVE  Regrouped(x, y, z, w)
<1>1. x \o (y \o z) = (x \o y) \o z
  OBVIOUS
<1>2. PICK u \in Seq(S) : u = x \o y
  BY Joined
<1>3. (u \o z) \o w = u \o (z \o w)
  OBVIOUS
<1> QED
  BY <1>1, <1>2, <1>3 DEF Regrouped

LEMMA EmptyJoined ==
  ASSUME NEW S, NEW s \in Seq(S)
  PROVE  <<>> \o s = s /\ s \o <<>> = s
  OBVIOUS

LEMMA JoinedBehind ==
  ASSUME NEW S, NEW a \in Seq(S), NEW b \in Seq(S), NEW i \in 1 .. Len(b)
  PROVE  (a \o b)[Len(a) + i] = b[i]
  OBVIOUS

\* Two ways to put a sequence together, cut at the same place.
LEMMA CutsAgree ==
  ASSUME NEW S, NEW a \in Seq(S), NEW b \in Seq(S), NEW c \in Seq(S), NEW d \in Seq(S),
         a \o b = c \o d, Len(a) = Len(c)
  PROVE  a = c /\ b = d
<1>1. Len(a) \in Nat /\ Len(b) \in Nat /\ Len(c) \in Nat /\ Len(d) \in Nat
  OBVIOUS
<1>2. /\ Len(a \o b) = Len(a) + Len(b) /\ Len(c \o d) = Len(c) + Len(d)
      /\ \A i \in 1 .. Len(a) : (a \o b)[i] = a[i]
      /\ \A i \in 1 .. Len(c) : (c \o d)[i] = c[i]
  BY Joined
<1>3. /\ \A i \in 1 .. Len(b) : (a \o b)[Len(a) + i] = b[i]
      /\ \A i \in 1 .. Len(d) : (c \o d)[Len(c) + i] = d[i]
  BY JoinedBehind
<1>4. Len(b) = Len(d)
  BY <1>1, <1>2
<1>5. a = c
  BY <1>2, SequencesEqual
<1>6. \A i \in 1 .. Len(b) : b[i] = d[i]
  BY <1>3, <1>4
<1>7. b = d
  BY <1>4, <1>6, SequencesEqual
<1> QED
  BY <1>5, <1>7

LEMMA CutInTwo ==
  ASSUME NEW S, NEW s \in Seq(S), NEW n \in Nat, n <= Len(s)
  PROVE  s = SubSeq(s, 1, n) \o SubSeq(s, n + 1, Len(s))
<1> DEFINE a == SubSeq(s, 1, n)
           b == SubSeq(s, n + 1, Len(s))
<1>1. Len(s) \in Nat
  OBVIOUS
<1>2. a \in Seq(S) /\ Len(a) = n /\ \A i \in 1 .. n : a[i] = s[i]
  BY <1>1
<1>3. b \in Seq(S) /\ Len(b) = Len(s) - n
  BY <1>1
<1>4. \A i \in 1 .. Len(s) - n : b[i] = s[n + i]
  BY <1>1
<1> HIDE DEF a, b
<1>5. /\ a \o b \in Seq(S) /\ Len(a \o b) = Len(s)
      /\ \A i \in 1 .. n : (a \o b)[i] = a[i]
  BY <1>1, <1>2, <1>3, Joined
<1>6. \A i \in 1 .. Len(s) - n : (a \o b)[n + i] = b[i]
  BY <1>2, <1>3, JoinedBehind
<1>7. ASSUME NEW k \in 1 .. Len(s) PROVE s[k] = (a \o b)[k]
  <2>1. CASE k <= n
    <3>1. k \in 1 .. n
      BY <2>1
    <3> QED
      BY <1>2, <1>5, <3>1
  <2>2. CASE ~(k <= n)
    <3>1. k - n \in 1 .. Len(s) - n /\ n + (k - n) = k
      BY <1>1, <2>2
    <3>2. (a \o b)[n + (k - n)] = b[k - n] /\ b[k - n] = s[n + (k - n)]
      BY <1>4, <1>6, <3>1
    <3> QED
      BY <3>1, <3>2
  <2> QED
    BY <2>1, <2>2
<1>8. s = a \o b
  BY <1>5, <1>7, SequencesEqual
<1> QED
  BY <1>8 DEF a, b

LEMMA FirstAndRest ==
  ASSUME NEW S, NEW s \in Seq(S), s # <<>>
  PROVE  /\ s[1] \in S /\ Tail(s) \in Seq(S) /\ s = <<s[1]>> \o Tail(s)
         /\ <<s[1]>> \in Seq(S)
  OBVIOUS

\* The last element moves to the sequence before.
Moved(a, e, b) == a \o (<<e>> \o b) = Append(a, e) \o b

LEMMA MovedOver ==
  ASSUME NEW S, NEW a \in Seq(S), NEW b \in Seq(S), NEW e \in S
  PROVE  Moved(a, e, b)
  BY DEF Moved

------------------------------------------------------------------------------
(* FlattenSeq.                                                             *)

Flat(s, n, g) ==
  g = [i \in 1 .. n |-> IF i = 1 THEN s[i] ELSE g[i - 1] \o s[i]]

LEMMA FlatExists ==
  ASSUME NEW s, NEW N \in Nat
  PROVE  \E g : Flat(s, N, g)
<1> DEFINE T == {n \in 0 .. N : \E g : Flat(s, n, g)}
<1>1. 0 \in T
  <2>1. Flat(s, 0, <<>>)
    BY DEF Flat
  <2> QED
    BY <2>1
<1>2. ASSUME NEW n \in 0 .. N, n < N, n \in T PROVE n + 1 \in T
  <2>1. PICK g : Flat(s, n, g)
    BY <1>2
  <2> DEFINE h == [i \in 1 .. n + 1 |->
                     IF i <= n THEN g[i] ELSE IF n = 0 THEN s[1] ELSE g[n] \o s[n + 1]]
  <2>2. \A i \in 1 .. n : g[i] = IF i = 1 THEN s[i] ELSE g[i - 1] \o s[i]
    BY <2>1 DEF Flat
  <2>3. ASSUME NEW i \in 1 .. n + 1
        PROVE  h[i] = IF i = 1 THEN s[i] ELSE h[i - 1] \o s[i]
    <3>1. CASE i <= n
      <4>1. i \in 1 .. n /\ h[i] = g[i]
        BY <3>1
      <4>2. i # 1 => i - 1 \in 1 .. n + 1 /\ i - 1 <= n
        BY <3>1
      <4>3. i # 1 => h[i - 1] = g[i - 1]
        BY <4>2
      <4> QED
        BY <2>2, <4>1, <4>3
    <3>2. CASE ~(i <= n)
      <4>1. i = n + 1
        BY <3>2
      <4>2. n # 0 => n \in 1 .. n + 1 /\ n <= n
        OBVIOUS
      <4>3. n # 0 => h[n] = g[n]
        BY <4>2
      <4>4. h[i] = IF n = 0 THEN s[1] ELSE g[n] \o s[n + 1]
        BY <4>1
      <4> HIDE DEF h
      <4> QED
        BY <4>1, <4>3, <4>4
    <3> QED
      BY <3>1, <3>2
  <2>4. h = [i \in 1 .. n + 1 |-> h[i]]
    OBVIOUS
  <2> HIDE DEF h
  <2>5. Flat(s, n + 1, h)
    BY <2>3, <2>4 DEF Flat
  <2> QED
    BY <1>2, <2>5
<1> HIDE DEF T
<1>3. 0 .. N \subseteq T
  BY <1>1, <1>2, UpTo
<1>4. N \in 0 .. N
  OBVIOUS
<1>5. N \in T
  BY <1>3, <1>4
<1> QED
  BY <1>5 DEF T

Agree(s, t, n) == \A i \in 1 .. n : s[i] = t[i]

\* It depends on the elements so far only.
LEMMA FlatAgrees ==
  ASSUME NEW s, NEW t, NEW n \in Nat, NEW m \in Nat, n <= m,
         NEW g, NEW h, Agree(s, t, n), Flat(s, n, g), Flat(t, m, h)
  PROVE  Agree(g, h, n)
<1> DEFINE T == {j \in 0 .. n : j = 0 \/ g[j] = h[j]}
<1>1. 0 \in T
  OBVIOUS
<1>2. ASSUME NEW j \in 0 .. n, j < n, j \in T PROVE j + 1 \in T
  <2>1. /\ j + 1 \in 1 .. m /\ j + 1 \in 1 .. n /\ j + 1 \in 0 .. n
        /\ (j + 1) - 1 = j /\ (j + 1 = 1 <=> j = 0)
    BY <1>2
  <2>2. g[j + 1] = IF j = 0 THEN s[j + 1] ELSE g[j] \o s[j + 1]
    BY <2>1 DEF Flat
  <2>3. h[j + 1] = IF j = 0 THEN t[j + 1] ELSE h[j] \o t[j + 1]
    BY <2>1 DEF Flat
  <2>4. s[j + 1] = t[j + 1]
    BY <2>1 DEF Agree
  <2>5. g[j + 1] = h[j + 1]
    BY <1>2, <2>2, <2>3, <2>4
  <2> QED
    BY <2>1, <2>5
<1> HIDE DEF T
<1>3. 0 .. n \subseteq T
  BY <1>1, <1>2, UpTo
<1>4. \A i \in 1 .. n : i \in 0 .. n /\ i # 0
  OBVIOUS
<1> QED
  BY <1>3, <1>4 DEF T, Agree

LEMMA FlattenValue ==
  ASSUME NEW S, NEW s \in Seq(S), s # <<>>
  PROVE  \E g : Flat(s, Len(s), g) /\ FlattenSeq(s) = g[Len(s)]
<1>1. Len(s) \in Nat /\ Len(s) # 0
  OBVIOUS
<1>2. \E g : Flat(s, Len(s), g)
  BY <1>1, FlatExists
<1> DEFINE Made(flatten) ==
             flatten = [i \in 1 .. Len(s) |-> IF i = 1 THEN s[i] ELSE flatten[i - 1] \o s[i]]
<1>3. \E g : Made(g)
  BY <1>2 DEF Flat
<1>4. Made(CHOOSE flatten : Made(flatten))
  BY <1>3, Zenon
<1>5. FlattenSeq(s) = (CHOOSE flatten : Made(flatten))[Len(s)]
  BY <1>1, Zenon DEF FlattenSeq
<1> QED
  BY <1>4, <1>5, Zenon DEF Flat

LEMMA FlattenAppended ==
  ASSUME NEW S, NEW s \in Seq(Seq(S)), NEW e \in Seq(S)
  PROVE  FlattenSeq(Append(s, e)) = FlattenSeq(s) \o e
<1>1. PICK t :
      /\ t = Append(s, e) /\ t \in Seq(Seq(S)) /\ Len(t) = Len(s) + 1 /\ t # <<>> /\ Len(s) \in Nat
      /\ \A i \in 1 .. Len(s) : t[i] = s[i]
      /\ t[Len(s) + 1] = e
  <2>1. ASSUME NEW T, NEW u \in Seq(T), NEW x \in T
        PROVE  /\ Append(u, x) \in Seq(T) /\ Len(Append(u, x)) = Len(u) + 1
               /\ Append(u, x) # <<>> /\ Len(u) \in Nat
               /\ \A i \in 1 .. Len(u) : Append(u, x)[i] = u[i]
               /\ Append(u, x)[Len(u) + 1] = x
    OBVIOUS
  <2> QED
    BY <2>1
<1>2. PICK h : Flat(t, Len(t), h) /\ FlattenSeq(t) = h[Len(t)]
  BY <1>1, FlattenValue
<1>3. Len(t) \in 1 .. Len(t)
  BY <1>1
<1>4. h[Len(t)] = IF Len(t) = 1 THEN t[Len(t)] ELSE h[Len(t) - 1] \o t[Len(t)]
  BY <1>2, <1>3 DEF Flat
<1>5. CASE s = <<>>
  <2>1. FlattenSeq(t) = e
    BY <1>1, <1>2, <1>4, <1>5
  <2>2. FlattenSeq(s) = <<>>
    BY <1>5 DEF FlattenSeq
  <2> QED
    BY <1>1, <2>1, <2>2, EmptyJoined
<1>6. CASE s # <<>>
  <2>1. PICK g : Flat(s, Len(s), g) /\ FlattenSeq(s) = g[Len(s)]
    BY <1>6, FlattenValue
  <2>2. Len(s) \in 1 .. Len(s) /\ Len(s) \in Nat /\ Len(s) <= Len(t) /\ Len(t) # 1 /\ Len(t) - 1 = Len(s)
        /\ Len(t) \in Nat /\ Len(s) <= Len(s)
    BY <1>1, <1>6
  <2>3. g[Len(s)] = h[Len(s)]
    <3>1. Agree(s, t, Len(s))
      BY <1>1 DEF Agree
    <3>2. Flat(s, Len(s), g) /\ Flat(t, Len(t), h)
      BY <1>2, <2>1
    <3>3. Agree(g, h, Len(s))
      BY <2>2, <3>1, <3>2, FlatAgrees
    <3> QED
      BY <2>2, <3>3 DEF Agree
  <2>4. h[Len(t)] = g[Len(s)] \o e
    BY <1>1, <1>4, <2>2, <2>3
  <2> QED
    BY <1>1, <1>2, <2>1, <2>4
<1> QED
  BY <1>5, <1>6

LEMMA FlattenEmpty == FlattenSeq(<<>>) = <<>>
  BY DEF FlattenSeq

\* A sequence that is not empty is one shorter with an element at its end.
LEMMA LastAppended ==
  ASSUME NEW S, NEW n \in Nat, NEW s \in Seq(S), Len(s) = n + 1
  PROVE  /\ SubSeq(s, 1, n) \in Seq(S) /\ s[n + 1] \in S /\ Len(SubSeq(s, 1, n)) = n
         /\ s = Append(SubSeq(s, 1, n), s[n + 1])
<1> DEFINE r == SubSeq(s, 1, n)
<1>1. r \in Seq(S) /\ Len(r) = n /\ \A i \in 1 .. n : r[i] = s[i]
  OBVIOUS
<1>2. s[n + 1] \in S
  OBVIOUS
<1> HIDE DEF r
<1>3. /\ Append(r, s[n + 1]) \in Seq(S) /\ Len(Append(r, s[n + 1])) = n + 1
      /\ \A i \in 1 .. n : Append(r, s[n + 1])[i] = r[i]
      /\ Append(r, s[n + 1])[n + 1] = s[n + 1]
  BY <1>1, <1>2
<1>4. \A i \in 1 .. n + 1 : i \in 1 .. n \/ i = n + 1
  OBVIOUS
<1>5. \A i \in 1 .. Len(s) : s[i] = Append(r, s[n + 1])[i]
  BY <1>1, <1>3, <1>4
<1>6. s = Append(r, s[n + 1])
  BY <1>3, <1>5, SequencesEqual
<1> QED
  BY <1>1, <1>2, <1>6 DEF r

LEMMA FlattenType ==
  ASSUME NEW S, NEW s \in Seq(Seq(S))
  PROVE  FlattenSeq(s) \in Seq(S)
<1> DEFINE T == {n \in Nat : \A t \in Seq(Seq(S)) : Len(t) = n => FlattenSeq(t) \in Seq(S)}
<1>1. 0 \in T
  <2>1. ASSUME NEW t \in Seq(Seq(S)), Len(t) = 0 PROVE FlattenSeq(t) \in Seq(S)
    <3>1. t = <<>>
      BY <2>1
    <3> QED
      BY <3>1, FlattenEmpty, Empty
  <2> QED
    BY <2>1
<1>2. ASSUME NEW n \in Nat, n \in T PROVE n + 1 \in T
  <2>1. ASSUME NEW t \in Seq(Seq(S)), Len(t) = n + 1 PROVE FlattenSeq(t) \in Seq(S)
    <3>1. PICK q \in Seq(Seq(S)), e \in Seq(S) : Len(q) = n /\ t = Append(q, e)
      <4>1. /\ SubSeq(t, 1, n) \in Seq(Seq(S)) /\ t[n + 1] \in Seq(S)
            /\ Len(SubSeq(t, 1, n)) = n /\ t = Append(SubSeq(t, 1, n), t[n + 1])
        BY <2>1, LastAppended, Zenon
      <4> QED
        BY <4>1, Zenon
    <3>2. FlattenSeq(q) \in Seq(S)
      BY <1>2, <3>1
    <3> QED
      BY <3>1, <3>2, FlattenAppended, Joined
  <2> QED
    BY <2>1
<1> HIDE DEF T
<1>3. Nat \subseteq T
  BY <1>1, <1>2, AllNatural
<1>4. Len(s) \in Nat
  OBVIOUS
<1>5. Len(s) \in T
  BY <1>3, <1>4
<1> QED
  BY <1>5 DEF T

\* Where the parts are in what FlattenSeq makes of them: off[i] elements before
\* the i-th part.
Places(s, off) ==
  /\ off \in [1 .. Len(s) + 1 -> Nat] /\ off[1] = 0
  /\ off[Len(s) + 1] = Len(FlattenSeq(s))
  /\ \A i \in 1 .. Len(s) :
       /\ off[i + 1] = off[i] + Len(s[i]) /\ off[i + 1] <= Len(FlattenSeq(s))
       /\ \A j \in 1 .. Len(s[i]) : FlattenSeq(s)[off[i] + j] = s[i][j]

\* And every element comes from a part.
FromParts(s) ==
  \A x \in 1 .. Len(FlattenSeq(s)) :
    \E i \in 1 .. Len(s) : \E j \in 1 .. Len(s[i]) : FlattenSeq(s)[x] = s[i][j]

LEMMA PlacesAppended ==
  ASSUME NEW S, NEW q \in Seq(Seq(S)), NEW e \in Seq(S), NEW off, Places(q, off), FromParts(q)
  PROVE  (\E new : Places(Append(q, e), new)) /\ FromParts(Append(q, e))
<1> DEFINE t == Append(q, e)
           F == FlattenSeq(q)
           n == Len(q)
           new == [i \in 1 .. n + 2 |-> IF i = n + 2 THEN off[n + 1] + Len(e) ELSE off[i]]
<1>1. FlattenSeq(t) = F \o e /\ F \in Seq(S)
  BY FlattenAppended, FlattenType
<1>2. /\ Len(t) = n + 1 /\ n \in Nat /\ t[n + 1] = e
      /\ \A i \in 1 .. n : t[i] = q[i]
  <2>1. PICK X : X = Seq(S)
    OBVIOUS
  <2>2. q \in Seq(X) /\ e \in X
    BY <2>1
  <2>3. /\ Len(Append(q, e)) = Len(q) + 1 /\ Len(q) \in Nat /\ Append(q, e)[Len(q) + 1] = e
        /\ \A i \in 1 .. Len(q) : Append(q, e)[i] = q[i]
    BY <2>2, Ended
  <2> QED
    BY <2>3, Zenon
<1>3. /\ Len(F \o e) = Len(F) + Len(e) /\ Len(F) \in Nat /\ Len(e) \in Nat
      /\ \A x \in 1 .. Len(F) : (F \o e)[x] = F[x]
      /\ \A x \in 1 .. Len(e) : (F \o e)[Len(F) + x] = e[x]
  <2>1. Len(F) \in Nat /\ Len(e) \in Nat
    BY <1>1
  <2> HIDE DEF F
  <2> QED
    BY <1>1, <2>1, Joined, JoinedBehind
<1>4. off \in [1 .. n + 1 -> Nat] /\ off[1] = 0 /\ off[n + 1] = Len(F)
  BY DEF Places
<1>5. /\ new \in [1 .. n + 2 -> Nat] /\ new[1] = 0 /\ new[n + 2] = Len(F) + Len(e)
      /\ \A i \in 1 .. n + 1 : new[i] = off[i]
  BY <1>2, <1>3, <1>4
<1> HIDE DEF new, t, F, n
<1>6. ASSUME NEW i \in 1 .. n + 1
      PROVE  /\ new[i + 1] = new[i] + Len(t[i]) /\ new[i + 1] <= Len(F) + Len(e)
             /\ \A j \in 1 .. Len(t[i]) : (F \o e)[new[i] + j] = t[i][j]
  <2>1. CASE i \in 1 .. n
    <3>1. /\ i \in 1 .. n + 1 /\ i + 1 \in 1 .. n + 1
          /\ i \in 1 .. n + 2 /\ i + 1 \in 1 .. n + 2
      BY <1>2, <2>1
    <3>2. new[i] = off[i] /\ new[i + 1] = off[i + 1] /\ t[i] = q[i]
      BY <1>2, <1>5, <2>1, <3>1
    <3>3. /\ off[i + 1] = off[i] + Len(q[i]) /\ off[i + 1] <= Len(F)
          /\ \A j \in 1 .. Len(q[i]) : F[off[i] + j] = q[i][j]
      BY <2>1 DEF Places, F, n
    <3>4. off[i] \in Nat /\ off[i + 1] \in Nat /\ Len(q[i]) \in Nat
      <4>1. q[i] \in Seq(S)
        <5>1. \A X : q \in Seq(X) => q[i] \in X
          BY <2>1 DEF n
        <5> QED
          BY <5>1
      <4>2. Len(q[i]) \in Nat
        BY <4>1
      <4>3. off[i] \in Nat /\ off[i + 1] \in Nat
        BY <1>4, <3>1
      <4> QED
        BY <4>2, <4>3
    <3>5. ASSUME NEW j \in 1 .. Len(q[i]) PROVE (F \o e)[off[i] + j] = q[i][j]
      <4>1. off[i] + j \in 1 .. Len(F)
        BY <1>3, <3>3, <3>4
      <4> QED
        BY <1>3, <3>3, <4>1
    <3>6. off[i + 1] <= Len(F) + Len(e)
      BY <1>3, <3>3, <3>4
    <3> QED
      BY <3>2, <3>3, <3>5, <3>6
  <2>2. CASE i = n + 1
    <3>1. new[i] = Len(F) /\ new[i + 1] = Len(F) + Len(e) /\ t[i] = e
      <4>1. n + 1 \in 1 .. n + 1 /\ (n + 1) + 1 = n + 2
        BY <1>2
      <4> QED
        BY <1>2, <1>4, <1>5, <2>2, <4>1
    <3>2. \A j \in 1 .. Len(e) : (F \o e)[Len(F) + j] = e[j]
      BY <1>3
    <3>3. Len(F) + Len(e) <= Len(F) + Len(e)
      BY <1>3
    <3> QED
      BY <3>1, <3>2, <3>3
  <2>3. i \in 1 .. n \/ i = n + 1
    BY <1>2
  <2> QED
    BY <2>1, <2>2, <2>3
<1>7. Places(t, new)
  <2>1. Len(t) = n + 1 /\ Len(t) + 1 = n + 2 /\ Len(FlattenSeq(t)) = Len(F) + Len(e)
    BY <1>1, <1>2, <1>3
  <2> QED
    BY <1>1, <1>5, <1>6, <2>1 DEF Places
<1>8. FromParts(t)
  <2>1. FlattenSeq(t) = F \o e /\ Len(FlattenSeq(t)) = Len(F) + Len(e) /\ Len(t) = n + 1
    BY <1>1, <1>2, <1>3
  <2> DEFINE Found(x) == \E i \in 1 .. n + 1 : \E j \in 1 .. Len(t[i]) : (F \o e)[x] = t[i][j]
  <2>2. ASSUME \A x \in 1 .. Len(F) + Len(e) : Found(x) PROVE FromParts(t)
    BY <2>1, <2>2 DEF FromParts
  <2> SUFFICES ASSUME NEW x \in 1 .. Len(F) + Len(e) PROVE Found(x)
    BY <2>2
  <2>3. CASE x \in 1 .. Len(F)
    <3>1. PICK i \in 1 .. n : \E j \in 1 .. Len(q[i]) : F[x] = q[i][j]
      BY <2>3 DEF FromParts, F, n
    <3>2. t[i] = q[i] /\ i \in 1 .. n + 1 /\ (F \o e)[x] = F[x]
      BY <1>2, <1>3, <2>3
    <3> QED
      BY <3>1, <3>2
  <2>4. CASE x \notin 1 .. Len(F)
    <3>1. PICK y \in 1 .. Len(e) : x = Len(F) + y
      <4>1. x - Len(F) \in 1 .. Len(e) /\ x = Len(F) + (x - Len(F))
        BY <1>3, <2>4
      <4> QED
        BY <4>1
    <3>2. n + 1 \in 1 .. n + 1 /\ t[n + 1] = e /\ (F \o e)[x] = e[y]
      BY <1>2, <1>3, <3>1
    <3> QED
      BY <3>1, <3>2
  <2> QED
    BY <2>3, <2>4
<1> QED
  BY <1>7, <1>8 DEF t

LEMMA FlattenPlaces ==
  ASSUME NEW S, NEW s \in Seq(Seq(S))
  PROVE  (\E off : Places(s, off)) /\ FromParts(s)
<1> DEFINE T == {n \in Nat : \A t \in Seq(Seq(S)) :
                   Len(t) = n => (\E off : Places(t, off)) /\ FromParts(t)}
<1>1. 0 \in T
  <2>1. ASSUME NEW t \in Seq(Seq(S)), Len(t) = 0
        PROVE  (\E off : Places(t, off)) /\ FromParts(t)
    <3> DEFINE off == [i \in 1 .. 1 |-> 0]
    <3>1. t = <<>>
      BY <2>1
    <3>2. FlattenSeq(t) = <<>> /\ Len(FlattenSeq(t)) = 0
      BY <3>1, FlattenEmpty
    <3>3. off \in [1 .. 1 -> Nat] /\ off[1] = 0
      OBVIOUS
    <3> HIDE DEF off
    <3>4. Places(t, off)
      BY <2>1, <3>2, <3>3 DEF Places
    <3> QED
      BY <2>1, <3>2, <3>4 DEF FromParts
  <2> QED
    BY <2>1
<1>2. ASSUME NEW n \in Nat, n \in T PROVE n + 1 \in T
  <2>1. ASSUME NEW t \in Seq(Seq(S)), Len(t) = n + 1
        PROVE  (\E off : Places(t, off)) /\ FromParts(t)
    <3>1. PICK q \in Seq(Seq(S)), e \in Seq(S) : Len(q) = n /\ t = Append(q, e)
      <4>1. /\ SubSeq(t, 1, n) \in Seq(Seq(S)) /\ t[n + 1] \in Seq(S)
            /\ Len(SubSeq(t, 1, n)) = n /\ t = Append(SubSeq(t, 1, n), t[n + 1])
        BY <2>1, LastAppended, Zenon
      <4> QED
        BY <4>1, Zenon
    <3>2. (\E off : Places(q, off)) /\ FromParts(q)
      BY <1>2, <3>1
    <3>3. PICK off : Places(q, off)
      BY <3>2
    <3> QED
      BY <3>1, <3>2, <3>3, PlacesAppended
  <2> QED
    BY <2>1
<1> HIDE DEF T
<1>3. Nat \subseteq T
  BY <1>1, <1>2, AllNatural
<1>4. Len(s) \in T
  <2>1. Len(s) \in Nat
    OBVIOUS
  <2> QED
    BY <1>3, <2>1
<1> QED
  BY <1>4 DEF T

------------------------------------------------------------------------------
(* Sequences that grow in the middle.                                      *)

\* An element put into a sequence: the ones behind it move by one.
LEMMA Inserted ==
  ASSUME NEW S, NEW s \in Seq(S), NEW e \in S, NEW i \in 1 .. Len(s) + 1
  PROVE  /\ InsertAt(s, i, e) \in Seq(S) /\ Len(InsertAt(s, i, e)) = Len(s) + 1
         /\ \A k \in 1 .. Len(s) + 1 :
              InsertAt(s, i, e)[k] = IF k < i THEN s[k] ELSE IF k = i THEN e ELSE s[k - 1]
<1>1. Len(s) \in Nat /\ i - 1 \in Nat /\ i - 1 <= Len(s)
  OBVIOUS
<1>2. PICK a, b, c : a = SubSeq(s, 1, i - 1) /\ b = <<e>> /\ c = SubSeq(s, i, Len(s))
  OBVIOUS
<1>3. /\ a \in Seq(S) /\ Len(a) = i - 1 /\ \A k \in 1 .. i - 1 : a[k] = s[k]
      /\ b \in Seq(S) /\ Len(b) = 1 /\ b[1] = e
  BY <1>1, <1>2
<1>4. /\ c \in Seq(S) /\ Len(c) = Len(s) - i + 1
      /\ \A k \in 1 .. Len(s) - i + 1 : c[k] = s[k + i - 1]
  BY <1>1, <1>2
<1>5. PICK d \in Seq(S) : d = a \o b
  BY <1>3, Joined
<1>6. Len(d) = i /\ \A k \in 1 .. i - 1 : d[k] = s[k]
  <2>1. Len(d) = Len(a) + Len(b) /\ \A k \in 1 .. Len(a) : d[k] = a[k]
    BY <1>3, <1>5, Joined
  <2> QED
    BY <1>1, <1>3, <2>1
<1>7. d[i] = e
  BY <1>1, <1>3, <1>5, JoinedBehind
<1>8. PICK t \in Seq(S) : t = d \o c
  BY <1>4, Joined
<1>9. Len(t) = Len(s) + 1 /\ \A k \in 1 .. i : t[k] = d[k]
  BY <1>1, <1>4, <1>6, <1>8
<1>10. ASSUME NEW k \in i + 1 .. Len(s) + 1 PROVE t[k] = s[k - 1]
  <2>1. k - i \in 1 .. Len(c)
    BY <1>1, <1>4
  <2>2. t[Len(d) + (k - i)] = c[k - i]
    BY <1>4, <1>8, <2>1, JoinedBehind
  <2>3. Len(d) + (k - i) = k /\ (k - i) + i - 1 = k - 1
    BY <1>1, <1>6
  <2> QED
    BY <1>4, <2>1, <2>2, <2>3
<1>11. t = InsertAt(s, i, e)
  BY <1>2, <1>5, <1>8 DEF InsertAt
<1>12. \A k \in 1 .. Len(s) + 1 : t[k] = IF k < i THEN s[k] ELSE IF k = i THEN e ELSE s[k - 1]
  BY <1>1, <1>6, <1>7, <1>9, <1>10
<1> QED
  BY <1>9, <1>11, <1>12

\* Of an increasing sequence, a new value behind the smaller ones makes one
\* that increases, too.
LEMMA StaysSorted ==
  ASSUME NEW m \in Nat, NEW pos \in 0 .. m, NEW u \in Int,
         NEW before \in [1 .. m -> Int], NEW after,
         \A i, k \in 1 .. m : i < k => before[i] < before[k],
         \A k \in 1 .. m : before[k] # u,
         \A k \in 1 .. pos : ~(before[k] >= u),
         pos < m => before[pos + 1] >= u,
         \A k \in 1 .. m + 1 : after[k] = IF k < pos + 1 THEN before[k]
                                          ELSE IF k = pos + 1 THEN u ELSE before[k - 1]
  PROVE  \A i, k \in 1 .. m + 1 : i < k => after[i] < after[k]
<1>1. \A k \in 1 .. m : before[k] \in Int
  OBVIOUS
<1>2. ASSUME NEW k \in 1 .. m + 1, k < pos + 1 PROVE k \in 1 .. m /\ after[k] = before[k] /\ before[k] < u
  <2>1. k \in 1 .. m /\ k \in 1 .. pos
    BY <1>2
  <2> QED
    BY <1>1, <1>2, <2>1
<1>3. pos + 1 \in 1 .. m + 1 /\ after[pos + 1] = u
  OBVIOUS
<1>4. ASSUME NEW k \in 1 .. m + 1, k > pos + 1
      PROVE  k - 1 \in 1 .. m /\ after[k] = before[k - 1] /\ u < before[k - 1]
  <2>1. k - 1 \in 1 .. m /\ pos < m /\ pos + 1 \in 1 .. m /\ ~(k < pos + 1) /\ k # pos + 1
    BY <1>4
  <2>2. after[k] = before[k - 1]
    BY <2>1
  <2>3. u < before[pos + 1]
    BY <1>1, <2>1
  <2>4. pos + 1 < k - 1 => before[pos + 1] < before[k - 1]
    BY <2>1
  <2> QED
    BY <1>1, <1>4, <2>1, <2>2, <2>3, <2>4
<1>5. ASSUME NEW i \in 1 .. m + 1, NEW k \in 1 .. m + 1, i < k PROVE after[i] < after[k]
  <2>1. CASE k < pos + 1
    <3>1. i < pos + 1
      BY <1>5, <2>1
    <3> QED
      BY <1>2, <1>5, <2>1, <3>1
  <2>2. CASE k = pos + 1
    BY <1>2, <1>3, <1>5, <2>2
  <2>3. CASE k > pos + 1
    <3>1. CASE i < pos + 1
      <4>1. i \in 1 .. m /\ after[i] = before[i] /\ before[i] < u
        BY <1>2, <3>1
      <4>2. k - 1 \in 1 .. m /\ after[k] = before[k - 1] /\ u < before[k - 1]
        BY <1>4, <2>3
      <4> QED
        BY <1>1, <4>1, <4>2
    <3>2. CASE i = pos + 1
      BY <1>3, <1>4, <2>3, <3>2
    <3>3. CASE i > pos + 1
      <4>1. i - 1 \in 1 .. m /\ after[i] = before[i - 1]
        BY <1>4, <3>3
      <4>2. k - 1 \in 1 .. m /\ after[k] = before[k - 1]
        BY <1>4, <2>3
      <4>3. i - 1 < k - 1
        BY <1>5
      <4> QED
        BY <4>1, <4>2, <4>3
    <3> QED
      BY <3>1, <3>2, <3>3
  <2> QED
    BY <2>1, <2>2, <2>3
<1> QED
  BY <1>5

------------------------------------------------------------------------------
(* Folds over sequences: FoldLeft goes through the sets of the first indices.  *)

\* The first k indices end in k.
LEMMA IntervalFacts ==
  ASSUME NEW k \in Nat \ {0}
  PROVE  /\ Max(1 .. k) = k /\ (1 .. k) \ {k} = 1 .. k - 1
         /\ k - 1 \in Nat /\ 1 .. k # {}
<1>1. k \in 1 .. k /\ \A y \in 1 .. k : k >= y
  OBVIOUS
<1>2. \A x \in 1 .. k : (\A y \in 1 .. k : x >= y) => x = k
  BY <1>1
<1>3. Max(1 .. k) = k
  BY <1>1, <1>2 DEF Max
<1>4. (1 .. k) \ {k} = 1 .. k - 1
  OBVIOUS
<1> QED
  BY <1>1, <1>3, <1>4

\* The largest of numbers up to n + 1 is n + 1 if that is among them.
LEMMA LargestOfUpTo ==
  ASSUME NEW n \in Nat, NEW S \in SUBSET (1 .. n + 1)
  PROVE  /\ n + 1 \in S => Max(S) = n + 1 /\ S \ {n + 1} \in SUBSET (1 .. n)
         /\ n + 1 \notin S => S \in SUBSET (1 .. n)
<1>1. n + 1 \notin S => S \in SUBSET (1 .. n)
  OBVIOUS
<1>2. ASSUME n + 1 \in S PROVE Max(S) = n + 1
  <2>1. \A y \in S : n + 1 >= y
    OBVIOUS
  <2>2. \A x \in S : (\A y \in S : x >= y) => x = n + 1
    BY <1>2
  <2> QED
    BY <1>2, <2>1, <2>2 DEF Max
<1> QED
  BY <1>1, <1>2

\* What a fold is, of the numbers up to n: a function of sets of them.
Folded(g, s, b, n, it) ==
  \A S \in SUBSET (1 .. n) :
    it[S] = IF S = {} THEN b ELSE g[it[S \ {Max(S)}]][s[Max(S)]]

\* A set of numbers that is not empty has its largest element.
LEMMA LargestIsIn ==
  ASSUME NEW n \in Nat, NEW S \in SUBSET (1 .. n), S # {}
  PROVE  Max(S) \in S
<1> DEFINE T == {n - x : x \in S}
<1>1. T \in SUBSET Nat /\ T # {}
  <2>1. \A x \in S : n - x \in Nat
    OBVIOUS
  <2>2. \E x \in S : n - x \in T
    OBVIOUS
  <2> QED
    BY <2>1, <2>2
<1>2. PICK m \in T : \A t \in T : m <= t
  <2> HIDE DEF T
  <2> QED
    BY <1>1, LeastNatural
<1>3. PICK x \in S : m = n - x
  OBVIOUS
<1>4. \A y \in S : x >= y
  <2> SUFFICES ASSUME NEW y \in S PROVE x >= y
    OBVIOUS
  <2>1. n - x <= n - y
    BY <1>2, <1>3
  <2> QED
    BY <2>1
<1> QED
  BY <1>4 DEF Max

\* The function that a fold chooses exists, when each step stays in X.
LEMMA FoldExists ==
  ASSUME NEW X, NEW E, NEW N \in Nat, NEW s, \A i \in 1 .. N : s[i] \in E,
         NEW b \in X, NEW g \in [X -> [E -> X]]
  PROVE  \E it \in [SUBSET (1 .. N) -> X] : Folded(g, s, b, N, it)
<1> DEFINE T == {n \in 0 .. N : \E it \in [SUBSET (1 .. n) -> X] : Folded(g, s, b, n, it)}
<1>1. 0 \in T
  <2> DEFINE it == [S \in SUBSET (1 .. 0) |-> b]
  <2>1. it \in [SUBSET (1 .. 0) -> X]
    OBVIOUS
  <2>2. \A S \in SUBSET (1 .. 0) : S = {} /\ it[S] = b
    OBVIOUS
  <2>3. Folded(g, s, b, 0, it)
    BY <2>2 DEF Folded
  <2> HIDE DEF it
  <2>4. 0 \in 0 .. N
    OBVIOUS
  <2>5. \E u \in [SUBSET (1 .. 0) -> X] : Folded(g, s, b, 0, u)
    BY <2>1, <2>3
  <2> QED
    BY <2>4, <2>5
<1>2. ASSUME NEW n \in 0 .. N, n < N, n \in T PROVE n + 1 \in T
  <2>1. PICK it \in [SUBSET (1 .. n) -> X] : Folded(g, s, b, n, it)
    BY <1>2
  <2> DEFINE h == [S \in SUBSET (1 .. n + 1) |->
                     IF n + 1 \in S THEN g[it[S \ {n + 1}]][s[n + 1]] ELSE it[S]]
  <2>2. s[n + 1] \in E
    <3>1. n + 1 \in 1 .. N
      BY <1>2
    <3> QED
      BY <3>1
  <2>3. ASSUME NEW S \in SUBSET (1 .. n + 1), n + 1 \in S
        PROVE  h[S] = g[it[S \ {n + 1}]][s[n + 1]] /\ h[S] \in X
    <3>1. h[S] = g[it[S \ {n + 1}]][s[n + 1]]
      BY <2>3
    <3>2. S \ {n + 1} \in SUBSET (1 .. n)
      BY <1>2
    <3>3. it[S \ {n + 1}] \in X
      BY <3>2
    <3> HIDE DEF h
    <3> QED
      BY <2>2, <3>1, <3>3
  <2>4. ASSUME NEW S \in SUBSET (1 .. n + 1), n + 1 \notin S
        PROVE  h[S] = it[S] /\ S \in SUBSET (1 .. n)
    <3>1. h[S] = it[S]
      BY <2>4
    <3>2. n \in Nat
      BY <1>2
    <3> HIDE DEF h
    <3>3. S \in SUBSET (1 .. n)
      BY <2>4, <3>2, LargestOfUpTo
    <3> QED
      BY <3>1, <3>3
  <2>5. h \in [SUBSET (1 .. n + 1) -> X]
    <3>1. \A S \in SUBSET (1 .. n + 1) : h[S] \in X
      <4> HIDE DEF h
      <4> QED
        BY <2>3, <2>4
    <3>2. h = [S \in SUBSET (1 .. n + 1) |-> h[S]]
      OBVIOUS
    <3> HIDE DEF h
    <3> QED
      BY <3>1, <3>2
  <2>6. ASSUME NEW S \in SUBSET (1 .. n + 1)
        PROVE  h[S] = IF S = {} THEN b ELSE g[h[S \ {Max(S)}]][s[Max(S)]]
    <3>1. CASE n + 1 \in S
      <4>1. Max(S) = n + 1 /\ S \ {n + 1} \in SUBSET (1 .. n) /\ S # {}
        BY <3>1, LargestOfUpTo
      <4>2. h[S \ {n + 1}] = it[S \ {n + 1}]
        <5>1. S \ {n + 1} \in SUBSET (1 .. n + 1) /\ n + 1 \notin S \ {n + 1}
          OBVIOUS
        <5> HIDE DEF h
        <5> QED
          BY <2>4, <5>1
      <4> HIDE DEF h
      <4> QED
        BY <2>3, <3>1, <4>1, <4>2
    <3>2. CASE n + 1 \notin S
      <4>1. h[S] = it[S] /\ S \in SUBSET (1 .. n)
        BY <2>4, <3>2
      <4>2. h[S \ {Max(S)}] = it[S \ {Max(S)}]
        <5>1. S \ {Max(S)} \in SUBSET (1 .. n + 1) /\ n + 1 \notin S \ {Max(S)}
          BY <3>2
        <5> HIDE DEF h
        <5> QED
          BY <2>4, <5>1
      <4> HIDE DEF h
      <4> QED
        BY <2>1, <4>1, <4>2 DEF Folded
    <3> QED
      BY <3>1, <3>2
  <2> HIDE DEF h
  <2>7. Folded(g, s, b, n + 1, h)
    BY <2>6 DEF Folded
  <2>8. n + 1 \in 0 .. N
    BY <1>2
  <2> QED
    BY <2>5, <2>7, <2>8
<1> HIDE DEF T
<1>3. 0 .. N \subseteq T
  BY <1>1, <1>2, UpTo
<1>4. N \in T
  BY <1>3
<1> QED
  BY <1>4 DEF T

\* A fold stays in a set that each of its steps stays in.
LEMMA FoldStays ==
  ASSUME NEW X, NEW N \in Nat, NEW it, it[{}] \in X,
         \A k \in 1 .. N : it[1 .. k - 1] \in X => it[1 .. k] \in X
  PROVE  it[1 .. N] \in X
<1> DEFINE T == {k \in 0 .. N : it[1 .. k] \in X}
<1>1. 0 \in T
  <2>1. 1 .. 0 = {}
    OBVIOUS
  <2> QED
    BY <2>1
<1>2. ASSUME NEW k \in 0 .. N, k < N, k \in T PROVE k + 1 \in T
  <2>1. k + 1 \in 1 .. N /\ (k + 1) - 1 = k /\ k + 1 \in 0 .. N
    BY <1>2
  <2> QED
    BY <1>2, <2>1
<1> HIDE DEF T
<1>3. 0 .. N \subseteq T
  BY <1>1, <1>2, UpTo
<1>4. N \in T
  BY <1>3
<1> QED
  BY <1>4 DEF T

------------------------------------------------------------------------------
(* Powers, remainders and numbers that are written in digits.              *)

\* The remainder of a multiple and something smaller than the divisor.
LEMMA RemainderIs ==
  ASSUME NEW P \in Nat \ {0}, NEW e \in Int, NEW r \in 0 .. P - 1
  PROVE  (P * e + r) % P = r
<1> DEFINE x == P * e + r
<1>1. x \in Int /\ x % P \in 0 .. P - 1 /\ x = P * (x \div P) + (x % P)
  OBVIOUS
<1>2. PICK q \in Int, m \in 0 .. P - 1 : x = P * q + m /\ m = x % P
  <2>1. x \div P \in Int
    BY <1>1
  <2> QED
    BY <1>1, <2>1
<1>3. P * e + r = P * q + m
  BY <1>2
<1> HIDE DEF x
<1>4. CASE q = e
  BY <1>2, <1>3, <1>4 DEF x
<1>5. CASE q > e
  <2>1. PICK k \in Nat \ {0} : q = e + k
    <3>1. q - e \in Nat \ {0} /\ q = e + (q - e)
      BY <1>5
    <3> QED
      BY <3>1
  <2>2. P * q = P * e + P * k /\ P * k >= P
    BY <2>1
  <2> QED
    BY <1>3, <2>2
<1>6. CASE q < e
  <2>1. PICK k \in Nat \ {0} : e = q + k
    <3>1. e - q \in Nat \ {0} /\ e = q + (e - q)
      BY <1>6
    <3> QED
      BY <3>1
  <2>2. P * e = P * q + P * k /\ P * k >= P
    BY <2>1
  <2> QED
    BY <1>3, <2>2
<1> QED
  BY <1>4, <1>5, <1>6

\* The powers of B up to the N-th.
Powers(B, N, f) == f = [n \in 0 .. N |-> IF n = 0 THEN 1 ELSE f[n - 1] * B]

LEMMA PowersExist ==
  ASSUME NEW B, NEW N \in Nat
  PROVE  \E f : Powers(B, N, f)
<1> DEFINE T == {n \in 0 .. N : \E f : Powers(B, n, f)}
<1>1. 0 \in T
  <2> DEFINE f == [n \in 0 .. 0 |-> 1]
  <2>1. f = [n \in 0 .. 0 |-> IF n = 0 THEN 1 ELSE f[n - 1] * B]
    OBVIOUS
  <2> HIDE DEF f
  <2>2. Powers(B, 0, f)
    BY <2>1 DEF Powers
  <2> QED
    BY <2>2
<1>2. ASSUME NEW n \in 0 .. N, n < N, n \in T PROVE n + 1 \in T
  <2>1. PICK f : Powers(B, n, f)
    BY <1>2
  <2> DEFINE h == [k \in 0 .. n + 1 |-> IF k = n + 1 THEN f[n] * B ELSE f[k]]
  <2>2. \A k \in 0 .. n : f[k] = IF k = 0 THEN 1 ELSE f[k - 1] * B
    BY <2>1 DEF Powers
  <2>3. h[n + 1] = f[n] * B /\ \A k \in 0 .. n : h[k] = f[k]
    OBVIOUS
  <2>4. h = [k \in 0 .. n + 1 |-> h[k]]
    OBVIOUS
  <2> HIDE DEF h
  <2>5. ASSUME NEW k \in 0 .. n + 1 PROVE h[k] = IF k = 0 THEN 1 ELSE h[k - 1] * B
    <3>1. CASE k \in 0 .. n
      <4>1. k # 0 => k - 1 \in 0 .. n
        BY <3>1
      <4>2. h[k] = f[k] /\ (k # 0 => h[k - 1] = f[k - 1])
        BY <2>3, <3>1, <4>1
      <4> QED
        BY <2>2, <3>1, <4>2
    <3>2. CASE k = n + 1
      <4>1. k # 0 /\ k - 1 = n /\ n \in 0 .. n
        BY <3>2
      <4> QED
        BY <2>3, <3>2, <4>1
    <3> QED
      BY <3>1, <3>2
  <2>6. Powers(B, n + 1, h)
    BY <2>4, <2>5 DEF Powers
  <2> QED
    BY <1>2, <2>6
<1> HIDE DEF T
<1>3. 0 .. N \subseteq T
  BY <1>1, <1>2, UpTo
<1>4. N \in T
  BY <1>3
<1> QED
  BY <1>4 DEF T

LEMMA PowersArePositive ==
  ASSUME NEW B \in Nat \ {0}, NEW N \in Nat, NEW f, Powers(B, N, f)
  PROVE  /\ f \in [0 .. N -> Nat \ {0}] /\ f[0] = 1
         /\ \A n \in 0 .. N : n < N => f[n + 1] = f[n] * B
<1>1. \A n \in 0 .. N : f[n] = IF n = 0 THEN 1 ELSE f[n - 1] * B
  BY DEF Powers
<1>2. \A n \in 0 .. N : n < N => f[n + 1] = f[n] * B
  <2> SUFFICES ASSUME NEW n \in 0 .. N, n < N PROVE f[n + 1] = f[n] * B
    OBVIOUS
  <2>1. n + 1 \in 0 .. N /\ n + 1 # 0 /\ (n + 1) - 1 = n
    OBVIOUS
  <2> QED
    BY <1>1, <2>1
<1> DEFINE T == {n \in 0 .. N : f[n] \in Nat \ {0}}
<1>3. 0 \in T
  BY <1>1
<1>4. ASSUME NEW n \in 0 .. N, n < N, n \in T PROVE n + 1 \in T
  <2>1. f[n] * B \in Nat \ {0}
    BY <1>4
  <2>2. n + 1 \in 0 .. N
    BY <1>4
  <2> QED
    BY <1>2, <1>4, <2>1, <2>2
<1> HIDE DEF T
<1>5. 0 .. N \subseteq T
  BY <1>3, <1>4, UpTo
<1>6. f \in [0 .. N -> Nat \ {0}]
  <2>1. f = [n \in 0 .. N |-> f[n]]
    BY DEF Powers
  <2>2. \A n \in 0 .. N : f[n] \in Nat \ {0}
    BY <1>5 DEF T
  <2> QED
    BY <2>1, <2>2
<1> QED
  BY <1>1, <1>2, <1>6

\* A power divides the higher ones.
LEMMA PowersDivide ==
  ASSUME NEW B \in Nat \ {0}, NEW N \in Nat, NEW f, Powers(B, N, f), NEW k \in 0 .. N
  PROVE  \E c \in Nat \ {0} : f[N] = f[k] * c
<1> DEFINE T == {n \in 0 .. N : n >= k => \E c \in Nat \ {0} : f[n] = f[k] * c}
<1>1. /\ f \in [0 .. N -> Nat \ {0}] /\ f[0] = 1
      /\ \A n \in 0 .. N : n < N => f[n + 1] = f[n] * B
  BY PowersArePositive
<1>2. \E c \in Nat \ {0} : f[k] = f[k] * c
  <2>1. f[k] \in Nat
    BY <1>1
  <2>2. f[k] = f[k] * 1
    BY <2>1
  <2> QED
    BY <2>2
<1>3. 0 \in T
  <2>1. 0 >= k => k = 0
    OBVIOUS
  <2> QED
    BY <1>2, <2>1
<1>4. ASSUME NEW n \in 0 .. N, n < N, n \in T PROVE n + 1 \in T
  <2>1. CASE n >= k
    <3>1. PICK c \in Nat \ {0} : f[n] = f[k] * c
      BY <1>4, <2>1
    <3>2. f[k] \in Nat /\ f[n + 1] = f[n] * B
      BY <1>1, <1>4
    <3>3. PICK a \in Nat : a = f[k]
      BY <3>2
    <3>4. (a * c) * B = a * (c * B) /\ c * B \in Nat \ {0}
      OBVIOUS
    <3>5. f[n + 1] = f[k] * (c * B)
      BY <3>1, <3>2, <3>3, <3>4
    <3>6. n + 1 \in 0 .. N
      BY <1>4
    <3> QED
      BY <3>4, <3>5, <3>6
  <2>2. CASE ~(n >= k)
    <3>1. n + 1 \in 0 .. N /\ (n + 1 >= k => n + 1 = k)
      BY <1>4, <2>2
    <3> QED
      BY <1>2, <3>1
  <2> QED
    BY <2>1, <2>2
<1> HIDE DEF T
<1>5. N \in T
  <2>1. 0 .. N \subseteq T
    BY <1>3, <1>4, UpTo
  <2> QED
    BY <2>1
<1> QED
  BY <1>5 DEF T

\* One more digit d, in a word that has room for P * B values: what x has above P
\* does not show in the remainder.
RoomFor(P, B, W) == \E c \in Nat \ {0} : W = (P * B) * c

HasRest(P, x, y) == x % P = y

OneMoreDigit(B, P, W, x, y, d) ==
  /\ y * B + d \in 0 .. P * B - 1
  /\ (y * B + d) % W = y * B + d
  /\ ((x * B + d) % W) % (P * B) = y * B + d

LEMMA DigitAdded ==
  ASSUME NEW B \in Nat \ {0}, NEW P \in Nat \ {0}, NEW W, RoomFor(P, B, W),
         NEW x \in Nat, NEW y \in 0 .. P - 1, HasRest(P, x, y), NEW d \in 0 .. B - 1
  PROVE  OneMoreDigit(B, P, W, x, y, d)
<1>1. x % P = y
  BY DEF HasRest
<1>2. PICK e \in Nat : x = P * e + y
  <2>1. x \div P \in Nat /\ x = P * (x \div P) + (x % P)
    OBVIOUS
  <2> QED
    BY <1>1, <2>1
<1>3. PICK Q \in Nat \ {0} : Q = P * B
  OBVIOUS
<1>4. PICK r \in Int : r = y * B + d
  OBVIOUS
<1>5. r \in 0 .. Q - 1
  <2>1. PICK z \in Nat \ {0} : P = y + z
    <3>1. P - y \in Nat \ {0} /\ P = y + (P - y)
      OBVIOUS
    <3> QED
      BY <3>1
  <2>2. P * B = y * B + z * B /\ z * B >= B /\ y * B >= 0
    BY <2>1
  <2> QED
    BY <1>3, <1>4, <2>2
<1>6. PICK c \in Nat \ {0} : W = (P * B) * c
  BY DEF RoomFor
<1>7. W = Q * c /\ Q * c >= Q /\ Q * c \in Nat \ {0}
  BY <1>3, <1>6
<1>8. r % W = r
  <2>1. r \in 0 .. W - 1
    BY <1>5, <1>7
  <2> QED
    BY <1>7, <2>1
<1>9. x * B + d = Q * e + r
  <2>1. (P * e + y) * B = (P * B) * e + y * B
    OBVIOUS
  <2> QED
    BY <1>2, <1>3, <1>4, <2>1
<1>10. PICK v \in Nat : v = Q * e + r
  BY <1>5
<1>11. PICK q \in Int, m \in Nat : v = W * q + m /\ m = v % W
  <2>1. PICK V \in Nat \ {0} : V = W
    BY <1>7
  <2>2. v \div V \in Int /\ v % V \in Nat /\ v = V * (v \div V) + (v % V)
    OBVIOUS
  <2> QED
    BY <2>1, <2>2
<1>12. m = Q * (e - c * q) + r
  <2>1. (Q * c) * q = Q * (c * q)
    OBVIOUS
  <2>2. PICK k \in Int : k = c * q
    OBVIOUS
  <2>3. Q * (e - k) = Q * e - Q * k
    OBVIOUS
  <2> QED
    BY <1>7, <1>10, <1>11, <2>1, <2>2, <2>3
<1>13. m % Q = r
  <2>1. PICK k \in Int : k = e - c * q
    OBVIOUS
  <2> QED
    BY <1>5, <1>12, <2>1, RemainderIs
<1> QED
  BY <1>3, <1>4, <1>5, <1>8, <1>9, <1>10, <1>11, <1>13 DEF OneMoreDigit

==============================================================================
