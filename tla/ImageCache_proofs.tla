------------------------- MODULE ImageCache_proofs -------------------------
(***************************************************************************)
(* For any number of users, overlapping requests, images and any quota:    *)
(* the usage recorded for a user exceeds the quota by less than one image. *)
(*                                                                         *)
(* The bound on the recorded usage is not inductive: the usage is computed *)
(* on a clone, from an image whose size was checked some steps before.     *)
(* UsageInv adds that these two, while a handler holds them, are bounded.  *)
(***************************************************************************)
EXTENDS ImageCache, SequenceLemmas

-----------------------------------------------------------------------------
(* Sums over finite sets *)

\* A function that sums f up over the subsets of S, whichever element is taken
\* out first.
IsSum(g, f, S) ==
  /\ g \in [SUBSET S -> Nat]
  /\ g[{}] = 0
  /\ \A T \in SUBSET S : \A x \in T : g[T] = f[x] + g[T \ {x}]

\* A function that takes out one element of each set.
SumsUp(h, f, S) ==
  /\ h[{}] = 0
  /\ \A T \in SUBSET S : T # {} =>
       \E x \in T : h[T] = f[x] + h[T \ {x}] \/ h[T] = h[T \ {x}] + f[x]

\* The subsets of a finite set, for an induction over their size.
LEMMA SubsetCardinality ==
  ASSUME NEW S, IsFiniteSet(S), NEW T \in SUBSET S
  PROVE  /\ Cardinality(T) \in Nat
         /\ T = {} <=> Cardinality(T) = 0
         /\ \A x \in T : T \ {x} \in SUBSET S /\ Cardinality(T \ {x}) = Cardinality(T) - 1
         /\ Cardinality(T) <= Cardinality(S)
<1>1. IsFiniteSet(T) /\ Cardinality(T) <= Cardinality(S)
  BY FS_Subset
<1>2. Cardinality(T) \in Nat /\ (T = {} <=> Cardinality(T) = 0)
  BY <1>1, FS_CardinalityType, FS_EmptySet
<1>3. \A x \in T : Cardinality(T \ {x}) = Cardinality(T) - 1
  BY <1>1, FS_RemoveElement
<1> QED BY <1>1, <1>2, <1>3

\* Whatever takes the elements out one by one comes to the same sum.
LEMMA SumIsUnique ==
  ASSUME NEW S, IsFiniteSet(S), NEW f, \A x \in S : f[x] \in Nat,
         NEW g, IsSum(g, f, S), NEW h, SumsUp(h, f, S)
  PROVE  \A T \in SUBSET S : h[T] = g[T]
<1> DEFINE P == {n \in Nat : \A T \in SUBSET S : Cardinality(T) = n => h[T] = g[T]}
<1>1. 0 \in P
  BY SubsetCardinality DEF IsSum, SumsUp
<1>2. ASSUME NEW n \in P PROVE n + 1 \in P
  <2> SUFFICES ASSUME NEW T \in SUBSET S, Cardinality(T) = n + 1 PROVE h[T] = g[T]
    OBVIOUS
  <2>1. T # {}
    BY SubsetCardinality
  <2>2. PICK x \in T : h[T] = f[x] + h[T \ {x}] \/ h[T] = h[T \ {x}] + f[x]
    BY <2>1 DEF SumsUp
  <2>3. Cardinality(T \ {x}) = n /\ T \ {x} \in SUBSET S
    BY SubsetCardinality
  <2>4. h[T \ {x}] = g[T \ {x}] /\ g[T \ {x}] \in Nat /\ f[x] \in Nat
    BY <2>3 DEF IsSum
  <2>5. g[T] = f[x] + g[T \ {x}]
    BY DEF IsSum
  <2> QED BY <2>2, <2>4, <2>5
<1> HIDE DEF P
<1>3. P = Nat
  <2>1. P \in SUBSET Nat
    BY DEF P
  <2> QED BY <1>1, <1>2, <2>1, Induction
<1> QED BY <1>3, SubsetCardinality DEF P

LEMMA SumExists ==
  ASSUME NEW S, IsFiniteSet(S), NEW f, \A x \in S : f[x] \in Nat
  PROVE  \E g : IsSum(g, f, S)
<1> DEFINE Upto(g, n) == /\ g \in [SUBSET S -> Nat] /\ g[{}] = 0
                         /\ \A T \in SUBSET S : Cardinality(T) <= n =>
                              \A x \in T : g[T] = f[x] + g[T \ {x}]
           P == {n \in Nat : \E g : Upto(g, n)}
<1>1. 0 \in P
  <2>1. Upto([T \in SUBSET S |-> 0], 0)
    BY SubsetCardinality
  <2> QED BY <2>1
<1>2. ASSUME NEW n \in P PROVE n + 1 \in P
  <2>1. n \in Nat /\ \E g : Upto(g, n)
    OBVIOUS
  <2>2. PICK g : Upto(g, n)
    BY <2>1
  <2> DEFINE c(T) == CHOOSE x \in T : TRUE
             h == [T \in SUBSET S |-> IF Cardinality(T) <= n THEN g[T] ELSE f[c(T)] + g[T \ {c(T)}]]
  <2>3. ASSUME NEW T \in SUBSET S, ~ (Cardinality(T) <= n)
        PROVE  c(T) \in T /\ h[T] = f[c(T)] + g[T \ {c(T)}] /\ h[T] \in Nat
    <3>1. T # {}
      BY <2>3, SubsetCardinality
    <3> QED BY <2>2, <2>3, <3>1
  <2>4. \A T \in SUBSET S : Cardinality(T) <= n => h[T] = g[T]
    OBVIOUS
  <2>5. h \in [SUBSET S -> Nat] /\ h[{}] = 0
    <3>1. h \in [SUBSET S -> Nat]
      BY <2>2, <2>3, <2>4
    <3>2. {} \in SUBSET S /\ Cardinality({}) <= n
      BY <2>1, FS_EmptySet
    <3> QED BY <2>2, <2>4, <3>1, <3>2
  <2> HIDE DEF h, c
  <2>6. ASSUME NEW T \in SUBSET S, Cardinality(T) <= n + 1, NEW x \in T
        PROVE  h[T] = f[x] + h[T \ {x}]
    <3>1. /\ Cardinality(T) \in Nat /\ Cardinality(T \ {x}) = Cardinality(T) - 1
          /\ T \ {x} \in SUBSET S
      BY SubsetCardinality
    <3>2. h[T \ {x}] = g[T \ {x}]
      BY <2>1, <2>4, <2>6, <3>1
    <3>3. CASE Cardinality(T) <= n
      BY <2>2, <2>4, <3>2, <3>3
    <3>4. CASE ~ (Cardinality(T) <= n)
      <4>1. c(T) \in T /\ h[T] = f[c(T)] + g[T \ {c(T)}]
        BY <2>3, <3>4
      <4>2. CASE c(T) = x
        BY <3>2, <4>1, <4>2
      <4>3. CASE c(T) # x
        <5> DEFINE d == c(T)
                   rest == T \ {x, d}
        <5>1. /\ x \in T \ {d} /\ d \in T \ {x}
              /\ (T \ {d}) \ {x} = rest /\ (T \ {x}) \ {d} = rest
              /\ rest \in SUBSET S
          BY <4>1, <4>3
        <5>2. Cardinality(T \ {d}) <= n /\ Cardinality(T \ {x}) <= n /\ T \ {d} \in SUBSET S
          <6>1. Cardinality(T \ {d}) = Cardinality(T) - 1
            BY <4>1, SubsetCardinality
          <6> QED BY <2>1, <2>6, <3>1, <6>1
        <5> HIDE DEF rest, d
        <5>3. g[T \ {d}] = f[x] + g[rest]
          <6>1. g[T \ {d}] = f[x] + g[(T \ {d}) \ {x}]
            BY <2>2, <5>1, <5>2
          <6> QED BY <5>1, <6>1
        <5>4. g[T \ {x}] = f[d] + g[rest]
          <6>1. g[T \ {x}] = f[d] + g[(T \ {x}) \ {d}]
            BY <2>2, <3>1, <5>1, <5>2
          <6> QED BY <5>1, <6>1
        <5>5. f[x] \in Nat /\ f[d] \in Nat /\ g[rest] \in Nat
          BY <2>2, <4>1, <5>1 DEF d
        <5> QED BY <3>2, <4>1, <5>3, <5>4, <5>5 DEF d
      <4> QED BY <4>2, <4>3
    <3> QED BY <3>3, <3>4
  <2>7. Upto(h, n + 1)
    BY <2>5, <2>6
  <2> HIDE DEF Upto
  <2> QED BY <2>1, <2>7
<1> HIDE DEF P
<1>3. P = Nat
  <2>1. P \in SUBSET Nat
    BY DEF P
  <2> QED BY <1>1, <1>2, <2>1, Induction
<1>4. Cardinality(S) \in P
  BY <1>3, FS_CardinalityType
<1>5. \E g : Upto(g, Cardinality(S))
  <2> HIDE DEF Upto
  <2> QED BY <1>4 DEF P
<1>6. PICK g : Upto(g, Cardinality(S))
  BY <1>5
<1>7. \A T \in SUBSET S : Cardinality(T) <= Cardinality(S)
  BY SubsetCardinality
<1>8. IsSum(g, f, S)
  BY <1>6, <1>7 DEF IsSum
<1> QED BY <1>8

\* What the fold over a set is, in the order that CHOOSE gives it.
LEMMA SumOnSet ==
  ASSUME NEW S, IsFiniteSet(S), NEW f, \A x \in S : f[x] \in Nat, NEW g, IsSum(g, f, S)
  PROVE  SumFunctionOnSet(f, S) = g[S]
<1> DEFINE F(h) == [T \in SUBSET S |-> IF T = {} THEN 0
                       ELSE f[CHOOSE x \in T : TRUE] + h[T \ {CHOOSE x \in T : TRUE}]]
           it == CHOOSE h : h = F(h)
<1>1. \A T \in SUBSET S : T # {} => (CHOOSE x \in T : TRUE) \in T
  OBVIOUS
<1>2. g = F(g)
  <2>1. g = [T \in SUBSET S |-> g[T]]
    BY DEF IsSum
  <2>2. ASSUME NEW T \in SUBSET S, T # {}
        PROVE g[T] = f[CHOOSE x \in T : TRUE] + g[T \ {CHOOSE x \in T : TRUE}]
    BY <1>1, <2>2 DEF IsSum
  <2> QED BY <2>1, <2>2 DEF IsSum
<1>3. it = F(it)
  BY <1>2
<1>4. SumFunctionOnSet(f, S) = it[S]
  BY DEF SumFunctionOnSet, FoldFunctionOnSet, MapThenFoldSet
<1> HIDE DEF it
<1>5. SumsUp(it, f, S)
  BY <1>1, <1>3 DEF SumsUp
<1>6. it[S] = g[S]
  BY <1>5, SumIsUnique
<1> QED BY <1>4, <1>6


LEMMA SumOfSubset ==
  ASSUME NEW S, IsFiniteSet(S), NEW f, \A x \in S : f[x] \in Nat,
         NEW g, IsSum(g, f, S), NEW T \in SUBSET S
  PROVE  SumFunctionOnSet(f, T) = g[T]
<1> DEFINE h == [U \in SUBSET T |-> g[U]]
<1>1. IsSum(h, f, T)
  BY DEF IsSum
<1>2. IsFiniteSet(T)
  BY FS_Subset
<1> HIDE DEF h
<1>3. SumFunctionOnSet(f, T) = h[T]
  BY <1>1, <1>2, SumOnSet
<1> QED BY <1>3 DEF h

\* The sum of a set with one element more.
LEMMA SumWithOneMore ==
  ASSUME NEW S, IsFiniteSet(S), NEW x, x \notin S, NEW f, f[x] \in Nat,
         \A y \in S : f[y] \in Nat
  PROVE  /\ SumFunctionOnSet(f, S) \in Nat
         /\ SumFunctionOnSet(f, S \cup {x}) = SumFunctionOnSet(f, S) + f[x]
<1> DEFINE T == S \cup {x}
<1>1. IsFiniteSet(T)
  BY FS_AddElement
<1>2. PICK g : IsSum(g, f, T)
  BY <1>1, SumExists
<1>3. SumFunctionOnSet(f, T) = g[T] /\ SumFunctionOnSet(f, S) = g[S]
  <2>1. S \in SUBSET T /\ \A y \in T : f[y] \in Nat
    OBVIOUS
  <2> HIDE DEF T
  <2> QED BY <1>1, <1>2, <2>1, SumOfSubset
<1>4. g[T] = f[x] + g[S] /\ g[S] \in Nat
  <2>1. T \ {x} = S
    OBVIOUS
  <2>2. g[T] = f[x] + g[T \ {x}]
    BY <1>2 DEF IsSum
  <2> HIDE DEF T
  <2>3. g[S] \in Nat
    BY <1>2 DEF IsSum, T
  <2> QED BY <2>1, <2>2, <2>3
<1> HIDE DEF T
<1> QED BY <1>3, <1>4 DEF T

\* A larger set has no smaller sum.
LEMMA SumGrows ==
  ASSUME NEW S, IsFiniteSet(S), NEW f, \A y \in S : f[y] \in Nat, NEW T \in SUBSET S
  PROVE  /\ SumFunctionOnSet(f, T) \in Nat /\ SumFunctionOnSet(f, S) \in Nat
         /\ SumFunctionOnSet(f, T) <= SumFunctionOnSet(f, S)
<1>1. PICK g : IsSum(g, f, S)
  BY SumExists
<1> DEFINE P == {n \in Nat : \A U \in SUBSET S : Cardinality(U) = n => g[U \cap T] <= g[U]}
<1>2. 0 \in P
  <2> SUFFICES ASSUME NEW U \in SUBSET S, Cardinality(U) = 0 PROVE g[U \cap T] <= g[U]
    OBVIOUS
  <2>1. U = {} /\ U \cap T = U
    BY SubsetCardinality
  <2> QED BY <1>1, <2>1 DEF IsSum
<1>3. ASSUME NEW n \in P PROVE n + 1 \in P
  <2> SUFFICES ASSUME NEW U \in SUBSET S, Cardinality(U) = n + 1 PROVE g[U \cap T] <= g[U]
    OBVIOUS
  <2>1. PICK x \in U : TRUE
    BY SubsetCardinality
  <2> DEFINE rest == U \ {x}
  <2>2. rest \in SUBSET S /\ Cardinality(rest) = n
    BY SubsetCardinality
  <2>3. g[rest \cap T] <= g[rest]
    BY <2>2
  <2>4. g[U] = f[x] + g[rest]
    BY <1>1 DEF IsSum
  <2>5. g[U \cap T] = g[rest \cap T] \/ g[U \cap T] = f[x] + g[rest \cap T]
    <3>1. CASE x \in T
      <4>1. x \in U \cap T /\ (U \cap T) \ {x} = rest \cap T
        BY <3>1
      <4>2. g[U \cap T] = f[x] + g[(U \cap T) \ {x}]
        BY <1>1, <4>1 DEF IsSum
      <4> QED BY <4>1, <4>2
    <3>2. CASE x \notin T
      <4>1. U \cap T = rest \cap T
        BY <3>2
      <4> QED BY <4>1
    <3> QED BY <3>1, <3>2
  <2>6. f[x] \in Nat /\ g[rest] \in Nat /\ g[rest \cap T] \in Nat
    BY <1>1, <2>2 DEF IsSum
  <2> QED BY <2>3, <2>4, <2>5, <2>6
<1> HIDE DEF P
<1>4. P = Nat
  <2>1. P \in SUBSET Nat
    BY DEF P
  <2> QED BY <1>2, <1>3, <2>1, Induction
<1>5. g[S \cap T] <= g[S]
  BY <1>4, SubsetCardinality DEF P
<1>6. g[T] <= g[S] /\ g[T] \in Nat /\ g[S] \in Nat
  <2>1. S \cap T = T
    OBVIOUS
  <2> QED BY <1>1, <1>5, <2>1 DEF IsSum
<1>7. SumFunctionOnSet(f, T) = g[T] /\ SumFunctionOnSet(f, S) = g[S]
  BY <1>1, SumOfSubset
<1> QED BY <1>6, <1>7

\* A sum depends on the values that are summed up only.
LEMMA SumOfSame ==
  ASSUME NEW S, IsFiniteSet(S), NEW f, NEW h, \A y \in S : f[y] \in Nat /\ h[y] = f[y]
  PROVE  SumFunctionOnSet(h, S) = SumFunctionOnSet(f, S)
<1>1. PICK g : IsSum(g, f, S)
  BY SumExists
<1>2. IsSum(g, h, S)
  BY <1>1 DEF IsSum
<1> QED BY <1>1, <1>2, SumOnSet

LEMMA EmptySum ==
  ASSUME NEW f PROVE SumFunctionOnSet(f, {}) = 0
<1>1. IsFiniteSet({})
  BY FS_EmptySet
<1>2. PICK g : IsSum(g, f, {})
  BY <1>1, SumExists
<1> QED BY <1>1, <1>2, SumOnSet DEF IsSum

-----------------------------------------------------------------------------
(* The bytes cache: sizes of sequences of entries *)

SizesOf(es) == [i \in DOMAIN es |-> es[i].size]

LEMMA LargestOf ==
  ASSUME NEW n \in Nat, NEW T \in SUBSET (1 .. n), T # {}
  PROVE  Max(T) \in T
<1> DEFINE U == {k \in Nat : n - k \in T}
<1>1. PICK x \in T : TRUE
  OBVIOUS
<1>2. n - x \in U
  <2>1. n - x \in Nat /\ n - (n - x) = x
    OBVIOUS
  <2> QED BY <2>1
<1>3. PICK k \in U : \A j \in U : k <= j
  <2>1. U \in SUBSET Nat /\ U # {}
    BY <1>2
  <2> HIDE DEF U
  <2> QED BY <2>1, Least
<1>4. ASSUME NEW y \in T PROVE n - k >= y
  <2>1. n - y \in Nat /\ n - (n - y) = y
    OBVIOUS
  <2>2. k <= n - y
    BY <1>3, <2>1
  <2> QED BY <2>1, <2>2
<1> QED BY <1>3, <1>4 DEF Max

LEMMA TotalIsSum ==
  ASSUME NEW es \in Seq(Entry)
  PROVE  /\ IsFiniteSet(DOMAIN es) /\ \A i \in DOMAIN es : SizesOf(es)[i] \in Nat
         /\ TotalSize(es) = SumFunctionOnSet(SizesOf(es), DOMAIN es)
<1> DEFINE S == DOMAIN es
           f == SizesOf(es)
           F(h) == [T \in SUBSET S |-> IF T = {} THEN 0
                       ELSE h[T \ {Max(T)}] + es[Max(T)].size]
           it == CHOOSE h : h = F(h)
<1>1. S = 1 .. Len(es) /\ Len(es) \in Nat /\ \A i \in S : es[i] \in Entry
  BY ElementOfSeq, LenProperties
<1>2. IsFiniteSet(S)
  BY <1>1, FS_Interval
<1>3. \A i \in S : f[i] = es[i].size /\ f[i] \in Nat
  BY <1>1 DEF SizesOf, Entry
<1>4. \A T \in SUBSET S : T # {} => Max(T) \in T
  BY <1>1, LargestOf
<1>5. TotalSize(es) = it[S]
  BY DEF TotalSize, FoldLeft, MapThenFoldSet
<1> HIDE DEF f, S
<1>6. PICK g : IsSum(g, f, S)
  BY <1>2, <1>3, SumExists
<1>7. g = F(g)
  <2>1. g = [T \in SUBSET S |-> g[T]]
    BY <1>6 DEF IsSum
  <2>2. ASSUME NEW T \in SUBSET S, T # {}
        PROVE  g[T] = g[T \ {Max(T)}] + es[Max(T)].size
    <3>1. Max(T) \in T /\ T \ {Max(T)} \in SUBSET S
      BY <1>4, <2>2
    <3>2. g[T] = f[Max(T)] + g[T \ {Max(T)}] /\ g[T \ {Max(T)}] \in Nat
      BY <1>6, <3>1 DEF IsSum
    <3>3. f[Max(T)] = es[Max(T)].size /\ f[Max(T)] \in Nat
      BY <1>3, <3>1
    <3> QED BY <3>2, <3>3
  <2> QED BY <1>6, <2>1, <2>2 DEF IsSum
<1>8. it = F(it)
  BY <1>7
<1> HIDE DEF it
<1>9. SumsUp(it, f, S)
  <2>1. ASSUME NEW T \in SUBSET S, T # {}
        PROVE  Max(T) \in T /\ it[T] = it[T \ {Max(T)}] + f[Max(T)]
    BY <1>3, <1>4, <1>8, <2>1
  <2>2. it[{}] = 0
    BY <1>8
  <2> QED BY <2>1, <2>2 DEF SumsUp
<1>10. it[S] = g[S]
  BY <1>2, <1>3, <1>6, <1>9, SumIsUnique
<1> QED BY <1>2, <1>3, <1>5, <1>6, <1>10, SumOnSet DEF f, S

LEMMA EmptyTotal == TotalSize(<<>>) = 0
<1>1. <<>> \in Seq(Entry) /\ DOMAIN <<>> = {}
  BY EmptySeq, LenProperties
<1>2. TotalSize(<<>>) = SumFunctionOnSet(SizesOf(<<>>), DOMAIN <<>>)
  BY <1>1, TotalIsSum
<1> QED BY <1>1, <1>2, EmptySum

LEMMA AppendTotal ==
  ASSUME NEW es \in Seq(Entry), NEW e \in Entry
  PROVE  /\ TotalSize(es) \in Nat
         /\ TotalSize(Append(es, e)) = TotalSize(es) + e.size
<1> DEFINE more == Append(es, e)
           n == Len(es) + 1
           S == DOMAIN es
           f == SizesOf(es)
           h == SizesOf(more)
<1>1. /\ more \in Seq(Entry) /\ Len(more) = n /\ Len(es) \in Nat
      /\ S = 1 .. Len(es) /\ DOMAIN more = 1 .. n
      /\ \A i \in S : more[i] = es[i]
      /\ more[n] = e
  <2>1. /\ more \in Seq(Entry) /\ Len(more) = n /\ more[n] = e
        /\ \A i \in 1 .. Len(es) : more[i] = es[i]
    BY AppendProperties
  <2>2. Len(es) \in Nat /\ S = 1 .. Len(es)
    BY LenProperties
  <2>3. DOMAIN more = 1 .. n
    BY <2>1, LenProperties
  <2> QED BY <2>1, <2>2, <2>3
<1>2. n \notin S /\ DOMAIN more = S \cup {n}
  BY <1>1
<1>3. \A i \in S : h[i] = f[i]
  BY <1>1, <1>2 DEF SizesOf
<1>4. h[n] = e.size
  BY <1>1, <1>2 DEF SizesOf
<1>5. /\ IsFiniteSet(S) /\ \A i \in S : f[i] \in Nat
      /\ TotalSize(es) = SumFunctionOnSet(f, S)
  BY TotalIsSum
<1>6. TotalSize(more) = SumFunctionOnSet(h, S \cup {n})
  BY <1>1, <1>2, TotalIsSum
<1>7. e.size \in Nat
  BY DEF Entry
<1> HIDE DEF S, f, h, n, more
<1>8. SumFunctionOnSet(h, S) = SumFunctionOnSet(f, S)
  BY <1>3, <1>5, SumOfSame
<1>9. /\ SumFunctionOnSet(h, S) \in Nat
      /\ SumFunctionOnSet(h, S \cup {n}) = SumFunctionOnSet(h, S) + h[n]
  <2>1. (\A i \in S : h[i] \in Nat) /\ h[n] \in Nat
    BY <1>3, <1>4, <1>5, <1>7
  <2> QED BY <1>2, <1>5, <2>1, SumWithOneMore
<1> QED BY <1>4, <1>5, <1>6, <1>8, <1>9 DEF more

LEMMA TotalType == \A es \in Seq(Entry) : TotalSize(es) \in Nat
<1> TAKE es \in Seq(Entry)
<1>1. /\ IsFiniteSet(DOMAIN es) /\ \A i \in DOMAIN es : SizesOf(es)[i] \in Nat
      /\ TotalSize(es) = SumFunctionOnSet(SizesOf(es), DOMAIN es)
  BY TotalIsSum
<1> QED BY <1>1, SumGrows

\* The sizes of two sequences, one after the other, add up.
LEMMA ConcatTotal ==
  ASSUME NEW s \in Seq(Entry), NEW t \in Seq(Entry)
  PROVE  TotalSize(s \o t) = TotalSize(s) + TotalSize(t)
<1> DEFINE P == {n \in Nat : \A u \in Seq(Entry) :
                   Len(u) = n => TotalSize(s \o u) = TotalSize(s) + TotalSize(u)}
<1>1. 0 \in P
  <2> SUFFICES ASSUME NEW u \in Seq(Entry), Len(u) = 0
               PROVE  TotalSize(s \o u) = TotalSize(s) + TotalSize(u)
    OBVIOUS
  <2>1. u = <<>>
    BY EmptySeq
  <2>2. s \o u = s
    BY <2>1, ConcatEmptySeq
  <2> QED BY <2>1, <2>2, EmptyTotal, TotalType
<1>2. ASSUME NEW n \in P PROVE n + 1 \in P
  <2> SUFFICES ASSUME NEW u \in Seq(Entry), Len(u) = n + 1
               PROVE  TotalSize(s \o u) = TotalSize(s) + TotalSize(u)
    OBVIOUS
  <2>1. u # <<>>
    BY EmptySeq
  <2>2. PICK v \in Seq(Entry), e \in Entry : u = Append(v, e)
    BY <2>1, SequenceEmptyOrAppend
  <2>3. Len(v) = n
    BY <2>2, AppendProperties, LenProperties
  <2>4. s \o v \in Seq(Entry) /\ s \o u = Append(s \o v, e)
    <3>1. s \o v \in Seq(Entry)
      BY ConcatProperties
    <3>2. <<e>> \in Seq(Entry)
      OBVIOUS
    <3>3. (s \o v) \o <<e>> = s \o (v \o <<e>>)
      BY <3>2, ConcatAssociative
    <3> QED BY <2>2, <3>1, <3>3, AppendIsConcat
  <2>5. TotalSize(s \o v) = TotalSize(s) + TotalSize(v)
    BY <2>3
  <2>6. /\ TotalSize(s \o u) = TotalSize(s \o v) + e.size
        /\ TotalSize(u) = TotalSize(v) + e.size
    BY <2>2, <2>4, AppendTotal
  <2>7. TotalSize(s) \in Nat /\ TotalSize(v) \in Nat /\ e.size \in Nat
    BY TotalType DEF Entry
  <2> QED BY <2>5, <2>6, <2>7
<1> HIDE DEF P
<1>3. P = Nat
  <2>1. P \in SUBSET Nat
    BY DEF P
  <2> QED BY <1>1, <1>2, <2>1, Induction
<1> QED BY <1>3, LenProperties DEF P

\* The oldest k entries of a cache and the others.
LEMMA SplitTotal ==
  ASSUME NEW es \in Seq(Entry), NEW k \in 0 .. Len(es)
  PROVE  /\ SubSeq(es, 1, k) \in Seq(Entry) /\ SubSeq(es, k + 1, Len(es)) \in Seq(Entry)
         /\ SubSeq(es, 1, k) \o SubSeq(es, k + 1, Len(es)) = es
         /\ TotalSize(es) = TotalSize(SubSeq(es, 1, k)) + TotalSize(SubSeq(es, k + 1, Len(es)))
<1>1. Len(es) \in Nat /\ \A i \in 1 .. Len(es) : es[i] \in Entry
  BY LenProperties, ElementOfSeq
<1>2. SubSeq(es, 1, k) \in Seq(Entry) /\ SubSeq(es, k + 1, Len(es)) \in Seq(Entry)
  BY <1>1, SubSeqProperties
<1>3. SubSeq(es, 1, k) \o SubSeq(es, k + 1, Len(es)) = SubSeq(es, 1, Len(es))
  <2>1. 1 \in 1 .. Len(es) + 1 /\ k \in 1 - 1 .. Len(es) /\ Len(es) \in k .. Len(es)
    BY <1>1
  <2> QED BY <2>1, ConcatAdjacentSubSeq
<1>4. SubSeq(es, 1, Len(es)) = es
  BY SubSeqFull
<1> QED BY <1>2, <1>3, <1>4, ConcatTotal, ZenonT(30)

KeysDiffer(es) == \A i, j \in DOMAIN es : es[i].key = es[j].key => i = j

\* shift_remove: the one entry of the key is gone, the others keep their order.
LEMMA OthersKeepTheirOrder ==
  ASSUME entries \in Seq(Entry), KeysDiffer(entries), NEW key
  PROVE  /\ WithoutKey(key) \in Seq(Entry)
         /\ KeysDiffer(WithoutKey(key))
         /\ \A j \in DOMAIN WithoutKey(key) : WithoutKey(key)[j].key # key
         /\ TotalSize(WithoutKey(key)) <= TotalSize(entries)
         /\ ~IsCached(key) => WithoutKey(key) = entries
         /\ IsCached(key) =>
              \E i \in DOMAIN entries :
                /\ entries[i].key = key
                /\ Len(WithoutKey(key)) = Len(entries) - 1
                /\ \A j \in 1 .. Len(entries) - 1 :
                     WithoutKey(key)[j] = IF j < i THEN entries[j] ELSE entries[j + 1]
<1>1. /\ Len(entries) \in Nat /\ DOMAIN entries = 1 .. Len(entries)
      /\ \A i \in 1 .. Len(entries) : entries[i] \in Entry
  BY LenProperties, ElementOfSeq
<1>2. CASE ~IsCached(key)
  <2>1. WithoutKey(key) = entries
    BY <1>2 DEF WithoutKey
  <2> QED BY <1>2, <2>1, TotalType DEF IsCached
<1>3. CASE IsCached(key)
  <2>1. PICK i \in DOMAIN entries :
          entries[i].key = key /\ WithoutKey(key) = RemoveAt(entries, i)
    BY <1>3 DEF WithoutKey, IsCached
  <2> DEFINE before == SubSeq(entries, 1, i - 1)
             after == SubSeq(entries, i + 1, Len(entries))
  <2>2. WithoutKey(key) = before \o after
    BY <2>1 DEF RemoveAt
  <2>3. /\ before \in Seq(Entry) /\ Len(before) = i - 1
        /\ \A j \in 1 .. i - 1 : before[j] = entries[j]
    <3>1. i - 1 \in Int /\ 1 \in Int /\ (\A j \in 1 .. i - 1 : entries[j] \in Entry)
      BY <1>1
    <3>2. /\ before \in Seq(Entry) /\ Len(before) = IF 1 <= i - 1 THEN i - 1 - 1 + 1 ELSE 0
          /\ \A j \in 1 .. i - 1 - 1 + 1 : before[j] = entries[1 + j - 1]
      BY <3>1, SubSeqProperties
    <3> QED BY <1>1, <3>2
  <2>4. /\ after \in Seq(Entry) /\ Len(after) = Len(entries) - i
        /\ \A j \in 1 .. Len(entries) - i : after[j] = entries[j + i]
    <3>1. i + 1 \in Int /\ Len(entries) \in Int
          /\ \A j \in i + 1 .. Len(entries) : entries[j] \in Entry
      BY <1>1
    <3>2. /\ after \in Seq(Entry)
          /\ Len(after) = IF i + 1 <= Len(entries) THEN Len(entries) - (i + 1) + 1 ELSE 0
          /\ \A j \in 1 .. Len(entries) - (i + 1) + 1 : after[j] = entries[(i + 1) + j - 1]
      BY <3>1, SubSeqProperties
    <3>3. \A j \in 1 .. Len(entries) - i : j \in 1 .. Len(entries) - (i + 1) + 1
                                          /\ (i + 1) + j - 1 = j + i
      BY <1>1
    <3>4. Len(after) = Len(entries) - i
      BY <1>1, <3>2
    <3> QED BY <3>2, <3>3, <3>4
  <2> HIDE DEF before, after
  <2>5. /\ WithoutKey(key) \in Seq(Entry) /\ Len(WithoutKey(key)) = Len(entries) - 1
        /\ \A j \in 1 .. Len(entries) - 1 :
             WithoutKey(key)[j] = IF j < i THEN entries[j] ELSE entries[j + 1]
    <3>1. /\ before \o after \in Seq(Entry)
          /\ Len(before \o after) = Len(before) + Len(after)
          /\ \A j \in 1 .. Len(before) + Len(after) :
               (before \o after)[j] = IF j <= Len(before) THEN before[j]
                                      ELSE after[j - Len(before)]
      BY <2>3, <2>4, ConcatProperties
    <3>2. Len(before) + Len(after) = Len(entries) - 1
      BY <1>1, <2>3, <2>4
    <3>3. ASSUME NEW j \in 1 .. Len(entries) - 1
          PROVE  (before \o after)[j] = IF j < i THEN entries[j] ELSE entries[j + 1]
      <4>1. CASE j < i
        BY <1>1, <2>3, <3>1, <3>2, <4>1
      <4>2. CASE ~(j < i)
        <5>1. ~(j <= Len(before)) /\ j - Len(before) \in 1 .. Len(entries) - i
              /\ j - Len(before) + i = j + 1
          BY <1>1, <2>3, <4>2
        <5> QED BY <2>4, <3>1, <3>2, <4>2, <5>1
      <4> QED BY <4>1, <4>2
    <3> QED BY <2>2, <3>1, <3>2, <3>3
  <2>6. DOMAIN WithoutKey(key) = 1 .. Len(entries) - 1
    BY <2>5, LenProperties
  <2>7. ASSUME NEW j \in 1 .. Len(entries) - 1
        PROVE  \E m \in DOMAIN entries :
                 WithoutKey(key)[j] = entries[m] /\ m # i /\ ((j < i /\ m = j) \/ (j >= i /\ m = j + 1))
    <3>1. CASE j < i
      BY <1>1, <2>5, <3>1
    <3>2. CASE ~(j < i)
      <4>1. j + 1 \in DOMAIN entries /\ j + 1 # i
        BY <1>1, <3>2
      <4> QED BY <1>1, <2>5, <3>2, <4>1
    <3> QED BY <3>1, <3>2
  <2>8. KeysDiffer(WithoutKey(key))
    <3> SUFFICES ASSUME NEW j \in 1 .. Len(entries) - 1, NEW l \in 1 .. Len(entries) - 1,
                        WithoutKey(key)[j].key = WithoutKey(key)[l].key
                 PROVE  j = l
      BY <2>6 DEF KeysDiffer
    <3>1. PICK m \in DOMAIN entries : WithoutKey(key)[j] = entries[m]
                                      /\ ((j < i /\ m = j) \/ (j >= i /\ m = j + 1))
      BY <2>7
    <3>2. PICK n \in DOMAIN entries : WithoutKey(key)[l] = entries[n]
                                      /\ ((l < i /\ n = l) \/ (l >= i /\ n = l + 1))
      BY <2>7
    <3>3. m = n
      BY <3>1, <3>2 DEF KeysDiffer
    <3> QED BY <1>1, <3>1, <3>2, <3>3
  <2>9. \A j \in DOMAIN WithoutKey(key) : WithoutKey(key)[j].key # key
    BY <2>1, <2>6, <2>7 DEF KeysDiffer
  <2>10. TotalSize(WithoutKey(key)) <= TotalSize(entries)
    <3>1. i \in 1 .. Len(entries) /\ i - 1 \in 0 .. Len(entries) /\ (i - 1) + 1 = i
      BY <1>1
    <3> DEFINE rest == SubSeq(entries, i, Len(entries))
    <3>2. rest \in Seq(Entry) /\ TotalSize(entries) = TotalSize(before) + TotalSize(rest)
      BY <3>1, SplitTotal DEF before
    <3>3. rest = <<entries[i]>> \o after
      <4>1. Len(entries) \in i .. Len(entries)
        BY <1>1, <3>1
      <4> QED BY <3>1, <4>1, SubSeqRecursiveFirst DEF after
    <3>4. <<entries[i]>> \in Seq(Entry)
      BY <1>1
    <3> HIDE DEF rest
    <3>5. TotalSize(rest) = TotalSize(<<entries[i]>>) + TotalSize(after)
      BY <2>4, <3>3, <3>4, ConcatTotal
    <3>6. TotalSize(WithoutKey(key)) = TotalSize(before) + TotalSize(after)
      BY <2>2, <2>3, <2>4, ConcatTotal
    <3>7. /\ TotalSize(before) \in Nat /\ TotalSize(after) \in Nat
          /\ TotalSize(<<entries[i]>>) \in Nat
      BY <2>3, <2>4, <3>4, TotalType
    <3> QED BY <3>2, <3>5, <3>6, <3>7
  <2> QED BY <1>3, <2>1, <2>5, <2>8, <2>9, <2>10
<1> QED BY <1>2, <1>3

\* Popping k entries makes room for an image if and only if it fits beside the others.
LEMMA PopsMakeRoom ==
  ASSUME NEW es \in Seq(Entry), TotalSize(es) <= Capacity, NEW size \in Nat,
         NEW k \in 0 .. Len(es)
  PROVE  k \in EnoughPops(es, size)
           <=> TotalSize(SubSeq(es, k + 1, Len(es))) + size <= Capacity
<1>1. PICK all, popped, left : /\ all = TotalSize(es) /\ popped = TotalSize(SubSeq(es, 1, k))
                               /\ left = TotalSize(SubSeq(es, k + 1, Len(es)))
  OBVIOUS
<1>2. all \in Nat /\ popped \in Nat /\ left \in Nat /\ all = popped + left
  BY <1>1, SplitTotal, TotalType
<1>3. all <= Capacity /\ Capacity \in Nat
  BY <1>1, CacheAssumption DEF CacheAssumption
<1>4. SizeToBeFreed(es, size) =
        IF size > Capacity - all THEN size - (Capacity - all) ELSE 0
  BY <1>1 DEF SizeToBeFreed
<1>5. popped >= SizeToBeFreed(es, size) <=> left + size <= Capacity
  BY <1>2, <1>3, <1>4
<1> QED BY <1>1, <1>5 DEF EnoughPops

\* free_size pops no entry more than it has to, and never runs out of entries.
LEMMA FreeSizeMakesRoom ==
  ASSUME NEW es \in Seq(Entry), TotalSize(es) <= Capacity,
         NEW size \in Nat, size <= EntrySizeLimit
  PROVE  /\ EnoughPops(es, size) # {}
         /\ \E k \in 0 .. Len(es) :
              /\ FreeSize(es, size) = SubSeq(es, k + 1, Len(es))
              /\ TotalSize(SubSeq(es, k + 1, Len(es))) + size <= Capacity
              /\ \A m \in 0 .. k - 1 : TotalSize(SubSeq(es, m + 1, Len(es))) + size > Capacity
<1>1. Len(es) \in Nat /\ TotalSize(es) \in Nat
  BY LenProperties, TotalType
<1>2. Len(es) \in EnoughPops(es, size)
  <2>1. SubSeq(es, Len(es) + 1, Len(es)) = <<>>
    BY <1>1, SubSeqEmpty
  <2>2. 0 + size <= Capacity
    BY CacheAssumption DEF CacheAssumption
  <2>3. TotalSize(SubSeq(es, Len(es) + 1, Len(es))) + size <= Capacity
    BY <2>1, <2>2, EmptyTotal
  <2>4. Len(es) \in 0 .. Len(es)
    BY <1>1
  <2> QED BY <2>3, <2>4, PopsMakeRoom
<1>3. EnoughPops(es, size) \in SUBSET Nat
  BY <1>1 DEF EnoughPops
<1>4. PICK k \in EnoughPops(es, size) :
        k = Min(EnoughPops(es, size)) /\ \A m \in EnoughPops(es, size) : k <= m
  BY <1>2, <1>3, Least DEF Min
<1>5. k \in 0 .. Len(es)
  BY <1>4 DEF EnoughPops
<1>6. ASSUME NEW m \in 0 .. k - 1
      PROVE  TotalSize(SubSeq(es, m + 1, Len(es))) + size > Capacity
  <2>1. m \in 0 .. Len(es) /\ ~(k <= m)
    BY <1>1, <1>5
  <2>2. m \notin EnoughPops(es, size)
    BY <1>4, <2>1
  <2>3. ~(TotalSize(SubSeq(es, m + 1, Len(es))) + size <= Capacity)
    BY <2>1, <2>2, PopsMakeRoom
  <2>4. TotalSize(SubSeq(es, m + 1, Len(es))) \in Nat
    BY <2>1, SplitTotal, TotalType
  <2> QED BY <2>3, <2>4, CacheAssumption DEF CacheAssumption
<1> QED BY <1>2, <1>4, <1>5, <1>6, PopsMakeRoom DEF FreeSize

\* What the cache holds fits, and it holds every key once.
CacheInv == entries \in Seq(Entry) /\ TotalSize(entries) <= Capacity /\ KeysDiffer(entries)

LEMMA CacheInvInit == CacheInit => CacheInv
<1> SUFFICES ASSUME CacheInit PROVE CacheInv
  OBVIOUS
<1>1. entries = <<>> /\ entries \in Seq(Entry) /\ DOMAIN entries = {}
  BY EmptySeq, LenProperties DEF CacheInit
<1> QED BY <1>1, EmptyTotal, CacheAssumption DEF CacheInv, KeysDiffer, CacheAssumption

\* set: from the cache without the key as many entries are kept as fit beside the
\* new one, which comes last.
LEMMA SetKeepsTheNewest ==
  ASSUME CacheInv, NEW key \in Keys, NEW size \in Nat, CacheSet(key, size)
  PROVE  \E k \in 0 .. Len(WithoutKey(key)) :
           LET es == WithoutKey(key)
               left(m) == SubSeq(es, m + 1, Len(es))
           IN /\ entries' = Append(left(k), [key |-> key, size |-> size])
              /\ TotalSize(left(k)) + size <= Capacity
              /\ \A m \in 0 .. k - 1 : TotalSize(left(m)) + size > Capacity
<1> DEFINE es == WithoutKey(key)
<1>1. es \in Seq(Entry) /\ TotalSize(es) <= Capacity
  BY OthersKeepTheirOrder, TotalType, CacheAssumption DEF CacheInv, CacheAssumption
<1>2. size <= EntrySizeLimit
  BY DEF CacheSet
<1> HIDE DEF es
<1>3. \E k \in 0 .. Len(es) :
        /\ FreeSize(es, size) = SubSeq(es, k + 1, Len(es))
        /\ TotalSize(SubSeq(es, k + 1, Len(es))) + size <= Capacity
        /\ \A m \in 0 .. k - 1 : TotalSize(SubSeq(es, m + 1, Len(es))) + size > Capacity
  BY <1>1, <1>2, FreeSizeMakesRoom
<1>4. entries' = Append(FreeSize(es, size), [key |-> key, size |-> size])
  BY DEF CacheSet, es
<1> QED BY <1>3, <1>4 DEF es

LEMMA CacheInvSet ==
  ASSUME CacheInv, NEW key \in Keys, NEW size \in Nat, CacheSet(key, size)
  PROVE  CacheInv'
<1>1. PICK es, added : es = WithoutKey(key) /\ added = [key |-> key, size |-> size]
  OBVIOUS
<1>2. /\ es \in Seq(Entry) /\ KeysDiffer(es) /\ \A j \in DOMAIN es : es[j].key # key
  BY <1>1, OthersKeepTheirOrder DEF CacheInv
<1>3. added \in Entry /\ added.key = key /\ added.size = size
  BY <1>1 DEF Entry
<1>4. PICK k \in 0 .. Len(es) :
        /\ entries' = Append(SubSeq(es, k + 1, Len(es)), added)
        /\ TotalSize(SubSeq(es, k + 1, Len(es))) + size <= Capacity
  BY <1>1, SetKeepsTheNewest
<1>5. PICK left, new : left = SubSeq(es, k + 1, Len(es)) /\ new = Append(left, added)
  OBVIOUS
<1>6. Len(es) \in Nat /\ DOMAIN es = 1 .. Len(es) /\ \A j \in 1 .. Len(es) : es[j] \in Entry
  BY <1>2, LenProperties, ElementOfSeq
<1>7. /\ left \in Seq(Entry) /\ Len(left) = Len(es) - k
      /\ \A j \in 1 .. Len(es) - k : left[j] = es[k + j]
  <2>1. k + 1 \in Int /\ Len(es) \in Int /\ \A j \in k + 1 .. Len(es) : es[j] \in Entry
    BY <1>6
  <2>2. /\ left \in Seq(Entry)
        /\ Len(left) = IF k + 1 <= Len(es) THEN Len(es) - (k + 1) + 1 ELSE 0
        /\ \A j \in 1 .. Len(es) - (k + 1) + 1 : left[j] = es[(k + 1) + j - 1]
    BY <1>5, <2>1, SubSeqProperties
  <2>3. Len(left) = Len(es) - k
    <3>1. Len(left) = IF k + 1 <= Len(es) THEN Len(es) - (k + 1) + 1 ELSE 0
      BY <2>2
    <3>2. Len(es) \in Nat
      BY <1>6
    <3> QED BY <3>1, <3>2
  <2>4. \A j \in 1 .. Len(es) - k : j \in 1 .. Len(es) - (k + 1) + 1 /\ (k + 1) + j - 1 = k + j
    BY <1>6
  <2> QED BY <2>2, <2>3, <2>4
<1>8. /\ new \in Seq(Entry) /\ DOMAIN new = 1 .. Len(left) + 1
      /\ \A j \in 1 .. Len(left) : new[j] = left[j]
      /\ new[Len(left) + 1] = added
  <2>1. /\ new \in Seq(Entry) /\ Len(new) = Len(left) + 1
        /\ \A j \in 1 .. Len(left) : new[j] = left[j]
        /\ new[Len(left) + 1] = added
    <3>1. left \in Seq(Entry) /\ added \in Entry /\ new = Append(left, added)
      BY <1>3, <1>5, <1>7
    <3> QED BY <3>1, AppendProperties
  <2> QED BY <2>1, LenProperties
<1>9. TotalSize(new) <= Capacity
  <2>1. TotalSize(left) \in Nat /\ TotalSize(new) = TotalSize(left) + added.size
    BY <1>3, <1>5, <1>7, AppendTotal
  <2> QED BY <1>3, <1>4, <1>5, <2>1
<1>10. KeysDiffer(new)
  <2>1. ASSUME NEW i \in 1 .. Len(left) PROVE new[i] = es[k + i] /\ k + i \in DOMAIN es
    BY <1>6, <1>7, <1>8, <2>1
  <2>2. ASSUME NEW i \in 1 .. Len(left) PROVE new[i].key # added.key
    BY <1>2, <1>3, <2>1
  <2>3. ASSUME NEW i \in 1 .. Len(left), NEW j \in 1 .. Len(left), new[i].key = new[j].key
        PROVE  i = j
    <3>1. k + i = k + j
      BY <1>2, <2>1, <2>3 DEF KeysDiffer
    <3> QED BY <1>6, <1>7, <3>1
  <2>4. \A i \in DOMAIN new : i \in 1 .. Len(left) \/ i = Len(left) + 1
    BY <1>6, <1>7, <1>8
  <2> QED BY <1>8, <2>2, <2>3, <2>4 DEF KeysDiffer
<1>11. entries' = new
  BY <1>4, <1>5
<1> QED BY <1>8, <1>9, <1>10, <1>11 DEF CacheInv

LEMMA CacheInvFits == CacheInv => FitsCapacity
<1> SUFFICES ASSUME CacheInv, NEW key \in Keys, NEW size \in Sizes, size <= EntrySizeLimit
             PROVE  EnoughPops(WithoutKey(key), size) # {}
  BY DEF CacheInv, FitsCapacity
<1>1. WithoutKey(key) \in Seq(Entry) /\ TotalSize(WithoutKey(key)) <= Capacity
  BY OthersKeepTheirOrder, TotalType, CacheAssumption DEF CacheInv, CacheAssumption
<1>2. size \in Nat
  BY CacheAssumption DEF CacheAssumption
<1> QED BY <1>1, <1>2, FreeSizeMakesRoom

\* The entries of the other keys, picked by their index.
LEMMA OthersByIndex ==
  ASSUME CacheInv, NEW key
  PROVE  WithoutKey(key) =
           [i \in 1 .. IF IsCached(key) THEN Len(entries) - 1 ELSE Len(entries) |->
              IF \A j \in 1 .. i : entries[j].key # key THEN entries[i] ELSE entries[i + 1]]
<1> DEFINE es == WithoutKey(key)
<1>1. /\ es \in Seq(Entry)
      /\ ~IsCached(key) => es = entries
      /\ IsCached(key) =>
           \E i \in DOMAIN entries :
             /\ entries[i].key = key
             /\ Len(es) = Len(entries) - 1
             /\ \A j \in 1 .. Len(entries) - 1 :
                  es[j] = IF j < i THEN entries[j] ELSE entries[j + 1]
  BY OthersKeepTheirOrder DEF CacheInv
<1> HIDE DEF es
<1>2. Len(es) \in Nat /\ es = [j \in 1 .. Len(es) |-> es[j]]
  BY <1>1, LenProperties
<1>3. Len(entries) \in Nat /\ DOMAIN entries = 1 .. Len(entries)
  BY LenProperties DEF CacheInv
<1>4. CASE ~IsCached(key)
  <2>1. \A i \in 1 .. Len(entries) : \A j \in 1 .. i : entries[j].key # key
    BY <1>3, <1>4 DEF IsCached
  <2> QED BY <1>1, <1>2, <1>4, <2>1 DEF es
<1>5. CASE IsCached(key)
  <2>1. PICK i \in DOMAIN entries :
          /\ entries[i].key = key
          /\ Len(es) = Len(entries) - 1
          /\ \A j \in 1 .. Len(entries) - 1 :
               es[j] = IF j < i THEN entries[j] ELSE entries[j + 1]
    BY <1>1, <1>5
  <2>2. ASSUME NEW m \in 1 .. Len(entries) - 1
        PROVE  m < i <=> \A j \in 1 .. m : entries[j].key # key
    <3>1. \A j \in DOMAIN entries : entries[j].key = key => j = i
      BY <2>1 DEF CacheInv, KeysDiffer
    <3>2. i \in Nat /\ m \in Nat /\ 1 .. m \subseteq DOMAIN entries
      BY <1>3
    <3>3. CASE m < i
      <4>1. \A j \in 1 .. m : j # i
        BY <3>2, <3>3
      <4> QED BY <3>1, <3>2, <3>3, <4>1
    <3>4. CASE ~(m < i)
      <4>1. i \in 1 .. m
        BY <1>3, <3>2, <3>4
      <4> QED BY <2>1, <3>4, <4>1
    <3> QED BY <3>3, <3>4
  <2>3. \A j \in 1 .. Len(entries) - 1 :
          es[j] = IF \A l \in 1 .. j : entries[l].key # key THEN entries[j] ELSE entries[j + 1]
    BY <2>1, <2>2
  <2> QED BY <1>2, <1>5, <2>1, <2>3 DEF es
<1> QED BY <1>4, <1>5

LEMMA SetKeepsNewestThatFit ==
  ASSUME CacheInv, NEW key \in Keys, NEW size \in Nat, CacheSet(key, size)
  PROVE  entries' # <<>> /\ AddsAfterNewestThatFit
<1>1. PICK es, added : es = WithoutKey(key) /\ added = [key |-> key, size |-> size]
  OBVIOUS
<1>2. es \in Seq(Entry) /\ Len(es) \in Nat
  BY <1>1, OthersKeepTheirOrder, LenProperties DEF CacheInv
<1> DEFINE newest(n) == SubSeq(es, Len(es) - n + 1, Len(es))
           Kept(n) == /\ TotalSize(newest(n)) + added.size <= Capacity
                      /\ \A m \in (n + 1) .. Len(es) :
                           TotalSize(newest(m)) + added.size > Capacity
<1>3. PICK k \in 0 .. Len(es) :
        /\ entries' = Append(SubSeq(es, k + 1, Len(es)), added)
        /\ TotalSize(SubSeq(es, k + 1, Len(es))) + size <= Capacity
        /\ \A m \in 0 .. k - 1 : TotalSize(SubSeq(es, m + 1, Len(es))) + size > Capacity
  BY <1>1, SetKeepsTheNewest
<1>4. added \in Entry /\ added.key = key /\ added.size = size
  BY <1>1 DEF Entry
<1> DEFINE n == Len(es) - k
<1>5. n \in 0 .. Len(es) /\ Len(es) - n + 1 = k + 1
  BY <1>2
<1>6. \A m \in 0 .. Len(es) : TotalSize(newest(m)) \in Nat
  <2> SUFFICES ASSUME NEW m \in 0 .. Len(es) PROVE TotalSize(newest(m)) \in Nat
    OBVIOUS
  <2>1. Len(es) - m \in 0 .. Len(es)
    BY <1>2
  <2> QED BY <1>2, <2>1, SplitTotal, TotalType
<1>7. Kept(n)
  <2>1. ASSUME NEW m \in (n + 1) .. Len(es) PROVE TotalSize(newest(m)) + added.size > Capacity
    <3>1. Len(es) - m \in 0 .. k - 1
      BY <1>2
    <3> QED BY <1>3, <1>4, <3>1
  <2> QED BY <1>3, <1>4, <1>5, <2>1
<1>8. ASSUME NEW m \in 0 .. Len(es), Kept(m) PROVE m = n
  <2>1. ~(m < n)
    <3> SUFFICES ASSUME m < n PROVE FALSE
      OBVIOUS
    <3>1. n \in (m + 1) .. Len(es)
      BY <1>2, <1>5
    <3>2. TotalSize(newest(n)) + added.size > Capacity
      BY <1>8, <3>1
    <3>3. TotalSize(newest(n)) + added.size <= Capacity
      BY <1>7
    <3> QED BY <1>4, <1>5, <1>6, <3>2, <3>3, CacheAssumption, SMTT(30) DEF CacheAssumption
  <2>2. ~(n < m)
    <3> SUFFICES ASSUME n < m PROVE FALSE
      OBVIOUS
    <3>1. m \in (n + 1) .. Len(es)
      BY <1>2, <1>5
    <3>2. TotalSize(newest(m)) + added.size > Capacity
      BY <1>7, <3>1
    <3>3. TotalSize(newest(m)) + added.size <= Capacity
      BY <1>8
    <3> QED BY <1>4, <1>6, <3>2, <3>3, CacheAssumption DEF CacheAssumption
  <2> QED BY <1>5, <2>1, <2>2
<1> HIDE DEF Kept
<1>9. n = CHOOSE m \in 0 .. Len(es) : Kept(m)
  BY <1>5, <1>7, <1>8
<1>10. SubSeq(es, k + 1, Len(es)) = newest(n)
  BY <1>5
<1>11. SubSeq(es, k + 1, Len(es)) \in Seq(Entry)
  BY <1>2, SplitTotal
<1>12. Last(entries') = added /\ entries' # <<>>
  <2>1. PICK left : left = SubSeq(es, k + 1, Len(es))
    OBVIOUS
  <2>2. left \in Seq(Entry) /\ entries' = Append(left, added)
    BY <1>3, <1>11, <2>1
  <2>3. /\ Append(left, added) # <<>> /\ Len(Append(left, added)) = Len(left) + 1
        /\ Append(left, added)[Len(left) + 1] = added
    BY <1>4, <2>2, AppendProperties
  <2> QED BY <2>2, <2>3 DEF Last
<1>13. es = [i \in 1 .. IF IsCached(added.key) THEN Len(entries) - 1 ELSE Len(entries) |->
               IF \A j \in 1 .. i : entries[j].key # added.key
               THEN entries[i] ELSE entries[i + 1]]
  BY <1>1, <1>4, OthersByIndex
<1>14. entries' = Append(newest(CHOOSE m \in 0 .. Len(es) : Kept(m)), added)
  BY <1>3, <1>9, <1>10
<1> HIDE DEF n
<1> QED BY <1>12, <1>13, <1>14, ZenonT(30) DEF Kept, AddsAfterNewestThatFit

LEMMA CacheInvNext == CacheInv /\ [CacheNext]_entries => CacheInv'
<1> SUFFICES ASSUME CacheInv, [CacheNext]_entries PROVE CacheInv'
  OBVIOUS
<1>1. ASSUME NEW key \in Keys, NEW size \in Sizes, CacheSet(key, size) PROVE CacheInv'
  <2>1. size \in Nat
    BY CacheAssumption DEF CacheAssumption
  <2> QED BY <1>1, <2>1, CacheInvSet
<1>2. CASE UNCHANGED entries
  BY <1>2 DEF CacheInv, KeysDiffer
<1> QED BY <1>1, <1>2 DEF CacheNext

\* The cache holds no more than its capacity and always finds enough entries to
\* pop: neither the subtraction of free_size wraps nor its expectation fails
\* (cache/mod.rs:118-160).
THEOREM CacheFitsCapacity == CacheSpec => []FitsCapacity
<1> QED BY CacheInvInit, CacheInvNext, CacheInvFits, PTL DEF CacheSpec

\* Adding an image evicts the oldest of the others and no more of them than it
\* has to (cache/mod.rs:118-160).
THEOREM EvictionKeepsTheNewest == CacheSpec => KeepsNewestThatFit
<1>1. CacheInv /\ [CacheNext]_entries
        => [entries' # <<>> /\ AddsAfterNewestThatFit]_entries
  <2> SUFFICES ASSUME CacheInv, NEW key \in Keys, NEW size \in Sizes, CacheSet(key, size)
               PROVE  entries' # <<>> /\ AddsAfterNewestThatFit
    BY DEF CacheNext
  <2>1. size \in Nat
    BY CacheAssumption DEF CacheAssumption
  <2> QED BY <2>1, SetKeepsNewestThatFit
<1> QED BY <1>1, CacheInvInit, CacheInvNext, PTL DEF CacheSpec, KeepsNewestThatFit

-----------------------------------------------------------------------------
(* The bound of the usage *)

Bounded(quota) ==
  /\ quota \in Quota \cup {NoQuota}
  /\ quota.usage > 0 => quota.usage < MaxUsage + EntrySizeLimit

Fetching == {"quota", "download", "cache", "charge", "record"}

QuotasBounded == quotas \in [Users -> {q \in Quota \cup {NoQuota} : Bounded(q)}]

HandlersBounded ==
  /\ DOMAIN pc = Requests
  /\ DOMAIN request = Requests
  /\ bytes \in [Requests -> Nat]
  /\ DOMAIN copy = Requests
  /\ \A r \in Requests :
       /\ pc[r] = "lookup" => request[r] \in Asked
       /\ pc[r] \in Fetching => request[r] \in Asked /\ request[r].user \in Users
       /\ pc[r] \in {"cache", "charge"} => bytes[r] <= EntrySizeLimit
       /\ pc[r] = "record" => Bounded(copy[r])

UsageInv == now \in Nat /\ QuotasBounded /\ HandlersBounded

\* What add_usage returns is within the bound whenever what it starts from is,
\* and the amount is that of an image that passed check_image_size.
LEMMA AddUsageBounded ==
  ASSUME NEW quota \in Quota \cup {NoQuota}, Bounded(quota),
         NEW amount \in Nat, amount <= EntrySizeLimit, now \in Nat
  PROVE  Bounded(AddUsage(quota, amount))
<1> DEFINE current == InPeriod(quota)
<1>1. current \in Quota /\ (current.usage > 0 => current.usage < MaxUsage + EntrySizeLimit)
  <2>1. CASE quota = NoQuota \/ now - quota.date_start > Period
    <3>1. current = [usage |-> 0, date_start |-> now]
      BY <2>1 DEF InPeriod
    <3> QED BY <3>1 DEF Quota
  <2>2. CASE ~(quota = NoQuota \/ now - quota.date_start > Period)
    <3>1. current = quota /\ quota \in Quota
      BY <2>2 DEF InPeriod
    <3> QED BY <3>1 DEF Bounded
  <2> QED BY <2>1, <2>2
<1>2. CASE Reached(current)
  BY <1>1, <1>2 DEF AddUsage, Bounded
<1>3. CASE ~Reached(current)
  <2>1. current # NoQuota
    <3>1. "date_start" \in DOMAIN current
      BY <1>1 DEF Quota
    <3>2. "date_start" \notin DOMAIN NoQuota
      BY DEF NoQuota
    <3> QED BY <3>1, <3>2
  <2>2. current.usage \in Nat /\ current.usage < MaxUsage
    BY <1>1, <1>3, <2>1, QuotaAssumption DEF Reached, Quota, QuotaAssumption
  <2>3. AddUsage(quota, amount) = [current EXCEPT !.usage = @ + amount]
    BY <1>3 DEF AddUsage
  <2> HIDE DEF current
  <2>4. [current EXCEPT !.usage = @ + amount] \in Quota
    BY <1>1, <2>2 DEF Quota
  <2>5. [current EXCEPT !.usage = @ + amount].usage = current.usage + amount
    BY <1>1 DEF Quota
  <2> QED BY <2>2, <2>3, <2>4, <2>5, CacheAssumption, QuotaAssumption
     DEF Bounded, CacheAssumption, QuotaAssumption
<1> QED BY <1>2, <1>3

LEMMA UsageInvInit == Init => UsageInv
<1> SUFFICES ASSUME Init PROVE UsageInv
  OBVIOUS
<1>1. Bounded(NoQuota)
  BY DEF Bounded, NoQuota
<1>2. QuotasBounded
  BY <1>1 DEF Init, QuotasBounded
<1>3. HandlersBounded
  BY DEF Init, HandlersBounded, Fetching
<1> QED BY <1>2, <1>3 DEF UsageInv, Init

LEMMA UsageInvNext == UsageInv /\ [Next]_vars => UsageInv'
<1> SUFFICES ASSUME UsageInv, [Next]_vars PROVE UsageInv'
  OBVIOUS
<1> USE DEF UsageInv
<1>1. ASSUME NEW r \in Requests, Submit(r) PROVE UsageInv'
  <2>1. QuotasBounded'
    BY <1>1 DEF Submit, QuotasBounded, Bounded
  <2>2. HandlersBounded'
    BY <1>1 DEF Submit, GoTo, HandlersBounded, Fetching
  <2> QED BY <1>1, <2>1, <2>2 DEF Submit
<1>2. ASSUME NEW r \in Requests, LookUp(r) PROVE UsageInv'
  <2>1. QuotasBounded'
    BY <1>2 DEF LookUp, QuotasBounded, Bounded
  <2>2. HandlersBounded'
    BY <1>2 DEF LookUp, GoTo, Answer, HandlersBounded, Fetching, Asked
  <2> QED BY <1>2, <2>1, <2>2 DEF LookUp
<1>3. ASSUME NEW r \in Requests, CheckQuota(r) PROVE UsageInv'
  <2>1. QuotasBounded'
    BY <1>3 DEF CheckQuota, QuotasBounded, Bounded
  <2>2. HandlersBounded'
    BY <1>3 DEF CheckQuota, GoTo, Answer, HandlersBounded, Fetching
  <2> QED BY <1>3, <2>1, <2>2 DEF CheckQuota
<1>4. ASSUME NEW r \in Requests, Download(r) PROVE UsageInv'
  <2>1. QuotasBounded'
    BY <1>4 DEF Download, QuotasBounded, Bounded
  <2>2. HandlersBounded'
    BY <1>4, CacheAssumption
    DEF Download, GoTo, Answer, HandlersBounded, Fetching, CacheAssumption
  <2> QED BY <1>4, <2>1, <2>2 DEF Download
<1>5. ASSUME NEW r \in Requests, UpdateCache(r) PROVE UsageInv'
  <2>1. QuotasBounded'
    BY <1>5 DEF UpdateCache, QuotasBounded, Bounded
  <2>2. HandlersBounded'
    BY <1>5 DEF UpdateCache, GoTo, HandlersBounded, Fetching
  <2> QED BY <1>5, <2>1, <2>2 DEF UpdateCache
<1>6. ASSUME NEW r \in Requests, ChargeCopy(r) PROVE UsageInv'
  <2>1. QuotasBounded'
    BY <1>6 DEF ChargeCopy, QuotasBounded, Bounded
  <2>2. Bounded(AddUsage(quotas[request[r].user], bytes[r]))
    <3>1. request[r].user \in Users /\ bytes[r] \in Nat /\ bytes[r] <= EntrySizeLimit
      BY <1>6 DEF ChargeCopy, HandlersBounded, Fetching
    <3>2. Bounded(quotas[request[r].user])
      BY <3>1 DEF QuotasBounded
    <3>3. quotas[request[r].user] \in Quota \cup {NoQuota}
      BY <3>2 DEF Bounded
    <3> QED BY <3>1, <3>2, <3>3, AddUsageBounded
  <2>3. copy'[r] = AddUsage(quotas[request[r].user], bytes[r])
    BY <1>6 DEF ChargeCopy, HandlersBounded
  <2>4. Bounded(copy'[r])
    BY <2>2, <2>3
  <2>5. HandlersBounded'
    BY <1>6, <2>4 DEF ChargeCopy, GoTo, HandlersBounded, Fetching
  <2> QED BY <1>6, <2>1, <2>5 DEF ChargeCopy
<1>7. ASSUME NEW r \in Requests, RecordQuota(r) PROVE UsageInv'
  <2>1. Bounded(copy[r]) /\ request[r].user \in Users
    BY <1>7 DEF RecordQuota, HandlersBounded, Fetching
  <2>2. copy[r] \in {q \in Quota \cup {NoQuota} : Bounded(q)}
    BY <2>1 DEF Bounded
  <2>3. QuotasBounded'
    BY <1>7, <2>1, <2>2 DEF RecordQuota, QuotasBounded, Bounded
  <2>4. HandlersBounded'
    BY <1>7 DEF RecordQuota, Answer, HandlersBounded, Fetching
  <2> QED BY <1>7, <2>3, <2>4 DEF RecordQuota
<1>8. ASSUME NEW r \in Requests, Abandon(r) PROVE UsageInv'
  <2>1. QuotasBounded'
    BY <1>8 DEF Abandon, QuotasBounded, Bounded
  <2>2. HandlersBounded'
    BY <1>8 DEF Abandon, Answer, HandlersBounded, Fetching
  <2> QED BY <1>8, <2>1, <2>2 DEF Abandon
<1>9. CASE Tick
  BY <1>9 DEF Tick, handlers, QuotasBounded, HandlersBounded
<1>10. CASE Served \/ UNCHANGED vars
  BY <1>10 DEF Served, vars, handlers, QuotasBounded, HandlersBounded
<1> QED BY <1>1, <1>2, <1>3, <1>4, <1>5, <1>6, <1>7, <1>8, <1>9, <1>10 DEF Next

\* The usage recorded for a user never exceeds the quota by a whole image, for
\* any number of users, overlapping downloads and lost updates
\* (manager.rs:61-74 and 214-234).
THEOREM UsageStaysBounded == Spec => []UsageIsBounded
<1>1. UsageInv => UsageIsBounded
  <2> SUFFICES ASSUME UsageInv, NEW u \in Users, Charged(u) > 0
               PROVE  Charged(u) < MaxUsage + EntrySizeLimit
    BY DEF UsageIsBounded
  <2>1. Bounded(quotas[u])
    BY DEF UsageInv, QuotasBounded
  <2> QED BY <2>1 DEF Charged, Bounded
<1> QED BY <1>1, UsageInvInit, UsageInvNext, PTL DEF Spec

\* Among the handlers only update_image_cache changes the cache.
LEMMA HandlersSet ==
  ASSUME UsageInv, [Next]_vars
  PROVE  UNCHANGED entries \/ \E key \in Keys, size \in Nat : CacheSet(key, size)
<1>1. ASSUME NEW r \in Requests, UpdateCache(r)
      PROVE  \E key \in Keys, size \in Nat : CacheSet(key, size)
  <2>1. request[r].url \in Keys /\ bytes[r] \in Nat
    BY <1>1 DEF UpdateCache, UsageInv, HandlersBounded, Fetching, Asked
  <2> QED BY <1>1, <2>1 DEF UpdateCache
<1>2. ASSUME NEW r \in Requests,
             \/ Submit(r) \/ LookUp(r) \/ CheckQuota(r) \/ Download(r)
             \/ ChargeCopy(r) \/ RecordQuota(r) \/ Abandon(r)
      PROVE  UNCHANGED entries
  BY <1>2 DEF Submit, LookUp, CheckQuota, Download, ChargeCopy, RecordQuota, Abandon
<1>3. CASE Tick \/ Served \/ UNCHANGED vars
  BY <1>3 DEF Tick, Served, vars
<1> QED BY <1>1, <1>2, <1>3 DEF Next

\* The same with any number of handlers at work, which look images up, download
\* them and store them in whatever order (manager.rs:143-212).
THEOREM HandlersShareTheCache == Spec => []FitsCapacity /\ KeepsNewestThatFit
<1>1. Init => UsageInv /\ CacheInv
  BY UsageInvInit, CacheInvInit DEF Init
<1>2. UsageInv /\ CacheInv /\ [Next]_vars => CacheInv'
  <2> SUFFICES ASSUME UsageInv, CacheInv, [Next]_vars PROVE CacheInv'
    OBVIOUS
  <2>1. ASSUME NEW key \in Keys, NEW size \in Nat, CacheSet(key, size) PROVE CacheInv'
    BY <2>1, CacheInvSet
  <2>2. CASE UNCHANGED entries
    BY <2>2 DEF CacheInv, KeysDiffer
  <2> QED BY <2>1, <2>2, HandlersSet
<1>3. UsageInv /\ CacheInv /\ [Next]_vars
        => [entries' # <<>> /\ AddsAfterNewestThatFit]_entries
  BY HandlersSet, SetKeepsNewestThatFit
<1> QED BY <1>1, <1>2, <1>3, UsageInvNext, CacheInvFits, PTL DEF Spec, KeepsNewestThatFit

-----------------------------------------------------------------------------
(* What users are charged for *)

StartOf(quota) == IF quota = NoQuota THEN 0 ELSE quota.date_start
UsageOf(quota) == IF quota = NoQuota THEN 0 ELSE quota.usage

DownloadsSince(u, start) ==
  {r \in Requests : response[r] = "downloaded" /\ request[r].user = u /\ chargedAt[r] >= start}

\* A clone that is on its way back counts the image of its handler, which no
\* answer counts yet.
HandlerCharges(r) ==
  /\ StartOf(copy[r]) <= chargedAt[r] /\ chargedAt[r] <= now
  /\ UsageOf(copy[r]) <=
       SumFunctionOnSet(bytes, DownloadsSince(request[r].user, StartOf(copy[r]))) + bytes[r]

QuotaCharges(u) ==
  /\ StartOf(quotas[u]) <= now
  /\ UsageOf(quotas[u]) <= SumFunctionOnSet(bytes, DownloadsSince(u, StartOf(quotas[u])))

HandlersAnswer ==
  /\ chargedAt \in [Requests -> Nat]
  /\ DOMAIN response = Requests
  /\ \A r \in Requests : response[r] # "none" => pc[r] = "done"

\* Only finitely many requests are answered at any time.
AnswersAreFinite == IsFiniteSet({r \in Requests : response[r] = "downloaded"})

ChargesInv ==
  /\ UsageInv /\ HandlersAnswer /\ AnswersAreFinite
  /\ \A r \in Requests : pc[r] = "record" => HandlerCharges(r)
  /\ \A u \in Users : QuotaCharges(u)

LEMMA ChargesInvInit == Init => ChargesInv
<1> SUFFICES ASSUME Init PROVE ChargesInv
  OBVIOUS
<1>1. UsageInv
  BY UsageInvInit
<1>2. HandlersAnswer /\ \A r \in Requests : pc[r] # "record"
  BY DEF Init, HandlersAnswer
<1>3. ASSUME NEW u \in Users PROVE QuotaCharges(u)
  <2>1. quotas[u] = NoQuota /\ now = 0
    BY DEF Init
  <2>2. DownloadsSince(u, StartOf(quotas[u])) = {}
    BY DEF Init, DownloadsSince
  <2> QED BY <2>1, <2>2, EmptySum DEF QuotaCharges, StartOf, UsageOf
<1>4. AnswersAreFinite
  <2>1. {r \in Requests : response[r] = "downloaded"} = {}
    BY DEF Init
  <2> QED BY <2>1, FS_EmptySet DEF AnswersAreFinite
<1> QED BY <1>1, <1>2, <1>3, <1>4 DEF ChargesInv

\* What a handler that is done has downloaded stays as it is.
DownloadsStay ==
  \A r \in Requests :
    response[r] = "downloaded" =>
      /\ response'[r] = "downloaded" /\ request'[r] = request[r]
      /\ chargedAt'[r] = chargedAt[r] /\ bytes'[r] = bytes[r]

LEMMA DownloadsOnlyGrow ==
  ASSUME ChargesInv, UsageInv', AnswersAreFinite', DownloadsStay, NEW u, NEW start
  PROVE  /\ SumFunctionOnSet(bytes, DownloadsSince(u, start)) \in Nat
         /\ SumFunctionOnSet(bytes, DownloadsSince(u, start))' \in Nat
         /\ SumFunctionOnSet(bytes, DownloadsSince(u, start))
              <= SumFunctionOnSet(bytes, DownloadsSince(u, start))'
<1> DEFINE D == DownloadsSince(u, start)
           E == DownloadsSince(u, start)'
<1>1. IsFiniteSet(D) /\ IsFiniteSet(E)
  <2>1. /\ D \subseteq {r \in Requests : response[r] = "downloaded"}
        /\ E \subseteq {r \in Requests : response'[r] = "downloaded"}
    BY DEF DownloadsSince
  <2> QED BY <2>1, FS_Subset DEF ChargesInv, AnswersAreFinite
<1>2. \A r \in D : bytes[r] \in Nat /\ bytes'[r] = bytes[r]
  BY DEF DownloadsStay, DownloadsSince, ChargesInv, UsageInv, HandlersBounded
<1>3. \A r \in E : bytes'[r] \in Nat
  BY DEF DownloadsSince, UsageInv, HandlersBounded
<1>4. D \subseteq E
  BY DEF DownloadsStay, DownloadsSince
<1> HIDE DEF D, E
<1>5. SumFunctionOnSet(bytes', D) = SumFunctionOnSet(bytes, D)
  BY <1>1, <1>2, SumOfSame
<1>6. /\ SumFunctionOnSet(bytes', D) \in Nat /\ SumFunctionOnSet(bytes', E) \in Nat
      /\ SumFunctionOnSet(bytes', D) <= SumFunctionOnSet(bytes', E)
  BY <1>1, <1>3, <1>4, SumGrows
<1>7. SumFunctionOnSet(bytes, DownloadsSince(u, start))' = SumFunctionOnSet(bytes', E)
  BY DEF E
<1>8. SumFunctionOnSet(bytes, DownloadsSince(u, start)) = SumFunctionOnSet(bytes, D)
  BY DEF D
<1> QED BY <1>5, <1>6, <1>7, <1>8

LEMMA OneMoreAnswer ==
  ASSUME AnswersAreFinite, NEW r,
         \A q \in Requests : response'[q] = "downloaded" => response[q] = "downloaded" \/ q = r
  PROVE  AnswersAreFinite'
<1> DEFINE D == {q \in Requests : response[q] = "downloaded"}
<1>1. IsFiniteSet(D \cup {r})
  BY FS_AddElement DEF AnswersAreFinite
<1>2. {q \in Requests : response'[q] = "downloaded"} \subseteq D \cup {r}
  OBVIOUS
<1> QED BY <1>1, <1>2, FS_Subset DEF AnswersAreFinite

\* What a handler that goes on with its clone keeps.
CarriesClone(r) ==
  /\ pc[r] = "record" /\ request'[r] = request[r] /\ copy'[r] = copy[r]
  /\ chargedAt'[r] = chargedAt[r] /\ bytes'[r] = bytes[r]

LEMMA ChargesAreCarried ==
  ASSUME ChargesInv, UsageInv', HandlersAnswer', AnswersAreFinite', now <= now', DownloadsStay,
         \A r \in Requests : pc'[r] = "record" => CarriesClone(r) \/ HandlerCharges(r)',
         \A u \in Users : quotas'[u] = quotas[u] \/ QuotaCharges(u)'
  PROVE  ChargesInv'
<1>1. now \in Nat /\ now' \in Nat
  BY DEF ChargesInv, UsageInv
<1>2. ASSUME NEW r \in Requests, pc'[r] = "record", CarriesClone(r) PROVE HandlerCharges(r)'
  <2>1. HandlerCharges(r)
    BY <1>2 DEF CarriesClone, ChargesInv
  <2>2. PICK u, start : u = request[r].user /\ start = StartOf(copy[r])
    OBVIOUS
  <2>3. /\ SumFunctionOnSet(bytes, DownloadsSince(u, start)) \in Nat
        /\ SumFunctionOnSet(bytes, DownloadsSince(u, start))' \in Nat
        /\ SumFunctionOnSet(bytes, DownloadsSince(u, start))
             <= SumFunctionOnSet(bytes, DownloadsSince(u, start))'
    BY DownloadsOnlyGrow
  <2>4. /\ start <= chargedAt[r] /\ chargedAt[r] <= now
        /\ UsageOf(copy[r]) <= SumFunctionOnSet(bytes, DownloadsSince(u, start)) + bytes[r]
    BY <2>1, <2>2 DEF HandlerCharges
  <2>5. bytes[r] \in Nat /\ chargedAt[r] \in Nat /\ UsageOf(copy[r]) \in Nat
    BY <1>2 DEF CarriesClone, ChargesInv, UsageInv, HandlersBounded, HandlersAnswer, Bounded,
                UsageOf, Quota
  <2>6. /\ UsageOf(copy[r]) <= SumFunctionOnSet(bytes, DownloadsSince(u, start))' + bytes[r]
        /\ chargedAt[r] <= now'
    BY <1>1, <2>3, <2>4, <2>5
  <2>7. /\ request'[r].user = u /\ StartOf(copy'[r]) = start /\ UsageOf(copy'[r]) = UsageOf(copy[r])
        /\ chargedAt'[r] = chargedAt[r] /\ bytes'[r] = bytes[r]
    BY <1>2, <2>2 DEF CarriesClone
  <2> QED BY <2>4, <2>6, <2>7 DEF HandlerCharges, DownloadsSince
<1>3. ASSUME NEW u \in Users, quotas'[u] = quotas[u] PROVE QuotaCharges(u)'
  <2>1. QuotaCharges(u)
    BY DEF ChargesInv
  <2>2. PICK start : start = StartOf(quotas[u])
    OBVIOUS
  <2>3. /\ SumFunctionOnSet(bytes, DownloadsSince(u, start)) \in Nat
        /\ SumFunctionOnSet(bytes, DownloadsSince(u, start))' \in Nat
        /\ SumFunctionOnSet(bytes, DownloadsSince(u, start))
             <= SumFunctionOnSet(bytes, DownloadsSince(u, start))'
    BY DownloadsOnlyGrow
  <2>4. UsageOf(quotas[u]) \in Nat /\ start \in Nat
    BY <2>2 DEF ChargesInv, UsageInv, QuotasBounded, UsageOf, StartOf, Quota
  <2>5. /\ start <= now'
        /\ UsageOf(quotas[u]) <= SumFunctionOnSet(bytes, DownloadsSince(u, start))'
    BY <1>1, <2>1, <2>2, <2>3, <2>4 DEF QuotaCharges
  <2> QED BY <1>3, <2>2, <2>5 DEF QuotaCharges, DownloadsSince
<1>4. /\ \A r \in Requests : pc'[r] = "record" => HandlerCharges(r)'
      /\ \A u \in Users : QuotaCharges(u)'
  BY <1>2, <1>3
<1> QED BY <1>4 DEF ChargesInv

\* add_usage goes on in the period of the quota, or begins one with the amount.
LEMMA AddUsageCharges ==
  ASSUME NEW quota \in Quota \cup {NoQuota}, NEW amount \in Nat, now \in Nat,
         StartOf(quota) <= now
  PROVE  LET new == AddUsage(quota, amount)
         IN /\ StartOf(new) <= now
            /\ \/ UsageOf(new) <= amount
               \/ /\ StartOf(new) = StartOf(quota)
                  /\ UsageOf(new) <= UsageOf(quota) + amount
<1> DEFINE new == AddUsage(quota, amount)
           current == InPeriod(quota)
<1>1. \A q \in Quota : q # NoQuota
  <2> SUFFICES ASSUME NEW q \in Quota PROVE q # NoQuota
    OBVIOUS
  <2>1. "date_start" \in DOMAIN q /\ "date_start" \notin DOMAIN NoQuota
    BY DEF Quota, NoQuota
  <2> QED BY <2>1
<1>2. /\ current \in Quota
      /\ \/ current.usage = 0 /\ current.date_start = now
         \/ current = quota
  <2>1. CASE quota = NoQuota \/ now - quota.date_start > Period
    <3>1. current = [usage |-> 0, date_start |-> now]
      BY <2>1 DEF InPeriod
    <3> QED BY <3>1 DEF Quota
  <2>2. CASE ~(quota = NoQuota \/ now - quota.date_start > Period)
    BY <2>2 DEF InPeriod
  <2> QED BY <2>1, <2>2
<1>3. new \in Quota /\ new.date_start = current.date_start /\ new.usage <= current.usage + amount
  <2>1. new = current \/ new = [current EXCEPT !.usage = @ + amount]
    BY DEF AddUsage
  <2> HIDE DEF new, current
  <2>2. current.usage \in Nat /\ current.date_start \in Nat
    BY <1>2 DEF Quota
  <2>3. CASE new = current
    BY <1>2, <2>2, <2>3
  <2>4. CASE new = [current EXCEPT !.usage = @ + amount]
    <3>1. new \in Quota /\ new.usage = current.usage + amount /\ new.date_start = current.date_start
      BY <1>2, <2>4 DEF Quota
    <3> QED BY <2>2, <3>1
  <2> QED BY <2>1, <2>3, <2>4
<1> HIDE DEF new, current
<1>4. StartOf(new) = new.date_start /\ UsageOf(new) = new.usage
  BY <1>1, <1>3 DEF StartOf, UsageOf
<1>5. CASE current.usage = 0 /\ current.date_start = now
  BY <1>3, <1>4, <1>5 DEF new
<1>6. CASE current = quota
  <2>1. StartOf(quota) = current.date_start /\ UsageOf(quota) = current.usage
    BY <1>1, <1>2, <1>6 DEF StartOf, UsageOf
  <2> QED BY <1>3, <1>4, <2>1 DEF new
<1> QED BY <1>2, <1>5, <1>6

\* A step that takes no clone and puts none back.
LEMMA OtherStepCharges ==
  ASSUME ChargesInv, UsageInv', NEW r \in Requests,
         Submit(r) \/ LookUp(r) \/ CheckQuota(r) \/ Download(r) \/ UpdateCache(r) \/ Abandon(r)
  PROVE  ChargesInv'
<1> USE DEF GoTo, Answer, InFlight, HandlersAnswer, HandlersBounded, DownloadsStay, CarriesClone
<1>1. HandlersAnswer /\ HandlersBounded /\ AnswersAreFinite /\ now \in Nat
  BY DEF ChargesInv, UsageInv
<1>2. now' = now /\ quotas' = quotas
  BY DEF Submit, LookUp, CheckQuota, Download, UpdateCache, Abandon
<1>3. HandlersAnswer'
  BY <1>1 DEF Submit, LookUp, CheckQuota, Download, UpdateCache, Abandon
<1>4. DownloadsStay
  BY <1>1 DEF Submit, LookUp, CheckQuota, Download, UpdateCache, Abandon
<1>5. \A q \in Requests : response'[q] = "downloaded" => response[q] = "downloaded" \/ q = r
  BY <1>1 DEF Submit, LookUp, CheckQuota, Download, UpdateCache, Abandon
<1>6. AnswersAreFinite'
  BY <1>1, <1>5, OneMoreAnswer
<1>7. \A q \in Requests : pc'[q] = "record" => CarriesClone(q)
  BY <1>1 DEF Submit, LookUp, CheckQuota, Download, UpdateCache, Abandon
<1> QED BY <1>1, <1>2, <1>3, <1>4, <1>6, <1>7, ChargesAreCarried

\* A clone that was charged counts what its quota did, and the image.
LEMMA ChargedCopyCharges ==
  ASSUME ChargesInv, UsageInv', NEW r \in Requests, ChargeCopy(r)
  PROVE  ChargesInv'
<1> USE DEF ChargeCopy, GoTo, HandlersAnswer, HandlersBounded, DownloadsStay, CarriesClone
<1>1. HandlersAnswer /\ HandlersBounded /\ AnswersAreFinite /\ now \in Nat
  BY DEF ChargesInv, UsageInv
<1>2. now' = now /\ quotas' = quotas /\ HandlersAnswer' /\ DownloadsStay /\ AnswersAreFinite'
  BY <1>1 DEF AnswersAreFinite
<1>3. PICK u, start, amount : /\ u = request[r].user /\ u \in Users
                             /\ start = StartOf(quotas[u])
                             /\ amount = bytes[r] /\ amount \in Nat
  BY <1>1 DEF Fetching
<1>4. /\ quotas[u] \in Quota \cup {NoQuota} /\ QuotaCharges(u)
      /\ UsageOf(quotas[u]) \in Nat /\ start \in Nat /\ start <= now
  BY <1>3 DEF ChargesInv, UsageInv, QuotasBounded, UsageOf, StartOf, Quota, QuotaCharges
<1>5. PICK new : new = AddUsage(quotas[u], amount)
  OBVIOUS
<1>6. /\ StartOf(new) <= now
      /\ \/ UsageOf(new) <= amount
         \/ StartOf(new) = start /\ UsageOf(new) <= UsageOf(quotas[u]) + amount
  BY <1>1, <1>3, <1>4, <1>5, AddUsageCharges
<1>7. /\ copy'[r] = new /\ chargedAt'[r] = now /\ bytes'[r] = amount /\ request'[r].user = u
      /\ \A q \in Requests : pc'[q] = "record" => q = r \/ CarriesClone(q)
  BY <1>1, <1>3, <1>5
<1>8. Bounded(new)
  BY <1>1, <1>2, <1>7 DEF UsageInv
<1>9. UsageOf(new) \in Nat
  BY <1>8 DEF Bounded, UsageOf, Quota
<1>10. HandlerCharges(r)'
  <2>1. PICK s : s = StartOf(new)
    OBVIOUS
  <2>2. /\ SumFunctionOnSet(bytes, DownloadsSince(u, s))' \in Nat
        /\ SumFunctionOnSet(bytes, DownloadsSince(u, start)) \in Nat
        /\ SumFunctionOnSet(bytes, DownloadsSince(u, start))'
             >= SumFunctionOnSet(bytes, DownloadsSince(u, start))
        /\ SumFunctionOnSet(bytes, DownloadsSince(u, start))' \in Nat
    <3>1. SumFunctionOnSet(bytes, DownloadsSince(u, s))' \in Nat
      BY <1>2, DownloadsOnlyGrow
    <3>2. /\ SumFunctionOnSet(bytes, DownloadsSince(u, start)) \in Nat
          /\ SumFunctionOnSet(bytes, DownloadsSince(u, start))' \in Nat
          /\ SumFunctionOnSet(bytes, DownloadsSince(u, start))
               <= SumFunctionOnSet(bytes, DownloadsSince(u, start))'
      BY <1>2, DownloadsOnlyGrow
    <3> QED BY <3>1, <3>2
  <2>3. UsageOf(quotas[u]) <= SumFunctionOnSet(bytes, DownloadsSince(u, start))
    BY <1>3, <1>4 DEF QuotaCharges
  <2>4. UsageOf(new) <= SumFunctionOnSet(bytes, DownloadsSince(u, s))' + amount
    <3>1. CASE UsageOf(new) <= amount
      BY <1>3, <1>9, <2>2, <3>1
    <3>2. CASE StartOf(new) = start /\ UsageOf(new) <= UsageOf(quotas[u]) + amount
      BY <1>3, <1>4, <1>9, <2>1, <2>2, <2>3, <3>2
    <3> QED BY <1>6, <3>1, <3>2
  <2>5. /\ request'[r].user = u /\ StartOf(copy'[r]) = s /\ UsageOf(copy'[r]) = UsageOf(new)
        /\ chargedAt'[r] = now /\ now' = now /\ bytes'[r] = amount /\ s <= now /\ now <= now
    BY <1>1, <1>2, <1>6, <1>7, <2>1
  <2> QED BY <2>4, <2>5 DEF HandlerCharges, DownloadsSince
<1>11. \A q \in Requests : pc'[q] = "record" => CarriesClone(q) \/ HandlerCharges(q)'
  BY <1>7, <1>10
<1>12. now <= now'
  BY <1>1, <1>2
<1> QED BY <1>2, <1>11, <1>12, ChargesAreCarried

\* The answer counts the image when the clone, whichever it overwrites, becomes
\* the quota.
LEMMA RecordedQuotaCharges ==
  ASSUME ChargesInv, UsageInv', NEW r \in Requests, RecordQuota(r)
  PROVE  ChargesInv'
<1> USE DEF RecordQuota, Answer, HandlersAnswer, HandlersBounded, DownloadsStay, CarriesClone
<1>1. HandlersAnswer /\ HandlersBounded /\ AnswersAreFinite /\ now \in Nat
  BY DEF ChargesInv, UsageInv
<1>2. now' = now /\ HandlersAnswer' /\ DownloadsStay
  BY <1>1
<1>3. AnswersAreFinite'
  BY <1>1, OneMoreAnswer
<1>4. PICK u, start : u = request[r].user /\ u \in Users /\ start = StartOf(copy[r])
  BY <1>1 DEF Fetching
<1>5. /\ HandlerCharges(r) /\ bytes[r] \in Nat /\ chargedAt[r] \in Nat
      /\ StartOf(copy[r]) \in Nat /\ UsageOf(copy[r]) \in Nat
  BY <1>1 DEF ChargesInv, Bounded, StartOf, UsageOf, Quota
<1>6. /\ quotas'[u] = copy[r]
      /\ \A v \in Users : v = u \/ quotas'[v] = quotas[v]
      /\ \A q \in Requests : pc'[q] = "record" => CarriesClone(q)
  BY <1>1, <1>4 DEF ChargesInv, UsageInv, QuotasBounded
<1>7. QuotaCharges(u)'
  <2> DEFINE D == DownloadsSince(u, start)
  <2>1. DownloadsSince(u, start)' = D \cup {r}
    <3>1. chargedAt[r] >= start
      BY <1>4, <1>5 DEF HandlerCharges
    <3> QED BY <1>1, <1>4, <3>1 DEF DownloadsSince
  <2>2. r \notin D /\ IsFiniteSet(D) /\ \A q \in D : bytes[q] \in Nat
    <3>1. D \subseteq {q \in Requests : response[q] = "downloaded"}
      BY DEF DownloadsSince
    <3>2. r \notin D
      BY <1>1 DEF DownloadsSince
    <3>3. \A q \in D : bytes[q] \in Nat
      BY <1>1 DEF DownloadsSince
    <3> QED BY <1>1, <3>1, <3>2, <3>3, FS_Subset DEF AnswersAreFinite
  <2>3. UsageOf(copy[r]) <= SumFunctionOnSet(bytes, D) + bytes[r]
    BY <1>4, <1>5 DEF HandlerCharges
  <2> HIDE DEF D
  <2>4. SumFunctionOnSet(bytes, D \cup {r}) = SumFunctionOnSet(bytes, D) + bytes[r]
    BY <1>5, <2>2, SumWithOneMore
  <2>5. SumFunctionOnSet(bytes, DownloadsSince(u, start))' = SumFunctionOnSet(bytes, D \cup {r})
    BY <2>1
  <2>6. UsageOf(quotas'[u]) <= SumFunctionOnSet(bytes, DownloadsSince(u, start))'
    BY <1>6, <2>3, <2>4, <2>5
  <2>7. StartOf(quotas'[u]) = start /\ start <= now'
    BY <1>1, <1>2, <1>4, <1>5, <1>6 DEF HandlerCharges
  <2> QED BY <2>6, <2>7 DEF QuotaCharges, DownloadsSince
<1>8. now <= now'
  BY <1>1, <1>2
<1> QED BY <1>2, <1>3, <1>6, <1>7, <1>8, ChargesAreCarried

LEMMA ChargesInvNext == ChargesInv /\ [Next]_vars => ChargesInv'
<1> SUFFICES ASSUME ChargesInv, [Next]_vars PROVE ChargesInv'
  OBVIOUS
<1>1. UsageInv'
  BY UsageInvNext DEF ChargesInv
<1>2. CASE Tick \/ Served \/ UNCHANGED vars
  <2>1. UNCHANGED <<quotas, handlers>> /\ now <= now'
    BY <1>2, QuotaAssumption DEF Tick, Served, vars, ChargesInv, UsageInv
  <2>2. HandlersAnswer' /\ AnswersAreFinite' /\ DownloadsStay
    BY <2>1 DEF ChargesInv, HandlersAnswer, AnswersAreFinite, DownloadsStay, handlers
  <2>3. \A r \in Requests : pc'[r] = "record" => CarriesClone(r)
    BY <2>1 DEF CarriesClone, handlers
  <2> QED BY <1>1, <2>1, <2>2, <2>3, ChargesAreCarried
<1> QED BY <1>1, <1>2, OtherStepCharges, ChargedCopyCharges, RecordedQuotaCharges DEF Next

\* Clones of a quota overwrite each other, periods end between the clone and its
\* return, and requests are abandoned on the way: the usage that is recorded for
\* a user is never more than the images the proxy has answered with in the period
\* (manager.rs:55-74, 146-154 and 214-234).
THEOREM NobodyIsOvercharged == Spec => []NeverOvercharged
<1>1. ChargesInv => NeverOvercharged
  <2> SUFFICES ASSUME ChargesInv, NEW u \in Users PROVE Charged(u) <= DownloadedInPeriod(u)
    BY DEF NeverOvercharged
  <2> QED BY DEF ChargesInv, QuotaCharges, Charged, UsageOf, DownloadedInPeriod, StartOf,
                 DownloadsSince
<1> QED BY <1>1, ChargesInvInit, ChargesInvNext, PTL DEF Spec

=============================================================================
