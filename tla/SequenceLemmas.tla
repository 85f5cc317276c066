--------------------------- MODULE SequenceLemmas ---------------------------
(***************************************************************************)
(* What the proofs need of numbers, sets and sequences in general: that a  *)
(* set of numbers without a first gap holds them all, and what sequences   *)
(* that are appended or flattened consist of.                              *)
(***************************************************************************)
EXTENDS Integers, Sequences, SequencesExt, FiniteSetTheorems, SequenceTheorems,
        WellFoundedInduction, TLAPS

-----------------------------------------------------------------------------
(* Induction *)


LEMMA Least ==
  ASSUME NEW T \in SUBSET Nat, T # {}
  PROVE  \E x \in T : \A y \in T : x <= y
<1> DEFINE R == {ss \in Nat \X Nat : ss[1] < ss[2]}
<1>1. IsWellFoundedOn(R, Nat)
  BY NatLessThanWellFounded DEF OpToRel
<1>2. PICK x \in T : \A y \in T : ~ (<<y, x>> \in R)
  <2> HIDE DEF R
  <2> QED BY <1>1, WFMin
<1>3. ASSUME NEW y \in T, y < x PROVE FALSE
  <2>1. <<y, x>> \in Nat \X Nat /\ <<y, x>>[1] = y /\ <<y, x>>[2] = x
    OBVIOUS
  <2> QED BY <1>2, <1>3, <2>1
<1> QED BY <1>3

\* Induction over a set of numbers.
LEMMA Induction ==
  ASSUME NEW P \in SUBSET Nat, 0 \in P, \A n \in P : n + 1 \in P
  PROVE  P = Nat
<1> SUFFICES ASSUME P # Nat PROVE FALSE
  OBVIOUS
<1>1. PICK m \in Nat \ P : \A y \in Nat \ P : m <= y
  BY Least
<1>2. m # 0
  OBVIOUS
<1>3. m - 1 \in Nat /\ m - 1 \in P
  BY <1>1, <1>2
<1> QED BY <1>3

\* Induction over a set of numbers, up to a bound.
LEMMA InductionUpTo ==
  ASSUME NEW n \in Nat, NEW P \in SUBSET Nat, 1 \in P,
         \A m \in P : 1 <= m /\ m < n => m + 1 \in P
  PROVE  1 .. n \subseteq P
<1> SUFFICES ASSUME NEW k \in 1 .. n, k \notin P PROVE FALSE
  OBVIOUS
<1> DEFINE Q == {j \in Nat : j \in 1 .. n /\ j \notin P}
<1>1. PICK m \in Q : \A y \in Q : m <= y
  <2>1. Q \in SUBSET Nat /\ Q # {}
    OBVIOUS
  <2> HIDE DEF Q
  <2> QED BY <2>1, Least
<1>2. m # 1 /\ m - 1 \in Nat /\ m - 1 \in 1 .. n /\ m - 1 < n /\ ~(m <= m - 1)
  BY <1>1
<1>3. m - 1 \in P
  BY <1>1, <1>2
<1>4. (m - 1) + 1 \in P
  BY <1>2, <1>3
<1> QED BY <1>1, <1>4

\* The same from zero on.
LEMMA InductionFromZero ==
  ASSUME NEW n \in Nat, NEW P \in SUBSET Nat, 0 \in P,
         \A m \in P : m < n => m + 1 \in P
  PROVE  0 .. n \subseteq P
<1>1. CASE n = 0
  BY <1>1
<1>2. CASE n # 0
  <2>1. 0 < n /\ 0 + 1 = 1
    BY <1>2
  <2>2. 1 \in P
    BY <2>1
  <2>3. 1 .. n \subseteq P
    BY <2>2, InductionUpTo
  <2>4. \A k \in 0 .. n : k = 0 \/ k \in 1 .. n
    OBVIOUS
  <2> QED BY <2>3, <2>4
<1> QED BY <1>1, <1>2

\* Two sequences, one after the other.
LEMMA ElementsOfConcat ==
  ASSUME NEW S, NEW s \in Seq(S), NEW t \in Seq(S)
  PROVE  /\ ToSet(s \o t) = ToSet(s) \union ToSet(t)
         /\ /\ \A i, j \in DOMAIN s : s[i] = s[j] => i = j
            /\ \A i, j \in DOMAIN t : t[i] = t[j] => i = j
            /\ ToSet(s) \intersect ToSet(t) = {}
            => \A i, j \in DOMAIN (s \o t) : (s \o t)[i] = (s \o t)[j] => i = j
<1>1. PICK m, n : m = Len(s) /\ n = Len(t)
  OBVIOUS
<1>2. m \in Nat /\ n \in Nat /\ DOMAIN s = 1 .. m /\ DOMAIN t = 1 .. n
  BY <1>1, LenProperties
<1>3. PICK st : st = s \o t
  OBVIOUS
<1>4. /\ st \in Seq(S) /\ Len(st) = m + n
      /\ \A i \in 1 .. m + n : st[i] = IF i <= m THEN s[i] ELSE t[i - m]
  BY <1>1, <1>3, ConcatProperties
<1>5. DOMAIN st = 1 .. m + n
  BY <1>4, LenProperties
<1>6. ASSUME NEW i \in 1 .. m + n
      PROVE  \/ i \in 1 .. m /\ st[i] = s[i]
             \/ i - m \in 1 .. n /\ ~(i <= m) /\ st[i] = t[i - m]
  BY <1>2, <1>4
<1>7. ToSet(st) = ToSet(s) \union ToSet(t)
  <2>1. ASSUME NEW i \in 1 .. m PROVE st[i] = s[i] /\ i \in 1 .. m + n
    BY <1>2, <1>4
  <2>2. ASSUME NEW i \in 1 .. n PROVE st[m + i] = t[i] /\ m + i \in 1 .. m + n
    <3>1. m + i \in 1 .. m + n /\ ~(m + i <= m) /\ (m + i) - m = i
      BY <1>2
    <3> QED BY <1>4, <3>1
  <2>3. ToSet(s) \subseteq ToSet(st)
    BY <1>2, <1>5, <2>1 DEF ToSet
  <2>4. ToSet(t) \subseteq ToSet(st)
    BY <1>2, <1>5, <2>2 DEF ToSet
  <2>5. ToSet(st) \subseteq ToSet(s) \union ToSet(t)
    BY <1>2, <1>5, <1>6 DEF ToSet
  <2> QED BY <2>3, <2>4, <2>5
<1>8. ASSUME \A i, j \in DOMAIN s : s[i] = s[j] => i = j,
             \A i, j \in DOMAIN t : t[i] = t[j] => i = j,
             ToSet(s) \intersect ToSet(t) = {},
             NEW i \in 1 .. m + n, NEW j \in 1 .. m + n, st[i] = st[j]
      PROVE  i = j
  <2>1. ASSUME NEW k \in 1 .. m, NEW l \in 1 .. n PROVE s[k] # t[l]
    <3>1. s[k] \in ToSet(s) /\ t[l] \in ToSet(t)
      BY <1>2 DEF ToSet
    <3> QED BY <1>8, <3>1
  <2>2. CASE i \in 1 .. m /\ st[i] = s[i]
    BY <1>2, <1>6, <1>8, <2>1, <2>2, ZenonT(30)
  <2>3. CASE i - m \in 1 .. n /\ ~(i <= m) /\ st[i] = t[i - m]
    <3>1. j - m \in 1 .. n /\ st[j] = t[j - m]
      BY <1>6, <1>8, <2>1, <2>3
    <3>2. i - m = j - m
      BY <1>2, <1>8, <2>3, <3>1
    <3> QED BY <1>2, <3>2
  <2> QED BY <1>6, <2>2, <2>3
<1> QED BY <1>3, <1>5, <1>7, <1>8

\* Sequences of one element.
LEMMA OneElement ==
  ASSUME NEW S, NEW x \in S
  PROVE  <<x>> \in Seq(S) /\ Len(<<x>>) = 1 /\ <<x>> # <<>> /\ ToSet(<<x>>) = {x}
<1>1. <<x>> \in Seq(S) /\ Len(<<x>>) = 1
  OBVIOUS
<1>2. <<x>> # <<>>
  BY <1>1, EmptySeq
<1>3. DOMAIN <<x>> = {1} /\ <<x>>[1] = x
  BY <1>1, LenProperties
<1> QED BY <1>1, <1>2, <1>3 DEF ToSet

\* Flattening appends the sequences one by one.
LEMMA FlattenStepByStep ==
  ASSUME NEW S, NEW ss \in Seq(Seq(S)), Len(ss) # 0
  PROVE  \E f \in [1 .. Len(ss) -> Seq(S)] :
           /\ FlattenSeq(ss) = f[Len(ss)]
           /\ f[1] = ss[1]
           /\ \A i \in 1 .. Len(ss) - 1 : f[i + 1] = f[i] \o ss[i + 1]
<1>1. PICK n : n = Len(ss)
  OBVIOUS
<1>2. n \in Nat /\ n > 0 /\ \A i \in 1 .. n : ss[i] \in Seq(S)
  BY <1>1, LenProperties, ElementOfSeq
<1> DEFINE F(h) == [i \in 1 .. n |-> IF i = 1 THEN ss[i] ELSE h[i - 1] \o ss[i]]
           it == CHOOSE h : h = F(h)
           Prefix(m, f) == /\ f \in [1 .. m -> Seq(S)] /\ f[1] = ss[1]
                           /\ \A i \in 1 .. m - 1 : f[i + 1] = f[i] \o ss[i + 1]
           P == {m \in Nat : \E f : Prefix(m, f)}
<1>3. 1 \in P
  <2>1. Prefix(1, [i \in 1 .. 1 |-> ss[1]])
    BY <1>2
  <2> QED BY <2>1
<1>4. ASSUME NEW m \in P, 1 <= m, m < n PROVE m + 1 \in P
  <2>1. PICK f : Prefix(m, f)
    OBVIOUS
  <2>2. PICK t : t = f[m] \o ss[m + 1]
    OBVIOUS
  <2> DEFINE g == [i \in 1 .. m + 1 |-> IF i = m + 1 THEN t ELSE f[i]]
  <2>3. m \in Nat /\ m + 1 \in 1 .. n
    BY <1>2, <1>4
  <2>4. \A i \in 1 .. m : f[i] \in Seq(S)
    BY <2>1
  <2>5. t \in Seq(S)
    <3>1. f[m] \in Seq(S) /\ ss[m + 1] \in Seq(S)
      BY <1>2, <1>4, <2>3, <2>4
    <3> QED BY <2>2, <3>1, ConcatProperties
  <2>6. g \in [1 .. m + 1 -> Seq(S)]
    BY <2>3, <2>4, <2>5
  <2>7. g[1] = ss[1]
    BY <1>4, <2>1, <2>3
  <2>8. ASSUME NEW i \in 1 .. m PROVE g[i + 1] = g[i] \o ss[i + 1]
    <3>1. g[i] = f[i]
      BY <2>3
    <3>2. CASE i = m
      <4>1. m + 1 \in 1 .. m + 1 /\ g[m + 1] = t
        BY <2>3
      <4> HIDE DEF g
      <4> QED BY <2>2, <3>1, <3>2, <4>1
    <3>3. CASE i # m
      <4>1. i \in 1 .. m - 1 /\ i + 1 \in 1 .. m + 1 /\ i + 1 # m + 1
        BY <2>3, <3>3
      <4>2. f[i + 1] = f[i] \o ss[i + 1]
        BY <2>1, <4>1
      <4> QED BY <3>1, <4>1, <4>2
    <3> QED BY <3>2, <3>3
  <2>9. (m + 1) - 1 = m
    BY <2>3
  <2>10. Prefix(m + 1, g)
    <3> HIDE DEF g
    <3> QED BY <2>6, <2>7, <2>8, <2>9
  <2> HIDE DEF Prefix
  <2> QED BY <2>3, <2>10
<1>5. 1 .. n \subseteq P
  <2>1. P \in SUBSET Nat
    OBVIOUS
  <2> HIDE DEF P
  <2> QED BY <1>2, <1>3, <1>4, <2>1, InductionUpTo
<1>6. PICK f : Prefix(n, f)
  <2>1. n \in 1 .. n
    BY <1>2
  <2>2. n \in P
    <3> HIDE DEF P
    <3> QED BY <1>5, <2>1
  <2> HIDE DEF Prefix
  <2> QED BY <2>2
<1>7. f = F(f)
  <2>1. f = [i \in 1 .. n |-> f[i]]
    BY <1>6
  <2>2. \A i \in 1 .. n : i # 1 => f[i] = f[i - 1] \o ss[i]
    <3> SUFFICES ASSUME NEW i \in 1 .. n, i # 1 PROVE f[i] = f[i - 1] \o ss[i]
      OBVIOUS
    <3>1. i - 1 \in 1 .. n - 1 /\ (i - 1) + 1 = i
      BY <1>2
    <3> QED BY <1>6, <3>1
  <2> QED BY <1>6, <2>1, <2>2
<1>8. it = F(it)
  BY <1>7
<1>9. FlattenSeq(ss) = it[n]
  BY <1>1, <1>2 DEF FlattenSeq
<1> HIDE DEF it
<1>10. Prefix(n, it)
  <2> DEFINE Q == {m \in Nat : m <= n => it[m] \in Seq(S)}
  <2>1. it[1] = ss[1] /\ it = [i \in 1 .. n |-> it[i]]
    BY <1>2, <1>8
  <2>2. \A i \in 1 .. n - 1 : it[i + 1] = it[i] \o ss[i + 1]
    <3> SUFFICES ASSUME NEW i \in 1 .. n - 1 PROVE it[i + 1] = it[i] \o ss[i + 1]
      OBVIOUS
    <3>1. i + 1 \in 1 .. n /\ i + 1 # 1 /\ (i + 1) - 1 = i
      BY <1>2
    <3> QED BY <1>8, <3>1
  <2>3. 1 \in Q
    BY <1>2, <2>1
  <2>4. ASSUME NEW m \in Q, 1 <= m, m < n PROVE m + 1 \in Q
    <3>1. m \in 1 .. n - 1 /\ it[m] \in Seq(S) /\ ss[m + 1] \in Seq(S)
      BY <1>2, <2>4
    <3>2. it[m + 1] \in Seq(S)
      BY <2>2, <3>1, ConcatProperties
    <3> QED BY <3>2
  <2>5. 1 .. n \subseteq Q
    <3>1. Q \in SUBSET Nat
      OBVIOUS
    <3> HIDE DEF Q
    <3> QED BY <1>2, <2>3, <2>4, <3>1, InductionUpTo
  <2>6. \A i \in 1 .. n : it[i] \in Seq(S)
    BY <1>2, <2>5
  <2> QED BY <2>1, <2>2, <2>6
<1> QED BY <1>1, <1>9, <1>10

\* One more sequence is appended at the end.
LEMMA FlattenGrows ==
  ASSUME NEW S, NEW n \in Nat, NEW ss \in Seq(Seq(S)), Len(ss) = n + 1,
         NEW tt \in Seq(Seq(S)), Len(tt) = n, \A i \in 1 .. n : tt[i] = ss[i]
  PROVE  FlattenSeq(ss) = FlattenSeq(tt) \o ss[n + 1]
<1>1. ss[n + 1] \in Seq(S) /\ Len(ss) # 0 /\ n + 1 # 0
  BY ElementOfSeq
<1>2. PICK f \in [1 .. Len(ss) -> Seq(S)] :
        /\ FlattenSeq(ss) = f[Len(ss)] /\ f[1] = ss[1]
        /\ \A i \in 1 .. Len(ss) - 1 : f[i + 1] = f[i] \o ss[i + 1]
  <2>1. Len(ss) # 0
    BY <1>1
  <2> QED BY ONLY <2>1, FlattenStepByStep
<1>3. CASE n = 0
  <2>1. FlattenSeq(tt) = <<>>
    <3>1. tt = <<>>
      BY <1>3, EmptySeq
    <3> QED BY <3>1, EmptySeq DEF FlattenSeq
  <2>2. FlattenSeq(ss) = ss[n + 1]
    BY <1>2, <1>3
  <2> QED BY <1>1, <2>1, <2>2, ConcatEmptySeq
<1>4. CASE n # 0
  <2>1. PICK g \in [1 .. Len(tt) -> Seq(S)] :
          /\ FlattenSeq(tt) = g[Len(tt)] /\ g[1] = tt[1]
          /\ \A i \in 1 .. Len(tt) - 1 : g[i + 1] = g[i] \o tt[i + 1]
    <3>1. Len(tt) # 0
      BY <1>4
    <3> QED BY ONLY <3>1, FlattenStepByStep
  <2>2. \A i \in 1 .. n : f[i + 1] = f[i] \o ss[i + 1]
    <3>1. Len(ss) - 1 = n
      OBVIOUS
    <3> QED BY ONLY <1>2, <3>1
  <2>3. \A i \in 1 .. n - 1 : g[i + 1] = g[i] \o ss[i + 1]
    <3> SUFFICES ASSUME NEW i \in 1 .. n - 1 PROVE g[i + 1] = g[i] \o ss[i + 1]
      OBVIOUS
    <3>1. i + 1 \in 1 .. n /\ i \in 1 .. Len(tt) - 1
      OBVIOUS
    <3>2. tt[i + 1] = ss[i + 1]
      BY <3>1
    <3> QED BY <2>1, <3>1, <3>2
  <2> DEFINE P == {m \in Nat : m \in 1 .. n => f[m] = g[m]}
  <2>4. 1 \in P
    BY <1>2, <1>4, <2>1
  <2>5. ASSUME NEW m \in P, 1 <= m, m < n PROVE m + 1 \in P
    <3>1. m \in 1 .. n - 1 /\ m \in 1 .. n /\ f[m] = g[m]
      BY <2>5
    <3>2. f[m + 1] = g[m + 1]
      BY <2>2, <2>3, <3>1
    <3> QED BY <3>2
  <2>6. n \in 1 .. n /\ 1 .. n \subseteq P
    <3>1. P \in SUBSET Nat /\ n \in 1 .. n
      BY <1>4
    <3> HIDE DEF P
    <3> QED BY <2>4, <2>5, <3>1, InductionUpTo
  <2>7. f[n] = g[n]
    BY <2>6
  <2>8. f[n + 1] = f[n] \o ss[n + 1]
    BY <2>2, <2>6
  <2> QED BY <1>2, <2>1, <2>7, <2>8
<1> QED BY <1>3, <1>4

\* Sequences of the same length follow each other in blocks.
LEMMA FlattenBlocks ==
  ASSUME NEW S, NEW ss \in Seq(Seq(S)), NEW w \in {1, 2},
         \A i \in 1 .. Len(ss) : Len(ss[i]) = w
  PROVE  /\ FlattenSeq(ss) \in Seq(S)
         /\ w = 1 => /\ Len(FlattenSeq(ss)) = Len(ss)
                     /\ \A i \in 1 .. Len(ss) : FlattenSeq(ss)[i] = ss[i][1]
         /\ w = 2 => /\ Len(FlattenSeq(ss)) = 2 * Len(ss)
                     /\ \A i \in 1 .. Len(ss) : /\ FlattenSeq(ss)[2 * i - 1] = ss[i][1]
                                                /\ FlattenSeq(ss)[2 * i] = ss[i][2]
<1>1. PICK n : n = Len(ss)
  OBVIOUS
<1>2. n \in Nat /\ \A i \in 1 .. n : ss[i] \in Seq(S) /\ Len(ss[i]) = w
  BY <1>1, LenProperties, ElementOfSeq
<1>3. CASE n = 0
  <2>1. ss = <<>>
    BY <1>1, <1>3, EmptySeq
  <2>2. FlattenSeq(ss) = <<>>
    BY <2>1, EmptySeq DEF FlattenSeq
  <2> QED BY <1>1, <1>3, <2>2, EmptySeq
<1>4. CASE n # 0
  <2>1. PICK f \in [1 .. n -> Seq(S)] :
          /\ FlattenSeq(ss) = f[n] /\ f[1] = ss[1]
          /\ \A i \in 1 .. n - 1 : f[i + 1] = f[i] \o ss[i + 1]
    BY <1>1, <1>4, FlattenStepByStep
  <2> DEFINE Blocks(m) == /\ Len(f[m]) = w * m
                          /\ \A i \in 1 .. m : \A k \in 1 .. w : \A j \in Nat :
                               j = w * (i - 1) + k => f[m][j] = ss[i][k]
             P == {m \in Nat : m <= n => Blocks(m)}
  <2>2. 1 \in P
    <3>1. Len(f[1]) = w * 1 /\ \A k \in 1 .. w : f[1][k] = ss[1][k]
      BY <1>2, <1>4, <2>1
    <3>2. \A i \in 1 .. 1 : \A k \in 1 .. w : w * (i - 1) + k = k /\ i = 1
      OBVIOUS
    <3>3. Blocks(1)
      BY <3>1, <3>2
    <3> QED BY <3>3
  <2>3. ASSUME NEW m \in P, 1 <= m, m < n PROVE m + 1 \in P
    <3>1. m \in Nat /\ m \in 1 .. n - 1 /\ m + 1 \in 1 .. n
      BY <1>2, <2>3
    <3>2. Blocks(m)
      <4> HIDE DEF Blocks
      <4> QED BY <1>2, <2>3
    <3>3. PICK s, t, u : s = f[m] /\ t = ss[m + 1] /\ u = f[m + 1]
      OBVIOUS
    <3>4. /\ s \in Seq(S) /\ t \in Seq(S) /\ Len(s) = w * m /\ Len(t) = w
          /\ u = s \o t
          /\ \A i \in 1 .. m : \A k \in 1 .. w : \A j \in Nat :
               j = w * (i - 1) + k => s[j] = ss[i][k]
      <4>1. m \in 1 .. n /\ f[m] \in Seq(S)
        BY <1>2, <2>1, <3>1
      <4>2. s \in Seq(S) /\ u = s \o t
        <5>1. \A i \in 1 .. n - 1 : f[i + 1] = f[i] \o ss[i + 1]
          BY <2>1
        <5>2. f[m + 1] = f[m] \o ss[m + 1]
          BY <3>1, <5>1, ZenonT(30)
        <5>3. s \in Seq(S)
          BY <3>3, <4>1, ZenonT(30)
        <5>4. u = s \o t
          BY <3>3, <5>2, ZenonT(30)
        <5> QED BY <5>3, <5>4
      <4>3. t \in Seq(S) /\ Len(t) = w
        <5>1. ss[m + 1] \in Seq(S) /\ Len(ss[m + 1]) = w
          BY <1>2, <3>1
        <5> QED BY <3>3, <5>1
      <4>4. /\ Len(s) = w * m
            /\ \A i \in 1 .. m : \A k \in 1 .. w : \A j \in Nat :
                 j = w * (i - 1) + k => s[j] = ss[i][k]
        BY <3>2, <3>3
      <4> QED BY <4>2, <4>3, <4>4
    <3>5. /\ Len(u) = Len(s) + Len(t)
          /\ \A i \in 1 .. Len(s) + Len(t) : u[i] = IF i <= Len(s) THEN s[i] ELSE t[i - Len(s)]
      BY <3>4, ConcatProperties
    <3>6. Len(u) = w * (m + 1)
      <4>1. CASE w = 1
        BY <3>1, <3>4, <3>5, <4>1
      <4>2. CASE w = 2
        BY <3>1, <3>4, <3>5, <4>2
      <4> QED BY <4>1, <4>2
    <3>7. ASSUME NEW i \in 1 .. m + 1, NEW k \in 1 .. w, NEW j \in Nat, j = w * (i - 1) + k
          PROVE  u[j] = ss[i][k]
      <4>2. /\ j \in 1 .. Len(s) + Len(t)
            /\ i <= m => j <= Len(s)
            /\ ~(i <= m) => i = m + 1 /\ ~(j <= Len(s)) /\ j - Len(s) = k
        <5>1. CASE w = 1
          BY <3>1, <3>4, <3>7, <5>1
        <5>2. CASE w = 2
          BY <3>1, <3>4, <3>7, <5>2
        <5> QED BY <5>1, <5>2
      <4>3. CASE i <= m
        <5>1. i \in 1 .. m /\ u[j] = s[j]
          BY <3>1, <3>5, <4>2, <4>3
        <5> QED BY <3>4, <3>7, <5>1
      <4>4. CASE ~(i <= m)
        <5>1. u[j] = t[k]
          BY <3>5, <4>2, <4>4
        <5> QED BY <3>3, <4>2, <4>4, <5>1
      <4> QED BY <4>3, <4>4
    <3>8. Blocks(m + 1)
      BY <3>3, <3>6, <3>7
    <3> HIDE DEF Blocks
    <3> QED BY <3>1, <3>8
  <2>4. 1 .. n \subseteq P
    <3>1. P \in SUBSET Nat
      OBVIOUS
    <3> HIDE DEF P
    <3> QED BY <1>2, <2>2, <2>3, <3>1, InductionUpTo
  <2>5. n \in 1 .. n
    BY <1>2, <1>4
  <2>6. Blocks(n)
    <3> HIDE DEF Blocks
    <3> QED BY <1>2, <2>4, <2>5
  <2>7. f[n] \in Seq(S)
    BY <2>1, <2>5
  <2>8. PICK flat : flat = f[n]
    OBVIOUS
  <2>9. /\ Len(flat) = w * n
        /\ \A i \in 1 .. n : \A k \in 1 .. w : \A j \in Nat :
             j = w * (i - 1) + k => flat[j] = ss[i][k]
    BY <2>6, <2>8
  <2>10. CASE w = 1
    <3>1. ASSUME NEW i \in 1 .. n PROVE flat[i] = ss[i][1]
      <4>1. 1 \in 1 .. w /\ i \in Nat /\ i = w * (i - 1) + 1
        BY <1>2, <2>10
      <4> QED BY <2>9, <4>1
    <3>2. Len(flat) = n
      BY <1>2, <2>9, <2>10
    <3> QED BY <1>1, <2>1, <2>7, <2>8, <2>10, <3>1, <3>2
  <2>11. CASE w = 2
    <3>1. ASSUME NEW i \in 1 .. n PROVE flat[2 * i - 1] = ss[i][1] /\ flat[2 * i] = ss[i][2]
      <4>1. /\ 1 \in 1 .. w /\ 2 * i - 1 \in Nat /\ 2 * i - 1 = w * (i - 1) + 1
            /\ 2 \in 1 .. w /\ 2 * i \in Nat /\ 2 * i = w * (i - 1) + 2
        BY <1>2, <2>11
      <4> QED BY <2>9, <4>1
    <3>2. Len(flat) = 2 * n
      BY <1>2, <2>9, <2>11
    <3> QED BY <1>1, <2>1, <2>7, <2>8, <2>11, <3>1, <3>2
  <2> QED BY <2>10, <2>11
<1> QED BY <1>3, <1>4

\* A flattened sequence starts with the first one, and the rest of it comes from
\* the others.
LEMMA FlattenParts ==
  ASSUME NEW S, NEW ss \in Seq(Seq(S)), Len(ss) # 0
  PROVE  /\ FlattenSeq(ss) \in Seq(S)
         /\ Len(ss[1]) <= Len(FlattenSeq(ss))
         /\ \A k \in 1 .. Len(ss[1]) : FlattenSeq(ss)[k] = ss[1][k]
         /\ \A k \in 1 .. Len(FlattenSeq(ss)) :
              k > Len(ss[1]) => \E i \in 2 .. Len(ss) : FlattenSeq(ss)[k] \in ToSet(ss[i])
         /\ \A i \in 1 .. Len(ss) : ToSet(ss[i]) \subseteq ToSet(FlattenSeq(ss))
<1>1. PICK n, first : n = Len(ss) /\ first = ss[1]
  OBVIOUS
<1>2. n \in Nat /\ n # 0 /\ first \in Seq(S) /\ \A i \in 1 .. n : ss[i] \in Seq(S)
  BY <1>1, LenProperties, ElementOfSeq
<1>3. PICK f \in [1 .. n -> Seq(S)] :
        /\ FlattenSeq(ss) = f[n] /\ f[1] = ss[1]
        /\ \A i \in 1 .. n - 1 : f[i + 1] = f[i] \o ss[i + 1]
  BY <1>1, <1>2, FlattenStepByStep
<1> DEFINE Parts(m, u) ==
             /\ u \in Seq(S) /\ Len(first) <= Len(u)
             /\ \A k \in 1 .. Len(first) : u[k] = first[k]
             /\ \A k \in 1 .. Len(u) :
                  k > Len(first) => \E i \in 2 .. m : u[k] \in ToSet(ss[i])
             /\ \A i \in 1 .. m : ToSet(ss[i]) \subseteq ToSet(u)
           P == {m \in Nat : m <= n => Parts(m, f[m])}
<1>4. 1 \in P
  <2>1. Len(first) \in Nat
    BY <1>2, LenProperties
  <2>2. Parts(1, first)
    <3>1. \A k \in 1 .. Len(first) : ~(k > Len(first))
      BY <2>1
    <3>2. \A i \in 1 .. 1 : ss[i] = first
      BY <1>1
    <3> QED BY <1>2, <2>1, <3>1, <3>2
  <2>3. first = f[1]
    BY <1>1, <1>3
  <2> HIDE DEF Parts
  <2> QED BY <2>2, <2>3
<1>5. ASSUME NEW m \in P, 1 <= m, m < n PROVE m + 1 \in P
  <2>1. m \in Nat /\ m \in 1 .. n - 1 /\ m + 1 \in 1 .. n
    BY <1>2, <1>5
  <2>2. PICK s, t, u : s = f[m] /\ t = ss[m + 1] /\ u = s \o t
    OBVIOUS
  <2>3. Parts(m, s)
    <3>1. Parts(m, f[m])
      <4> HIDE DEF Parts
      <4> QED BY <1>2, <1>5
    <3> HIDE DEF Parts
    <3> QED BY <2>2, <3>1
  <2>4. s \in Seq(S) /\ t \in Seq(S)
    BY <1>2, <2>1, <2>2, <2>3
  <2>5. /\ u \in Seq(S) /\ Len(u) = Len(s) + Len(t)
        /\ \A i \in 1 .. Len(s) + Len(t) : u[i] = IF i <= Len(s) THEN s[i] ELSE t[i - Len(s)]
    <3>1. u = s \o t
      BY <2>2
    <3> QED BY <2>4, <3>1, ConcatProperties
  <2>6. /\ Len(first) \in Nat /\ Len(s) \in Nat /\ Len(t) \in Nat
        /\ DOMAIN s = 1 .. Len(s) /\ DOMAIN t = 1 .. Len(t) /\ DOMAIN u = 1 .. Len(u)
    BY <1>2, <2>4, <2>5, LenProperties
  <2>7. Len(first) <= Len(s)
    BY <2>3
  <2>8. \A k \in 1 .. Len(s) : k \in 1 .. Len(u) /\ u[k] = s[k]
    BY <2>5, <2>6
  <2>9. ASSUME NEW k \in 1 .. Len(t)
        PROVE  Len(s) + k \in 1 .. Len(u) /\ u[Len(s) + k] = t[k]
    <3>1. /\ Len(s) + k \in 1 .. Len(s) + Len(t) /\ ~(Len(s) + k <= Len(s))
          /\ (Len(s) + k) - Len(s) = k
      BY <2>6
    <3> QED BY <2>5, <3>1
  <2>10. \A k \in 1 .. Len(first) : u[k] = first[k]
    <3> SUFFICES ASSUME NEW k \in 1 .. Len(first) PROVE u[k] = first[k]
      OBVIOUS
    <3>1. k \in 1 .. Len(s)
      BY <2>6, <2>7
    <3> QED BY <2>3, <2>8, <3>1
  <2>11. ASSUME NEW k \in 1 .. Len(u), k > Len(first)
         PROVE  \E i \in 2 .. m + 1 : u[k] \in ToSet(ss[i])
    <3>1. CASE k <= Len(s)
      <4>1. k \in 1 .. Len(s) /\ u[k] = s[k]
        BY <2>5, <2>6, <2>8, <3>1
      <4>2. PICK i \in 2 .. m : s[k] \in ToSet(ss[i])
        BY <2>3, <2>11, <4>1
      <4> QED BY <2>1, <4>1, <4>2
    <3>2. CASE ~(k <= Len(s))
      <4>1. k - Len(s) \in 1 .. Len(t) /\ k \in 1 .. Len(s) + Len(t)
        BY <2>5, <2>6, <3>2
      <4>2. u[k] = t[k - Len(s)]
        BY <2>5, <3>2, <4>1
      <4>3. u[k] \in ToSet(t)
        BY <2>6, <4>1, <4>2 DEF ToSet
      <4>4. m + 1 \in 2 .. m + 1
        BY <2>1
      <4> QED BY <2>2, <4>3, <4>4
    <3> QED BY <3>1, <3>2
  <2>12. ASSUME NEW i \in 1 .. m + 1 PROVE ToSet(ss[i]) \subseteq ToSet(u)
    <3>1. ToSet(s) \subseteq ToSet(u)
      BY <2>6, <2>8 DEF ToSet
    <3>2. ToSet(t) \subseteq ToSet(u)
      <4>1. ASSUME NEW k \in DOMAIN t PROVE t[k] \in ToSet(u)
        <5>1. k \in 1 .. Len(t)
          BY <2>6, <4>1
        <5>2. Len(s) + k \in DOMAIN u /\ u[Len(s) + k] = t[k]
          BY <2>6, <2>9, <5>1
        <5> QED BY <5>2 DEF ToSet
      <4> QED BY <4>1 DEF ToSet
    <3>3. CASE i = m + 1
      BY <2>2, <3>2, <3>3
    <3>4. CASE i # m + 1
      <4>1. i \in 1 .. m
        BY <2>1, <3>4
      <4>2. ToSet(ss[i]) \subseteq ToSet(s)
        BY <2>3, <4>1
      <4> QED BY <3>1, <4>2
    <3> QED BY <3>3, <3>4
  <2>13. Parts(m + 1, u)
    BY <2>5, <2>6, <2>7, <2>10, <2>11, <2>12
  <2>14. u = f[m + 1]
    BY <1>3, <2>1, <2>2
  <2> HIDE DEF Parts
  <2> QED BY <2>1, <2>13, <2>14
<1>6. n \in P
  <2>1. P \in SUBSET Nat
    OBVIOUS
  <2> HIDE DEF P
  <2>2. 1 .. n \subseteq P
    BY <1>2, <1>4, <1>5, <2>1, InductionUpTo
  <2>3. n \in 1 .. n
    BY <1>2
  <2> QED BY <2>2, <2>3
<1>7. Parts(n, f[n])
  <2> HIDE DEF Parts
  <2> QED BY <1>2, <1>6
<1> QED BY <1>1, <1>3, <1>7

\* Nothing is lost or added.
LEMMA FlattenElements ==
  ASSUME NEW S, NEW ss \in Seq(Seq(S))
  PROVE  /\ FlattenSeq(ss) \in Seq(S)
         /\ ToSet(FlattenSeq(ss)) = UNION {ToSet(ss[i]) : i \in 1 .. Len(ss)}
<1>1. PICK n, flat : n = Len(ss) /\ flat = FlattenSeq(ss)
  OBVIOUS
<1>2. n \in Nat /\ \A i \in 1 .. n : ss[i] \in Seq(S)
  BY <1>1, LenProperties, ElementOfSeq
<1>3. CASE n = 0
  <2>1. ss = <<>> /\ flat = <<>>
    BY <1>1, <1>3, EmptySeq DEF FlattenSeq
  <2>2. ToSet(flat) = {}
    BY <2>1, EmptySeq DEF ToSet
  <2>3. {ToSet(ss[i]) : i \in 1 .. Len(ss)} = {}
    BY <1>1, <1>3
  <2> QED BY <1>1, <2>1, <2>2, <2>3, EmptySeq
<1>4. CASE n # 0
  <2>1. /\ flat \in Seq(S)
        /\ \A k \in 1 .. Len(ss[1]) : flat[k] = ss[1][k]
        /\ \A k \in 1 .. Len(flat) :
              k > Len(ss[1]) => \E i \in 2 .. n : flat[k] \in ToSet(ss[i])
        /\ \A i \in 1 .. n : ToSet(ss[i]) \subseteq ToSet(flat)
    BY <1>1, <1>4, FlattenParts
  <2>2. 1 \in 1 .. n /\ ss[1] \in Seq(S)
    BY <1>2, <1>4
  <2>3. /\ DOMAIN flat = 1 .. Len(flat) /\ DOMAIN ss[1] = 1 .. Len(ss[1])
        /\ Len(flat) \in Nat /\ Len(ss[1]) \in Nat
    BY <2>1, <2>2, LenProperties
  <2>4. ASSUME NEW k \in 1 .. Len(flat) PROVE \E i \in 1 .. n : flat[k] \in ToSet(ss[i])
    <3>1. CASE k > Len(ss[1])
      <4>1. \E i \in 2 .. n : flat[k] \in ToSet(ss[i])
        BY <2>1, <3>1
      <4> QED BY <1>2, <4>1
    <3>2. CASE ~(k > Len(ss[1]))
      <4>1. k \in 1 .. Len(ss[1])
        BY <2>3, <3>2
      <4>2. flat[k] \in ToSet(ss[1])
        BY <2>1, <2>3, <4>1 DEF ToSet
      <4> QED BY <2>2, <4>2
    <3> QED BY <3>1, <3>2
  <2>5. ToSet(flat) \subseteq UNION {ToSet(ss[i]) : i \in 1 .. n}
    BY <2>3, <2>4 DEF ToSet
  <2> QED BY <1>1, <2>1, <2>5
<1> QED BY <1>3, <1>4

-----------------------------------------------------------------------------
(* Sequences that hold no element of a set twice *)

Once(T, s) == \A i, j \in DOMAIN s : s[i] \in T /\ s[i] = s[j] => i = j

\* Two such sequences without a common element of the set, one after the other.
LEMMA ConcatOnce ==
  ASSUME NEW S, NEW T, NEW s \in Seq(S), NEW t \in Seq(S), Once(T, s), Once(T, t),
         ToSet(s) \intersect ToSet(t) \intersect T = {}
  PROVE  Once(T, s \o t)
<1>1. PICK m, n : m = Len(s) /\ n = Len(t)
  OBVIOUS
<1>2. m \in Nat /\ n \in Nat /\ DOMAIN s = 1 .. m /\ DOMAIN t = 1 .. n
  BY <1>1, LenProperties
<1>3. PICK st : st = s \o t
  OBVIOUS
<1>4. /\ st \in Seq(S) /\ Len(st) = m + n
      /\ \A i \in 1 .. m + n : st[i] = IF i <= m THEN s[i] ELSE t[i - m]
  BY <1>1, <1>3, ConcatProperties
<1>5. DOMAIN st = 1 .. m + n
  BY <1>4, LenProperties
<1>6. ASSUME NEW i \in 1 .. m + n
      PROVE  \/ i \in 1 .. m /\ st[i] = s[i]
             \/ i - m \in 1 .. n /\ st[i] = t[i - m]
  BY <1>2, <1>4
<1>7. ASSUME NEW i \in 1 .. m, NEW j \in 1 .. n, s[i] \in T PROVE s[i] # t[j]
  <2>1. s[i] \in ToSet(s) /\ t[j] \in ToSet(t)
    BY <1>2 DEF ToSet
  <2> QED BY <1>7, <2>1
<1>8. ASSUME NEW i \in 1 .. m + n, NEW j \in 1 .. m + n, st[i] \in T, st[i] = st[j]
      PROVE  i = j
  <2>1. CASE i \in 1 .. m /\ st[i] = s[i]
    <3>1. j \in 1 .. m /\ st[j] = s[j]
      BY <1>6, <1>7, <1>8, <2>1
    <3>2. s[i] \in T /\ s[i] = s[j]
      BY <1>8, <2>1, <3>1
    <3> QED BY <1>2, <2>1, <3>1, <3>2 DEF Once
  <2>2. CASE i - m \in 1 .. n /\ st[i] = t[i - m]
    <3>1. t[i - m] \in T /\ st[j] = t[i - m]
      BY <1>8, <2>2
    <3>2. j - m \in 1 .. n /\ st[j] = t[j - m]
      BY <1>6, <1>7, <2>2, <3>1
    <3>3. i - m = j - m
      BY <1>2, <2>2, <3>1, <3>2 DEF Once
    <3> QED BY <1>2, <3>3
  <2> QED BY <1>6, <2>1, <2>2
<1>9. Once(T, st)
  BY <1>5, <1>8 DEF Once
<1> QED BY <1>3, <1>9

\* Many such sequences, flattened.
LEMMA FlattenOnce ==
  ASSUME NEW S, NEW T, NEW ss \in Seq(Seq(S)),
         \A i \in 1 .. Len(ss) : Once(T, ss[i]),
         \A i, j \in 1 .. Len(ss) :
           i # j => ToSet(ss[i]) \intersect ToSet(ss[j]) \intersect T = {}
  PROVE  Once(T, FlattenSeq(ss))
<1>1. PICK n : n = Len(ss)
  OBVIOUS
<1>2. n \in Nat /\ \A i \in 1 .. n : ss[i] \in Seq(S)
  BY <1>1, LenProperties, ElementOfSeq
<1>3. CASE n = 0
  <2>1. ss = <<>> /\ FlattenSeq(ss) = <<>>
    BY <1>1, <1>3, EmptySeq DEF FlattenSeq
  <2>2. DOMAIN <<>> = {}
    BY EmptySeq
  <2> QED BY <2>1, <2>2 DEF Once
<1>4. CASE n # 0
  <2>1. PICK f \in [1 .. n -> Seq(S)] :
          /\ FlattenSeq(ss) = f[n] /\ f[1] = ss[1]
          /\ \A i \in 1 .. n - 1 : f[i + 1] = f[i] \o ss[i + 1]
    <3>1. Len(ss) # 0
      BY <1>1, <1>4
    <3>2. \E f \in [1 .. Len(ss) -> Seq(S)] :
            /\ FlattenSeq(ss) = f[Len(ss)]
            /\ f[1] = ss[1]
            /\ \A i \in 1 .. Len(ss) - 1 : f[i + 1] = f[i] \o ss[i + 1]
      BY <3>1, FlattenStepByStep
    <3> QED BY <1>1, <3>2
  <2> DEFINE Good(m) == /\ Once(T, f[m])
                        /\ ToSet(f[m]) \subseteq UNION {ToSet(ss[i]) : i \in 1 .. m}
             P == {m \in Nat : m <= n => Good(m)}
  <2>2. 1 \in P
    <3>1. Good(1)
      BY <1>1, <1>2, <1>4, <2>1
    <3> QED BY <3>1
  <2>3. ASSUME NEW m \in P, 1 <= m, m < n PROVE m + 1 \in P
    <3>1. m \in Nat /\ m + 1 \in 1 .. n /\ m \in 1 .. n /\ m \in 1 .. n - 1 /\ Good(m)
      BY <1>2, <2>3
    <3>2. f[m + 1] = f[m] \o ss[m + 1] /\ f[m] \in Seq(S) /\ ss[m + 1] \in Seq(S)
      BY <1>2, <2>1, <3>1
    <3>3. \A i \in 1 .. m : i \in 1 .. n /\ i # m + 1
      BY <1>2, <3>1
    <3>4. ToSet(f[m]) \intersect ToSet(ss[m + 1]) \intersect T = {}
      BY <1>1, <3>1, <3>3
    <3>5. Once(T, ss[m + 1])
      BY <1>1, <3>1
    <3>6. Once(T, f[m] \o ss[m + 1])
      BY <3>1, <3>2, <3>4, <3>5, ConcatOnce
    <3>7. ToSet(f[m + 1]) = ToSet(f[m]) \union ToSet(ss[m + 1])
      BY <3>2, ElementsOfConcat
    <3>8. m + 1 \in 1 .. m + 1 /\ 1 .. m \subseteq 1 .. m + 1
      BY <3>1
    <3>9. Good(m + 1)
      BY <3>1, <3>2, <3>6, <3>7, <3>8
    <3> QED BY <3>1, <3>9
  <2>4. 1 .. n \subseteq P
    <3>1. P \in SUBSET Nat
      OBVIOUS
    <3> HIDE DEF P
    <3> QED BY <1>2, <2>2, <2>3, <3>1, InductionUpTo
  <2>5. n \in 1 .. n
    BY <1>2, <1>4
  <2>6. Good(n)
    BY <1>2, <2>4, <2>5
  <2> QED BY <2>1, <2>6
<1> QED BY <1>2, <1>3, <1>4

=============================================================================
