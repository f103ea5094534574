------------------------- MODULE SchemaAltersProofs -------------------------
(***************************************************************************)
(* Theorems about SchemaAlters: tables keep their types; a safe alter      *)
(* loses nothing; alters of GetAlters are refused for types that foreign   *)
(* keys hold, and for nothing else; and after three rounds of them there   *)
(* is nothing left to alter.                                               *)
(***************************************************************************)
EXTENDS SchemaAlters, WellFoundedInduction, SequenceTheorems, FiniteSetTheorems, TLAPS

-----------------------------------------------------------------------------
(* Numbers.                                                                *)

LEMMA LeastNumber ==
  ASSUME NEW T \in SUBSET Nat, T # {}
  PROVE  \E n \in T : \A m \in T : n <= m
  <1> DEFINE R == {ss \in Nat \X Nat : ss[1] < ss[2]}
  <1>1. IsWellFoundedOn(R, Nat)
    BY NatLessThanWellFounded DEF OpToRel
  <1> HIDE DEF R
  <1>2. PICK n \in T : \A m \in T : ~(<<m, n>> \in R)
    BY <1>1, WFMin
  <1>3. \A m \in T : ~(m < n)
    BY <1>2 DEF R
  <1>4. \A m \in T : m \in Nat /\ n \in Nat
    OBVIOUS
  <1> QED
    BY <1>2, <1>3, <1>4

\* A growing function from the first n numbers onto the first m.
Growing(g, n, m) ==
  /\ g \in [1 .. n -> 1 .. m]
  /\ \A i, j \in 1 .. n : i < j => g[i] < g[j]
  /\ \A k \in 1 .. m : \E i \in 1 .. n : g[i] = k
Stays(g, n) == \A i \in 1 .. n : g[i] = i

LEMMA GrowingStays ==
  ASSUME NEW n \in Nat, NEW m \in Nat, NEW g, Growing(g, n, m)
  PROVE  n = m /\ Stays(g, n)
  <1>0. /\ g \in [1 .. n -> 1 .. m]
        /\ \A i, j \in 1 .. n : i < j => g[i] < g[j]
        /\ \A k \in 1 .. m : \E i \in 1 .. n : g[i] = k
    BY DEF Growing
  <1> DEFINE T == {i \in 1 .. n : g[i] # i}
  <1>1. ASSUME T # {} PROVE FALSE
    <2>1. T \in SUBSET Nat
      OBVIOUS
    <2> HIDE DEF T
    <2>2. PICK p \in T : \A i \in T : p <= i
      BY <1>1, <2>1, LeastNumber
    <2> USE DEF T
    <2>3. p \in 1 .. n /\ g[p] # p /\ g[p] \in 1 .. m
      BY <1>0
    <2>4. \A i \in 1 .. n : i < p => g[i] = i
      BY <2>2, <2>3
    <2>5. CASE g[p] < p
      <3>1. g[p] \in 1 .. n /\ g[g[p]] = g[p]
        BY <2>3, <2>4, <2>5
      <3> QED
        BY <1>0, <2>3, <2>5, <3>1
    <2>6. CASE g[p] > p
      <3>1. PICK i \in 1 .. n : g[i] = p
        BY <1>0, <2>3, <2>6
      <3>2. i < p \/ i = p \/ p < i
        BY <2>3
      <3>3. g[i] \in Int
        BY <1>0
      <3> QED
        BY <1>0, <2>3, <2>4, <2>6, <3>1, <3>2, <3>3
    <2> QED
      BY <2>3, <2>5, <2>6
  <1>2. \A i \in 1 .. n : g[i] = i
    BY <1>1
  <1> HIDE DEF T
  <1>3. n <= m
    <2>1. n = 0 \/ n \in 1 .. n
      OBVIOUS
    <2> QED
      BY <1>0, <1>2, <2>1
  <1>4. m <= n
    <2>1. m = 0 \/ m \in 1 .. m
      OBVIOUS
    <2>2. m \in 1 .. m => \E i \in 1 .. n : g[i] = m
      BY <1>0
    <2> QED
      BY <1>2, <2>1, <2>2
  <1> QED
    BY <1>2, <1>3, <1>4 DEF Stays

-----------------------------------------------------------------------------
(* What is at some places of a sequence.                                   *)

\* The step of Only's recursion.
OnlyUpTo(s, I, n, q) == IF n \in I THEN Append(q, s[n]) ELSE q

LEMMA OnlyRecursion ==
  ASSUME NEW s, Len(s) \in Nat, NEW I
  PROVE  \E f : /\ f[0] = << >>
                /\ \A n \in 1 .. Len(s) : f[n] = OnlyUpTo(s, I, n, f[n - 1])
                /\ Only(s, I) = f[Len(s)]
  <1> DEFINE N == Len(s)
             Next1(f, n) == IF n = 0 THEN << >> ELSE IF n \in I THEN Append(f[n - 1], s[n]) ELSE f[n - 1]
             Rec(f, m) == f = [n \in 0 .. m |-> Next1(f, n)]
             T == {m \in 0 .. N : ~\E f : Rec(f, m)}
  <1>1. T = {}
    <2> SUFFICES ASSUME T # {} PROVE FALSE
      OBVIOUS
    <2>1. T \in SUBSET Nat
      OBVIOUS
    <2> HIDE DEF T
    <2>2. PICK n \in T : \A m \in T : n <= m
      BY <2>1, LeastNumber
    <2>6. n \in Nat /\ n - 1 \notin T
      BY <2>1, <2>2
    <2> USE DEF T
    <2>3. n \in 0 .. N /\ ~\E f : Rec(f, n)
      OBVIOUS
    <2>4. CASE n = 0
      <3> DEFINE h == [k \in 0 .. 0 |-> << >>]
      <3>1. Rec(h, 0)
        OBVIOUS
      <3> HIDE DEF Rec, h
      <3> QED
        BY <2>3, <2>4, <3>1
    <2>5. CASE n # 0
      <3>1. n - 1 \in 0 .. N
        BY <2>3, <2>5
      <3>2. PICK f : Rec(f, n - 1)
        BY <2>6, <3>1
      <3> DEFINE h == [k \in 0 .. n |-> IF k = n THEN Next1(f, n) ELSE f[k]]
      <3>3. ASSUME NEW k \in 0 .. n PROVE h[k] = Next1(h, k)
        <4>1. CASE k = n
          <5>1. h[n - 1] = f[n - 1]
            BY <2>3, <2>5
          <5>2. h[n] = Next1(f, n)
            BY <2>3
          <5> QED
            BY <2>5, <4>1, <5>1, <5>2
        <4>2. CASE k # n
          <5>1. k \in 0 .. n - 1 /\ h[k] = f[k]
            BY <2>3, <4>2
          <5>2. f[k] = Next1(f, k)
            BY <3>2, <5>1
          <5>3. k # 0 => k - 1 \in 0 .. n /\ k - 1 # n
            BY <2>3, <5>1
          <5>4. k # 0 => h[k - 1] = f[k - 1]
            BY <5>3
          <5> QED
            BY <5>1, <5>2, <5>4
        <4> QED
          BY <4>1, <4>2
      <3>4. h \in [0 .. n -> {h[k] : k \in 0 .. n}] /\ DOMAIN h = 0 .. n
        OBVIOUS
      <3>5. h = [k \in 0 .. n |-> h[k]]
        OBVIOUS
      <3> HIDE DEF h
      <3>6. Rec(h, n)
        BY <3>3, <3>5
      <3> QED
        BY <2>3, <3>6
    <2> QED
      BY <2>4, <2>5
  <1> DEFINE upTo == CHOOSE f : Rec(f, N)
  <1>2. Rec(upTo, N)
    <2>1. N \in 0 .. N /\ N \notin T
      BY <1>1
    <2>2. \E f : Rec(f, N)
      BY <2>1
    <2> HIDE DEF Rec
    <2> QED
      BY <2>2
  <1>3. Only(s, I) = upTo[N]
    BY DEF Only
  <1> HIDE DEF upTo
  <1>4. upTo[0] = << >> /\ \A n \in 1 .. N : upTo[n] = OnlyUpTo(s, I, n, upTo[n - 1])
    <2>1. \A n \in 0 .. N : upTo[n] = Next1(upTo, n)
      BY <1>2
    <2>2. 0 \in 0 .. N /\ \A n \in 1 .. N : n \in 0 .. N /\ n # 0
      OBVIOUS
    <2> QED
      BY <2>1, <2>2 DEF OnlyUpTo
  <1> QED
    BY <1>3, <1>4

\* The places among the first n of s from which q has its elements.
Picks(q, s, I, n, g) ==
  /\ g \in [1 .. Len(q) -> 1 .. n]
  /\ \A j \in 1 .. Len(q) : g[j] \in I /\ q[j] = s[g[j]]
  /\ \A i, j \in 1 .. Len(q) : i < j => g[i] < g[j]
  /\ \A i \in I \cap 1 .. n : \E j \in 1 .. Len(q) : g[j] = i

LEMMA PicksMore ==
  ASSUME NEW X, NEW s \in Seq(X), NEW I, NEW n \in 1 .. Len(s), NEW q \in Seq(X), NEW g, Picks(q, s, I, n - 1, g)
  PROVE  /\ OnlyUpTo(s, I, n, q) \in Seq(X)
         /\ \E h : Picks(OnlyUpTo(s, I, n, q), s, I, n, h)
  <1>1. CASE n \notin I
    <2>1. OnlyUpTo(s, I, n, q) = q
      BY <1>1 DEF OnlyUpTo
    <2>2. 1 .. n - 1 \subseteq 1 .. n
      OBVIOUS
    <2>3. g \in [1 .. Len(q) -> 1 .. n]
      BY <2>2 DEF Picks
    <2>4. \A i \in I \cap 1 .. n : i \in I \cap 1 .. n - 1
      BY <1>1
    <2>5. Picks(q, s, I, n, g)
      BY <2>3, <2>4 DEF Picks
    <2> QED
      BY <2>1, <2>5
  <1>2. CASE n \in I
    <2> DEFINE l == Len(q) + 1
               r == Append(q, s[n])
               h == [j \in 1 .. l |-> IF j = l THEN n ELSE g[j]]
    <2>1. OnlyUpTo(s, I, n, q) = r
      BY <1>2 DEF OnlyUpTo
    <2>2. s[n] \in X /\ r \in Seq(X) /\ Len(r) = l /\ Len(q) \in Nat
      OBVIOUS
    <2>3. r[l] = s[n] /\ \A j \in 1 .. Len(q) : r[j] = q[j]
      OBVIOUS
    <2>4. h[l] = n /\ \A j \in 1 .. Len(q) : h[j] = g[j] /\ g[j] \in 1 .. n - 1
      BY <2>2 DEF Picks
    <2>5. \A j \in 1 .. l : j = l \/ j \in 1 .. Len(q)
      BY <2>2
    <2>6. h = [j \in 1 .. l |-> h[j]]
      OBVIOUS
    <2> HIDE DEF h, r
    <2>7. h \in [1 .. l -> 1 .. n]
      <3>1. n \in 1 .. n /\ 1 .. n - 1 \subseteq 1 .. n
        OBVIOUS
      <3>2. \A j \in 1 .. l : h[j] \in 1 .. n
        BY <2>4, <2>5, <3>1
      <3> QED
        BY <2>6, <3>2
    <2>8. \A j \in 1 .. l : h[j] \in I /\ r[j] = s[h[j]]
      BY <1>2, <2>3, <2>4, <2>5 DEF Picks
    <2>9. \A i, j \in 1 .. l : i < j => h[i] < h[j]
      <3> SUFFICES ASSUME NEW i \in 1 .. l, NEW j \in 1 .. l, i < j PROVE h[i] < h[j]
        OBVIOUS
      <3>1. i \in 1 .. Len(q)
        BY <2>2
      <3> QED
        BY SMTT(30), <2>4, <2>5, <3>1 DEF Picks
    <2>10. \A i \in I \cap 1 .. n : \E j \in 1 .. l : h[j] = i
      <3> SUFFICES ASSUME NEW i \in I \cap 1 .. n PROVE \E j \in 1 .. l : h[j] = i
        OBVIOUS
      <3>1. CASE i = n
        BY <2>2, <2>4, <3>1
      <3>2. CASE i # n
        <4>1. i \in I \cap 1 .. n - 1
          BY <3>2
        <4>2. PICK j \in 1 .. Len(q) : g[j] = i
          BY <4>1 DEF Picks
        <4> QED
          BY <2>2, <2>4, <4>2
      <3> QED
        BY <3>1, <3>2
    <2>11. Picks(r, s, I, n, h)
      BY <2>2, <2>7, <2>8, <2>9, <2>10 DEF Picks
    <2> QED
      BY <2>1, <2>2, <2>11
  <1> QED
    BY <1>1, <1>2

LEMMA OnlyIs ==
  ASSUME NEW X, NEW s \in Seq(X), NEW I
  PROVE  /\ Only(s, I) \in Seq(X)
         /\ \E g : Picks(Only(s, I), s, I, Len(s), g)
  <1>1. PICK f : /\ f[0] = << >>
                 /\ \A n \in 1 .. Len(s) : f[n] = OnlyUpTo(s, I, n, f[n - 1])
                 /\ Only(s, I) = f[Len(s)]
    BY OnlyRecursion
  <1> DEFINE T == {n \in 0 .. Len(s) : ~(f[n] \in Seq(X) /\ \E g : Picks(f[n], s, I, n, g))}
  <1>2. ASSUME T # {} PROVE FALSE
    <2>1. T \in SUBSET Nat
      OBVIOUS
    <2> HIDE DEF T
    <2>2. PICK n \in T : \A m \in T : n <= m
      BY <1>2, <2>1, LeastNumber
    <2>3. n \in Nat /\ n - 1 \notin T
      BY <2>1, <2>2
    <2> USE DEF T
    <2>4. n \in 0 .. Len(s) /\ ~(f[n] \in Seq(X) /\ \E g : Picks(f[n], s, I, n, g))
      OBVIOUS
    <2>5. CASE n = 0
      <3>1. f[0] = << >> /\ << >> \in Seq(X) /\ Len(<< >>) = 0
        BY <1>1
      <3> DEFINE g == [j \in 1 .. 0 |-> 1]
      <3>2. Picks(<< >>, s, I, 0, g)
        BY <3>1 DEF Picks
      <3> HIDE DEF g
      <3> QED
        BY <2>4, <2>5, <3>1, <3>2
    <2>6. CASE n # 0
      <3>1. n \in 1 .. Len(s) /\ n - 1 \in 0 .. Len(s)
        BY <2>4, <2>6
      <3>2. f[n - 1] \in Seq(X) /\ \E g : Picks(f[n - 1], s, I, n - 1, g)
        BY <2>3, <3>1
      <3>3. PICK g : Picks(f[n - 1], s, I, n - 1, g)
        BY <3>2
      <3>4. f[n] = OnlyUpTo(s, I, n, f[n - 1])
        BY <1>1, <3>1
      <3> QED
        BY <2>4, <3>1, <3>2, <3>3, <3>4, PicksMore
    <2> QED
      BY <2>5, <2>6
  <1>3. Len(s) \in 0 .. Len(s) /\ Len(s) \notin T
    BY <1>2
  <1> QED
    BY <1>1, <1>3

\* The elements that are at some places.
LEMMA OnlySet ==
  ASSUME NEW X, NEW s \in Seq(X), NEW I
  PROVE  ToSet(Only(s, I)) = {s[i] : i \in I \cap DOMAIN s}
  <1>1. PICK g : Picks(Only(s, I), s, I, Len(s), g)
    BY OnlyIs
  <1>2. Only(s, I) \in Seq(X) /\ DOMAIN Only(s, I) = 1 .. Len(Only(s, I)) /\ DOMAIN s = 1 .. Len(s)
    BY OnlyIs
  <1>3. ASSUME NEW j \in 1 .. Len(Only(s, I)) PROVE Only(s, I)[j] \in {s[i] : i \in I \cap DOMAIN s}
    BY <1>1, <1>2 DEF Picks
  <1>4. ASSUME NEW i \in I \cap DOMAIN s PROVE \E j \in 1 .. Len(Only(s, I)) : Only(s, I)[j] = s[i]
    BY <1>1, <1>2 DEF Picks
  <1> QED
    BY <1>2, <1>3, <1>4 DEF ToSet

\* The first of s stays the first.
LEMMA OnlyFirst ==
  ASSUME NEW X, NEW s \in Seq(X), NEW I, 1 \in I, s # << >>
  PROVE  Only(s, I) # << >> /\ Only(s, I)[1] = s[1]
  <1>1. PICK g : Picks(Only(s, I), s, I, Len(s), g)
    BY OnlyIs
  <1>2. Only(s, I) \in Seq(X) /\ Len(Only(s, I)) \in Nat /\ 1 \in 1 .. Len(s)
    BY OnlyIs
  <1>3. PICK j \in 1 .. Len(Only(s, I)) : g[j] = 1
    BY <1>1, <1>2 DEF Picks
  <1>4. j = 1
    <2>1. 1 \in 1 .. Len(Only(s, I)) /\ (j = 1 \/ 1 < j)
      BY <1>2
    <2>2. g[1] >= 1 /\ g[1] \in Int
      BY <1>1, <2>1 DEF Picks
    <2> QED
      BY <1>1, <1>3, <2>1, <2>2 DEF Picks
  <1>5. 1 \in 1 .. Len(Only(s, I)) /\ Only(s, I) # << >>
    BY <1>2, <1>4
  <1> QED
    BY <1>1, <1>3, <1>4, <1>5 DEF Picks

-----------------------------------------------------------------------------
(* Sequences of anything.                                                  *)

IsSeq(s) == s \in Seq(ToSet(s))

LEMMA SeqIs ==
  ASSUME NEW s, IsSeq(s)
  PROVE  /\ Len(s) \in Nat /\ DOMAIN s = 1 .. Len(s)
         /\ \A i \in 1 .. Len(s) : s[i] \in ToSet(s)
         /\ \A x \in ToSet(s) : \E i \in 1 .. Len(s) : s[i] = x
  <1>1. Len(s) \in Nat /\ DOMAIN s = 1 .. Len(s)
    BY DEF IsSeq
  <1> QED
    BY <1>1 DEF ToSet

LEMMA SeqAny ==
  ASSUME NEW X, NEW s \in Seq(X)
  PROVE  IsSeq(s)
  <1>1. Len(s) \in Nat /\ DOMAIN s = 1 .. Len(s) /\ s = [i \in 1 .. Len(s) |-> s[i]]
    OBVIOUS
  <1>2. \A i \in 1 .. Len(s) : s[i] \in ToSet(s)
    BY <1>1 DEF ToSet
  <1>3. s \in [1 .. Len(s) -> ToSet(s)]
    BY <1>1, <1>2
  <1> QED
    BY <1>1, <1>3 DEF IsSeq

LEMMA SeqOfFunction ==
  ASSUME NEW n \in Nat, NEW s, s = [i \in 1 .. n |-> s[i]]
  PROVE  IsSeq(s) /\ Len(s) = n
  <1>1. DOMAIN s = 1 .. n
    OBVIOUS
  <1>2. \A i \in 1 .. n : s[i] \in ToSet(s)
    BY <1>1 DEF ToSet
  <1>3. s \in [1 .. n -> ToSet(s)]
    BY <1>2
  <1>4. s \in Seq(ToSet(s))
    BY <1>3
  <1> QED
    BY <1>1, <1>4 DEF IsSeq

LEMMA SeqJoin ==
  ASSUME NEW s, IsSeq(s), NEW t, IsSeq(t)
  PROVE  /\ IsSeq(s \o t) /\ Len(s \o t) = Len(s) + Len(t)
         /\ \A i \in 1 .. Len(s) : (s \o t)[i] = s[i]
         /\ \A i \in 1 .. Len(t) : (s \o t)[Len(s) + i] = t[i]
         /\ \A i \in 1 .. Len(s \o t) : i \in 1 .. Len(s) \/ i - Len(s) \in 1 .. Len(t)
         /\ ToSet(s \o t) = ToSet(s) \cup ToSet(t)
  <1> DEFINE X == ToSet(s) \cup ToSet(t)
             u == s \o t
  <1>0. Len(s) \in Nat /\ Len(t) \in Nat
    BY SeqIs
  <1>1. s \in Seq(X) /\ t \in Seq(X)
    <2>1. s \in [1 .. Len(s) -> X] /\ t \in [1 .. Len(t) -> X]
      BY <1>0, SeqIs DEF IsSeq
    <2> QED
      BY <1>0, <2>1
  <1>2. /\ u \in Seq(X) /\ Len(u) = Len(s) + Len(t)
        /\ \A i \in 1 .. Len(s) + Len(t) : u[i] = IF i <= Len(s) THEN s[i] ELSE t[i - Len(s)]
    BY <1>1, ConcatProperties
  <1> HIDE DEF u, X
  <1>3. \A i \in 1 .. Len(s) : u[i] = s[i]
    BY <1>0, <1>2
  <1>4. \A i \in 1 .. Len(t) : u[Len(s) + i] = t[i]
    <2> SUFFICES ASSUME NEW i \in 1 .. Len(t) PROVE u[Len(s) + i] = t[i]
      OBVIOUS
    <2>1. Len(s) + i \in 1 .. Len(s) + Len(t) /\ ~(Len(s) + i <= Len(s)) /\ Len(s) + i - Len(s) = i
      BY <1>0
    <2> QED
      BY <1>2, <2>1
  <1>5. \A i \in 1 .. Len(u) : i \in 1 .. Len(s) \/ i - Len(s) \in 1 .. Len(t)
    BY <1>0, <1>2
  <1>6. IsSeq(u)
    BY <1>2, SeqAny
  <1>7. ToSet(u) = ToSet(s) \cup ToSet(t)
    <2>1. ASSUME NEW x \in ToSet(u) PROVE x \in ToSet(s) \cup ToSet(t)
      <3>1. PICK i \in 1 .. Len(u) : u[i] = x
        BY <1>6, SeqIs
      <3>2. CASE i \in 1 .. Len(s)
        BY <1>3, <3>1, <3>2, SeqIs
      <3>3. CASE i - Len(s) \in 1 .. Len(t)
        <4>1. Len(s) + (i - Len(s)) = i
          BY <1>0
        <4>2. u[i] = t[i - Len(s)]
          BY <1>4, <3>3, <4>1
        <4> QED
          BY <3>1, <3>3, <4>2, SeqIs
      <3> QED
        BY <1>5, <3>2, <3>3
    <2>2. ASSUME NEW x \in ToSet(s) PROVE x \in ToSet(u)
      <3>1. PICK i \in 1 .. Len(s) : s[i] = x
        BY SeqIs
      <3>2. i \in 1 .. Len(u)
        BY <1>0, <1>2
      <3> QED
        BY <1>3, <1>6, <3>1, <3>2, SeqIs
    <2>3. ASSUME NEW x \in ToSet(t) PROVE x \in ToSet(u)
      <3>1. PICK i \in 1 .. Len(t) : t[i] = x
        BY SeqIs
      <3>2. Len(s) + i \in 1 .. Len(u)
        BY <1>0, <1>2
      <3> QED
        BY <1>4, <1>6, <3>1, <3>2, SeqIs
    <2> QED
      BY <2>1, <2>2, <2>3
  <1> QED
    BY <1>2, <1>3, <1>4, <1>5, <1>6, <1>7 DEF u

LEMMA SeqJoinLast ==
  ASSUME NEW s, IsSeq(s), NEW t, IsSeq(t)
  PROVE  \A i \in 1 .. Len(t) : (s \o t)[Len(s) + i] = t[i]
  BY SeqJoin

LEMMA OnlySeq ==
  ASSUME NEW s, IsSeq(s), NEW I
  PROVE  /\ IsSeq(Only(s, I)) /\ \E g : Picks(Only(s, I), s, I, Len(s), g)
         /\ ToSet(Only(s, I)) = {s[i] : i \in I \cap DOMAIN s}
         /\ 1 \in I /\ s # << >> => Only(s, I) # << >> /\ Only(s, I)[1] = s[1]
  BY OnlyIs, OnlySet, OnlyFirst, SeqAny DEF IsSeq

-----------------------------------------------------------------------------
(* Names.                                                                  *)

OwnNames(s) == \A i, j \in DOMAIN s : s[i].name = s[j].name => i = j

LEMMA NamesAre ==
  ASSUME NEW s
  PROVE  /\ NamesIn(s) = {x.name : x \in ToSet(s)}
         /\ OwnNames(s) => \A x, y \in ToSet(s) : x.name = y.name => x = y
  BY DEF NamesIn, ToSet, OwnNames

LEMMA OnlyNames ==
  ASSUME NEW s, IsSeq(s), NEW I, OwnNames(s)
  PROVE  OwnNames(Only(s, I))
  <1> DEFINE q == Only(s, I)
  <1>1. IsSeq(q) /\ DOMAIN q = 1 .. Len(q) /\ Len(q) \in Nat /\ DOMAIN s = 1 .. Len(s)
    BY OnlySeq, SeqIs
  <1>2. PICK g : Picks(q, s, I, Len(s), g)
    BY OnlySeq
  <1> HIDE DEF q
  <1> SUFFICES ASSUME NEW i \in 1 .. Len(q), NEW j \in 1 .. Len(q), q[i].name = q[j].name PROVE i = j
    BY <1>1 DEF OwnNames, q
  <1>3. g[i] = g[j]
    BY <1>1, <1>2 DEF Picks, OwnNames
  <1>4. i < j \/ j < i \/ i = j
    BY <1>1
  <1>5. g[i] \in Int /\ g[j] \in Int
    BY <1>2 DEF Picks
  <1> QED
    BY <1>2, <1>3, <1>4, <1>5 DEF Picks

-----------------------------------------------------------------------------
(* What the entities of a release ask for.                                 *)

LEMMA EntityIs ==
  ASSUME NEW r \in Releases, IsValid(r), NEW e \in r.entities
  PROVE  /\ IsEntity(e, r) /\ e.fields \in Seq(Field)
         /\ \A other \in r.entities : other.table = e.table => other = e
  <1>1. r \in Registry /\ IsEntity(e, r)
    BY ReleasesAssumption
  <1>2. e \in Entity
    BY <1>1 DEF Registry
  <1>3. e.fields \in Seq(Field)
    BY <1>2 DEF Entity
  <1> QED
    BY <1>1, <1>3 DEF IsEntity

\* The fields that are columns.
Kept(e) == Only(e.fields, {i \in DOMAIN e.fields : IsColumn(e.fields[i])})

LEMMA KeptIs ==
  ASSUME NEW r \in Releases, IsValid(r), NEW e \in r.entities
  PROVE  /\ IsSeq(Kept(e)) /\ OwnNames(Kept(e)) /\ Kept(e) # << >> /\ Kept(e)[1] = e.fields[1]
         /\ ToSet(Kept(e)) = {f \in ToSet(e.fields) : IsColumn(f)}
  <1> DEFINE s == e.fields
             I == {i \in DOMAIN s : IsColumn(s[i])}
  <1>1. IsSeq(s) /\ IsEntity(e, r)
    BY EntityIs, SeqAny
  <1>2. Len(s) \in Nat /\ DOMAIN s = 1 .. Len(s)
    BY <1>1, SeqIs
  <1>3. OwnNames(s)
    <2>1. IsInjective([i \in DOMAIN s |-> s[i].name])
      BY <1>1 DEF IsEntity
    <2> QED
      BY <2>1 DEF IsInjective, OwnNames
  <1>4. s # << >> /\ 1 \in I
    <2>1. s # << >> /\ IsColumn(s[1])
      BY <1>1 DEF IsEntity
    <2>2. Len(s) # 0
      BY <1>1, <2>1 DEF IsSeq
    <2> QED
      BY <1>2, <2>1, <2>2
  <1>5. ToSet(Only(s, I)) = {s[i] : i \in I \cap DOMAIN s}
    BY <1>1, OnlySeq
  <1>6. {s[i] : i \in I \cap DOMAIN s} = {f \in ToSet(s) : IsColumn(f)}
    BY DEF ToSet
  <1> HIDE DEF I
  <1>7. IsSeq(Only(s, I)) /\ OwnNames(Only(s, I)) /\ Only(s, I) # << >> /\ Only(s, I)[1] = s[1]
    BY <1>1, <1>3, <1>4, OnlySeq, OnlyNames
  <1> QED
    BY <1>5, <1>6, <1>7 DEF Kept, I

\* A column for each of them, the first is ID, and the last may be FakeDelete.
LEMMA ColumnsAre ==
  ASSUME NEW r \in Releases, IsValid(r), NEW e \in r.entities
  PROVE  /\ IsSeq(Columns(e, r)) /\ OwnNames(Columns(e, r)) /\ Columns(e, r) # << >>
         /\ Columns(e, r)[1].name = "ID" /\ Columns(e, r)[1].type = ColumnType(e.fields[1], r)
         /\ None \notin NamesIn(Columns(e, r))
         /\ \A f \in ToSet(e.fields) : IsColumn(f) =>
               \E c \in ToSet(Columns(e, r)) : c.name = f.name /\ c.type = ColumnType(f, r)
  <1> DEFINE fields == Kept(e)
             n == Len(fields)
             Of(i) == LET f == fields[i] IN
                      [name |-> f.name, type |-> ColumnType(f, r), notNull |-> IsNotNull(f),
                       default |-> IF f.name = "ID" THEN None ELSE Default(f), auto |-> i = 1 /\ ~e.uuid]
             s == [i \in 1 .. n |-> Of(i)]
             fake == [name |-> "FakeDelete", type |-> ColumnType(fields[1], r), notNull |-> TRUE,
                      default |-> "zero", auto |-> FALSE]
             t == IF ~e.fakeDelete THEN << >> ELSE <<fake>>
  <1>1. Columns(e, r) = s \o t
    BY DEF Columns, Kept
  <1>2. /\ IsSeq(fields) /\ OwnNames(fields) /\ fields # << >> /\ fields[1] = e.fields[1]
        /\ ToSet(fields) = {f \in ToSet(e.fields) : IsColumn(f)}
    BY KeptIs
  <1>3. n \in Nat /\ DOMAIN fields = 1 .. n /\ 1 \in 1 .. n
    <2>1. n \in Nat /\ DOMAIN fields = 1 .. n
      BY <1>2, SeqIs
    <2>2. n # 0
      BY <1>2 DEF IsSeq
    <2> QED
      BY <2>1, <2>2
  <1>4. \A i \in 1 .. n : Of(i).name = fields[i].name /\ Of(i).type = ColumnType(fields[i], r)
    OBVIOUS
  <1>5. e.fields[1].name = "ID" /\ NamesIn(e.fields) \cap {None, "FakeDelete"} = {}
    BY EntityIs DEF IsEntity
  <1>6. \A i \in 1 .. n : fields[i].name \in NamesIn(e.fields)
    BY <1>2, <1>3, SeqIs, NamesAre
  <1> HIDE DEF Of, fields, n
  <1>7. IsSeq(s) /\ Len(s) = n
    BY <1>3, SeqOfFunction
  <1>8. \A i \in 1 .. n : s[i].name = fields[i].name /\ s[i].type = ColumnType(fields[i], r)
    BY <1>4
  <1> HIDE DEF s
  <1>9. IsSeq(t) /\ (Len(t) = 0 \/ (Len(t) = 1 /\ t[1].name = "FakeDelete"))
    <2>1. IsSeq(<< >>) /\ Len(<< >>) = 0
      BY DEF IsSeq
    <2>2. \A x : <<x>> \in Seq({x}) /\ Len(<<x>>) = 1 /\ <<x>>[1] = x
      OBVIOUS
    <2>3. IsSeq(<<fake>>)
      BY <2>2, SeqAny
    <2> QED
      BY <2>1, <2>2, <2>3
  <1> HIDE DEF t
  <1> DEFINE c == s \o t
  <1>10. /\ IsSeq(c) /\ Len(c) = n + Len(t) /\ Len(t) \in {0, 1}
         /\ \A i \in 1 .. n : c[i] = s[i]
         /\ \A i \in 1 .. Len(t) : c[n + i] = t[i]
         /\ \A i \in 1 .. Len(c) : i \in 1 .. n \/ i - n \in 1 .. Len(t)
         /\ ToSet(c) = ToSet(s) \cup ToSet(t)
    <2>1. /\ IsSeq(c) /\ Len(c) = Len(s) + Len(t)
          /\ \A i \in 1 .. Len(s) : c[i] = s[i]
          /\ \A i \in 1 .. Len(t) : c[Len(s) + i] = t[i]
          /\ \A i \in 1 .. Len(c) : i \in 1 .. Len(s) \/ i - Len(s) \in 1 .. Len(t)
          /\ ToSet(c) = ToSet(s) \cup ToSet(t)
      BY <1>7, <1>9, SeqJoin
    <2> HIDE DEF c
    <2> QED
      BY <1>7, <1>9, <2>1
  <1> HIDE DEF c
  <1>11. Len(c) \in Nat /\ DOMAIN c = 1 .. Len(c) /\ c # << >>
    <2>1. Len(c) # 0
      BY <1>3, <1>10
    <2> QED
      BY <1>10, <2>1, SeqIs
  <1>12. \A i \in 1 .. n : c[i].name = fields[i].name
    BY <1>8, <1>10
  <1>13. \A i \in 1 .. Len(c) : i \in 1 .. n \/ (Len(t) = 1 /\ i = n + 1 /\ c[i].name = "FakeDelete")
    <2> SUFFICES ASSUME NEW i \in 1 .. Len(c), i \notin 1 .. n
                 PROVE  Len(t) = 1 /\ i = n + 1 /\ c[i].name = "FakeDelete"
      OBVIOUS
    <2>1. Len(t) = 1 /\ i = n + 1
      BY <1>3, <1>10
    <2>2. 1 \in 1 .. Len(t) /\ c[n + 1] = t[1]
      BY <1>10, <2>1
    <2> QED
      BY <1>9, <2>1, <2>2
  <1>14. OwnNames(c)
    <2> SUFFICES ASSUME NEW i \in 1 .. Len(c), NEW j \in 1 .. Len(c), c[i].name = c[j].name PROVE i = j
      BY <1>11 DEF OwnNames
    <2>1. CASE i \in 1 .. n /\ j \in 1 .. n
      BY <1>2, <1>3, <1>12, <2>1 DEF OwnNames
    <2>2. CASE i \notin 1 .. n /\ j \notin 1 .. n
      BY <1>13, <2>2
    <2>3. CASE (i \in 1 .. n) # (j \in 1 .. n)
      BY <1>5, <1>6, <1>12, <1>13, <2>3
    <2> QED
      BY <2>1, <2>2, <2>3
  <1>15. c[1].name = "ID" /\ c[1].type = ColumnType(e.fields[1], r)
    BY <1>2, <1>3, <1>5, <1>8, <1>10
  <1>16. None \notin NamesIn(c)
    BY <1>5, <1>6, <1>11, <1>12, <1>13 DEF NamesIn, None
  <1>17. ASSUME NEW f \in ToSet(e.fields), IsColumn(f)
         PROVE  \E x \in ToSet(c) : x.name = f.name /\ x.type = ColumnType(f, r)
    <2>1. PICK i \in 1 .. n : fields[i] = f
      BY <1>2, <1>3, <1>17, SeqIs DEF n
    <2>2. s[i] \in ToSet(s)
      BY <1>7, SeqIs
    <2> QED
      BY <1>8, <1>10, <2>1, <2>2
  <1> QED
    BY <1>1, <1>10, <1>11, <1>14, <1>15, <1>16, <1>17 DEF c

\* A foreign key for each reference, with its name and the type of the ID it refers to.
LEMMA ForeignKeysAre ==
  ASSUME NEW r \in Releases, IsValid(r), NEW e \in r.entities, NEW fk \in ForeignKeys(e, r)
  PROVE  /\ fk = [name |-> <<e.table, fk.column>>, column |-> fk.column, table |-> fk.table, onDelete |-> "RESTRICT"]
         /\ \E other \in r.entities :
               /\ other.table = fk.table
               /\ \E c \in ToSet(Columns(e, r)) : c.name = fk.column /\ c.type = Columns(other, r)[1].type
         /\ \A same \in ForeignKeys(e, r) : same.name = fk.name => same = fk
         /\ \E k \in Keys(e, r) : Serves(k, fk)
  <1>1. PICK f \in Refs(e, r) :
           fk = [name |-> <<e.table, f.name>>, column |-> f.name, table |-> f.ref, onDelete |-> "RESTRICT"]
    BY DEF ForeignKeys
  <1>2. fk.name = <<e.table, f.name>> /\ fk.column = f.name /\ fk.table = f.ref
    BY <1>1
  <1>3. f \in ToSet(e.fields) /\ f.type = "ref" /\ IsColumn(f)
    BY DEF Refs
  <1>4. PICK other \in r.entities : other.table = f.ref
    BY <1>3, EntityIs DEF IsEntity
  <1>5. Named(r, f.ref) = other
    BY <1>4, EntityIs DEF Named
  <1>6. ColumnType(f, r) = ColumnType(other.fields[1], r)
    BY <1>5, EntityIs DEF IsEntity
  <1>7. ColumnType(other.fields[1], r) = Columns(other, r)[1].type
    BY ColumnsAre
  <1>8. \E c \in ToSet(Columns(e, r)) : c.name = f.name /\ c.type = ColumnType(f, r)
    BY <1>3, ColumnsAre
  <1>9. ASSUME NEW same \in ForeignKeys(e, r), same.name = fk.name PROVE same = fk
    <2>1. PICK g \in Refs(e, r) :
             same = [name |-> <<e.table, g.name>>, column |-> g.name, table |-> g.ref, onDelete |-> "RESTRICT"]
      BY DEF ForeignKeys
    <2>2. <<e.table, g.name>> = <<e.table, f.name>>
      BY <1>2, <1>9, <2>1
    <2>3. g.name = f.name
      BY <2>2
    <2>4. g \in ToSet(e.fields)
      BY DEF Refs
    <2>5. OwnNames(e.fields)
      BY EntityIs DEF IsEntity, IsInjective, OwnNames
    <2>6. g = f
      BY <1>3, <2>3, <2>4, <2>5, NamesAre
    <2> QED
      BY <1>1, <2>1, <2>6
  <1>10. \E k \in Keys(e, r) : Serves(k, fk)
    <2>1. CASE \E k \in TaggedKeys(e) : k.columns[1] = f.name
      BY <1>2, <2>1 DEF Keys, Serves
    <2>2. CASE \A k \in TaggedKeys(e) : k.columns[1] # f.name
      <3> DEFINE k == [name |-> <<f.name>>, columns |-> <<f.name>>, unique |-> FALSE]
      <3>1. k \in Keys(e, r)
        BY <2>2 DEF Keys
      <3>2. k.columns[1] = f.name
        OBVIOUS
      <3> QED
        BY <1>2, <3>1, <3>2 DEF Serves
    <2> QED
      BY <2>1, <2>2
  <1> QED
    BY <1>1, <1>2, <1>4, <1>6, <1>7, <1>8, <1>9, <1>10

\* Indexes have one name each, of their own, and columns that are.
LEMMA KeysAre ==
  ASSUME NEW r \in Releases, IsValid(r), NEW e \in r.entities, NEW k \in Keys(e, r)
  PROVE  /\ k = [name |-> k.name, columns |-> k.columns, unique |-> k.unique]
         /\ \E n : k.name = <<n>>
         /\ \A l \in Keys(e, r) : k.name = l.name => k = l
         /\ k.columns # << >> /\ IsSeq(k.columns) /\ ToSet(k.columns) \subseteq NamesIn(Columns(e, r))
  <1>1. CASE k \in TaggedKeys(e)
    <2>1. k = [name |-> k.name, columns |-> k.columns, unique |-> k.unique] /\ \E n : k.name = <<n>>
      <3>1. CASE \E n \in KeysOf(e) : k = Tagged(e, n)
        BY <3>1 DEF Tagged
      <3>2. CASE \E u \in e.unique : k = [name |-> <<u.name>>, columns |-> u.columns, unique |-> TRUE]
        BY <3>2
      <3> QED
        BY <1>1, <3>1, <3>2 DEF TaggedKeys
    <2>2. k.columns # << >> /\ k.columns \in Seq(NamesIn(Columns(e, r)))
      BY <1>1, EntityIs DEF IsEntity
    <2>3. IsSeq(k.columns) /\ ToSet(k.columns) \subseteq NamesIn(Columns(e, r))
      BY <2>2, SeqAny DEF ToSet
    <2>4. \A l \in Keys(e, r) : k.name = l.name => k = l
      BY EntityIs DEF IsEntity
    <2> QED
      BY <2>1, <2>2, <2>3, <2>4
  <1>2. CASE \E f \in Refs(e, r) : k = [name |-> <<f.name>>, columns |-> <<f.name>>, unique |-> FALSE]
    <2>1. PICK f \in Refs(e, r) : k = [name |-> <<f.name>>, columns |-> <<f.name>>, unique |-> FALSE]
      BY <1>2
    <2>2. k.columns = <<f.name>>
      BY <2>1
    <2>3. <<f.name>> \in Seq({f.name}) /\ <<f.name>> # << >> /\ ToSet(<<f.name>>) = {f.name}
      BY DEF ToSet
    <2>4. f \in ToSet(e.fields) /\ IsColumn(f)
      BY DEF Refs
    <2>5. PICK c \in ToSet(Columns(e, r)) : c.name = f.name
      BY <2>4, ColumnsAre
    <2>6. f.name \in NamesIn(Columns(e, r))
      BY <2>5, NamesAre
    <2>7. \A l \in Keys(e, r) : k.name = l.name => k = l
      BY EntityIs DEF IsEntity
    <2> QED
      BY <2>1, <2>2, <2>3, <2>6, <2>7, SeqAny
  <1> QED
    BY <1>1, <1>2 DEF Keys

-----------------------------------------------------------------------------
(* Columns that are put after others.                                      *)

LEMMA InsertIs ==
  ASSUME NEW s, IsSeq(s), NEW p \in 1 .. Len(s), NEW x
  PROVE  /\ IsSeq(InsertAt(s, 1 + p, x)) /\ Len(InsertAt(s, 1 + p, x)) = Len(s) + 1
         /\ \A j \in 1 .. p : InsertAt(s, 1 + p, x)[j] = s[j]
         /\ InsertAt(s, 1 + p, x)[1 + p] = x
         /\ \A j \in 1 + p .. Len(s) : InsertAt(s, 1 + p, x)[j + 1] = s[j]
  <1> DEFINE X == ToSet(s) \cup {x}
             a == SubSeq(s, 1, p)
             b == SubSeq(s, 1 + p, Len(s))
             m == a \o <<x>>
             w == m \o b
  <1>1. InsertAt(s, 1 + p, x) = w
    <2>1. \A i : i - 1 = p => InsertAt(s, i, x) = a \o <<x>> \o SubSeq(s, i, Len(s))
      BY DEF InsertAt
    <2>2. 1 + p - 1 = p
      OBVIOUS
    <2>3. ASSUME NEW i, i = 1 + p PROVE InsertAt(s, i, x) = a \o <<x>> \o SubSeq(s, i, Len(s))
      <3>1. i - 1 = p
        BY <2>2, <2>3
      <3> QED
        BY <2>1, <3>1
    <2> QED
      BY <2>3
  <1>2. Len(s) \in Nat /\ \A i \in 1 .. Len(s) : s[i] \in X
    BY SeqIs
  <1>3. a \in Seq(X) /\ Len(a) = p /\ \A i \in 1 .. p : a[i] = s[i]
    <2>1. /\ a \in Seq(X) /\ Len(a) = IF 1 <= p THEN p - 1 + 1 ELSE 0
          /\ \A i \in 1 .. p - 1 + 1 : a[i] = s[1 + i - 1]
      BY <1>2, SubSeqProperties
    <2> HIDE DEF a
    <2> QED
      BY <2>1
  <1>4. b \in Seq(X) /\ Len(b) = Len(s) - p /\ \A i \in 1 .. Len(s) - p : b[i] = s[p + i]
    <2>1. \A i \in 1 + p .. Len(s) : s[i] \in X
      BY <1>2
    <2>2. /\ b \in Seq(X) /\ Len(b) = IF 1 + p <= Len(s) THEN Len(s) - (1 + p) + 1 ELSE 0
          /\ \A i \in 1 .. Len(s) - (1 + p) + 1 : b[i] = s[1 + p + i - 1]
      BY <1>2, <2>1, SubSeqProperties
    <2> HIDE DEF b
    <2> QED
      BY <1>2, <2>2
  <1>5. <<x>> \in Seq(X) /\ Len(<<x>>) = 1 /\ <<x>>[1] = x
    OBVIOUS
  <1> HIDE DEF a, b, X
  <1>6. m \in Seq(X) /\ Len(m) = 1 + p /\ m[1 + p] = x /\ \A j \in 1 .. p : m[j] = s[j]
    <2>1. /\ m \in Seq(X) /\ Len(m) = Len(a) + Len(<<x>>)
          /\ \A i \in 1 .. Len(a) + Len(<<x>>) : m[i] = IF i <= Len(a) THEN a[i] ELSE <<x>>[i - Len(a)]
      BY <1>3, <1>5, ConcatProperties
    <2> HIDE DEF m
    <2> QED
      BY <1>3, <1>5, <2>1
  <1> HIDE DEF m
  <1>7. /\ w \in Seq(X) /\ Len(w) = Len(m) + Len(b)
        /\ \A i \in 1 .. Len(m) + Len(b) : w[i] = IF i <= Len(m) THEN m[i] ELSE b[i - Len(m)]
    BY <1>4, <1>6, ConcatProperties
  <1> HIDE DEF w
  <1>8. Len(w) = Len(s) + 1
    BY <1>2, <1>4, <1>6, <1>7
  <1>9. \A j \in 1 .. p : w[j] = s[j]
    BY <1>2, <1>4, <1>6, <1>7
  <1>10. w[1 + p] = x
    BY SMTT(30), <1>2, <1>4, <1>6, <1>7
  <1>11. \A j \in 1 + p .. Len(s) : w[j + 1] = s[j]
    <2> SUFFICES ASSUME NEW j \in 1 + p .. Len(s) PROVE w[j + 1] = s[j]
      OBVIOUS
    <2>1. j + 1 \in 1 .. Len(m) + Len(b) /\ ~(j + 1 <= Len(m)) /\ j + 1 - Len(m) = j - p
      BY <1>2, <1>4, <1>6
    <2>2. j - p \in 1 .. Len(s) - p /\ p + (j - p) = j
      BY <1>2
    <2>3. w[j + 1] = b[j + 1 - Len(m)]
      BY <1>7, <2>1
    <2>4. b[j - p] = s[p + (j - p)]
      BY <1>4, <2>2
    <2> QED
      BY <2>1, <2>2, <2>3, <2>4
  <1> QED
    BY <1>1, <1>7, <1>8, <1>9, <1>10, <1>11, SeqAny

Before(q, x, z) == \E i, j \in DOMAIN q : i < j /\ q[i] = x /\ q[j] = z

LEMMA OnlyBefore ==
  ASSUME NEW s, IsSeq(s), NEW I, NEW i \in I \cap DOMAIN s, NEW j \in I \cap DOMAIN s, i < j
  PROVE  Before(Only(s, I), s[i], s[j])
  <1> DEFINE q == Only(s, I)
  <1>1. IsSeq(q) /\ DOMAIN q = 1 .. Len(q) /\ Len(q) \in Nat /\ DOMAIN s = 1 .. Len(s)
    BY OnlySeq, SeqIs
  <1>2. PICK g : Picks(q, s, I, Len(s), g)
    BY OnlySeq
  <1> HIDE DEF q
  <1>3. PICK k \in 1 .. Len(q), l \in 1 .. Len(q) : g[k] = i /\ g[l] = j
    BY <1>1, <1>2 DEF Picks
  <1>4. k < l
    <2>1. k < l \/ l < k \/ k = l
      BY <1>1
    <2>2. i \in Int /\ j \in Int
      BY <1>1
    <2> QED
      BY <1>2, <1>3, <2>1, <2>2 DEF Picks
  <1>5. q[k] = s[i] /\ q[l] = s[j]
    BY <1>2, <1>3 DEF Picks
  <1> QED
    BY <1>1, <1>4, <1>5 DEF Before, q

\* A column is after the one that is named, and all others are where they were.
LEMMA PutIs ==
  ASSUME NEW q, IsSeq(q), OwnNames(q), NEW s, s.after # None,
         NEW c \in ToSet(q), c.name = s.after, c.name # s.column.name
  PROVE  /\ IsSeq(Put(q, s)) /\ OwnNames(Put(q, s)) /\ Put(q, s) # << >>
         /\ ToSet(Put(q, s)) = {y \in ToSet(q) : y.name # s.column.name} \cup {s.column}
         /\ q[1].name # s.column.name => Put(q, s)[1] = q[1]
         /\ \A y, z : y.name # s.column.name /\ z.name # s.column.name /\ Before(q, y, z) => Before(Put(q, s), y, z)
         /\ Before(Put(q, s), c, s.column)
         /\ \A y : y.name # s.column.name /\ Before(q, y, c) => Before(Put(q, s), y, s.column)
         /\ \A z : z.name # s.column.name /\ Before(q, c, z) => Before(Put(q, s), s.column, z)
  <1> DEFINE x == s.column
             I == {i \in DOMAIN q : q[i].name # x.name}
             rest == Only(q, I)
             place == CHOOSE i \in DOMAIN rest : rest[i].name = s.after
             w == InsertAt(rest, 1 + place, x)
             n == Len(rest)
  <1>1. Put(q, s) = w
    BY DEF Put
  <1>2. Len(q) \in Nat /\ DOMAIN q = 1 .. Len(q)
    BY SeqIs
  <1>3. /\ IsSeq(rest) /\ n \in Nat /\ DOMAIN rest = 1 .. n /\ OwnNames(rest)
        /\ ToSet(rest) = {q[i] : i \in I \cap DOMAIN q}
        /\ 1 \in I /\ q # << >> => rest # << >> /\ rest[1] = q[1]
    BY OnlySeq, OnlyNames, SeqIs
  <1>4. ToSet(rest) = {y \in ToSet(q) : y.name # x.name}
    BY <1>3 DEF ToSet
  <1>5. PICK i \in 1 .. Len(q) : q[i] = c
    BY SeqIs
  <1>6. \A y, z : y.name # x.name /\ z.name # x.name /\ Before(q, y, z) => Before(rest, y, z)
    <2> SUFFICES ASSUME NEW y, NEW z, y.name # x.name, z.name # x.name, Before(q, y, z) PROVE Before(rest, y, z)
      OBVIOUS
    <2>1. PICK k \in DOMAIN q, l \in DOMAIN q : k < l /\ q[k] = y /\ q[l] = z
      BY DEF Before
    <2>2. k \in I \cap DOMAIN q /\ l \in I \cap DOMAIN q
      BY <2>1
    <2> HIDE DEF I
    <2> QED
      BY <2>1, <2>2, OnlyBefore
  <1>7. 1 \in I => rest[1] = q[1]
    <2>1. 1 \in I => 1 \in 1 .. Len(q)
      BY <1>2
    <2>2. 1 \in 1 .. Len(q) => q # << >>
      BY <1>2
    <2> QED
      BY <1>3, <2>1, <2>2
  <1>8. q[1].name # x.name => rest[1] = q[1]
    <2>1. 1 \in 1 .. Len(q)
      BY <1>2, <1>5
    <2>2. q[1].name # x.name => 1 \in I
      BY <1>2, <2>1
    <2> QED
      BY <1>7, <2>2
  <1> HIDE DEF I, rest, n
  <1>9. c \in ToSet(rest)
    BY <1>4
  <1>10. \E k \in DOMAIN rest : rest[k].name = s.after
    <2>1. PICK k \in 1 .. Len(rest) : rest[k] = c
      BY <1>3, <1>9, SeqIs
    <2> QED
      BY <1>3, <2>1 DEF n
  <1>11. place \in 1 .. n /\ rest[place].name = s.after
    BY <1>3, <1>10
  <1> HIDE DEF place
  <1>12. rest[place] = c
    <2>1. PICK k \in 1 .. n : rest[k] = c
      BY <1>3, <1>9, SeqIs DEF n
    <2> QED
      BY <1>3, <1>11, <2>1 DEF OwnNames
  <1>13. /\ IsSeq(w) /\ Len(w) = n + 1
         /\ \A j \in 1 .. place : w[j] = rest[j]
         /\ w[1 + place] = x
         /\ \A j \in 1 + place .. n : w[j + 1] = rest[j]
    BY <1>3, <1>11, InsertIs DEF n
  <1> HIDE DEF w, x
  <1>14. DOMAIN w = 1 .. n + 1
    BY <1>13, SeqIs
  \* Where the columns of rest are.
  <1> DEFINE to(j) == IF j <= place THEN j ELSE j + 1
  <1>15. \A j \in 1 .. n : to(j) \in 1 .. n + 1 /\ to(j) # 1 + place /\ w[to(j)] = rest[j]
    <2> SUFFICES ASSUME NEW j \in 1 .. n PROVE to(j) \in 1 .. n + 1 /\ to(j) # 1 + place /\ w[to(j)] = rest[j]
      OBVIOUS
    <2>1. CASE j <= place
      <3>1. j \in 1 .. place
        BY <2>1, <1>11
      <3> QED
        BY <1>3, <1>11, <1>13, <2>1, <3>1
    <2>2. CASE ~(j <= place)
      <3>1. j \in 1 + place .. n
        BY <2>2, <1>11, <1>3
      <3> QED
        BY <1>3, <1>11, <1>13, <2>2, <3>1
    <2> QED
      BY <2>1, <2>2
  <1>16. \A k \in 1 .. n + 1 : k = 1 + place \/ \E j \in 1 .. n : to(j) = k
    <2> SUFFICES ASSUME NEW k \in 1 .. n + 1, k # 1 + place PROVE \E j \in 1 .. n : to(j) = k
      OBVIOUS
    <2>1. CASE k <= place
      <3>1. k \in 1 .. n /\ to(k) = k
        BY <1>3, <1>11, <2>1
      <3> QED
        BY <3>1
    <2>2. CASE ~(k <= place)
      <3>1. k - 1 \in 1 .. n /\ ~(k - 1 <= place) /\ k - 1 + 1 = k
        BY <1>3, <1>11, <2>2
      <3>2. to(k - 1) = k
        BY <3>1
      <3> QED
        BY <3>1, <3>2
    <2> QED
      BY <2>1, <2>2
  <1>17. \A j, k \in 1 .. n : j < k => to(j) < to(k)
    BY <1>3, <1>11
  <1>18. \A j \in 1 .. n : (j <= place => to(j) < 1 + place) /\ (j > place => 1 + place < to(j))
    BY <1>3, <1>11
  <1>19. 1 + place \in 1 .. n + 1
    BY <1>3, <1>11
  <1>20. \A j \in 1 .. n : rest[j].name # x.name /\ rest[j] \in ToSet(q)
    <2>1. \A j \in 1 .. n : rest[j] \in ToSet(rest)
      BY <1>3, SeqIs DEF n
    <2> QED
      BY <1>4, <2>1
  <1>21. OwnNames(w)
    <2> SUFFICES ASSUME NEW k \in 1 .. n + 1, NEW l \in 1 .. n + 1, w[k].name = w[l].name PROVE k = l
      BY <1>14 DEF OwnNames
    <2>1. CASE k = 1 + place \/ l = 1 + place
      <3>1. ASSUME NEW h \in 1 .. n + 1, h # 1 + place PROVE w[h].name # x.name
        <4>1. PICK j \in 1 .. n : to(j) = h
          BY <1>16, <3>1
        <4>2. w[h] = rest[j]
          BY <1>15, <4>1
        <4> QED
          BY <1>20, <4>2
      <3> QED
        BY <1>13, <2>1, <3>1
    <2>2. CASE k # 1 + place /\ l # 1 + place
      <3>1. PICK i1 \in 1 .. n, i2 \in 1 .. n : to(i1) = k /\ to(i2) = l
        BY <1>16, <2>2
      <3>2. rest[i1].name = rest[i2].name
        BY <1>15, <3>1
      <3> QED
        BY <1>3, <3>1, <3>2 DEF OwnNames
    <2> QED
      BY <2>1, <2>2
  <1>22. ToSet(w) = {y \in ToSet(q) : y.name # x.name} \cup {x}
    <2>1. ASSUME NEW y \in ToSet(w) PROVE y = x \/ y \in ToSet(rest)
      <3>1. PICK k \in 1 .. n + 1 : w[k] = y
        BY <1>13, <1>14, SeqIs
      <3> QED
        <4>1. CASE k = 1 + place
          BY <1>13, <3>1, <4>1
        <4>2. CASE k # 1 + place
          <5>1. PICK j \in 1 .. n : to(j) = k
            BY <1>16, <4>2
          <5>2. rest[j] = y
            BY <1>15, <3>1, <5>1
          <5> QED
            BY <1>3, <5>2, SeqIs DEF n
        <4> QED
          BY <4>1, <4>2
    <2>2. x \in ToSet(w)
      BY <1>13, <1>19, <1>14, SeqIs
    <2>3. ASSUME NEW y \in ToSet(rest) PROVE y \in ToSet(w)
      <3>1. PICK j \in 1 .. n : rest[j] = y
        BY <1>3, SeqIs DEF n
      <3> QED
        BY <1>13, <1>14, <1>15, <3>1, SeqIs
    <2> QED
      BY <1>4, <2>1, <2>2, <2>3
  <1>23. \A y, z : Before(rest, y, z) => Before(w, y, z)
    <2> SUFFICES ASSUME NEW y, NEW z, NEW k \in 1 .. n, NEW l \in 1 .. n, k < l, rest[k] = y, rest[l] = z
                 PROVE  Before(w, y, z)
      BY <1>3 DEF Before
    <2>1. to(k) \in DOMAIN w /\ to(l) \in DOMAIN w /\ to(k) < to(l) /\ w[to(k)] = y /\ w[to(l)] = z
      BY <1>14, <1>15, <1>17
    <2> HIDE DEF to
    <2> QED
      BY <2>1 DEF Before
  <1>24. \A k \in 1 .. n : (k <= place => Before(w, rest[k], x)) /\ (k > place => Before(w, x, rest[k]))
    <2> SUFFICES ASSUME NEW k \in 1 .. n
                 PROVE  (k <= place => Before(w, rest[k], x)) /\ (k > place => Before(w, x, rest[k]))
      OBVIOUS
    <2>1. to(k) \in DOMAIN w /\ 1 + place \in DOMAIN w /\ w[to(k)] = rest[k] /\ w[1 + place] = x
      BY <1>13, <1>14, <1>15, <1>19
    <2>2. (k <= place => to(k) < 1 + place) /\ (k > place => 1 + place < to(k))
      BY <1>18
    <2> HIDE DEF to
    <2> QED
      BY <2>1, <2>2 DEF Before
  <1>25. Before(w, c, x)
    BY <1>3, <1>11, <1>12, <1>24
  <1>26. ASSUME NEW y, y.name # x.name, Before(q, y, c) PROVE Before(w, y, x)
    <2>1. Before(rest, y, c)
      BY <1>6, <1>26 DEF x
    <2>2. PICK k \in 1 .. n, l \in 1 .. n : k < l /\ rest[k] = y /\ rest[l] = c
      BY <1>3, <2>1 DEF Before
    <2>3. l = place
      BY <1>3, <1>11, <1>12, <2>2 DEF OwnNames
    <2> QED
      BY <1>3, <1>11, <1>24, <2>2, <2>3
  <1>27. ASSUME NEW z, z.name # x.name, Before(q, c, z) PROVE Before(w, x, z)
    <2>1. Before(rest, c, z)
      BY <1>6, <1>27 DEF x
    <2>2. PICK k \in 1 .. n, l \in 1 .. n : k < l /\ rest[k] = c /\ rest[l] = z
      BY <1>3, <2>1 DEF Before
    <2>3. k = place
      BY <1>3, <1>11, <1>12, <2>2 DEF OwnNames
    <2> QED
      BY <1>3, <1>11, <1>24, <2>2, <2>3
  <1>28. w # << >>
    BY <1>3, <1>13
  <1>29. w[1] = rest[1]
    BY <1>11, <1>13
  <1>30. \A y, z : y.name # x.name /\ z.name # x.name /\ Before(q, y, z) => Before(w, y, z)
    BY <1>6, <1>23
  <1>31. q[1].name # x.name => w[1] = q[1]
    BY <1>8, <1>29
  <1> QED
    BY <1>1, <1>13, <1>21, <1>22, <1>25, <1>26, <1>27, <1>28, <1>30, <1>31 DEF x

-----------------------------------------------------------------------------
(* Columns after an ALTER.                                                 *)

LEMMA OnlyAll ==
  ASSUME NEW s, IsSeq(s), NEW I, DOMAIN s \subseteq I
  PROVE  Only(s, I) = s
  <1> DEFINE q == Only(s, I)
  <1>1. /\ IsSeq(q) /\ DOMAIN q = 1 .. Len(q) /\ Len(q) \in Nat
        /\ DOMAIN s = 1 .. Len(s) /\ Len(s) \in Nat
    BY OnlySeq, SeqIs
  <1>2. PICK g : Picks(q, s, I, Len(s), g)
    BY OnlySeq
  <1> HIDE DEF q
  <1>3. Growing(g, Len(q), Len(s))
    BY <1>1, <1>2 DEF Picks, Growing
  <1>4. Len(q) = Len(s) /\ \A i \in 1 .. Len(q) : g[i] = i
    BY <1>1, <1>3, GrowingStays DEF Stays
  <1>5. \A i \in 1 .. Len(s) : q[i] = s[i]
    BY <1>2, <1>4 DEF Picks
  <1>6. q \in [1 .. Len(s) -> ToSet(q)] /\ s \in [1 .. Len(s) -> ToSet(s)]
    BY <1>1, <1>4, SeqIs DEF IsSeq
  <1>7. q = s
    BY <1>5, <1>6
  <1> QED
    BY <1>7 DEF q

\* What q has is in the order of C.
Follows(C, q, S) == \A y, z \in S : y < z => Before(q, C[y], C[z])

LEMMA OrderedIs ==
  ASSUME NEW q, IsSeq(q), OwnNames(q), NEW C, IsSeq(C), OwnNames(C), ToSet(q) = ToSet(C),
         Follows(C, q, DOMAIN C)
  PROVE  q = C
  <1>1. /\ DOMAIN q = 1 .. Len(q) /\ Len(q) \in Nat /\ DOMAIN C = 1 .. Len(C) /\ Len(C) \in Nat
        /\ \A i \in 1 .. Len(q) : \E k \in 1 .. Len(C) : C[k] = q[i]
        /\ \A k \in 1 .. Len(C) : \E i \in 1 .. Len(q) : q[i] = C[k]
    BY SeqIs
  <1> DEFINE at == [k \in 1 .. Len(C) |-> CHOOSE i \in 1 .. Len(q) : q[i] = C[k]]
  <1>0. at \in [1 .. Len(C) -> 1 .. Len(q)] /\ \A k \in 1 .. Len(C) : q[at[k]] = C[k]
    BY <1>1
  <1> HIDE DEF at
  <1>2. PICK g : g \in [1 .. Len(C) -> 1 .. Len(q)] /\ \A k \in 1 .. Len(C) : q[g[k]] = C[k]
    BY <1>0
  <1>3. ASSUME NEW y \in 1 .. Len(C), NEW z \in 1 .. Len(C), y < z PROVE g[y] < g[z]
    <2>1. PICK i \in 1 .. Len(q), j \in 1 .. Len(q) : i < j /\ q[i] = C[y] /\ q[j] = C[z]
      <3>1. Before(q, C[y], C[z])
        BY <1>1, <1>3 DEF Follows
      <3> QED
        BY <1>1, <3>1 DEF Before
    <2>2. q[g[y]] = q[i] /\ q[g[z]] = q[j]
      BY <1>2, <2>1
    <2>3. g[y] \in 1 .. Len(q) /\ g[z] \in 1 .. Len(q)
      BY <1>2
    <2>4. g[y] = i /\ g[z] = j
      BY <1>1, <2>2, <2>3 DEF OwnNames
    <2> QED
      BY <2>1, <2>4
  <1>4. \A i \in 1 .. Len(q) : \E k \in 1 .. Len(C) : g[k] = i
    <2> SUFFICES ASSUME NEW i \in 1 .. Len(q) PROVE \E k \in 1 .. Len(C) : g[k] = i
      OBVIOUS
    <2>1. PICK k \in 1 .. Len(C) : C[k] = q[i]
      BY <1>1
    <2>2. g[k] \in 1 .. Len(q) /\ q[g[k]] = q[i]
      BY <1>2, <2>1
    <2> QED
      BY <1>1, <2>2 DEF OwnNames
  <1>5. Len(C) = Len(q) /\ \A k \in 1 .. Len(C) : g[k] = k
    <2>1. \A i, j \in 1 .. Len(C) : i < j => g[i] < g[j]
      BY <1>3
    <2>2. Growing(g, Len(C), Len(q))
      BY <1>2, <1>4, <2>1 DEF Growing
    <2> QED
      BY <1>1, <2>2, GrowingStays DEF Stays
  <1>6. \A k \in 1 .. Len(C) : q[k] = C[k]
    BY <1>2, <1>5
  <1>7. q \in [1 .. Len(C) -> ToSet(q)] /\ C \in [1 .. Len(C) -> ToSet(C)]
    BY <1>1, <1>5, SeqIs DEF IsSeq
  <1> QED
    BY <1>6, <1>7

\* What a column is put after.
Spot(C, i) == [column |-> C[i], after |-> IF i = 1 THEN None ELSE C[i - 1].name]

\* Columns of C that are put one by one, each after one that is there already.
Puts(C, N, p, h, f) ==
  /\ h \in [1 .. N -> DOMAIN C] /\ \A k \in 1 .. N : p[k] = Spot(C, h[k])
  /\ \A k \in 1 .. N : f[k] = Put(f[k - 1], p[k])
  /\ IsSeq(f[0]) /\ OwnNames(f[0]) /\ f[0] # << >> /\ f[0][1] = C[1] /\ ToSet(f[0]) \subseteq ToSet(C)
  /\ \A k \in 1 .. N : h[k] # 1 => C[h[k] - 1] \in ToSet(f[0]) \cup {C[h[l]] : l \in 1 .. k - 1}

\* The columns are those that were there and those that are put.
IsPut(C, h, f, n) ==
  /\ IsSeq(f[n]) /\ OwnNames(f[n]) /\ f[n] # << >> /\ f[n][1] = C[1]
  /\ ToSet(f[n]) = ToSet(f[0]) \cup {C[h[k]] : k \in 1 .. n}

LEMMA PutNext ==
  ASSUME NEW C, IsSeq(C), OwnNames(C), C # << >>, None \notin NamesIn(C),
         NEW N \in Nat, NEW p, NEW h, NEW f, Puts(C, N, p, h, f), NEW n \in 1 .. N, IsPut(C, h, f, n - 1)
  PROVE  IsPut(C, h, f, n)
  <1> DEFINE i == h[n]
             s == p[n]
  <1>1. Len(C) \in Nat /\ DOMAIN C = 1 .. Len(C)
    BY SeqIs
  <1>2. i \in 1 .. Len(C) /\ s = Spot(C, i) /\ f[n] = Put(f[n - 1], s)
    BY <1>1 DEF Puts
  <1>3. s.column = C[i] /\ s.after = IF i = 1 THEN None ELSE C[i - 1].name
    BY <1>2 DEF Spot
  <1>4. \A k \in 1 .. n : k = n \/ k \in 1 .. n - 1
    OBVIOUS
  <1>5. {C[h[k]] : k \in 1 .. n} = {C[h[k]] : k \in 1 .. n - 1} \cup {C[i]}
    BY <1>4
  <1>6. n - 1 \in Nat
    OBVIOUS
  <1>7. /\ IsSeq(f[n - 1]) /\ OwnNames(f[n - 1]) /\ f[n - 1] # << >> /\ f[n - 1][1] = C[1]
        /\ ToSet(f[n - 1]) = ToSet(f[0]) \cup {C[h[k]] : k \in 1 .. n - 1}
    BY DEF IsPut
  <1>8. 1 \in 1 .. Len(C) /\ C[1] \in ToSet(f[n - 1])
    <2>1. Len(C) # 0
      BY DEF IsSeq
    <2>2. Len(f[n - 1]) # 0 /\ Len(f[n - 1]) \in Nat
      BY <1>7, SeqIs DEF IsSeq
    <2>3. 1 \in 1 .. Len(f[n - 1])
      BY <2>2
    <2> QED
      BY <1>1, <1>7, <2>1, <2>3, SeqIs
  <1> HIDE DEF i, s
  <1>9. CASE i = 1
    <2>1. f[n] = f[n - 1]
      BY <1>2, <1>3, <1>9 DEF Put
    <2>2. ToSet(f[n]) = ToSet(f[0]) \cup {C[h[k]] : k \in 1 .. n}
      BY <1>5, <1>7, <1>8, <1>9, <2>1
    <2> QED
      BY <1>7, <2>1, <2>2 DEF IsPut
  <1>10. CASE i # 1
    <2> DEFINE c == C[i - 1]
    <2>1. i - 1 \in 1 .. Len(C) /\ i - 1 # i
      BY <1>1, <1>2, <1>10
    <2>2. c \in ToSet(f[n - 1])
      BY <1>7, <1>10 DEF Puts, i
    <2>3. c.name = s.after /\ s.after # None
      <3>1. c \in ToSet(C)
        BY <2>1, SeqIs
      <3> QED
        BY <1>3, <1>10, <3>1, NamesAre
    <2>4. c.name # s.column.name
      BY <1>1, <1>2, <1>3, <2>1 DEF OwnNames
    <2>5. f[n - 1][1].name # s.column.name
      BY <1>1, <1>2, <1>3, <1>7, <1>8, <1>10 DEF OwnNames
    <2> HIDE DEF c
    <2>6. /\ IsSeq(f[n]) /\ OwnNames(f[n]) /\ f[n] # << >>
          /\ ToSet(f[n]) = {y \in ToSet(f[n - 1]) : y.name # s.column.name} \cup {s.column}
          /\ f[n][1] = f[n - 1][1]
      BY <1>2, <1>7, <2>2, <2>3, <2>4, <2>5, PutIs
    <2>7. ToSet(f[n - 1]) \subseteq ToSet(C)
      <3>1. \A k \in 1 .. n - 1 : C[h[k]] \in ToSet(C)
        BY SMTT(30), <1>1, SeqIs DEF Puts
      <3> QED
        BY <1>7, <3>1 DEF Puts
    <2>8. C[i] \in ToSet(C)
      BY <1>2, SeqIs
    <2>9. \A y \in ToSet(f[n - 1]) : y.name = C[i].name => y = C[i]
      BY <2>7, <2>8, NamesAre
    <2>10. ToSet(f[n]) = ToSet(f[n - 1]) \cup {C[i]}
      BY <1>3, <2>6, <2>9
    <2> QED
      BY <1>5, <1>7, <2>6, <2>10 DEF IsPut
  <1> QED
    BY <1>9, <1>10

LEMMA PutAll ==
  ASSUME NEW C, IsSeq(C), OwnNames(C), C # << >>, None \notin NamesIn(C),
         NEW N \in Nat, NEW p, NEW h, NEW f, Puts(C, N, p, h, f)
  PROVE  \A n \in 0 .. N : IsPut(C, h, f, n)
  <1> DEFINE T == {n \in 0 .. N : ~IsPut(C, h, f, n)}
  <1>1. ASSUME T # {} PROVE FALSE
    <2>1. T \in SUBSET Nat
      OBVIOUS
    <2> HIDE DEF T
    <2>2. PICK n \in T : \A m \in T : n <= m
      BY <1>1, <2>1, LeastNumber
    <2>3. n \in Nat /\ n - 1 \notin T
      BY <2>1, <2>2
    <2> USE DEF T
    <2>4. n \in 0 .. N /\ ~IsPut(C, h, f, n)
      OBVIOUS
    <2>5. CASE n = 0
      <3>1. {C[h[k]] : k \in 1 .. 0} = {}
        OBVIOUS
      <3>2. IsPut(C, h, f, 0)
        BY <3>1 DEF IsPut, Puts
      <3> QED
        BY <2>4, <2>5, <3>2
    <2>6. CASE n # 0
      <3>1. n \in 1 .. N /\ n - 1 \in 0 .. N
        BY <2>4, <2>6
      <3>2. IsPut(C, h, f, n - 1)
        BY <2>3, <3>1
      <3> QED
        BY <2>4, <3>1, <3>2, PutNext
    <2> QED
      BY <2>5, <2>6
  <1> QED
    BY <1>1

\* When each is put after the one it follows in C, they are in the order of C.
LEMMA PutNextFollows ==
  ASSUME NEW C, IsSeq(C), OwnNames(C), C # << >>, None \notin NamesIn(C),
         NEW N \in Nat, NEW p, NEW h, NEW f, Puts(C, N, p, h, f), NEW n \in 1 .. N,
         NEW S \in SUBSET DOMAIN C, h[n] # 1, h[n] - 1 \in S, Follows(C, f[n - 1], S)
  PROVE  Follows(C, f[n], S \cup {h[n]})
  <1> DEFINE i == h[n]
             s == p[n]
             c == C[i - 1]
  <1>1. Len(C) \in Nat /\ DOMAIN C = 1 .. Len(C)
    BY SeqIs
  <1>2. i \in 1 .. Len(C) /\ s = Spot(C, i) /\ f[n] = Put(f[n - 1], s)
    BY <1>1 DEF Puts
  <1>3. s.column = C[i] /\ s.after = c.name
    BY <1>2 DEF Spot
  <1>4. i # 1 /\ i - 1 \in S /\ i - 1 \in 1 .. Len(C) /\ i - 1 # i
    BY <1>1, <1>2
  <1>5. n - 1 \in 0 .. N
    OBVIOUS
  <1>6. IsPut(C, h, f, n - 1)
    BY <1>5, PutAll
  <1>7. IsSeq(f[n - 1]) /\ OwnNames(f[n - 1])
    BY <1>6 DEF IsPut
  <1>8. c \in ToSet(f[n - 1])
    <2>1. c \in ToSet(f[0]) \cup {C[h[l]] : l \in 1 .. n - 1}
      BY <1>4 DEF Puts
    <2> QED
      BY <1>6, <2>1 DEF IsPut
  <1> HIDE DEF i, s
  <1>9. c.name # s.column.name /\ s.after # None
    <2>1. c \in ToSet(C)
      BY <1>4, SeqIs
    <2> QED
      BY <1>1, <1>2, <1>3, <1>4, <2>1, NamesAre DEF OwnNames
  <1> HIDE DEF c
  <1>10. /\ \A y, z : y.name # s.column.name /\ z.name # s.column.name /\ Before(f[n - 1], y, z) => Before(f[n], y, z)
         /\ Before(f[n], c, s.column)
         /\ \A y : y.name # s.column.name /\ Before(f[n - 1], y, c) => Before(f[n], y, s.column)
         /\ \A z : z.name # s.column.name /\ Before(f[n - 1], c, z) => Before(f[n], s.column, z)
    BY <1>2, <1>3, <1>7, <1>8, <1>9, PutIs
  <1>11. \A y \in S : y # i => C[y].name # s.column.name
    BY <1>1, <1>2, <1>3 DEF OwnNames
  <1> SUFFICES ASSUME NEW y \in S \cup {i}, NEW z \in S \cup {i}, y < z PROVE Before(f[n], C[y], C[z])
    BY DEF Follows, i
  <1>12. y \in Int /\ z \in Int /\ i \in Int
    BY <1>1, <1>2
  <1>13. CASE y # i /\ z # i
    <2>1. y \in S /\ z \in S /\ Before(f[n - 1], C[y], C[z])
      BY <1>13 DEF Follows
    <2> QED
      BY <1>10, <1>11, <1>13, <2>1
  <1>14. CASE z = i
    <2>1. y \in S /\ y # i
      BY <1>12, <1>14
    <2>2. CASE y = i - 1
      BY <1>3, <1>10, <1>14, <2>2 DEF c
    <2>3. CASE y # i - 1
      <3>1. y < i - 1
        BY <1>12, <1>14, <2>3
      <3>2. Before(f[n - 1], C[y], c)
        BY <1>4, <2>1, <3>1 DEF Follows, c
      <3> QED
        BY <1>3, <1>10, <1>11, <1>14, <2>1, <3>2
    <2> QED
      BY <2>2, <2>3
  <1>15. CASE y = i
    <2>1. z \in S /\ z # i /\ i - 1 < z
      BY <1>12, <1>15
    <2>2. Before(f[n - 1], c, C[z])
      BY <1>4, <2>1 DEF Follows, c
    <2> QED
      BY <1>3, <1>10, <1>11, <1>15, <2>1, <2>2
  <1> QED
    BY <1>13, <1>14, <1>15

Settled(S, h, n) == S \cup {h[l] : l \in 1 .. n}
Precedes(h, N, S) == \A k \in 1 .. N : h[k] # 1 /\ h[k] - 1 \in Settled(S, h, k - 1)

LEMMA PutAllFollows ==
  ASSUME NEW C, IsSeq(C), OwnNames(C), C # << >>, None \notin NamesIn(C),
         NEW N \in Nat, NEW p, NEW h, NEW f, Puts(C, N, p, h, f),
         NEW S \in SUBSET DOMAIN C, Follows(C, f[0], S),
         Precedes(h, N, S)
  PROVE  Follows(C, f[N], Settled(S, h, N))
  <1> DEFINE U(n) == Settled(S, h, n)
             T == {n \in 0 .. N : ~Follows(C, f[n], U(n))}
  <1>1. ASSUME T # {} PROVE FALSE
    <2>1. T \in SUBSET Nat
      OBVIOUS
    <2> HIDE DEF T
    <2>2. PICK n \in T : \A m \in T : n <= m
      BY <1>1, <2>1, LeastNumber
    <2>3. n \in Nat /\ n - 1 \notin T
      BY <2>1, <2>2
    <2> USE DEF T
    <2>4. n \in 0 .. N /\ ~Follows(C, f[n], U(n))
      OBVIOUS
    <2>5. CASE n = 0
      <3>1. U(0) = S
        BY DEF Settled
      <3> HIDE DEF U
      <3> QED
        BY <2>4, <2>5, <3>1
    <2>6. CASE n # 0
      <3>1. n \in 1 .. N /\ n - 1 \in 0 .. N
        BY <2>4, <2>6
      <3>2. Follows(C, f[n - 1], U(n - 1))
        BY <2>3, <3>1
      <3>3. h[n] # 1 /\ h[n] - 1 \in U(n - 1)
        BY <3>1 DEF Precedes
      <3>4. U(n) = U(n - 1) \cup {h[n]}
        <4>1. \A l \in 1 .. n : l = n \/ l \in 1 .. n - 1
          BY <3>1
        <4> QED
          BY <3>1, <4>1 DEF Settled
      <3>5. U(n - 1) \in SUBSET DOMAIN C
        BY <3>1 DEF Puts, Settled
      <3> HIDE DEF U
      <3>6. Follows(C, f[n], U(n - 1) \cup {h[n]})
        BY <3>1, <3>2, <3>3, <3>5, PutNextFollows
      <3> QED
        BY <2>4, <3>4, <3>6
    <2> QED
      BY <2>5, <2>6
  <1>2. \A n \in 0 .. N : Follows(C, f[n], U(n))
    BY <1>1
  <1>3. N \in 0 .. N
    OBVIOUS
  <1> HIDE DEF T
  <1> QED
    BY <1>2, <1>3

\* What is left of the columns, changed where they are.
Remaining(t, a) == Only(t.columns, {i \in DOMAIN t.columns : t.columns[i].name \notin a.drop})
ChangeOf(a, c) == {s \in ToSet(a.change) : s.column.name = c.name}
Changed(t, a) == [i \in DOMAIN Remaining(t, a) |->
                    IF ChangeOf(a, Remaining(t, a)[i]) = {} THEN Remaining(t, a)[i]
                    ELSE (CHOOSE s \in ChangeOf(a, Remaining(t, a)[i]) : TRUE).column]

LEMMA AlterRecursion ==
  ASSUME NEW t, NEW a, Len(a.add \o a.change) \in Nat
  PROVE  \E f : /\ f[0] = Changed(t, a)
                /\ \A n \in 1 .. Len(a.add \o a.change) : f[n] = Put(f[n - 1], (a.add \o a.change)[n])
                /\ AlteredColumns(t, a) = f[Len(a.add \o a.change)]
  <1> DEFINE puts == a.add \o a.change
             N == Len(puts)
             kept == Only(t.columns, {i \in DOMAIN t.columns : t.columns[i].name \notin a.drop})
             changed(c) == {s \in ToSet(a.change) : s.column.name = c.name}
             first == [i \in DOMAIN kept |-> IF changed(kept[i]) = {} THEN kept[i]
                                             ELSE (CHOOSE s \in changed(kept[i]) : TRUE).column]
             Next1(f, n) == IF n = 0 THEN first ELSE Put(f[n - 1], puts[n])
             Rec(f, m) == f = [n \in 0 .. m |-> Next1(f, n)]
             T == {m \in 0 .. N : ~\E f : Rec(f, m)}
  <1>0. first = Changed(t, a)
    BY DEF Changed, ChangeOf, Remaining
  <1>a. AlteredColumns(t, a) = (CHOOSE f : Rec(f, N))[N]
    BY DEF AlteredColumns
  <1>b. N \in Nat
    OBVIOUS
  <1> HIDE DEF kept, changed, first, puts, N
  <1>1. T = {}
    <2> SUFFICES ASSUME T # {} PROVE FALSE
      OBVIOUS
    <2>1. T \in SUBSET Nat
      OBVIOUS
    <2> HIDE DEF T
    <2>2. PICK n \in T : \A m \in T : n <= m
      BY <2>1, LeastNumber
    <2>6. n \in Nat /\ n - 1 \notin T
      BY <2>1, <2>2
    <2> USE DEF T
    <2>3. n \in 0 .. N /\ ~\E f : Rec(f, n)
      OBVIOUS
    <2>4. CASE n = 0
      <3> DEFINE h == [k \in 0 .. 0 |-> first]
      <3>1. Rec(h, 0)
        OBVIOUS
      <3> HIDE DEF Rec, h
      <3> QED
        BY <2>3, <2>4, <3>1
    <2>5. CASE n # 0
      <3>1. n - 1 \in 0 .. N
        BY <2>3, <2>5, <2>6 DEF N
      <3>2. PICK f : Rec(f, n - 1)
        BY <2>6, <3>1
      <3> DEFINE h == [k \in 0 .. n |-> IF k = n THEN Next1(f, n) ELSE f[k]]
      <3>3. ASSUME NEW k \in 0 .. n PROVE h[k] = Next1(h, k)
        <4>1. CASE k = n
          <5>1. h[n - 1] = f[n - 1]
            BY <2>3, <2>5
          <5>2. h[n] = Next1(f, n)
            BY <2>3
          <5> QED
            BY <2>5, <4>1, <5>1, <5>2
        <4>2. CASE k # n
          <5>1. k \in 0 .. n - 1 /\ h[k] = f[k]
            BY <2>3, <4>2
          <5>2. f[k] = Next1(f, k)
            BY <3>2, <5>1
          <5>3. k # 0 => k - 1 \in 0 .. n /\ k - 1 # n
            BY <2>3, <5>1
          <5>4. k # 0 => h[k - 1] = f[k - 1]
            BY <5>3
          <5> QED
            BY <5>1, <5>2, <5>4
        <4> QED
          BY <4>1, <4>2
      <3>4. h \in [0 .. n -> {h[k] : k \in 0 .. n}] /\ DOMAIN h = 0 .. n
        OBVIOUS
      <3>5. h = [k \in 0 .. n |-> h[k]]
        OBVIOUS
      <3> HIDE DEF h
      <3>6. Rec(h, n)
        BY <3>3, <3>5
      <3> QED
        BY <2>3, <3>6
    <2> QED
      BY <2>4, <2>5
  <1> DEFINE after == CHOOSE f : Rec(f, N)
  <1>2. Rec(after, N)
    <2>1. N \in 0 .. N
      BY <1>b
    <2>2. \E f : Rec(f, N)
      BY <1>1, <2>1
    <2> HIDE DEF Rec
    <2> QED
      BY <2>2
  <1>3. AlteredColumns(t, a) = after[N]
    BY <1>a
  <1> HIDE DEF after
  <1>4. after[0] = first /\ \A n \in 1 .. N : after[n] = Put(after[n - 1], puts[n])
    <2>1. \A n \in 0 .. N : after[n] = Next1(after, n)
      BY <1>2
    <2>2. 0 \in 0 .. N /\ \A n \in 1 .. N : n \in 0 .. N /\ n # 0
      BY <1>b
    <2> QED
      BY <2>1, <2>2
  <1> QED
    BY <1>0, <1>3, <1>4 DEF N, puts

\* The places that Placed puts columns at.
PlacedAt(C, I, g) ==
  /\ g \in [1 .. Len(Placed(C, I)) -> DOMAIN C]
  /\ \A k \in 1 .. Len(Placed(C, I)) : g[k] \in I /\ Placed(C, I)[k] = Spot(C, g[k])
  /\ \A k, l \in 1 .. Len(Placed(C, I)) : k < l => g[k] < g[l]
  /\ \A i \in I \cap DOMAIN C : \E k \in 1 .. Len(Placed(C, I)) : g[k] = i

LEMMA PlacedIs ==
  ASSUME NEW C, IsSeq(C), NEW I
  PROVE  /\ IsSeq(Placed(C, I)) /\ Len(Placed(C, I)) \in Nat
         /\ \E g : PlacedAt(C, I, g)
         /\ ToSet(Placed(C, I)) = {Spot(C, i) : i \in I \cap DOMAIN C}
         /\ I \cap DOMAIN C = {} => Placed(C, I) = << >>
  <1> DEFINE s == [i \in DOMAIN C |-> [column |-> C[i], after |-> IF i = 1 THEN None ELSE C[i - 1].name]]
             q == Only(s, I)
  <1>1. Placed(C, I) = q
    BY DEF Placed
  <1>2. Len(C) \in Nat /\ DOMAIN C = 1 .. Len(C)
    BY SeqIs
  <1>3. \A i \in DOMAIN C : s[i] = Spot(C, i)
    BY DEF Spot
  <1>4. s = [i \in 1 .. Len(C) |-> s[i]]
    BY <1>2
  <1> HIDE DEF s
  <1>5. IsSeq(s) /\ Len(s) = Len(C)
    BY <1>2, <1>4, SeqOfFunction
  <1>6. DOMAIN s = 1 .. Len(C)
    BY <1>5, SeqIs
  <1>7. IsSeq(q) /\ Len(q) \in Nat /\ ToSet(q) = {s[i] : i \in I \cap DOMAIN s}
    BY <1>5, OnlySeq, SeqIs
  <1>8. PICK g : Picks(q, s, I, Len(s), g)
    BY <1>5, OnlySeq
  <1> HIDE DEF q
  <1>9. /\ g \in [1 .. Len(q) -> DOMAIN C]
        /\ \A k \in 1 .. Len(q) : g[k] \in I /\ q[k] = s[g[k]]
        /\ \A k, l \in 1 .. Len(q) : k < l => g[k] < g[l]
        /\ \A i \in I \cap DOMAIN C : \E k \in 1 .. Len(q) : g[k] = i
    BY <1>2, <1>5, <1>8 DEF Picks
  <1>10. \A k \in 1 .. Len(q) : g[k] \in I /\ q[k] = Spot(C, g[k])
    BY <1>3, <1>9
  <1>11. ToSet(q) = {Spot(C, i) : i \in I \cap DOMAIN C}
    BY <1>2, <1>3, <1>6, <1>7
  <1>12. I \cap DOMAIN C = {} => q = << >>
    <2> SUFFICES ASSUME I \cap DOMAIN C = {} PROVE q = << >>
      OBVIOUS
    <2>1. ~(1 \in 1 .. Len(q))
      BY <1>9
    <2>2. Len(q) = 0
      BY <1>7, <2>1
    <2> QED
      BY <1>7, <2>2 DEF IsSeq
  <1>13. PlacedAt(C, I, g)
    BY <1>1, <1>9, <1>10 DEF PlacedAt
  <1> QED
    BY <1>1, <1>7, <1>11, <1>12, <1>13

IsColumns(q) == IsSeq(q) /\ OwnNames(q) /\ q # << >> /\ q[1].name = "ID"

\* The columns that are new, and those that are but not as they should be.
Added(C, t) == {i \in Misplaced(C, t) : C[i].name \notin NamesIn(t.columns)}
Moved(C, t) == {i \in Misplaced(C, t) : C[i].name \in NamesIn(t.columns)}

\* a makes C of the columns of t.
Makes(C, t, a) ==
  /\ a.drop = NamesIn(t.columns) \ NamesIn(C)
  /\ a.add = Placed(C, Added(C, t)) /\ a.change = Placed(C, Moved(C, t))

LEMMA NotMisplaced ==
  ASSUME NEW C, IsSeq(C), NEW t, IsSeq(t.columns), NEW i \in DOMAIN C, i \notin Misplaced(C, t)
  PROVE  i \in DOMAIN t.columns /\ t.columns[i] = C[i]
  BY SeqIs DEF Misplaced

LEMMA ChangedIs ==
  ASSUME NEW C, IsColumns(C), NEW t, IsColumns(t.columns), NEW a, Makes(C, t, a)
  PROVE  /\ IsColumns(Changed(t, a)) /\ Changed(t, a)[1] = C[1] /\ ToSet(Changed(t, a)) \subseteq ToSet(C)
         /\ \A m \in DOMAIN C : C[m].name \in NamesIn(t.columns) => C[m] \in ToSet(Changed(t, a))
         /\ a.drop = {} => DOMAIN Changed(t, a) = DOMAIN t.columns
                           /\ \A i \in DOMAIN t.columns : Changed(t, a)[i].name = t.columns[i].name
  <1> DEFINE q == t.columns
             K == {i \in DOMAIN q : q[i].name \notin a.drop}
             kept == Remaining(t, a)
             f0 == Changed(t, a)
  <1>1. /\ Len(q) \in Nat /\ DOMAIN q = 1 .. Len(q) /\ Len(C) \in Nat /\ DOMAIN C = 1 .. Len(C)
        /\ IsSeq(q) /\ OwnNames(q) /\ q # << >> /\ q[1].name = "ID"
        /\ IsSeq(C) /\ OwnNames(C) /\ C # << >> /\ C[1].name = "ID"
    BY SeqIs DEF IsColumns
  <1>2. 1 \in 1 .. Len(q) /\ 1 \in 1 .. Len(C)
    <2>1. Len(q) # 0 /\ Len(C) # 0
      BY <1>1 DEF IsSeq
    <2> QED
      BY <1>1, <2>1
  <1>3. "ID" \in NamesIn(C)
    BY <1>1, <1>2 DEF NamesIn
  <1>4. 1 \in K
    BY <1>1, <1>2, <1>3 DEF Makes
  <1>5. kept = Only(q, K)
    BY DEF Remaining
  <1>6. /\ IsSeq(kept) /\ OwnNames(kept) /\ kept # << >> /\ kept[1] = q[1]
        /\ ToSet(kept) = {q[i] : i \in K \cap DOMAIN q}
    <2> HIDE DEF K
    <2> QED
      BY <1>1, <1>4, <1>5, OnlySeq, OnlyNames
  <1>7. Len(kept) \in Nat /\ DOMAIN kept = 1 .. Len(kept)
    BY <1>6, SeqIs
  <1>8. \A c \in ToSet(kept) : c \in ToSet(q) /\ c.name \in NamesIn(C)
    <2> SUFFICES ASSUME NEW i \in K PROVE q[i] \in ToSet(q) /\ q[i].name \in NamesIn(C)
      BY <1>6
    <2>1. q[i].name \in NamesIn(q) /\ q[i] \in ToSet(q)
      BY DEF NamesIn, ToSet
    <2> QED
      BY <2>1 DEF Makes
  <1>9. ToSet(a.change) = {Spot(C, m) : m \in Moved(C, t) \cap DOMAIN C}
    <2>1. a.change = Placed(C, Moved(C, t))
      BY DEF Makes
    <2> QED
      BY <1>1, <2>1, PlacedIs
  <1>10. \A m \in DOMAIN C : Spot(C, m).column = C[m]
    BY DEF Spot
  <1>11. f0 = [i \in DOMAIN kept |-> IF ChangeOf(a, kept[i]) = {} THEN kept[i]
                                     ELSE (CHOOSE s \in ChangeOf(a, kept[i]) : TRUE).column]
    BY DEF Changed
  <1> HIDE DEF kept, f0, K
  <1>12. ASSUME NEW i \in DOMAIN kept, NEW m \in DOMAIN C, C[m].name = kept[i].name
         PROVE  f0[i] = C[m]
    <2>1. kept[i] \in ToSet(q) /\ kept[i] \in ToSet(kept)
      BY <1>6, <1>7, <1>8, SeqIs
    <2>2. \A s \in ChangeOf(a, kept[i]) : s = Spot(C, m) /\ m \in Moved(C, t)
      <3> SUFFICES ASSUME NEW s \in ToSet(a.change), s.column.name = kept[i].name
                   PROVE  s = Spot(C, m) /\ m \in Moved(C, t)
        BY DEF ChangeOf
      <3>1. PICK l \in Moved(C, t) \cap DOMAIN C : s = Spot(C, l)
        BY <1>9
      <3>2. C[l].name = C[m].name
        BY <1>10, <1>12, <3>1
      <3> QED
        BY <1>1, <3>1, <3>2 DEF OwnNames
    <2>3. CASE m \in Misplaced(C, t)
      <3>1. C[m].name \in NamesIn(q)
        BY <1>12, <2>1, NamesAre
      <3>2. m \in Moved(C, t)
        BY <2>3, <3>1 DEF Moved
      <3>3. Spot(C, m) \in ChangeOf(a, kept[i])
        BY <1>9, <1>10, <1>12, <3>2 DEF ChangeOf
      <3>4. (CHOOSE s \in ChangeOf(a, kept[i]) : TRUE) = Spot(C, m)
        BY <2>2, <3>3
      <3> QED
        BY <1>10, <1>11, <3>3, <3>4
    <2>4. CASE m \notin Misplaced(C, t)
      <3>1. m \in DOMAIN q /\ q[m] = C[m]
        BY <1>1, <2>4, NotMisplaced
      <3>2. q[m] \in ToSet(q)
        BY <1>1, <3>1, SeqIs
      <3>3. kept[i] = C[m]
        BY <1>1, <1>12, <2>1, <3>1, <3>2, NamesAre
      <3>4. ChangeOf(a, kept[i]) = {}
        BY <2>2, <2>4 DEF Moved
      <3> QED
        BY <1>11, <3>3, <3>4
    <2> QED
      BY <2>3, <2>4
  <1>13. \A i \in DOMAIN kept : f0[i] \in ToSet(C) /\ f0[i].name = kept[i].name
    <2> SUFFICES ASSUME NEW i \in DOMAIN kept PROVE f0[i] \in ToSet(C) /\ f0[i].name = kept[i].name
      OBVIOUS
    <2>1. kept[i] \in ToSet(kept)
      BY <1>6, <1>7, SeqIs
    <2>2. PICK m \in DOMAIN C : C[m].name = kept[i].name
      BY <1>8, <2>1 DEF NamesIn
    <2>3. f0[i] = C[m] /\ C[m] \in ToSet(C)
      BY <1>1, <1>12, <2>2, SeqIs
    <2> QED
      BY <2>2, <2>3
  <1>14. IsSeq(f0) /\ Len(f0) = Len(kept) /\ DOMAIN f0 = 1 .. Len(kept)
    <2>1. f0 = [i \in 1 .. Len(kept) |-> f0[i]]
      BY <1>7, <1>11
    <2>2. IsSeq(f0) /\ Len(f0) = Len(kept)
      BY <1>7, <2>1, SeqOfFunction
    <2> QED
      BY <2>2, SeqIs
  <1>15. OwnNames(f0)
    BY <1>6, <1>7, <1>13, <1>14 DEF OwnNames
  <1>16. 1 \in 1 .. Len(kept)
    <2>1. Len(kept) # 0
      BY <1>6 DEF IsSeq
    <2> QED
      BY <1>7, <2>1
  <1>17. f0 # << >> /\ f0[1].name = "ID"
    <2>1. Len(f0) # 0
      BY <1>7, <1>14, <1>16
    <2> QED
      BY <1>1, <1>6, <1>7, <1>13, <1>16, <2>1
  <1>18. ToSet(f0) \subseteq ToSet(C)
    BY <1>7, <1>13, <1>14, SeqIs
  <1>19. f0[1] = C[1]
    BY <1>1, <1>2, <1>6, <1>7, <1>12, <1>16
  <1>20. ASSUME NEW m \in DOMAIN C, C[m].name \in NamesIn(q) PROVE C[m] \in ToSet(f0)
    <2>1. PICK j \in DOMAIN q : q[j].name = C[m].name
      BY <1>20 DEF NamesIn
    <2>2. C[m].name \in NamesIn(C)
      BY DEF NamesIn
    <2>3. j \in K
      BY <2>1, <2>2 DEF K, Makes
    <2>4. q[j] \in ToSet(kept)
      BY <1>6, <2>3
    <2>5. PICK i \in 1 .. Len(kept) : kept[i] = q[j]
      BY <1>6, <2>4, SeqIs
    <2>6. f0[i] = C[m]
      BY <1>7, <1>12, <2>1, <2>5
    <2> QED
      BY <1>14, <2>5, <2>6, SeqIs
  <1>21. ASSUME a.drop = {} PROVE DOMAIN f0 = DOMAIN q /\ \A i \in DOMAIN q : f0[i].name = q[i].name
    <2>1. DOMAIN q \subseteq K
      BY <1>21 DEF K
    <2>2. kept = q
      BY <1>1, <1>5, <2>1, OnlyAll
    <2> QED
      BY <1>7, <1>13, <1>14, <2>2
  <1> QED
    BY <1>14, <1>15, <1>17, <1>18, <1>19, <1>20, <1>21 DEF f0, IsColumns

\* All columns are there after an ALTER, and if they were before they are in their order.
LEMMA AlteredColumnsAre ==
  ASSUME NEW C, IsColumns(C), None \notin NamesIn(C), NEW t, IsColumns(t.columns), NEW a, Makes(C, t, a)
  PROVE  /\ IsColumns(AlteredColumns(t, a)) /\ ToSet(AlteredColumns(t, a)) = ToSet(C)
         /\ ToSet(t.columns) = ToSet(C) => AlteredColumns(t, a) = C
  <1> DEFINE q == t.columns
             A == Added(C, t)
             B == Moved(C, t)
             nA == Len(a.add)
             nB == Len(a.change)
             p == a.add \o a.change
             N == Len(p)
             R == AlteredColumns(t, a)
  <1>1. /\ Len(q) \in Nat /\ DOMAIN q = 1 .. Len(q) /\ Len(C) \in Nat /\ DOMAIN C = 1 .. Len(C)
        /\ IsSeq(q) /\ OwnNames(q) /\ q # << >> /\ q[1].name = "ID"
        /\ IsSeq(C) /\ OwnNames(C) /\ C # << >> /\ C[1].name = "ID"
    BY SeqIs DEF IsColumns
  <1>2. 1 \in 1 .. Len(q) /\ 1 \in 1 .. Len(C)
    <2>1. Len(q) # 0 /\ Len(C) # 0
      BY <1>1 DEF IsSeq
    <2> QED
      BY <1>1, <2>1
  <1>3. a.add = Placed(C, A) /\ a.change = Placed(C, B)
    BY DEF Makes
  <1>4. PICK gA : /\ gA \in [1 .. nA -> DOMAIN C]
                  /\ \A k \in 1 .. nA : gA[k] \in A /\ a.add[k] = Spot(C, gA[k])
                  /\ \A k, l \in 1 .. nA : k < l => gA[k] < gA[l]
                  /\ \A i \in A \cap DOMAIN C : \E k \in 1 .. nA : gA[k] = i
    <2>1. PICK g : PlacedAt(C, A, g)
      BY <1>1, PlacedIs
    <2> QED
      BY <1>3, <2>1 DEF PlacedAt
  <1>5. PICK gB : /\ gB \in [1 .. nB -> DOMAIN C]
                  /\ \A k \in 1 .. nB : gB[k] \in B /\ a.change[k] = Spot(C, gB[k])
                  /\ \A k, l \in 1 .. nB : k < l => gB[k] < gB[l]
                  /\ \A i \in B \cap DOMAIN C : \E k \in 1 .. nB : gB[k] = i
    <2>1. PICK g : PlacedAt(C, B, g)
      BY <1>1, PlacedIs
    <2> QED
      BY <1>3, <2>1 DEF PlacedAt
  <1>6. IsSeq(a.add) /\ nA \in Nat /\ IsSeq(a.change) /\ nB \in Nat
    BY <1>1, <1>3, PlacedIs
  <1>7. /\ N = nA + nB /\ N \in Nat
        /\ \A k \in 1 .. nA : p[k] = a.add[k]
        /\ \A l \in 1 .. nB : p[nA + l] = a.change[l]
        /\ \A k \in 1 .. N : k \in 1 .. nA \/ k - nA \in 1 .. nB
    <2>1. Len(p) = nA + nB
      BY <1>6, SeqJoin
    <2>2. \A k \in 1 .. nA : p[k] = a.add[k]
      BY <1>6, SeqJoin
    <2>3. \A l \in 1 .. nB : p[nA + l] = a.change[l]
      BY <1>6, SeqJoinLast
    <2>4. \A k \in 1 .. Len(p) : k \in 1 .. nA \/ k - nA \in 1 .. nB
      BY <1>6, SeqJoin
    <2> HIDE DEF nA, nB, p
    <2> QED
      BY <1>6, <2>1, <2>2, <2>3, <2>4
  <1>8. PICK f : /\ f[0] = Changed(t, a)
                 /\ \A n \in 1 .. N : f[n] = Put(f[n - 1], p[n])
                 /\ R = f[N]
    BY ZenonT(60), <1>7, AlterRecursion
  <1>9. /\ IsColumns(f[0]) /\ f[0][1] = C[1] /\ ToSet(f[0]) \subseteq ToSet(C)
        /\ \A m \in DOMAIN C : C[m].name \in NamesIn(t.columns) => C[m] \in ToSet(f[0])
        /\ a.drop = {} => DOMAIN f[0] = DOMAIN t.columns
                          /\ \A i \in DOMAIN t.columns : f[0][i].name = t.columns[i].name
    BY <1>8, ChangedIs
  <1> DEFINE h == [k \in 1 .. N |-> IF k \in 1 .. nA THEN gA[k] ELSE gB[k - nA]]
  <1>10. \A k \in 1 .. N : h[k] = IF k \in 1 .. nA THEN gA[k] ELSE gB[k - nA]
    OBVIOUS
  <1>11. h \in [1 .. N -> DOMAIN C]
    BY <1>4, <1>5, <1>7
  <1> HIDE DEF h, p, N, nA, nB, A, B, R
  <1>12. ASSUME NEW k \in 1 .. N PROVE p[k] = Spot(C, h[k]) /\ h[k] \in A \cup B
    <2>1. CASE k \in 1 .. nA
      BY <1>4, <1>7, <1>10, <2>1
    <2>2. CASE k \notin 1 .. nA
      <3>1. k - nA \in 1 .. nB /\ nA + (k - nA) = k
        BY <1>6, <1>7, <2>2
      <3>2. p[k] = a.change[k - nA]
        BY <1>7, <3>1
      <3> QED
        BY <1>5, <1>10, <2>2, <3>1, <3>2
    <2> QED
      BY <2>1, <2>2
  <1>13. ASSUME NEW i \in A \cap DOMAIN C PROVE \E k \in 1 .. nA : k \in 1 .. N /\ h[k] = i
    <2>1. PICK k \in 1 .. nA : gA[k] = i
      BY <1>4
    <2>2. k \in 1 .. N
      BY <1>6, <1>7
    <2> QED
      BY <1>10, <2>1, <2>2
  <1>14. ASSUME NEW i \in B \cap DOMAIN C PROVE \E l \in 1 .. nB : gB[l] = i /\ nA + l \in 1 .. N /\ h[nA + l] = i
    <2>1. PICK l \in 1 .. nB : gB[l] = i
      BY <1>5
    <2> DEFINE k == nA + l
    <2>2. k \in 1 .. N /\ k \notin 1 .. nA /\ k - nA = l
      BY <1>6, <1>7
    <2> HIDE DEF k
    <2>3. h[k] = gB[l]
      BY <1>10, <2>2
    <2> QED
      BY <2>1, <2>2, <2>3 DEF k
  <1>15. \A i \in DOMAIN C : i \notin Misplaced(C, t) => i \in DOMAIN q /\ q[i] = C[i]
    BY <1>1, NotMisplaced
  <1>16. \A i \in DOMAIN C : C[i].name \notin NamesIn(q) => i \in A
    <2> SUFFICES ASSUME NEW i \in DOMAIN C, C[i].name \notin NamesIn(q), i \notin A PROVE FALSE
      OBVIOUS
    <2>1. i \notin Misplaced(C, t)
      BY DEF A, Added
    <2>2. q[i].name \in NamesIn(q)
      BY <1>15, <2>1 DEF NamesIn
    <2> QED
      BY <1>15, <2>1, <2>2
  <1>17. ASSUME NEW k \in 1 .. N, h[k] # 1
         PROVE  C[h[k] - 1] \in ToSet(f[0]) \cup {C[h[l]] : l \in 1 .. k - 1}
    <2> DEFINE j == h[k] - 1
    <2>1. j \in DOMAIN C /\ h[k] \in DOMAIN C /\ j < h[k]
      BY <1>1, <1>11, <1>17
    <2> HIDE DEF j
    <2>2. CASE C[j].name \in NamesIn(q)
      BY <1>9, <2>1, <2>2 DEF j
    <2>3. CASE C[j].name \notin NamesIn(q)
      <3>1. PICK l \in 1 .. nA : l \in 1 .. N /\ h[l] = j
        BY <1>13, <1>16, <2>1, <2>3
      <3>2. l \in 1 .. k - 1
        <4>1. CASE k \in 1 .. nA
          <5>1. gA[l] < gA[k]
            BY <1>10, <2>1, <3>1, <4>1
          <5>2. l < k \/ l = k \/ k < l
            BY <4>1
          <5>3. gA[l] \in Int /\ gA[k] \in Int
            BY <1>1, <1>4, <4>1
          <5> QED
            BY <1>4, <4>1, <5>1, <5>2, <5>3
        <4>2. CASE k \notin 1 .. nA
          BY <1>6, <1>7, <4>2
        <4> QED
          BY <4>1, <4>2
      <3> QED
        BY <3>1, <3>2 DEF j
    <2> QED
      BY <2>2, <2>3
  <1>18. Puts(C, N, p, h, f)
    BY <1>8, <1>9, <1>11, <1>12, <1>17 DEF Puts, IsColumns
  <1>19. N \in Nat
    BY <1>7
  <1>20. IsPut(C, h, f, N)
    <2>1. N \in 0 .. N
      BY <1>19
    <2> QED
      BY <1>1, <1>18, <1>19, <2>1, PutAll
  <1>21. IsColumns(R)
    BY <1>1, <1>8, <1>20 DEF IsColumns, IsPut
  <1>22. ToSet(R) = ToSet(C)
    <2>1. ToSet(R) = ToSet(f[0]) \cup {C[h[k]] : k \in 1 .. N}
      BY <1>8, <1>20 DEF IsPut
    <2>2. \A k \in 1 .. N : C[h[k]] \in ToSet(C)
      BY <1>1, <1>11, SeqIs
    <2>3. ASSUME NEW c \in ToSet(C) PROVE c \in ToSet(R)
      <3>1. PICK i \in DOMAIN C : C[i] = c
        BY <1>1, SeqIs
      <3>2. CASE c.name \in NamesIn(q)
        BY <1>9, <2>1, <3>1, <3>2
      <3>3. CASE c.name \notin NamesIn(q)
        <4>1. PICK k \in 1 .. nA : k \in 1 .. N /\ h[k] = i
          BY <1>13, <1>16, <3>1, <3>3
        <4> QED
          BY <2>1, <3>1, <4>1
      <3> QED
        BY <3>2, <3>3
    <2> QED
      BY <1>9, <2>1, <2>2, <2>3
  <1>23. ASSUME ToSet(q) = ToSet(C) PROVE R = C
    <2>1. NamesIn(q) = NamesIn(C)
      BY <1>23, NamesAre
    <2>2. \A i \in DOMAIN C : C[i].name \in NamesIn(q)
      BY <2>1 DEF NamesIn
    <2>3. a.drop = {} /\ A \cap DOMAIN C = {}
      BY <2>1, <2>2 DEF Makes, A, Added
    <2>4. nA = 0
      <3>1. 1 \notin 1 .. nA
        BY <1>4, <2>3
      <3> QED
        BY <1>6, <3>1
    <2> DEFINE S == DOMAIN C \ Misplaced(C, t)
    <2>5. \A i \in S : f[0][i] = C[i] /\ i \in DOMAIN f[0]
      <3> SUFFICES ASSUME NEW i \in S PROVE f[0][i] = C[i] /\ i \in DOMAIN f[0]
        OBVIOUS
      <3>1. i \in DOMAIN q /\ q[i] = C[i] /\ i \in DOMAIN f[0] /\ f[0][i].name = C[i].name
        BY <1>9, <1>15, <2>3
      <3>2. f[0][i] \in ToSet(f[0])
        BY <3>1 DEF ToSet
      <3>3. f[0][i] \in ToSet(C) /\ C[i] \in ToSet(C)
        BY <1>1, <1>9, <3>2, SeqIs
      <3> QED
        BY <1>1, <3>1, <3>3, NamesAre
    <2> HIDE DEF S
    <2>6. Follows(C, f[0], S)
      BY <2>5 DEF Follows, Before
    <2>7. 1 \notin Misplaced(C, t)
      <3>1. q[1] \in ToSet(C) /\ C[1] \in ToSet(C)
        BY <1>1, <1>2, <1>23, SeqIs
      <3>2. q[1] = C[1]
        BY <1>1, <3>1, NamesAre
      <3> QED
        BY <1>2, <3>2 DEF Misplaced
    <2>8. ASSUME NEW k \in 1 .. N PROVE h[k] # 1 /\ h[k] - 1 \in S \cup {h[l] : l \in 1 .. k - 1}
      <3>1. h[k] \in Misplaced(C, t) /\ h[k] \in DOMAIN C
        BY <1>11, <1>12 DEF A, B, Added, Moved
      <3>2. h[k] # 1
        BY <2>7, <3>1
      <3> DEFINE j == h[k] - 1
      <3>3. j \in DOMAIN C /\ j < h[k]
        BY <1>1, <3>1, <3>2
      <3>4. k - nA \in 1 .. nB /\ k - nA = k /\ h[k] = gB[k]
        BY <1>6, <1>7, <1>10, <2>4
      <3> HIDE DEF j
      <3>5. CASE j \in Misplaced(C, t)
        <4>1. j \in B \cap DOMAIN C
          BY <2>2, <3>3, <3>5 DEF B, Moved
        <4>2. PICK l \in 1 .. nB : gB[l] = j /\ nA + l \in 1 .. N /\ h[nA + l] = j
          BY <1>14, <4>1
        <4>3. nA + l = l
          BY <2>4
        <4>4. l < k \/ l = k \/ k < l
          BY <1>19
        <4>5. gB[l] \in Int /\ gB[k] \in Int
          BY <1>1, <1>5, <3>4
        <4>6. l < k
          BY <1>5, <3>3, <3>4, <4>2, <4>4, <4>5
        <4> QED
          BY <3>2, <4>2, <4>3, <4>6 DEF j
      <3>6. CASE j \notin Misplaced(C, t)
        BY <3>2, <3>3, <3>6 DEF j, S
      <3> QED
        BY <3>5, <3>6
    <2>9. Follows(C, R, Settled(S, h, N))
      <3>1. S \in SUBSET DOMAIN C
        BY DEF S
      <3>0. Precedes(h, N, S)
        BY <2>8 DEF Precedes, Settled
      <3>2. Follows(C, f[N], Settled(S, h, N))
        BY <1>1, <1>18, <1>19, <2>6, <3>0, <3>1, PutAllFollows
      <3> QED
        BY <1>8, <3>2
    <2>10. DOMAIN C = Settled(S, h, N)
      <3>1. \A l \in 1 .. N : h[l] \in DOMAIN C
        BY <1>11
      <3>2. ASSUME NEW i \in DOMAIN C, i \notin S PROVE i \in {h[l] : l \in 1 .. N}
        <4>1. i \in B \cap DOMAIN C
          BY <2>2, <3>2 DEF S, B, Moved
        <4> QED
          BY <1>14, <4>1
      <3> QED
        BY <3>1, <3>2 DEF S, Settled
    <2> QED
      BY <1>1, <1>21, <1>22, <2>9, <2>10, OrderedIs DEF IsColumns
  <1> QED
    BY <1>21, <1>22, <1>23 DEF R

-----------------------------------------------------------------------------
(* The records of alters.                                                  *)

LEMMA CreateIs ==
  ASSUME NEW e, NEW r
  PROVE  /\ Create(e, r).kind = "create" /\ Create(e, r).table = EntityTable(e) /\ Create(e, r).safe
         /\ Create(e, r).add = Columns(e, r) /\ Create(e, r).addKeys = Keys(e, r)
         /\ Create(e, r).drop = {} /\ Create(e, r).change = << >> /\ Create(e, r).encoding = r.encoding
  BY DEF Create, Nothing

LEMMA CreateLogIs ==
  ASSUME NEW e, NEW r
  PROVE  /\ CreateLog(e, r).kind = "create" /\ CreateLog(e, r).table = LogTable(e) /\ CreateLog(e, r).safe
         /\ CreateLog(e, r).add = LogColumns(r) /\ CreateLog(e, r).addKeys = {}
         /\ CreateLog(e, r).drop = {} /\ CreateLog(e, r).change = << >> /\ CreateLog(e, r).encoding = "utf8mb4"
  BY DEF CreateLog, Nothing

LEMMA DropTableIs ==
  ASSUME NEW table
  PROVE  /\ DropTable(table).kind = "drop" /\ DropTable(table).table = table
         /\ DropTable(table).safe = (table \notin rows)
  BY DEF DropTable, Nothing

LEMMA ForeignAre ==
  ASSUME NEW kind, NEW table, NEW fks, NEW a \in AlterForeign(kind, table, fks)
  PROVE  /\ a.kind = kind /\ a.table = table /\ a.fks = fks /\ fks # {}
         /\ a.safe /\ a.drop = {} /\ a.change = << >>
  BY DEF AlterForeign, Nothing

LEMMA ForeignIsOne ==
  ASSUME NEW kind, NEW table, NEW fks
  PROVE  /\ \A a, b \in AlterForeign(kind, table, fks) : a = b
         /\ fks # {} => \E a \in AlterForeign(kind, table, fks) : TRUE
  <1>1. \A a, b \in AlterForeign(kind, table, fks) : a = b
    BY DEF AlterForeign
  <1>2. fks # {} => \E a \in AlterForeign(kind, table, fks) : TRUE
    BY DEF AlterForeign
  <1> QED
    BY <1>1, <1>2

\* Nothing is left to alter of columns and indexes.
IsIdle(a) == a.drop = {} /\ a.add = << >> /\ a.change = << >> /\ a.dropKeys = {} /\ a.addKeys = {}

OwnKeys(e, r) == {fk.name : fk \in ForeignKeys(e, r)}
Unwanted(e, r, t) == {k.name : k \in {k \in t.keys \ Keys(e, r) : k.name \notin OwnKeys(e, r)}}

Normal(table, d, x, y, k, l) ==
  [Nothing EXCEPT !.table = table, !.drop = d, !.add = x, !.change = y, !.dropKeys = k, !.addKeys = l]

LEMMA NothingIs ==
  ASSUME NEW table, NEW d, NEW x, NEW y, NEW k, NEW l, NEW a, a = Normal(table, d, x, y, k, l)
  PROVE  a = [Nothing EXCEPT !.table = table] <=> IsIdle(a)
  <1> DEFINE n == [Nothing EXCEPT !.table = table]
             D == {"kind", "table", "safe", "drop", "add", "change", "dropKeys", "addKeys", "fks", "encoding"}
  <1>0. a = [Nothing EXCEPT !.table = table, !.drop = d, !.add = x, !.change = y, !.dropKeys = k, !.addKeys = l]
    BY DEF Normal
  <1>1. DOMAIN n = D /\ DOMAIN a = D /\ n = [f \in D |-> n[f]] /\ a = [f \in D |-> a[f]]
    BY <1>0 DEF Nothing
  <1>2. n.drop = {} /\ n.add = << >> /\ n.change = << >> /\ n.dropKeys = {} /\ n.addKeys = {}
    BY <1>0 DEF Nothing
  <1>3. a["kind"] = n["kind"] /\ a["table"] = n["table"] /\ a["fks"] = n["fks"] /\ a["encoding"] = n["encoding"]
    BY <1>0 DEF Nothing
  <1>4. a["safe"] = n["safe"]
    BY <1>0 DEF Nothing
  <1> HIDE DEF n
  <1>5. ASSUME IsIdle(a) PROVE a = n
    <2>1. \A f \in D : a[f] = n[f]
      BY <1>2, <1>3, <1>4, <1>5 DEF IsIdle
    <2> QED
      BY <1>1, <2>1
  <1>6. ASSUME a = n PROVE IsIdle(a)
    BY <1>2, <1>6 DEF IsIdle
  <1> QED
    BY <1>5, <1>6 DEF n

Called(a, safe) == [a EXCEPT !.safe = safe]

LEMMA NormalAlterIs ==
  ASSUME NEW e, NEW r, NEW t, NEW safe, NEW n, n = NormalAlter(e, r, t), NEW q, q = Called(n, safe)
  PROVE  /\ (n = [Nothing EXCEPT !.table = EntityTable(e)]) <=> IsIdle(n)
         /\ n.drop = q.drop /\ n.change = q.change /\ IsIdle(n) = IsIdle(q)
         /\ n.table = EntityTable(e) /\ q.kind = "alter" /\ q.table = EntityTable(e) /\ q.safe = safe
         /\ Makes(Columns(e, r), t, q)
         /\ q.dropKeys = Unwanted(e, r, t) /\ q.addKeys = Keys(e, r) \ t.keys
  <1> DEFINE C == Columns(e, r)
             A == {i \in Misplaced(C, t) : C[i].name \notin NamesIn(t.columns)}
             B == {i \in Misplaced(C, t) : ~(C[i].name \notin NamesIn(t.columns))}
             a == [kind |-> "alter", table |-> EntityTable(e), safe |-> TRUE, drop |-> NamesIn(t.columns) \ NamesIn(C),
                   add |-> Placed(C, A), change |-> Placed(C, B), dropKeys |-> Unwanted(e, r, t),
                   addKeys |-> Keys(e, r) \ t.keys, fks |-> {}, encoding |-> None]
             b == [a EXCEPT !.safe = safe]
  <1>1. NormalAlter(e, r, t) = a
    <2>1. Unwanted(e, r, t) = {k.name : k \in {k \in t.keys \ Keys(e, r) : k.name \notin {fk.name : fk \in ForeignKeys(e, r)}}}
      BY DEF Unwanted, OwnKeys
    <2> DEFINE D == {k.name : k \in {k \in t.keys \ Keys(e, r) : k.name \notin {fk.name : fk \in ForeignKeys(e, r)}}}
    <2>2. NormalAlter(e, r, t) = [Nothing EXCEPT !.table = EntityTable(e), !.drop = NamesIn(t.columns) \ NamesIn(C),
                                   !.add = Placed(C, A), !.change = Placed(C, B), !.dropKeys = D,
                                   !.addKeys = Keys(e, r) \ t.keys]
      BY DEF NormalAlter
    <2> HIDE DEF A, B, C, D
    <2>3. NormalAlter(e, r, t) =
            [kind |-> "alter", table |-> EntityTable(e), safe |-> TRUE, drop |-> NamesIn(t.columns) \ NamesIn(C),
             add |-> Placed(C, A), change |-> Placed(C, B), dropKeys |-> D,
             addKeys |-> Keys(e, r) \ t.keys, fks |-> {}, encoding |-> None]
      BY <2>2 DEF Nothing
    <2>4. D = Unwanted(e, r, t)
      BY <2>1 DEF D
    <2> QED
      BY <2>3, <2>4
  <1>2. A = Added(C, t) /\ B = Moved(C, t)
    BY DEF Added, Moved
  <1>3. (NormalAlter(e, r, t) = [Nothing EXCEPT !.table = EntityTable(e)]) <=> IsIdle(NormalAlter(e, r, t))
    <2> DEFINE d == NamesIn(t.columns) \ NamesIn(C)
               x == Placed(C, A)
               y == Placed(C, B)
               k == {k \in t.keys \ Keys(e, r) : k.name \notin {fk.name : fk \in ForeignKeys(e, r)}}
               m == {l.name : l \in k}
               o == Keys(e, r) \ t.keys
    <2>1. NormalAlter(e, r, t) = Normal(EntityTable(e), d, x, y, m, o)
      BY DEF NormalAlter, Normal
    <2> HIDE DEF d, x, y, m, o
    <2> QED
      BY <2>1, NothingIs
  <1>4. /\ b.kind = "alter" /\ b.table = EntityTable(e) /\ b.safe = safe
        /\ b.drop = a.drop /\ b.add = a.add /\ b.change = a.change /\ b.dropKeys = a.dropKeys /\ b.addKeys = a.addKeys
    OBVIOUS
  <1>5. IsIdle(a) = IsIdle(b)
    BY <1>4 DEF IsIdle
  <1>6. Makes(C, t, b)
    BY <1>2, <1>4 DEF Makes
  <1>7. a.table = EntityTable(e) /\ b.dropKeys = Unwanted(e, r, t) /\ b.addKeys = Keys(e, r) \ t.keys
    OBVIOUS
  <1>8. n = a /\ q = b
    BY <1>1 DEF Called
  <1> HIDE DEF a, b
  <1> QED
    BY <1>1, <1>3, <1>4, <1>5, <1>6, <1>7, <1>8

\* After all of columns and indexes were made there is nothing to alter.
LEMMA IdleIs ==
  ASSUME NEW C, IsSeq(C), NEW t, t.columns = C
  PROVE  \A a : Makes(C, t, a) => a.drop = {} /\ a.add = << >> /\ a.change = << >>
  <1>1. Misplaced(C, t) = {}
    BY SeqIs DEF Misplaced
  <1>2. Added(C, t) = {} /\ Moved(C, t) = {}
    BY <1>1 DEF Added, Moved
  <1>3. Placed(C, {}) = << >>
    BY PlacedIs
  <1> QED
    BY <1>2, <1>3 DEF Makes

\* And when there is not, the columns are those that were to be made.
LEMMA IdleColumns ==
  ASSUME NEW C, IsColumns(C), None \notin NamesIn(C), NEW t, IsColumns(t.columns), NEW a, Makes(C, t, a),
         a.drop = {}, a.add = << >>, a.change = << >>
  PROVE  t.columns = C
  <1>1. IsSeq(C) /\ Len(C) \in Nat /\ DOMAIN C = 1 .. Len(C)
        /\ IsSeq(t.columns) /\ Len(t.columns) \in Nat /\ DOMAIN t.columns = 1 .. Len(t.columns)
        /\ OwnNames(C) /\ OwnNames(t.columns)
    BY SeqIs DEF IsColumns
  <1>2. ASSUME NEW I, Placed(C, I) = << >> PROVE I \cap DOMAIN C = {}
    <2>1. ToSet(Placed(C, I)) = {Spot(C, i) : i \in I \cap DOMAIN C}
      BY <1>1, PlacedIs
    <2>2. ToSet(<< >>) = {}
      BY DEF ToSet
    <2> QED
      BY <1>2, <2>1, <2>2
  <1>3. Added(C, t) \cap DOMAIN C = {} /\ Moved(C, t) \cap DOMAIN C = {}
    BY <1>2 DEF Makes
  <1>4. \A i \in DOMAIN C : i \in DOMAIN t.columns /\ t.columns[i] = C[i]
    <2> SUFFICES ASSUME NEW i \in DOMAIN C PROVE i \in DOMAIN t.columns /\ t.columns[i] = C[i]
      OBVIOUS
    <2>1. i \notin Misplaced(C, t)
      BY <1>3 DEF Added, Moved
    <2> QED
      BY <1>1, <2>1, NotMisplaced
  <1>5. NamesIn(t.columns) \subseteq NamesIn(C)
    BY DEF Makes
  <1>6. ASSUME NEW j \in DOMAIN t.columns PROVE j \in DOMAIN C
    <2>1. t.columns[j].name \in NamesIn(C)
      BY <1>5, <1>6 DEF NamesIn
    <2>2. PICK i \in DOMAIN C : C[i].name = t.columns[j].name
      BY <2>1 DEF NamesIn
    <2>3. i = j
      BY <1>1, <1>4, <1>6, <2>2 DEF OwnNames
    <2> QED
      BY <2>3
  <1>7. DOMAIN t.columns = DOMAIN C
    BY <1>4, <1>6
  <1>8. Len(t.columns) = Len(C)
    BY <1>1, <1>7
  <1>9. t.columns \in [1 .. Len(C) -> ToSet(t.columns)] /\ C \in [1 .. Len(C) -> ToSet(C)]
    BY <1>1, <1>8, SeqIs DEF IsSeq
  <1> QED
    BY <1>1, <1>4, <1>9

-----------------------------------------------------------------------------
(* A safe alter loses nothing.                                             *)

\* An alter loses nothing of its table, or there was nothing when it was computed.
Harmless(a) == (a.kind # "drop" /\ a.drop = {} /\ a.change = << >>) \/ a.table \notin rows \/ a.table \in late

SafeInv ==
  /\ lost \subseteq late
  /\ mode # "table" => \A a \in alters : a.safe => Harmless(a)

LEMMA SafeSchemaChanges ==
  ASSUME NEW e, NEW r, NEW a \in SchemaChanges(e, r), a.safe
  PROVE  (a.kind # "drop" /\ a.drop = {} /\ a.change = << >>) \/ a.table \notin rows
  <1> DEFINE table == EntityTable(e)
             t == db[table]
             n == NormalAlter(e, r, t)
             charset == [Nothing EXCEPT !.kind = "charset", !.table = table, !.encoding = r.encoding]
  <1>1. \/ a = Create(e, r)
        \/ a \in AlterForeign("addFK", table, ForeignKeys(e, r))
        \/ a = [n EXCEPT !.safe = IsSafe(n)]
        \/ a = charset
        \/ a \in AlterForeign("dropFK", table, t.fks \ ForeignKeys(e, r))
        \/ a \in AlterForeign("addFK", table, ForeignKeys(e, r) \ t.fks)
    BY DEF SchemaChanges
  <1>2. CASE a = Create(e, r)
    BY <1>2, CreateIs
  <1>3. CASE a \in AlterForeign("addFK", table, ForeignKeys(e, r))
    BY <1>3, ForeignAre
  <1>4. CASE a \in AlterForeign("dropFK", table, t.fks \ ForeignKeys(e, r))
    BY <1>4, ForeignAre
  <1>5. CASE a \in AlterForeign("addFK", table, ForeignKeys(e, r) \ t.fks)
    BY <1>5, ForeignAre
  <1>6. CASE a = charset
    BY <1>6 DEF Nothing
  <1>7. CASE a = [n EXCEPT !.safe = IsSafe(n)]
    <2> DEFINE safe == IsSafe(n)
               b == [n EXCEPT !.safe = safe]
    <2> HIDE DEF safe
    <2>1. n.drop = b.drop /\ n.change = b.change /\ n.table = table /\ b.kind = "alter" /\ b.table = table
          /\ b.safe = safe
      <3>1. n = NormalAlter(e, r, t) /\ b = Called(n, safe)
        BY DEF Called
      <3> HIDE DEF n, b, t
      <3> QED
        BY <3>1, NormalAlterIs
    <2>3. a = b
      BY <1>7 DEF safe
    <2>4. safe
      BY <2>1, <2>3
    <2>5. (n.drop = {} /\ n.change = << >>) \/ n.table \notin rows
      BY <2>4 DEF safe, IsSafe
    <2> HIDE DEF b, n, table
    <2> QED
      BY <2>1, <2>3, <2>5
  <1> QED
    BY <1>1, <1>2, <1>3, <1>4, <1>5, <1>6, <1>7

LEMMA SafeAlters ==
  ASSUME NEW a \in Alters(wanted), a.safe
  PROVE  (a.kind # "drop" /\ a.drop = {} /\ a.change = << >>) \/ a.table \notin rows
  <1>1. CASE \E e \in wanted.entities : a \in SchemaChanges(e, wanted)
    BY <1>1, SafeSchemaChanges
  <1>2. CASE \E e \in wanted.entities : a \in LogChanges(e, wanted)
    <2>1. PICK e \in wanted.entities : a = CreateLog(e, wanted) \/ a = DropTable(LogTable(e))
      BY <1>2 DEF LogChanges
    <2>2. CreateLog(e, wanted).kind = "create" /\ CreateLog(e, wanted).drop = {} /\ CreateLog(e, wanted).change = << >>
      BY CreateLogIs
    <2>3. DropTable(LogTable(e)).safe = (LogTable(e) \notin rows) /\ DropTable(LogTable(e)).table = LogTable(e)
      BY DropTableIs
    <2>4. CASE a = CreateLog(e, wanted)
      BY <2>2, <2>4
    <2>5. CASE a = DropTable(LogTable(e))
      BY <2>3, <2>5
    <2> QED
      BY <2>1, <2>4, <2>5
  <1>3. CASE \E table \in DOMAIN db \ TablesInEntities(wanted) :
                a \in AlterForeign("dropFK", table, db[table].fks) \cup {DropTable(table)}
    <2>1. PICK table \in DOMAIN db \ TablesInEntities(wanted) :
             a \in AlterForeign("dropFK", table, db[table].fks) \/ a = DropTable(table)
      BY <1>3
    <2>2. CASE a \in AlterForeign("dropFK", table, db[table].fks)
      BY <2>2, ForeignAre
    <2>3. CASE a = DropTable(table)
      <3>1. DropTable(table).safe = (table \notin rows) /\ DropTable(table).table = table
        BY DropTableIs
      <3> QED
        BY <2>3, <3>1
    <2> QED
      BY <2>1, <2>2, <2>3
  <1>4. \/ a \in UNION {SchemaChanges(e, wanted) \cup LogChanges(e, wanted) : e \in wanted.entities}
        \/ a \in UNION {AlterForeign("dropFK", table, db[table].fks) \cup {DropTable(table)}
                        : table \in DOMAIN db \ TablesInEntities(wanted)}
    BY ZenonT(40) DEF Alters
  <1>5. \/ \E e \in wanted.entities : a \in SchemaChanges(e, wanted) \cup LogChanges(e, wanted)
        \/ \E table \in DOMAIN db \ TablesInEntities(wanted) :
              a \in AlterForeign("dropFK", table, db[table].fks) \cup {DropTable(table)}
    BY <1>4
  <1> QED
    BY <1>1, <1>2, <1>3, <1>5

LEMMA SafeInvInductive ==
  /\ Init => SafeInv
  /\ SafeInv /\ [Next]_vars => SafeInv'
  <1>1. ASSUME Init PROVE SafeInv
    BY <1>1 DEF Init, SafeInv
  <1>2. ASSUME SafeInv, [Next]_vars PROVE SafeInv'
    <2>1. CASE UNCHANGED vars
      BY <1>2, <2>1 DEF SafeInv, Harmless, vars
    <2>2. CASE Release
      BY <1>2, <2>2 DEF SafeInv, Release
    <2>3. CASE GetAlters
      <3>1. lost' = {} /\ rows' = rows
        BY <2>3 DEF GetAlters
      <3>2. ASSUME NEW a \in alters', a.safe PROVE Harmless(a)'
        <4>1. a \in Alters(wanted)
          BY <2>3, <3>2 DEF GetAlters
        <4>2. (a.kind # "drop" /\ a.drop = {} /\ a.change = << >>) \/ a.table \notin rows
          BY <3>2, <4>1, SafeAlters
        <4> QED
          BY <3>1, <4>2 DEF Harmless
      <3> QED
        BY <3>1, <3>2 DEF SafeInv
    <2>4. CASE UpdateSchema
      BY <2>4 DEF UpdateSchema, SafeInv
    <2>5. CASE Exec
      <3>1. PICK a \in alters :
               /\ rows' = IF a.kind = "drop" THEN rows \ {a.table} ELSE rows
               /\ alters' = alters \ {a}
               /\ lost' = IF a.safe /\ mode # "table" /\ Loses(a) THEN lost \cup {a.table} ELSE lost
               /\ UNCHANGED <<mode, late>>
        BY <2>5 DEF Exec
      <3>2. ASSUME mode # "table", NEW b \in alters', b.safe PROVE Harmless(b)'
        <4>1. Harmless(b)
          BY <1>2, <3>1, <3>2 DEF SafeInv
        <4> QED
          BY <3>1, <4>1 DEF Harmless
      <3>3. ASSUME a.safe, mode # "table", Loses(a) PROVE a.table \in late
        <4>1. Harmless(a)
          BY <1>2, <3>3 DEF SafeInv
        <4>2. a.table \in rows /\ (a.kind = "drop" \/ a.drop # {} \/ IsRetyped(a))
          BY <3>3 DEF Loses
        <4>3. IsRetyped(a) => a.change # << >>
          BY DEF IsRetyped, ToSet
        <4> QED
          BY <4>1, <4>2, <4>3 DEF Harmless
      <3>4. lost' \subseteq late'
        BY <1>2, <3>1, <3>3 DEF SafeInv
      <3>5. mode' # "table" => \A b \in alters' : b.safe => Harmless(b)'
        BY <3>1, <3>2
      <3> QED
        BY <3>4, <3>5 DEF SafeInv
    <2>6. CASE ExecRefused
      BY <1>2, <2>6 DEF SafeInv, ExecRefused
    <2>7. CASE ExecFails
      BY <1>2, <2>7 DEF SafeInv, ExecFails
    <2>8. CASE TruncateTable
      BY <1>2, <2>8 DEF SafeInv, TruncateTable
    <2>9. CASE DropEntityTable
      BY <1>2, <2>9 DEF SafeInv, DropEntityTable
    <2>10. CASE InsertRows
      <3>1. PICK table : /\ rows' = rows \cup {table}
                         /\ late' = IF alters = {} THEN late ELSE late \cup {table}
                         /\ UNCHANGED <<alters, mode, lost>>
        BY <2>10 DEF InsertRows
      <3>2. lost' \subseteq late'
        BY <1>2, <3>1 DEF SafeInv
      <3>3. ASSUME mode # "table", NEW a \in alters', a.safe PROVE Harmless(a)'
        BY <1>2, <3>1, <3>3 DEF SafeInv, Harmless
      <3> QED
        BY <3>1, <3>2, <3>3 DEF SafeInv
    <2>11. CASE Cascade
      BY <1>2, <2>11 DEF SafeInv, Cascade
    <2> QED
      BY <1>2, <2>1, <2>2, <2>3, <2>4, <2>5, <2>6, <2>7, <2>8, <2>9, <2>10, <2>11 DEF Next
  <1> QED
    BY <1>1, <1>2

\* No alter that GetAlters called safe loses rows but those that were inserted after
\* it was computed: hasDropColumn, the ALTERs that change columns, and isTableEmpty of
\* getSchemaChanges and getAlters say so before anything is executed.
THEOREM SafeAltersLoseNothing == Spec => []SafeLosesNothing
  <1>1. SafeInv => SafeLosesNothing
    BY DEF SafeInv, SafeLosesNothing
  <1> QED
    BY <1>1, SafeInvInductive, PTL DEF Spec

-----------------------------------------------------------------------------
(* The inductive invariant.                                                *)

\* The names of indexes are one name, or those of the table and of the column of a foreign key.
IsKey(k, u) ==
  /\ k = [name |-> k.name, columns |-> k.columns, unique |-> k.unique]
  /\ k.columns # << >> /\ IsSeq(k.columns)
  /\ k.name = <<k.name[1]>> \/ (k.name = <<u[1], k.name[2]>> /\ k.columns = <<k.name[2]>>)
IsForeignKey(fk, u) ==
  fk = [name |-> <<u[1], fk.column>>, column |-> fk.column, table |-> fk.table, onDelete |-> fk.onDelete]

IsTable(t, u) ==
  /\ t = [columns |-> t.columns, keys |-> t.keys, fks |-> t.fks, encoding |-> t.encoding]
  /\ IsSeq(t.columns) /\ OwnNames(t.columns)
  /\ \A k \in t.keys : IsKey(k, u) /\ ToSet(k.columns) \subseteq NamesIn(t.columns)
  /\ \A k, l \in t.keys : k.name = l.name => k = l
  /\ \A fk \in t.fks : IsForeignKey(fk, u)
  /\ \A fk, other \in t.fks : fk.name = other.name => fk = other
  /\ u = <<u[1]>> => IsColumns(t.columns)
  /\ u # <<u[1]>> => t.fks = {}

TablesOK == \A u \in DOMAIN db : IsTable(db[u], u)

\* What the alters that are left do to the tables that are.
IsCreate(a) == \E e \in wanted.entities : a = Create(e, wanted) /\ EntityTable(e) \notin DOMAIN db
IsCreateLog(a) ==
  /\ mode # "table"
  /\ \E e \in wanted.entities :
       /\ e.log /\ a = CreateLog(e, wanted)
       /\ LogTable(e) \in DOMAIN db =>
            /\ db[LogTable(e)].columns # LogColumns(wanted)
            /\ mode = "safe" \/ \E b \in alters : b.kind = "drop" /\ b.table = LogTable(e)
IsWrongLog(u) == \E e \in wanted.entities : e.log /\ u = LogTable(e) /\ db[u].columns # LogColumns(wanted)
IsDrop(a) ==
  /\ a.kind = "drop" /\ mode # "table" /\ a.table \in DOMAIN db
  /\ a.table \notin TablesInEntities(wanted) \/ IsWrongLog(a.table)
IsDropForeign(a) ==
  /\ a.kind = "dropFK" /\ a.table \in DOMAIN db /\ a.fks # {} /\ a.fks \subseteq db[a.table].fks
  /\ \A e \in wanted.entities : EntityTable(e) = a.table => a.fks \cap ForeignKeys(e, wanted) = {}
IsAddForeign(a) ==
  /\ a.kind = "addFK" /\ a.fks # {}
  /\ \E e \in wanted.entities : a.table = EntityTable(e) /\ a.fks \subseteq ForeignKeys(e, wanted)
  /\ a.table \in DOMAIN db => a.fks \cap db[a.table].fks = {}
Alter(a, e, t) ==
  /\ Makes(Columns(e, wanted), t, a) /\ a.addKeys \subseteq Keys(e, wanted)
  /\ mode # "table" => /\ a.dropKeys = Unwanted(e, wanted, t) /\ a.addKeys = Keys(e, wanted) \ t.keys
                       /\ ~IsIdle(a)
IsAlter(a) ==
  /\ a.kind = "alter" /\ a.table \in DOMAIN db
  /\ \E e \in wanted.entities : a.table = EntityTable(e) /\ Alter(a, e, db[a.table])
IsCharset(a) ==
  /\ a.kind = "charset" /\ a.table \in DOMAIN db
  /\ \E e \in wanted.entities : a.table = EntityTable(e) /\ a.encoding = wanted.encoding

IsPending(a) ==
  IsCreate(a) \/ IsCreateLog(a) \/ IsDrop(a) \/ IsDropForeign(a) \/ IsAddForeign(a) \/ IsAlter(a) \/ IsCharset(a)

PendingOK ==
  /\ \A a \in alters : IsPending(a)
  /\ \A a, b \in alters : a.kind = b.kind /\ a.table = b.table => a = b

\* An alter of a kind is left for a table.
IsLeft(kind, u) == \E a \in alters : a.kind = kind /\ a.table = u
IsLeftFor(kind, u, fk) == \E a \in alters : a.kind = kind /\ a.table = u /\ fk \in a.fks

\* A foreign key that no entity has is dropped.
ForeignKeysOK ==
  \A u \in DOMAIN db : \A fk \in db[u].fks :
     \/ \E e \in wanted.entities : u = EntityTable(e) /\ fk \in ForeignKeys(e, wanted)
     \/ IsLeftFor("dropFK", u, fk)

\* An entity has what it asks for, or an alter is left that makes it; in the order it asks for
\* after one round, and its encoding after two.
HasColumns(e, t) ==
  /\ ToSet(t.columns) = ToSet(Columns(e, wanted))
  /\ Keys(e, wanted) \subseteq t.keys
  /\ \A k \in t.keys : k \in Keys(e, wanted) \/ k.name \in OwnKeys(e, wanted)
WillHold(e, n) ==
  LET u == EntityTable(e) IN
  /\ u \in DOMAIN db \/ IsLeft("create", u)
  /\ u \in DOMAIN db => HasColumns(e, db[u]) \/ IsLeft("alter", u)
  /\ u \in DOMAIN db /\ n >= 1 => db[u].columns = Columns(e, wanted) \/ IsLeft("alter", u)
  /\ u \in DOMAIN db /\ n >= 2 => db[u].encoding = wanted.encoding \/ IsLeft("charset", u)
  /\ \A fk \in ForeignKeys(e, wanted) : (u \in DOMAIN db /\ fk \in db[u].fks) \/ IsLeftFor("addFK", u, fk)
  /\ e.log => \/ LogTable(e) \in DOMAIN db /\ db[LogTable(e)].columns = LogColumns(wanted)
              \/ IsLeft("create", LogTable(e))
CompleteAt(n) ==
  /\ \A e \in wanted.entities : WillHold(e, n)
  /\ \A u \in DOMAIN db : u \in TablesInEntities(wanted) \/ IsLeft("drop", u)

Complete == CompleteAt(rounds)

\* What was made in earlier rounds.
HoldsAll(e) ==
  /\ Holds(e) /\ HasColumns(e, db[EntityTable(e)])
  /\ rounds >= 2 => db[EntityTable(e)].columns = Columns(e, wanted)
  /\ rounds = 3 => db[EntityTable(e)].encoding = wanted.encoding
RoundsHold == rounds >= 1 => DOMAIN db = TablesInEntities(wanted) /\ \A e \in wanted.entities : HoldsAll(e)

Basics ==
  /\ wanted \in Releases /\ IsValid(wanted)
  /\ rows \subseteq DOMAIN db
  /\ mode \in {"all", "safe", "table"}
  /\ releases \in 0 .. MaxReleases /\ changes \in 0 .. MaxChanges /\ rounds \in 0 .. 3
  /\ refused = {} \/ \E a \in refused : refused = {a}

SchemaInv ==
  /\ Basics /\ TablesOK /\ PendingOK
  /\ mode # "table" /\ alters # {} => ForeignKeysOK
  /\ mode = "all" /\ alters # {} => Complete
  /\ RoundsHold /\ (rounds = 3 => alters = {})
  /\ refused # {} => alters = {}

-----------------------------------------------------------------------------
(* Tables of entities.                                                     *)

LEMMA TableNames ==
  ASSUME NEW e
  PROVE  /\ EntityTable(e)[1] = e.table /\ EntityTable(e) = <<EntityTable(e)[1]>>
         /\ LogTable(e) # <<LogTable(e)[1]>>
         /\ \A other : EntityTable(e) # LogTable(other) /\ LogTable(e) # EntityTable(other)
         /\ \A other : EntityTable(e) = EntityTable(other) => e.table = other.table
         /\ \A other : LogTable(e) = LogTable(other) => e.table = other.table
  <1>1. /\ EntityTable(e)[1] = e.table /\ EntityTable(e) = <<EntityTable(e)[1]>>
        /\ \A other : EntityTable(e) = EntityTable(other) => e.table = other.table
    BY DEF EntityTable
  <1>2. \A x, y, z : <<x, y>> # <<z>>
    <2> TAKE x, y, z
    <2>1. Len(<<x, y>>) = 2 /\ Len(<<z>>) = 1
      OBVIOUS
    <2> QED
      BY <2>1
  <1>3. LogTable(e) # <<LogTable(e)[1]>>
    BY <1>2 DEF LogTable
  <1>4. \A other : EntityTable(e) # LogTable(other) /\ LogTable(e) # EntityTable(other)
    BY <1>2 DEF LogTable, EntityTable
  <1>5. \A other : LogTable(e) = LogTable(other) => e.table = other.table
    BY DEF LogTable
  <1> QED
    BY <1>1, <1>3, <1>4, <1>5

\* One entity has a table.
LEMMA TableOfOne ==
  ASSUME NEW r \in Releases, IsValid(r), NEW e \in r.entities, NEW other \in r.entities,
         EntityTable(e) = EntityTable(other) \/ LogTable(e) = LogTable(other)
  PROVE  e = other
  BY TableNames, EntityIs

\* The names of indexes and of foreign keys are never the same.
LEMMA KeyNames ==
  ASSUME NEW u, NEW k, NEW fk, IsForeignKey(fk, u), k.name = <<k.name[1]>>
  PROVE  k.name # fk.name
  <1>1. \A x, y, z : <<x, y>> # <<z>>
    <2> TAKE x, y, z
    <2>1. Len(<<x, y>>) = 2 /\ Len(<<z>>) = 1
      OBVIOUS
    <2> QED
      BY <2>1
  <1>2. fk.name = <<u[1], fk.column>>
    BY DEF IsForeignKey
  <1> QED
    BY <1>1, <1>2

LEMMA EntityKeys ==
  ASSUME NEW r \in Releases, IsValid(r), NEW e \in r.entities, NEW k \in Keys(e, r), NEW u
  PROVE  /\ IsKey(k, u) /\ k.name = <<k.name[1]>> /\ ToSet(k.columns) \subseteq NamesIn(Columns(e, r))
         /\ \A l \in Keys(e, r) : k.name = l.name => k = l
  <1>1. k.name = <<k.name[1]>>
    <2>1. PICK n : k.name = <<n>>
      BY KeysAre
    <2> QED
      BY <2>1
  <1> QED
    BY <1>1, KeysAre DEF IsKey

LEMMA EntityForeignKeys ==
  ASSUME NEW r \in Releases, IsValid(r), NEW e \in r.entities, NEW fk \in ForeignKeys(e, r)
  PROVE  /\ IsForeignKey(fk, EntityTable(e))
         /\ \A same \in ForeignKeys(e, r) : same.name = fk.name => same = fk
  <1>1. fk = [name |-> <<e.table, fk.column>>, column |-> fk.column, table |-> fk.table, onDelete |-> "RESTRICT"]
    BY ForeignKeysAre
  <1>2. fk = [name |-> <<EntityTable(e)[1], fk.column>>, column |-> fk.column, table |-> fk.table, onDelete |-> fk.onDelete]
    <2>1. fk.onDelete = "RESTRICT"
      BY <1>1
    <2> QED
      BY <1>1, <2>1, TableNames
  <1> QED
    BY <1>2, ForeignKeysAre DEF IsForeignKey

\* A table as CREATE TABLE makes it.
Made(a) == [columns |-> a.add, keys |-> a.addKeys, fks |-> {}, encoding |-> a.encoding]

LEMMA EntityColumns ==
  ASSUME NEW r \in Releases, IsValid(r), NEW e \in r.entities
  PROVE  IsColumns(Columns(e, r)) /\ None \notin NamesIn(Columns(e, r))
  BY ColumnsAre DEF IsColumns

LEMMA MadeIsTable ==
  ASSUME NEW r \in Releases, IsValid(r), NEW e \in r.entities
  PROVE  IsTable(Made(Create(e, r)), EntityTable(e))
  <1> DEFINE t == Made(Create(e, r))
             u == EntityTable(e)
  <1>1. t = [columns |-> t.columns, keys |-> t.keys, fks |-> t.fks, encoding |-> t.encoding]
    BY DEF Made
  <1>2. t.columns = Columns(e, r) /\ t.keys = Keys(e, r) /\ t.fks = {}
    BY CreateIs DEF Made
  <1> HIDE DEF t
  <1>3. IsColumns(t.columns) /\ IsSeq(t.columns) /\ OwnNames(t.columns)
    BY <1>2, EntityColumns DEF IsColumns
  <1>4. \A k \in t.keys : IsKey(k, u) /\ ToSet(k.columns) \subseteq NamesIn(t.columns)
    BY <1>2, EntityKeys
  <1>5. \A k, l \in t.keys : k.name = l.name => k = l
    BY <1>2, EntityKeys
  <1> HIDE DEF u
  <1> QED
    BY <1>1, <1>2, <1>3, <1>4, <1>5 DEF IsTable, t, u

LEMMA MadeIsLogTable ==
  ASSUME NEW r, NEW e
  PROVE  IsTable(Made(CreateLog(e, r)), LogTable(e)) /\ Made(CreateLog(e, r)).columns = LogColumns(r)
  <1> DEFINE t == Made(CreateLog(e, r))
             u == LogTable(e)
  <1>1. t = [columns |-> t.columns, keys |-> t.keys, fks |-> t.fks, encoding |-> t.encoding]
    BY DEF Made
  <1>2. t.columns = LogColumns(r) /\ t.keys = {} /\ t.fks = {}
    BY CreateLogIs DEF Made
  <1> HIDE DEF t
  <1>3. IsSeq(LogColumns(r)) /\ OwnNames(LogColumns(r))
    <2> DEFINE c == LogColumns(r)[1]
    <2>1. LogColumns(r) = <<c>>
      BY DEF LogColumns
    <2> HIDE DEF c
    <2>2. <<c>> \in Seq({c}) /\ Len(<<c>>) = 1 /\ DOMAIN <<c>> = 1 .. 1
      OBVIOUS
    <2>3. OwnNames(<<c>>)
      BY <2>2 DEF OwnNames
    <2> QED
      BY <2>1, <2>2, <2>3, SeqAny
  <1>4. u # <<u[1]>>
    BY TableNames
  <1> HIDE DEF u
  <1>5. IsTable(t, u)
    BY <1>1, <1>2, <1>3, <1>4 DEF IsTable
  <1> QED
    BY <1>2, <1>5 DEF t, u

-----------------------------------------------------------------------------
(* What MySQL does.                                                        *)

\* The index of a foreign key that no other index serves.
OwnKey(fk) == [name |-> fk.name, columns |-> <<fk.column>>, unique |-> FALSE]
Unserved(t, a) == {fk \in a.fks : ~\E k \in t.keys : Serves(k, fk)}

\* A table with other columns, indexes, foreign keys or encoding.
After(t, columns, keys, fks, encoding) ==
  [columns |-> columns, keys |-> keys, fks |-> fks, encoding |-> encoding]

\* d is db with t for u.
With(d, u, t) == DOMAIN d = DOMAIN db \cup {u} /\ d[u] = t /\ \A v \in DOMAIN db \ {u} : d[v] = db[v]

Replaced(u, t) == [db EXCEPT ![u] = t]

LEMMA ExceptIs ==
  ASSUME NEW u \in DOMAIN db, NEW t
  PROVE  With(Replaced(u, t), u, t)
  BY DEF With, Replaced

LEMMA AlteredCreate ==
  ASSUME NEW a, a.kind = "create"
  PROVE  With(Altered(a), a.table, Made(a))
  <1>1. Altered(a) = [table \in DOMAIN db \cup {a.table} |->
                        IF table # a.table THEN db[table]
                        ELSE [columns |-> a.add, keys |-> a.addKeys, fks |-> {}, encoding |-> a.encoding]]
    BY DEF Altered
  <1> QED
    BY <1>1 DEF With, Made

LEMMA AlteredDrop ==
  ASSUME NEW a, a.kind = "drop"
  PROVE  DOMAIN Altered(a) = DOMAIN db \ {a.table} /\ \A v \in DOMAIN db \ {a.table} : Altered(a)[v] = db[v]
  <1>1. Altered(a) = [table \in DOMAIN db \ {a.table} |-> db[table]]
    BY DEF Altered
  <1> QED
    BY <1>1

LEMMA AlteredCharset ==
  ASSUME NEW a, a.kind = "charset", NEW u, a.table = u, u \in DOMAIN db, NEW t, t = db[u], IsTable(t, u)
  PROVE  With(Altered(a), u, After(t, t.columns, t.keys, t.fks, a.encoding))
  <1>1. Altered(a) = Replaced(u, [t EXCEPT !.encoding = a.encoding])
    BY DEF Altered, Replaced
  <1>2. t = [columns |-> t.columns, keys |-> t.keys, fks |-> t.fks, encoding |-> t.encoding]
    BY DEF IsTable
  <1>3. [t EXCEPT !.encoding = a.encoding] = After(t, t.columns, t.keys, t.fks, a.encoding)
    BY <1>2 DEF After
  <1> QED
    BY <1>1, <1>3, ExceptIs

LEMMA AlteredDropForeign ==
  ASSUME NEW a, a.kind = "dropFK", NEW u, a.table = u, u \in DOMAIN db, NEW t, t = db[u], IsTable(t, u)
  PROVE  With(Altered(a), u, After(t, t.columns, t.keys, t.fks \ a.fks, t.encoding))
  <1>1. Altered(a) = Replaced(u, [t EXCEPT !.fks = t.fks \ a.fks])
    BY DEF Altered, Replaced
  <1>2. t = [columns |-> t.columns, keys |-> t.keys, fks |-> t.fks, encoding |-> t.encoding]
    BY DEF IsTable
  <1>3. [t EXCEPT !.fks = t.fks \ a.fks] = After(t, t.columns, t.keys, t.fks \ a.fks, t.encoding)
    BY <1>2 DEF After
  <1> QED
    BY <1>1, <1>3, ExceptIs

WithForeign(t, x, y) == [t EXCEPT !.fks = x, !.keys = y]
WithColumns(t, x, y) == [t EXCEPT !.columns = x, !.keys = y]

LEMMA ForeignAndKeys ==
  ASSUME NEW t, t = [columns |-> t.columns, keys |-> t.keys, fks |-> t.fks, encoding |-> t.encoding],
         NEW x, NEW y, NEW q, q = WithForeign(t, x, y)
  PROVE  q = After(t, t.columns, y, x, t.encoding)
  <1>1. q = [z \in {"columns", "keys", "fks", "encoding"} |-> q[z]]
    BY DEF WithForeign
  <1>2. q.fks = x /\ q.keys = y /\ q.columns = t.columns /\ q.encoding = t.encoding
    BY DEF WithForeign
  <1> QED
    BY <1>1, <1>2 DEF After

LEMMA ColumnsAndKeys ==
  ASSUME NEW t, t = [columns |-> t.columns, keys |-> t.keys, fks |-> t.fks, encoding |-> t.encoding],
         NEW x, NEW y, NEW q, q = WithColumns(t, x, y)
  PROVE  q = After(t, x, y, t.fks, t.encoding)
  <1>1. q = [z \in {"columns", "keys", "fks", "encoding"} |-> q[z]]
    BY DEF WithColumns
  <1>2. q.columns = x /\ q.keys = y /\ q.fks = t.fks /\ q.encoding = t.encoding
    BY DEF WithColumns
  <1> QED
    BY <1>1, <1>2 DEF After

LEMMA AlteredAddForeign ==
  ASSUME NEW a, a.kind = "addFK", NEW u, a.table = u, u \in DOMAIN db, NEW t, t = db[u], IsTable(t, u)
  PROVE  With(Altered(a), u,
              After(t, t.columns, t.keys \cup {OwnKey(fk) : fk \in Unserved(t, a)}, t.fks \cup a.fks, t.encoding))
  <1> DEFINE K == {[name |-> fk.name, columns |-> <<fk.column>>, unique |-> FALSE]
                     : fk \in {fk \in a.fks : ~\E k \in t.keys : Serves(k, fk)}}
  <1>1. Altered(a) = Replaced(u, WithForeign(t, t.fks \cup a.fks, t.keys \cup K))
    BY DEF Altered, Replaced, WithForeign
  <1>2. K = {OwnKey(fk) : fk \in Unserved(t, a)}
    BY DEF OwnKey, Unserved
  <1> HIDE DEF K
  <1>3. t = [columns |-> t.columns, keys |-> t.keys, fks |-> t.fks, encoding |-> t.encoding]
    BY DEF IsTable
  <1>4. WithForeign(t, t.fks \cup a.fks, t.keys \cup K)
          = After(t, t.columns, t.keys \cup K, t.fks \cup a.fks, t.encoding)
    BY <1>3, ForeignAndKeys
  <1> QED
    BY <1>1, <1>2, <1>4, ExceptIs

LEMMA AlteredNormal ==
  ASSUME NEW a, a.kind = "alter", NEW u, a.table = u, u \in DOMAIN db, NEW t, t = db[u], IsTable(t, u)
  PROVE  With(Altered(a), u, After(t, AlteredColumns(t, a), AlteredKeys(t, a), t.fks, t.encoding))
  <1>1. Altered(a) = Replaced(u, WithColumns(t, AlteredColumns(t, a), AlteredKeys(t, a)))
    BY DEF Altered, Replaced, WithColumns
  <1>2. t = [columns |-> t.columns, keys |-> t.keys, fks |-> t.fks, encoding |-> t.encoding]
    BY DEF IsTable
  <1>3. WithColumns(t, AlteredColumns(t, a), AlteredKeys(t, a))
          = After(t, AlteredColumns(t, a), AlteredKeys(t, a), t.fks, t.encoding)
    BY <1>2, ColumnsAndKeys
  <1> QED
    BY <1>1, <1>3, ExceptIs

-----------------------------------------------------------------------------
(* Indexes after an ALTER.                                                 *)

\* An index without the columns that are dropped.
Cut(k, a) == [k EXCEPT !.columns = Only(k.columns, {i \in DOMAIN k.columns : k.columns[i] \notin a.drop})]

IsCut(k, l, a, u) ==
  /\ k = [name |-> l.name, columns |-> k.columns, unique |-> l.unique]
  /\ IsSeq(k.columns) /\ ToSet(k.columns) = {c \in ToSet(l.columns) : c \notin a.drop}
  /\ ToSet(l.columns) \cap a.drop = {} => k = l
  /\ k.columns # << >> => IsKey(k, u)

LEMMA CutIs ==
  ASSUME NEW u, NEW l, IsKey(l, u), NEW a
  PROVE  IsCut(Cut(l, a), l, a, u)
  <1> DEFINE k == Cut(l, a)
  <1> DEFINE I == {i \in DOMAIN l.columns : l.columns[i] \notin a.drop}
  <1>1. l = [name |-> l.name, columns |-> l.columns, unique |-> l.unique] /\ IsSeq(l.columns) /\ l.columns # << >>
    BY DEF IsKey
  <1>2. k = [name |-> l.name, columns |-> Only(l.columns, I), unique |-> l.unique]
    BY <1>1 DEF Cut
  <1> HIDE DEF k
  <1>3. k.columns = Only(l.columns, I) /\ k.name = l.name /\ k.unique = l.unique
    BY <1>2
  <1>4. IsSeq(k.columns) /\ ToSet(k.columns) = {l.columns[i] : i \in I \cap DOMAIN l.columns}
    BY <1>1, <1>3, OnlySeq
  <1>5. ToSet(k.columns) = {c \in ToSet(l.columns) : c \notin a.drop}
    BY <1>4 DEF ToSet
  <1>6. ASSUME ToSet(l.columns) \cap a.drop = {} PROVE k = l
    <2>1. DOMAIN l.columns \subseteq I
      BY <1>6 DEF ToSet
    <2>2. k.columns = l.columns
      BY <1>1, <1>3, <2>1, OnlyAll
    <2> QED
      BY <1>1, <1>2, <1>3, <2>2
  <1>7. ASSUME k.columns # << >> PROVE IsKey(k, u)
    <2>1. CASE l.name = <<l.name[1]>>
      BY <1>2, <1>3, <1>4, <1>7, <2>1 DEF IsKey
    <2>2. CASE l.name = <<u[1], l.name[2]>> /\ l.columns = <<l.name[2]>>
      <3>1. ToSet(l.columns) = {l.name[2]}
        <4>1. \A x : ToSet(<<x>>) = {x}
          BY DEF ToSet
        <4> QED
          BY <2>2, <4>1
      <3>2. ASSUME l.name[2] \in a.drop PROVE FALSE
        <4>1. ToSet(k.columns) = {}
          BY <1>5, <3>1, <3>2
        <4>2. Len(k.columns) \in Nat /\ ~(1 \in 1 .. Len(k.columns))
          BY <1>4, <4>1, SeqIs
        <4>3. k.columns = << >>
          BY <1>4, <4>2 DEF IsSeq
        <4> QED
          BY <1>7, <4>3
      <3>3. k = l
        BY <1>6, <3>1, <3>2
      <3> QED
        BY <3>3
    <2> QED
      BY <2>1, <2>2 DEF IsKey
  <1>8. k = [name |-> l.name, columns |-> k.columns, unique |-> l.unique]
    BY <1>2, <1>3
  <1>9. IsCut(k, l, a, u)
    BY <1>4, <1>5, <1>6, <1>7, <1>8 DEF IsCut
  <1> QED
    BY <1>9 DEF k

LEMMA KeptKeysAre ==
  ASSUME NEW t, NEW a
  PROVE  KeptKeys(t, a) = {k \in {Cut(l, a) : l \in {l \in t.keys : l.name \notin a.dropKeys}} : k.columns # << >>}
  BY DEF KeptKeys, Cut

LEMMA KeptKeyIs ==
  ASSUME NEW t, NEW u, IsTable(t, u), NEW a, NEW k \in KeptKeys(t, a)
  PROVE  /\ IsKey(k, u) /\ ToSet(k.columns) \subseteq NamesIn(t.columns) \ a.drop
         /\ \E l \in t.keys : /\ l.name = k.name /\ l.name \notin a.dropKeys
                              /\ ToSet(l.columns) \cap a.drop = {} => k = l
  <1>1. PICK l \in t.keys : k = Cut(l, a) /\ l.name \notin a.dropKeys /\ k.columns # << >>
    BY KeptKeysAre
  <1>2. IsKey(l, u) /\ ToSet(l.columns) \subseteq NamesIn(t.columns)
    BY DEF IsTable
  <1>3. /\ k = [name |-> l.name, columns |-> k.columns, unique |-> l.unique]
        /\ ToSet(k.columns) = {c \in ToSet(l.columns) : c \notin a.drop}
        /\ ToSet(l.columns) \cap a.drop = {} => k = l
        /\ IsKey(k, u)
    <2>1. IsCut(k, l, a, u)
      BY <1>1, <1>2, CutIs
    <2> QED
      BY <1>1, <2>1 DEF IsCut
  <1>4. k.name = l.name
    BY <1>3
  <1> QED
    BY <1>1, <1>2, <1>3, <1>4

LEMMA KeyStays ==
  ASSUME NEW t, NEW u, IsTable(t, u), NEW a, NEW k \in t.keys, k.name \notin a.dropKeys, ToSet(k.columns) \cap a.drop = {}
  PROVE  k \in KeptKeys(t, a)
  <1>1. IsKey(k, u) /\ k.columns # << >>
    BY DEF IsTable, IsKey
  <1>2. Cut(k, a) = k
    BY <1>1, CutIs DEF IsCut
  <1> QED
    BY <1>1, <1>2, KeptKeysAre

LEMMA KeptKeyNames ==
  ASSUME NEW t, NEW u, IsTable(t, u), NEW a, NEW k \in KeptKeys(t, a), NEW l \in KeptKeys(t, a), k.name = l.name
  PROVE  k = l
  <1>1. PICK x \in t.keys : k = Cut(x, a)
    BY KeptKeysAre
  <1>2. PICK y \in t.keys : l = Cut(y, a)
    BY KeptKeysAre
  <1>3. k.name = x.name
    <2>1. IsKey(x, u)
      BY DEF IsTable
    <2>2. IsCut(k, x, a, u)
      BY <1>1, <2>1, CutIs
    <2> QED
      BY <2>2 DEF IsCut
  <1>4. l.name = y.name
    <2>1. IsKey(y, u)
      BY DEF IsTable
    <2>2. IsCut(l, y, a, u)
      BY <1>2, <2>1, CutIs
    <2> QED
      BY <2>2 DEF IsCut
  <1>5. x = y
    BY <1>3, <1>4 DEF IsTable
  <1> QED
    BY <1>1, <1>2, <1>5

\* After an ALTER a table is a table: no index is there twice or without its columns.
LEMMA AlteredTable ==
  ASSUME NEW r \in Releases, IsValid(r), NEW e \in r.entities, NEW u, u = EntityTable(e), NEW t, IsTable(t, u), NEW a,
         Makes(Columns(e, r), t, a), a.addKeys \subseteq Keys(e, r),
         {k.name : k \in a.addKeys} \cap {k.name : k \in KeptKeys(t, a)} = {}
  PROVE  IsTable(After(t, AlteredColumns(t, a), AlteredKeys(t, a), t.fks, t.encoding), u)
  <1> DEFINE q == After(t, AlteredColumns(t, a), AlteredKeys(t, a), t.fks, t.encoding)
             C == Columns(e, r)
  <1>1. q = [columns |-> q.columns, keys |-> q.keys, fks |-> q.fks, encoding |-> q.encoding]
    BY DEF After
  <1>2. q.columns = AlteredColumns(t, a) /\ q.keys = AlteredKeys(t, a) /\ q.fks = t.fks
    BY DEF After
  <1> HIDE DEF q
  <1>3. IsColumns(C) /\ None \notin NamesIn(C) /\ IsColumns(t.columns) /\ u = <<u[1]>>
    BY EntityColumns, TableNames DEF IsTable
  <1>4. IsColumns(q.columns) /\ NamesIn(q.columns) = NamesIn(C)
    <2>1. IsColumns(q.columns) /\ ToSet(q.columns) = ToSet(C)
      BY <1>2, <1>3, AlteredColumnsAre
    <2> QED
      BY <2>1, NamesAre
  <1>5. q.keys \subseteq KeptKeys(t, a) \cup a.addKeys
    BY <1>2 DEF AlteredKeys
  <1>6. ASSUME NEW k \in q.keys PROVE IsKey(k, u) /\ ToSet(k.columns) \subseteq NamesIn(q.columns)
    <2>1. CASE k \in KeptKeys(t, a)
      <3>1. IsKey(k, u) /\ ToSet(k.columns) \subseteq NamesIn(t.columns) \ a.drop
        BY <2>1, KeptKeyIs
      <3>2. a.drop = NamesIn(t.columns) \ NamesIn(C)
        BY DEF Makes
      <3> QED
        BY <1>4, <3>1, <3>2
    <2>2. CASE k \in a.addKeys
      BY <1>4, <2>2, EntityKeys
    <2> QED
      BY <1>5, <2>1, <2>2
  <1>7. ASSUME NEW k \in q.keys, NEW l \in q.keys, k.name = l.name PROVE k = l
    <2>1. CASE k \in KeptKeys(t, a) /\ l \in KeptKeys(t, a)
      BY <1>7, <2>1, KeptKeyNames
    <2>2. CASE k \in a.addKeys /\ l \in a.addKeys
      BY <1>7, <2>2, EntityKeys
    <2> QED
      BY <1>5, <1>7, <2>1, <2>2
  <1>8. /\ \A fk \in q.fks : IsForeignKey(fk, u)
        /\ \A fk, other \in q.fks : fk.name = other.name => fk = other
    BY <1>2 DEF IsTable
  <1>9. IsSeq(q.columns) /\ OwnNames(q.columns)
    BY <1>4 DEF IsColumns
  <1>10. IsTable(q, u)
    BY <1>1, <1>3, <1>4, <1>6, <1>7, <1>8, <1>9 DEF IsTable
  <1> QED
    BY <1>10 DEF q

\* GetAlters's ALTER makes the indexes of the entity, and leaves those of foreign keys.
LEMMA AlteredKeysAre ==
  ASSUME NEW r \in Releases, IsValid(r), NEW e \in r.entities, NEW u, u = EntityTable(e), NEW t, IsTable(t, u), NEW a,
         Makes(Columns(e, r), t, a), a.addKeys = Keys(e, r) \ t.keys, a.dropKeys = Unwanted(e, r, t)
  PROVE  /\ {k.name : k \in a.addKeys} \cap {k.name : k \in KeptKeys(t, a)} = {}
         /\ Keys(e, r) \subseteq AlteredKeys(t, a)
         /\ \A k \in AlteredKeys(t, a) : k \in Keys(e, r) \/ k.name \in OwnKeys(e, r)
  <1> DEFINE C == Columns(e, r)
  <1>1. a.drop = NamesIn(t.columns) \ NamesIn(C)
    BY DEF Makes
  <1>2. ASSUME NEW k \in KeptKeys(t, a) PROVE k \in Keys(e, r) \/ k.name \in OwnKeys(e, r)
    <2>1. PICK l \in t.keys : /\ l.name = k.name /\ l.name \notin a.dropKeys
                              /\ ToSet(l.columns) \cap a.drop = {} => k = l
      BY <1>2, KeptKeyIs
    <2>2. l \in Keys(e, r) \/ l.name \in OwnKeys(e, r)
      BY <2>1 DEF Unwanted
    <2>3. CASE l \in Keys(e, r)
      <3>1. ToSet(l.columns) \subseteq NamesIn(C)
        BY <2>3, EntityKeys
      <3> QED
        BY <1>1, <2>1, <2>3, <3>1
    <2> QED
      BY <2>1, <2>2, <2>3
  <1>3. ASSUME NEW k \in Keys(e, r) PROVE k.name \notin OwnKeys(e, r)
    <2> SUFFICES ASSUME NEW fk \in ForeignKeys(e, r), k.name = fk.name PROVE FALSE
      BY DEF OwnKeys
    <2>1. k.name = <<k.name[1]>>
      BY <1>3, EntityKeys
    <2>2. IsForeignKey(fk, u)
      BY EntityForeignKeys
    <2> QED
      BY <2>1, <2>2, KeyNames
  <1>4. ASSUME NEW k \in a.addKeys, NEW l \in KeptKeys(t, a), k.name = l.name PROVE FALSE
    <2>1. k \in Keys(e, r) /\ k \notin t.keys
      BY <1>4
    <2>2. l \in Keys(e, r)
      BY <1>2, <1>3, <1>4, <2>1
    <2>3. k = l
      BY <1>4, <2>1, <2>2, EntityKeys
    <2>4. PICK x \in t.keys : /\ x.name = l.name /\ x.name \notin a.dropKeys
                              /\ ToSet(x.columns) \cap a.drop = {} => l = x
      BY <1>4, KeptKeyIs
    <2>5. x \in Keys(e, r) \/ x.name \in OwnKeys(e, r)
      BY <2>4 DEF Unwanted
    <2>6. x \in Keys(e, r)
      BY <1>3, <2>2, <2>4, <2>5
    <2>7. x = k
      BY <2>1, <2>3, <2>4, <2>6, EntityKeys
    <2> QED
      BY <2>1, <2>7
  <1>5. ASSUME NEW k \in Keys(e, r) PROVE k \in KeptKeys(t, a) \cup a.addKeys
    <2>1. CASE k \in t.keys
      <3>1. ToSet(k.columns) \cap a.drop = {}
        BY <1>1, <1>5, EntityKeys
      <3>2. k.name \notin a.dropKeys
        <4> SUFFICES ASSUME NEW l \in t.keys, l \notin Keys(e, r), l.name = k.name PROVE FALSE
          BY DEF Unwanted
        <4>1. l = k
          BY <2>1 DEF IsTable
        <4> QED
          BY <1>5, <4>1
      <3> QED
        BY <2>1, <3>1, <3>2, KeyStays
    <2> QED
      BY <1>5, <2>1
  <1>6. ASSUME NEW k \in Keys(e, r), NEW fk \in t.fks PROVE k.name # fk.name
    <2>1. k.name = <<k.name[1]>>
      BY <1>6, EntityKeys
    <2>2. IsForeignKey(fk, u)
      BY <1>6 DEF IsTable
    <2> QED
      BY <2>1, <2>2, KeyNames
  <1>7. Keys(e, r) \subseteq AlteredKeys(t, a)
    BY <1>5, <1>6 DEF AlteredKeys
  <1>8. \A k \in AlteredKeys(t, a) : k \in Keys(e, r) \/ k.name \in OwnKeys(e, r)
    <2>1. AlteredKeys(t, a) \subseteq KeptKeys(t, a) \cup a.addKeys
      BY DEF AlteredKeys
    <2> QED
      BY <1>2, <2>1
  <1>9. {k.name : k \in a.addKeys} \cap {k.name : k \in KeptKeys(t, a)} = {}
    BY <1>4
  <1> QED
    BY <1>7, <1>8, <1>9

-----------------------------------------------------------------------------
(* Foreign keys of a table.                                                *)

LEMMA AfterIs ==
  ASSUME NEW t, NEW c, NEW k, NEW f, NEW n, NEW q, q = After(t, c, k, f, n)
  PROVE  /\ q = [columns |-> q.columns, keys |-> q.keys, fks |-> q.fks, encoding |-> q.encoding]
         /\ q.columns = c /\ q.keys = k /\ q.fks = f /\ q.encoding = n
  BY DEF After

LEMMA TableWithFewer ==
  ASSUME NEW t, NEW u, IsTable(t, u), NEW f, f \subseteq t.fks, NEW n
  PROVE  IsTable(After(t, t.columns, t.keys, f, n), u)
  <1> DEFINE q == After(t, t.columns, t.keys, f, n)
  <1>1. /\ q = [columns |-> q.columns, keys |-> q.keys, fks |-> q.fks, encoding |-> q.encoding]
        /\ q.columns = t.columns /\ q.keys = t.keys /\ q.fks = f
    BY AfterIs
  <1> HIDE DEF q
  <1>2. IsTable(q, u)
    BY <1>1 DEF IsTable
  <1> QED
    BY <1>2 DEF q

LEMMA OwnKeyIs ==
  ASSUME NEW u, NEW fk, IsForeignKey(fk, u)
  PROVE  /\ IsKey(OwnKey(fk), u) /\ OwnKey(fk).name = fk.name /\ Serves(OwnKey(fk), fk)
         /\ ToSet(OwnKey(fk).columns) = {fk.column}
  <1>1. OwnKey(fk) = [name |-> fk.name, columns |-> <<fk.column>>, unique |-> FALSE]
    BY DEF OwnKey
  <1>2. OwnKey(fk).name = fk.name /\ OwnKey(fk).columns = <<fk.column>> /\ OwnKey(fk).unique = FALSE
    BY <1>1
  <1>3. fk.name = <<u[1], fk.column>>
    BY DEF IsForeignKey
  <1>4. fk.name[2] = fk.column
    BY <1>3
  <1>5. <<fk.column>> \in Seq({fk.column}) /\ <<fk.column>> # << >> /\ ToSet(<<fk.column>>) = {fk.column}
    BY DEF ToSet
  <1>6. IsSeq(<<fk.column>>)
    BY <1>5 DEF IsSeq
  <1>7. Serves(OwnKey(fk), fk)
    BY <1>2 DEF Serves
  <1>8. OwnKey(fk) = [name |-> OwnKey(fk).name, columns |-> OwnKey(fk).columns, unique |-> OwnKey(fk).unique]
    BY <1>1
  <1>9. IsKey(OwnKey(fk), u)
    BY <1>2, <1>3, <1>4, <1>5, <1>6, <1>8 DEF IsKey
  <1> QED
    BY <1>2, <1>5, <1>7, <1>9

\* An index that has the name of a foreign key serves it.
LEMMA OwnNameServes ==
  ASSUME NEW u, NEW k, IsKey(k, u), NEW fk, IsForeignKey(fk, u), k.name = fk.name
  PROVE  Serves(k, fk)
  <1>1. k.name # <<k.name[1]>>
    BY KeyNames
  <1>2. k.columns = <<k.name[2]>>
    BY <1>1 DEF IsKey
  <1>3. k.name[2] = fk.column
    <2>1. fk.name = <<u[1], fk.column>>
      BY DEF IsForeignKey
    <2> QED
      BY <2>1
  <1> QED
    BY <1>2, <1>3 DEF Serves

LEMMA TableWithMore ==
  ASSUME NEW r \in Releases, IsValid(r), NEW e \in r.entities, NEW u, u = EntityTable(e), NEW t, IsTable(t, u), NEW a,
         a.fks \subseteq ForeignKeys(e, r),
         \A fk \in a.fks : fk.name \notin {other.name : other \in t.fks} /\ fk.column \in NamesIn(t.columns)
  PROVE  IsTable(After(t, t.columns, t.keys \cup {OwnKey(fk) : fk \in Unserved(t, a)}, t.fks \cup a.fks, t.encoding), u)
  <1> DEFINE K == {OwnKey(fk) : fk \in Unserved(t, a)}
             q == After(t, t.columns, t.keys \cup K, t.fks \cup a.fks, t.encoding)
  <1>1. /\ q = [columns |-> q.columns, keys |-> q.keys, fks |-> q.fks, encoding |-> q.encoding]
        /\ q.columns = t.columns /\ q.keys = t.keys \cup K /\ q.fks = t.fks \cup a.fks
    <2> HIDE DEF K
    <2> QED
      BY DEF After
  <1> HIDE DEF q
  <1>2. ASSUME NEW fk \in a.fks
        PROVE  IsForeignKey(fk, u) /\ \A same \in a.fks : same.name = fk.name => same = fk
    BY <1>2, EntityForeignKeys
  <1>3. ASSUME NEW k \in K
        PROVE  \E fk \in Unserved(t, a) : k = OwnKey(fk) /\ k.name = fk.name /\ fk \in a.fks
    <2>1. PICK fk \in Unserved(t, a) : k = OwnKey(fk)
      BY <1>3
    <2>2. fk \in a.fks
      BY DEF Unserved
    <2>3. k.name = fk.name
      BY <1>2, <2>1, <2>2, OwnKeyIs
    <2> QED
      BY <2>1, <2>2, <2>3
  <1>4. ASSUME NEW k \in q.keys PROVE IsKey(k, u) /\ ToSet(k.columns) \subseteq NamesIn(q.columns)
    <2>1. CASE k \in t.keys
      BY <1>1, <2>1 DEF IsTable
    <2>2. CASE k \in K
      <3>1. PICK fk \in Unserved(t, a) : k = OwnKey(fk) /\ fk \in a.fks
        BY <1>3, <2>2
      <3>2. IsKey(k, u) /\ ToSet(k.columns) = {fk.column}
        BY <1>2, <3>1, OwnKeyIs
      <3> QED
        BY <1>1, <3>1, <3>2
    <2> QED
      BY <1>1, <1>4, <2>1, <2>2
  <1>5. ASSUME NEW k \in t.keys, NEW l \in K, k.name = l.name PROVE FALSE
    <2>1. PICK fk \in Unserved(t, a) : l.name = fk.name /\ fk \in a.fks
      BY <1>3, <1>5
    <2>2. IsKey(k, u)
      BY <1>5 DEF IsTable
    <2>3. Serves(k, fk)
      BY <1>2, <1>5, <2>1, <2>2, OwnNameServes
    <2> QED
      BY <1>5, <2>1, <2>3 DEF Unserved
  <1>6. ASSUME NEW k \in K, NEW l \in K, k.name = l.name PROVE k = l
    <2>1. PICK fk \in Unserved(t, a) : k = OwnKey(fk) /\ k.name = fk.name /\ fk \in a.fks
      BY <1>3, <1>6
    <2>2. PICK other \in Unserved(t, a) : l = OwnKey(other) /\ l.name = other.name /\ other \in a.fks
      BY <1>3, <1>6
    <2>3. fk = other
      BY <1>2, <1>6, <2>1, <2>2
    <2> QED
      BY <2>1, <2>2, <2>3
  <1>7. ASSUME NEW k \in q.keys, NEW l \in q.keys, k.name = l.name PROVE k = l
    <2>1. CASE k \in t.keys /\ l \in t.keys
      BY <1>7, <2>1 DEF IsTable
    <2> QED
      BY <1>1, <1>5, <1>6, <1>7, <2>1
  <1>8. \A fk \in q.fks : IsForeignKey(fk, u)
    BY <1>1, <1>2 DEF IsTable
  <1>9. ASSUME NEW fk \in q.fks, NEW other \in q.fks, fk.name = other.name PROVE fk = other
    <2>1. CASE fk \in t.fks /\ other \in t.fks
      BY <1>9, <2>1 DEF IsTable
    <2>2. CASE fk \in a.fks /\ other \in a.fks
      BY <1>2, <1>9, <2>2
    <2> QED
      BY <1>1, <1>9, <2>1, <2>2
  <1>10. u = <<u[1]>>
    BY TableNames
  <1>11. IsSeq(q.columns) /\ OwnNames(q.columns) /\ IsColumns(q.columns)
    BY <1>1, <1>10 DEF IsTable
  <1>12. IsTable(q, u)
    <2> HIDE DEF K
    <2> QED
      BY <1>1, <1>4, <1>7, <1>8, <1>9, <1>10, <1>11 DEF IsTable
  <1> QED
    BY <1>12 DEF q

\* Somebody has a foreign key cascade.
LEMMA TableCascades ==
  ASSUME NEW t, NEW u, IsTable(t, u), NEW fk \in t.fks,
         NEW n, n = [fk EXCEPT !.onDelete = "CASCADE"], NEW q, q = [t EXCEPT !.fks = (t.fks \ {fk}) \cup {n}]
  PROVE  IsTable(q, u)
  <1>1. t = [columns |-> t.columns, keys |-> t.keys, fks |-> t.fks, encoding |-> t.encoding]
    BY DEF IsTable
  <1>2. /\ q.columns = t.columns /\ q.keys = t.keys /\ q.fks = (t.fks \ {fk}) \cup {n} /\ q.encoding = t.encoding
        /\ q = [columns |-> q.columns, keys |-> q.keys, fks |-> q.fks, encoding |-> q.encoding]
    BY <1>1
  <1>3. fk = [name |-> <<u[1], fk.column>>, column |-> fk.column, table |-> fk.table, onDelete |-> fk.onDelete]
    BY DEF IsTable, IsForeignKey
  <1>4. n.name = <<u[1], fk.column>> /\ fk.name = n.name /\ n.column = fk.column /\ n.table = fk.table
        /\ n.onDelete = "CASCADE"
    BY <1>3
  <1>5. n = [name |-> n.name, column |-> n.column, table |-> n.table, onDelete |-> n.onDelete]
    BY <1>3
  <1>6. IsForeignKey(n, u)
    BY <1>4, <1>5 DEF IsForeignKey
  <1>7. \A f \in q.fks : IsForeignKey(f, u)
    BY <1>2, <1>6 DEF IsTable
  <1>8. ASSUME NEW f \in q.fks, NEW g \in q.fks, f.name = g.name PROVE f = g
    <2>1. \A x \in t.fks : x.name = n.name => x = fk
      BY <1>4 DEF IsTable
    <2>2. CASE f \in t.fks /\ g \in t.fks
      BY <1>8, <2>2 DEF IsTable
    <2> QED
      BY <1>2, <1>8, <2>1, <2>2
  <1>9. u # <<u[1]>> => q.fks = {}
    BY DEF IsTable
  <1> QED
    BY <1>2, <1>7, <1>8, <1>9 DEF IsTable

LEMMA TablesWith ==
  ASSUME TablesOK, NEW u, NEW t, IsTable(t, u), NEW d, With(d, u, t)
  PROVE  \A v \in DOMAIN d : IsTable(d[v], v)
  BY DEF TablesOK, With

-----------------------------------------------------------------------------
(* Tables stay tables.                                                     *)

LEMMA AcceptedIs ==
  ASSUME NEW a, IsAccepted(a)
  PROVE  /\ a.kind = "create" => a.table \notin DOMAIN db
         /\ a.kind # "create" => a.table \in DOMAIN db
         /\ a.kind = "drop" => ~IsReferenced(a.table)
         /\ a.kind = "alter" => {k.name : k \in a.addKeys} \cap {k.name : k \in KeptKeys(db[a.table], a)} = {}
         /\ a.kind = "addFK" => \A fk \in a.fks : fk.name \notin {other.name : other \in db[a.table].fks}
                                                  /\ fk.column \in NamesIn(db[a.table].columns)
  <1>1. /\ a.kind = "create" => a.table \notin DOMAIN db
        /\ a.kind # "create" => a.table \in DOMAIN db
    BY DEF IsAccepted
  <1>2. a.kind = "drop" => ~IsReferenced(a.table)
    BY DEF IsAccepted
  <1>3. a.kind = "alter" => {k.name : k \in a.addKeys} \cap {k.name : k \in KeptKeys(db[a.table], a)} = {}
    BY DEF IsAccepted
  <1>4. a.kind = "addFK" => \A fk \in a.fks : fk.name \notin {other.name : other \in db[a.table].fks}
                                               /\ fk.column \in NamesIn(db[a.table].columns)
    BY DEF IsAccepted
  <1> QED
    BY <1>1, <1>2, <1>3, <1>4

LEMMA CreateKinds ==
  ASSUME NEW a, IsCreate(a) \/ IsCreateLog(a)
  PROVE  a.kind = "create"
  BY CreateIs, CreateLogIs DEF IsCreate, IsCreateLog

LEMMA AlteredTables ==
  ASSUME wanted \in Releases, IsValid(wanted), TablesOK, NEW a, IsPending(a), IsAccepted(a)
  PROVE  \A v \in DOMAIN Altered(a) : IsTable(Altered(a)[v], v)
  <1> DEFINE u == a.table
             t == db[u]
             d == Altered(a)
  <1>1. CASE IsCreate(a)
    <2>1. PICK e \in wanted.entities : a = Create(e, wanted)
      BY <1>1 DEF IsCreate
    <2>2. a.table = EntityTable(e) /\ a.kind = "create"
      BY <2>1, CreateIs
    <2>3. IsTable(Made(a), u)
      BY <2>1, <2>2, MadeIsTable
    <2> QED
      BY <2>2, <2>3, AlteredCreate, TablesWith
  <1>2. CASE IsCreateLog(a)
    <2>1. PICK e \in wanted.entities : a = CreateLog(e, wanted)
      BY <1>2 DEF IsCreateLog
    <2>2. a.table = LogTable(e) /\ a.kind = "create"
      BY <2>1, CreateLogIs
    <2>3. IsTable(Made(a), u)
      BY <2>1, <2>2, MadeIsLogTable
    <2> QED
      BY <2>2, <2>3, AlteredCreate, TablesWith
  <1>3. CASE IsDrop(a)
    BY <1>3, AlteredDrop DEF IsDrop, TablesOK
  <1>4. ASSUME a.kind # "create", u \in DOMAIN db PROVE IsTable(t, u)
    BY <1>4 DEF TablesOK
  <1>5. CASE IsDropForeign(a)
    <2>1. a.kind = "dropFK" /\ u \in DOMAIN db
      BY <1>5 DEF IsDropForeign
    <2>2. With(d, u, After(t, t.columns, t.keys, t.fks \ a.fks, t.encoding))
      BY <1>4, <2>1, AlteredDropForeign
    <2>3. IsTable(After(t, t.columns, t.keys, t.fks \ a.fks, t.encoding), u)
      BY <1>4, <2>1, TableWithFewer
    <2> QED
      BY <2>2, <2>3, TablesWith
  <1>6. CASE IsAddForeign(a)
    <2>1. a.kind = "addFK" /\ u \in DOMAIN db
      BY <1>6, AcceptedIs DEF IsAddForeign
    <2>2. PICK e \in wanted.entities : u = EntityTable(e) /\ a.fks \subseteq ForeignKeys(e, wanted)
      BY <1>6 DEF IsAddForeign
    <2>3. \A fk \in a.fks : fk.name \notin {other.name : other \in t.fks} /\ fk.column \in NamesIn(t.columns)
      BY <2>1, AcceptedIs
    <2> DEFINE q == After(t, t.columns, t.keys \cup {OwnKey(fk) : fk \in Unserved(t, a)}, t.fks \cup a.fks, t.encoding)
    <2>4. With(d, u, q)
      BY <1>4, <2>1, AlteredAddForeign
    <2>5. IsTable(q, u)
      BY <1>4, <2>1, <2>2, <2>3, TableWithMore
    <2> QED
      BY <2>4, <2>5, TablesWith
  <1>7. CASE IsAlter(a)
    <2>1. a.kind = "alter" /\ u \in DOMAIN db
      BY <1>7 DEF IsAlter
    <2>2. PICK e \in wanted.entities : u = EntityTable(e) /\ Makes(Columns(e, wanted), t, a)
                                       /\ a.addKeys \subseteq Keys(e, wanted)
      BY <1>7 DEF IsAlter, Alter
    <2>3. {k.name : k \in a.addKeys} \cap {k.name : k \in KeptKeys(t, a)} = {}
      BY <2>1, AcceptedIs
    <2> DEFINE q == After(t, AlteredColumns(t, a), AlteredKeys(t, a), t.fks, t.encoding)
    <2>4. With(d, u, q)
      BY <1>4, <2>1, AlteredNormal
    <2>5. IsTable(q, u)
      BY <1>4, <2>1, <2>2, <2>3, AlteredTable
    <2> QED
      BY <2>4, <2>5, TablesWith
  <1>8. CASE IsCharset(a)
    <2>1. a.kind = "charset" /\ u \in DOMAIN db
      BY <1>8 DEF IsCharset
    <2>2. With(d, u, After(t, t.columns, t.keys, t.fks, a.encoding))
      BY <1>4, <2>1, AlteredCharset
    <2>3. IsTable(After(t, t.columns, t.keys, t.fks, a.encoding), u)
      BY <1>4, <2>1, TableWithFewer
    <2> QED
      BY <2>2, <2>3, TablesWith
  <1> QED
    BY <1>1, <1>2, <1>3, <1>5, <1>6, <1>7, <1>8 DEF IsPending

-----------------------------------------------------------------------------
(* The alters that are left after one was executed.                        *)

\* What a pending alter does to the tables.
Effect(a, d) ==
  /\ \A v \in DOMAIN db : v # a.table => v \in DOMAIN d /\ d[v] = db[v]
  /\ \A v \in DOMAIN d : v # a.table => v \in DOMAIN db
  /\ a.kind = "create" => a.table \notin DOMAIN db /\ a.table \in DOMAIN d /\ d[a.table] = Made(a)
  /\ a.kind # "create" => a.table \in DOMAIN db
  /\ a.kind = "drop" => a.table \notin DOMAIN d
  /\ a.kind \notin {"create", "drop"} => a.table \in DOMAIN d
  /\ a.kind \in {"charset", "dropFK", "addFK"} => d[a.table].columns = db[a.table].columns
  /\ a.kind \in {"charset", "dropFK"} => d[a.table].keys = db[a.table].keys
  /\ a.kind \in {"charset", "alter"} => d[a.table].fks = db[a.table].fks
  /\ a.kind \in {"dropFK", "addFK", "alter"} => d[a.table].encoding = db[a.table].encoding
  /\ a.kind = "charset" => d[a.table].encoding = a.encoding
  /\ a.kind = "dropFK" => d[a.table].fks = db[a.table].fks \ a.fks
  /\ a.kind = "addFK" => /\ d[a.table].fks = db[a.table].fks \cup a.fks
                         /\ d[a.table].keys = db[a.table].keys \cup {OwnKey(fk) : fk \in Unserved(db[a.table], a)}
  /\ a.kind = "alter" => /\ d[a.table].columns = AlteredColumns(db[a.table], a)
                         /\ d[a.table].keys = AlteredKeys(db[a.table], a)

Kinds == {"create", "drop", "charset", "dropFK", "addFK", "alter"}

LEMMA PendingKinds ==
  ASSUME NEW a, IsPending(a)
  PROVE  /\ a.kind \in Kinds
         /\ a.kind = "create" => IsCreate(a) \/ IsCreateLog(a)
         /\ a.kind = "drop" => IsDrop(a)
         /\ a.kind = "dropFK" => IsDropForeign(a)
         /\ a.kind = "addFK" => IsAddForeign(a)
         /\ a.kind = "alter" => IsAlter(a)
         /\ a.kind = "charset" => IsCharset(a)
  <1>1. /\ IsCreate(a) \/ IsCreateLog(a) => a.kind = "create"
        /\ IsDrop(a) => a.kind = "drop"
        /\ IsDropForeign(a) => a.kind = "dropFK"
        /\ IsAddForeign(a) => a.kind = "addFK"
        /\ IsAlter(a) => a.kind = "alter"
        /\ IsCharset(a) => a.kind = "charset"
    BY CreateKinds DEF IsDrop, IsDropForeign, IsAddForeign, IsAlter, IsCharset
  <1> QED
    BY <1>1 DEF IsPending, Kinds

LEMMA EffectIs ==
  ASSUME TablesOK, NEW a, IsPending(a), IsAccepted(a)
  PROVE  Effect(a, Altered(a))
  <1> DEFINE u == a.table
             t == db[u]
             d == Altered(a)
  <1>0. a.kind \in Kinds
    BY PendingKinds
  <1>1. CASE a.kind = "create"
    <2>1. With(d, u, Made(a)) /\ u \notin DOMAIN db
      BY <1>1, AlteredCreate, AcceptedIs
    <2> QED
      BY <1>1, <2>1 DEF With, Effect
  <1>2. CASE a.kind = "drop"
    BY <1>2, AlteredDrop, AcceptedIs DEF Effect
  <1>3. ASSUME a.kind # "create" PROVE u \in DOMAIN db /\ IsTable(t, u)
    BY <1>3, AcceptedIs DEF TablesOK
  <1>4. CASE a.kind = "charset"
    <2>1. With(d, u, After(t, t.columns, t.keys, t.fks, a.encoding))
      BY <1>3, <1>4, AlteredCharset
    <2> DEFINE q == After(t, t.columns, t.keys, t.fks, a.encoding)
    <2>2. q.columns = t.columns /\ q.keys = t.keys /\ q.fks = t.fks /\ q.encoding = a.encoding
      BY DEF After
    <2> HIDE DEF q
    <2> QED
      BY <1>3, <1>4, <2>1, <2>2 DEF With, Effect, q
  <1>5. CASE a.kind = "dropFK"
    <2>1. With(d, u, After(t, t.columns, t.keys, t.fks \ a.fks, t.encoding))
      BY <1>3, <1>5, AlteredDropForeign
    <2> DEFINE q == After(t, t.columns, t.keys, t.fks \ a.fks, t.encoding)
    <2>2. q.columns = t.columns /\ q.keys = t.keys /\ q.fks = t.fks \ a.fks /\ q.encoding = t.encoding
      BY DEF After
    <2> HIDE DEF q
    <2> QED
      BY <1>3, <1>5, <2>1, <2>2 DEF With, Effect, q
  <1>6. CASE a.kind = "addFK"
    <2> DEFINE K == {OwnKey(fk) : fk \in Unserved(t, a)}
    <2>1. With(d, u, After(t, t.columns, t.keys \cup K, t.fks \cup a.fks, t.encoding))
      BY <1>3, <1>6, AlteredAddForeign
    <2> DEFINE q == After(t, t.columns, t.keys \cup K, t.fks \cup a.fks, t.encoding)
    <2> HIDE DEF K
    <2>2. q.columns = t.columns /\ q.keys = t.keys \cup K /\ q.fks = t.fks \cup a.fks /\ q.encoding = t.encoding
      BY DEF After
    <2> HIDE DEF q
    <2>3. DOMAIN d = DOMAIN db \cup {u} /\ d[u] = q /\ \A v \in DOMAIN db \ {u} : d[v] = db[v]
      BY <2>1 DEF With, q
    <2>4. d[u].keys = t.keys \cup {OwnKey(fk) : fk \in Unserved(t, a)}
      BY <2>2, <2>3 DEF K
    <2> QED
      BY <1>3, <1>6, <2>2, <2>3, <2>4 DEF Effect
  <1>7. CASE a.kind = "alter"
    <2>1. With(d, u, After(t, AlteredColumns(t, a), AlteredKeys(t, a), t.fks, t.encoding))
      BY <1>3, <1>7, AlteredNormal
    <2> DEFINE q == After(t, AlteredColumns(t, a), AlteredKeys(t, a), t.fks, t.encoding)
    <2>2. q.columns = AlteredColumns(t, a) /\ q.keys = AlteredKeys(t, a) /\ q.fks = t.fks /\ q.encoding = t.encoding
      BY DEF After
    <2> HIDE DEF q
    <2> QED
      BY <1>3, <1>7, <2>1, <2>2 DEF With, Effect, q
  <1> QED
    BY <1>0, <1>1, <1>2, <1>4, <1>5, <1>6, <1>7 DEF Kinds

\* An alter comes after those of a lower rank.
LEMMA RankIs ==
  ASSUME NEW a, IsNext(a), mode # "table", NEW b \in alters
  PROVE  /\ a.kind = "drop" => b.kind # "dropFK"
         /\ a.kind = "create" => b.kind # "dropFK" /\ b.kind # "drop"
         /\ a.kind \in {"alter", "charset"} => b.kind # "dropFK" /\ b.kind # "drop"
         /\ a.kind = "addFK" => b.kind = "addFK"
  <1>1. Rank(a) <= Rank(b)
    BY DEF IsNext
  <1>2. \A x : /\ x.kind = "dropFK" => Rank(x) = 1
               /\ x.kind = "drop" => Rank(x) = 2
               /\ x.kind = "addFK" => Rank(x) = 5
               /\ x.kind \notin {"dropFK", "drop", "addFK"} => Rank(x) = 3
    BY DEF Rank
  <1> QED
    BY <1>1, <1>2

LEMMA PendingStays ==
  ASSUME wanted \in Releases, IsValid(wanted), TablesOK, PendingOK,
         NEW a \in alters, IsNext(a), IsAccepted(a), db' = Altered(a), alters' = alters \ {a}, UNCHANGED <<wanted, mode>>,
         NEW b \in alters, b # a
  PROVE  IsPending(b)'
  <1> DEFINE u == a.table
  <1>1. Effect(a, db')
    BY EffectIs DEF PendingOK
  <1>2. b.table = a.table => b.kind # a.kind
    BY DEF PendingOK
  <1>3. IsPending(a) /\ IsPending(b)
    BY DEF PendingOK
  <1>4. a.kind \in {"alter", "charset", "addFK"} => \E e \in wanted.entities : u = EntityTable(e)
    BY <1>3, PendingKinds DEF IsAlter, IsCharset, IsAddForeign
  <1>5. a.kind = "drop" => mode # "table" /\ \A e \in wanted.entities : u # EntityTable(e)
    BY <1>3, PendingKinds, TableNames DEF IsDrop, IsWrongLog, TablesInEntities
  <1>6. a.kind \in Kinds
    BY <1>3, PendingKinds
  <1>7. CASE IsCreate(b)
    <2>1. PICK e \in wanted.entities : b = Create(e, wanted) /\ EntityTable(e) \notin DOMAIN db
      BY <1>7 DEF IsCreate
    <2>2. b.kind = "create" /\ b.table = EntityTable(e)
      BY <2>1, CreateIs
    <2>3. EntityTable(e) \notin DOMAIN db'
      BY <1>1, <1>2, <2>1, <2>2 DEF Effect
    <2>4. IsCreate(b)'
      BY <2>1, <2>3 DEF IsCreate, Create, EntityTable, Columns, Keys
    <2> QED
      BY <2>4 DEF IsPending
  <1>8. ASSUME NEW e, LogTable(e) \in DOMAIN db'
        PROVE  LogTable(e) \in DOMAIN db => db'[LogTable(e)].columns = db[LogTable(e)].columns /\ ~(a.kind = "drop" /\ u = LogTable(e))
    <2>1. a.kind # "alter" \/ u # LogTable(e)
      BY <1>4, TableNames
    <2> QED
      BY <1>1, <1>6, <1>8, <2>1 DEF Effect, Kinds
  <1>9. CASE IsCreateLog(b)
    <2>1. PICK e \in wanted.entities :
             /\ mode # "table" /\ e.log /\ b = CreateLog(e, wanted)
             /\ LogTable(e) \in DOMAIN db =>
                  /\ db[LogTable(e)].columns # LogColumns(wanted)
                  /\ mode = "safe" \/ \E c \in alters : c.kind = "drop" /\ c.table = LogTable(e)
      BY <1>9 DEF IsCreateLog
    <2>2. b.kind = "create" /\ b.table = LogTable(e)
      BY <2>1, CreateLogIs
    <2>3. ASSUME LogTable(e) \in DOMAIN db'
          PROVE  /\ db'[LogTable(e)].columns # LogColumns(wanted)
                 /\ mode = "safe" \/ \E c \in alters' : c.kind = "drop" /\ c.table = LogTable(e)
      <3>1. LogTable(e) \in DOMAIN db
        BY <1>1, <1>2, <2>2, <2>3 DEF Effect
      <3>2. db'[LogTable(e)].columns = db[LogTable(e)].columns /\ ~(a.kind = "drop" /\ u = LogTable(e))
        BY <1>8, <2>3, <3>1
      <3> QED
        BY <2>1, <3>1, <3>2
    <2>4. IsCreateLog(b)'
      <3>1. b = CreateLog(e, wanted)' /\ LogTable(e)' = LogTable(e) /\ LogColumns(wanted)' = LogColumns(wanted)
        BY <2>1 DEF CreateLog, LogTable, LogColumns
      <3> QED
        BY <2>1, <2>3, <3>1 DEF IsCreateLog
    <2> QED
      BY <2>4 DEF IsPending
  <1>10. CASE IsDrop(b)
    <2>1. b.kind = "drop" /\ mode # "table" /\ b.table \in DOMAIN db
          /\ (b.table \notin TablesInEntities(wanted) \/ IsWrongLog(b.table))
      BY <1>10 DEF IsDrop
    <2>2. b.table \in DOMAIN db'
      BY <1>1, <1>2, <1>6, <2>1 DEF Effect, Kinds
    <2>3. ASSUME IsWrongLog(b.table) PROVE IsWrongLog(b.table)'
      <3>1. PICK e \in wanted.entities : e.log /\ b.table = LogTable(e) /\ db[b.table].columns # LogColumns(wanted)
        BY <2>3 DEF IsWrongLog
      <3>2. db'[b.table].columns # LogColumns(wanted)
        BY <1>8, <2>1, <2>2, <3>1
      <3> QED
        BY <3>1, <3>2 DEF IsWrongLog, LogTable, LogColumns
    <2>4. TablesInEntities(wanted)' = TablesInEntities(wanted)
      BY DEF TablesInEntities, EntityTable, LogTable
    <2>5. IsDrop(b)'
      BY <2>1, <2>2, <2>3, <2>4 DEF IsDrop
    <2> QED
      BY <2>5 DEF IsPending
  <1>11. CASE IsDropForeign(b)
    <2>1. b.kind = "dropFK" /\ b.table \in DOMAIN db /\ b.fks # {} /\ b.fks \subseteq db[b.table].fks
          /\ \A e \in wanted.entities : EntityTable(e) = b.table => b.fks \cap ForeignKeys(e, wanted) = {}
      BY <1>11 DEF IsDropForeign
    <2>2. a.kind # "drop"
      BY <1>5, <2>1, RankIs
    <2>3. b.table \in DOMAIN db' /\ b.fks \subseteq db'[b.table].fks
      BY <1>1, <1>2, <1>6, <2>1, <2>2 DEF Effect, Kinds
    <2>4. IsDropForeign(b)'
      BY <2>1, <2>3 DEF IsDropForeign, EntityTable, ForeignKeys, Refs, Named
    <2> QED
      BY <2>4 DEF IsPending
  <1>12. CASE IsAddForeign(b)
    <2>1. PICK e \in wanted.entities : /\ b.kind = "addFK" /\ b.fks # {}
                                       /\ b.table = EntityTable(e) /\ b.fks \subseteq ForeignKeys(e, wanted)
                                       /\ b.table \in DOMAIN db => b.fks \cap db[b.table].fks = {}
      BY <1>12 DEF IsAddForeign
    <2>2. Made(a).fks = {}
      BY DEF Made
    <2>3. ASSUME b.table \in DOMAIN db' PROVE b.fks \cap db'[b.table].fks = {}
      BY <1>1, <1>2, <1>6, <2>1, <2>2, <2>3 DEF Effect, Kinds
    <2>4. IsAddForeign(b)'
      BY <2>1, <2>3 DEF IsAddForeign, EntityTable, ForeignKeys, Refs, Named
    <2> QED
      BY <2>4 DEF IsPending
  <1>13. CASE IsAlter(b)
    <2>1. PICK e \in wanted.entities : /\ b.kind = "alter" /\ b.table \in DOMAIN db
                                       /\ b.table = EntityTable(e) /\ Alter(b, e, db[b.table])
      BY <1>13 DEF IsAlter
    <2>2. b.table \in DOMAIN db'
      BY <1>1, <1>5, <1>6, <2>1 DEF Effect, Kinds
    <2>3. db'[b.table].columns = db[b.table].columns
      BY <1>1, <1>2, <1>5, <1>6, <2>1 DEF Effect, Kinds
    <2>4. mode # "table" => db'[b.table].keys = db[b.table].keys
      <3>1. mode # "table" => a.kind # "addFK"
        BY <2>1, RankIs
      <3> QED
        BY <1>1, <1>2, <1>5, <1>6, <2>1, <3>1 DEF Effect, Kinds
    <2>5. Alter(b, e, db'[b.table])
      BY <2>1, <2>3, <2>4 DEF Alter, Makes, Added, Moved, Misplaced, Unwanted
    <2>6. Alter(b, e, db[b.table])'
      BY <2>5 DEF Alter, Keys, Unwanted, OwnKeys, Columns
    <2>7. IsAlter(b)'
      BY <2>1, <2>2, <2>6 DEF IsAlter, EntityTable
    <2> QED
      BY <2>7 DEF IsPending
  <1>14. CASE IsCharset(b)
    <2>1. PICK e \in wanted.entities : b.kind = "charset" /\ b.table \in DOMAIN db
                                       /\ b.table = EntityTable(e) /\ b.encoding = wanted.encoding
      BY <1>14 DEF IsCharset
    <2>2. b.table \in DOMAIN db'
      BY <1>1, <1>5, <1>6, <2>1 DEF Effect, Kinds
    <2>3. IsCharset(b)'
      BY <2>1, <2>2 DEF IsCharset, EntityTable
    <2> QED
      BY <2>3 DEF IsPending
  <1> QED
    BY <1>3, <1>7, <1>9, <1>10, <1>11, <1>12, <1>13, <1>14 DEF IsPending

-----------------------------------------------------------------------------
(* What GetAlters and GetSchemaChanges return.                             *)

\* The keys of a table are those of the entity, and MySQL's own.
HasKeys(e, r, t) == Keys(e, r) \subseteq t.keys /\ \A k \in t.keys : k \in Keys(e, r) \/ k.name \in OwnKeys(e, r)

LEMMA IdleMeans ==
  ASSUME NEW r \in Releases, IsValid(r), NEW e \in r.entities, NEW t, IsTable(t, EntityTable(e)), NEW a,
         Makes(Columns(e, r), t, a), a.dropKeys = Unwanted(e, r, t), a.addKeys = Keys(e, r) \ t.keys
  PROVE  IsIdle(a) <=> t.columns = Columns(e, r) /\ HasKeys(e, r, t)
  <1> DEFINE C == Columns(e, r)
  <1>1. IsColumns(C) /\ None \notin NamesIn(C) /\ IsSeq(C) /\ IsColumns(t.columns)
    BY EntityColumns, TableNames DEF IsTable, IsColumns
  <1>2. a.dropKeys = {} /\ a.addKeys = {} <=> HasKeys(e, r, t)
    BY DEF HasKeys, Unwanted
  <1>3. ASSUME t.columns = C PROVE a.drop = {} /\ a.add = << >> /\ a.change = << >>
    BY <1>1, <1>3, IdleIs
  <1>4. ASSUME a.drop = {}, a.add = << >>, a.change = << >> PROVE t.columns = C
    BY <1>1, <1>4, IdleColumns
  <1> QED
    BY <1>2, <1>3, <1>4 DEF IsIdle

Charset(e, r) == [Nothing EXCEPT !.kind = "charset", !.table = EntityTable(e), !.encoding = r.encoding]
Found(e, r, t) == Called(NormalAlter(e, r, t), IsSafe(NormalAlter(e, r, t)))
\* Foreign keys that a table has, when it is.
ForeignIn(u) == IF u \in DOMAIN db THEN db[u].fks ELSE {}

\* A change of an entity is known by its kind.
IsChange(a, e) ==
  LET u == EntityTable(e)
      t == db[u] IN
  /\ a.table = u /\ a.kind \in Kinds \ {"drop"}
  /\ a.kind = "create" => a = Create(e, wanted) /\ u \notin DOMAIN db
  /\ a.kind = "alter" => a = Found(e, wanted, t) /\ u \in DOMAIN db /\ ~IsIdle(a)
  /\ a.kind = "charset" => a = Charset(e, wanted) /\ u \in DOMAIN db
  /\ a.kind = "dropFK" => u \in DOMAIN db /\ a \in AlterForeign("dropFK", u, t.fks \ ForeignKeys(e, wanted))
  /\ a.kind = "addFK" => a \in AlterForeign("addFK", u, ForeignKeys(e, wanted) \ ForeignIn(u))

LEMMA CharsetIs ==
  ASSUME NEW e, NEW r
  PROVE  /\ Charset(e, r).kind = "charset" /\ Charset(e, r).table = EntityTable(e)
         /\ Charset(e, r).encoding = r.encoding
  BY DEF Charset, Nothing

LEMMA FoundIs ==
  ASSUME NEW e, NEW r, NEW t
  PROVE  /\ Found(e, r, t).kind = "alter" /\ Found(e, r, t).table = EntityTable(e)
         /\ Makes(Columns(e, r), t, Found(e, r, t))
         /\ Found(e, r, t).dropKeys = Unwanted(e, r, t) /\ Found(e, r, t).addKeys = Keys(e, r) \ t.keys
         /\ (NormalAlter(e, r, t) = [Nothing EXCEPT !.table = EntityTable(e)]) <=> IsIdle(Found(e, r, t))
  <1> DEFINE n == NormalAlter(e, r, t)
             s == IsSafe(n)
             q == Called(n, s)
  <1> HIDE DEF s
  <1>1. /\ (n = [Nothing EXCEPT !.table = EntityTable(e)]) <=> IsIdle(n)
        /\ IsIdle(n) = IsIdle(q) /\ q.kind = "alter" /\ q.table = EntityTable(e)
        /\ Makes(Columns(e, r), t, q)
        /\ q.dropKeys = Unwanted(e, r, t) /\ q.addKeys = Keys(e, r) \ t.keys
    BY NormalAlterIs
  <1>2. Found(e, r, t) = q
    BY DEF Found, s
  <1> QED
    BY <1>1, <1>2

LEMMA SchemaChangesAre ==
  ASSUME NEW e
  PROVE  LET u == EntityTable(e)
             t == db[u]
             fks == ForeignKeys(e, wanted) IN
         /\ u \notin DOMAIN db => SchemaChanges(e, wanted) = {Create(e, wanted)} \cup AlterForeign("addFK", u, fks)
         /\ u \in DOMAIN db =>
              SchemaChanges(e, wanted) =
                (IF ~IsIdle(Found(e, wanted, t)) THEN {Found(e, wanted, t)}
                 ELSE IF t.encoding # wanted.encoding THEN {Charset(e, wanted)} ELSE {})
                \cup AlterForeign("dropFK", u, t.fks \ fks)
                \cup AlterForeign("addFK", u, fks \ t.fks)
  <1> DEFINE u == EntityTable(e)
             t == db[u]
             fks == ForeignKeys(e, wanted)
             n == NormalAlter(e, wanted, t)
             k == [Nothing EXCEPT !.table = u]
  <1>1. u \notin DOMAIN db => SchemaChanges(e, wanted) = {Create(e, wanted)} \cup AlterForeign("addFK", u, fks)
    BY DEF SchemaChanges
  <1>2. n = k <=> IsIdle(Found(e, wanted, t))
    BY FoundIs
  <1>3. ASSUME u \in DOMAIN db
        PROVE  SchemaChanges(e, wanted) =
                 (IF n # k THEN {Found(e, wanted, t)}
                  ELSE IF t.encoding # wanted.encoding THEN {Charset(e, wanted)} ELSE {})
                 \cup AlterForeign("dropFK", u, t.fks \ fks)
                 \cup AlterForeign("addFK", u, fks \ t.fks)
    BY <1>3 DEF SchemaChanges, Found, Called, Charset
  <1> HIDE DEF n, k
  <1> QED
    BY <1>1, <1>2, <1>3

LEMMA ChangeIs ==
  ASSUME NEW e, NEW a \in SchemaChanges(e, wanted)
  PROVE  IsChange(a, e)
  <1> DEFINE u == EntityTable(e)
             t == db[u]
             fks == ForeignKeys(e, wanted)
  <1>1. CASE u \notin DOMAIN db
    <2>1. a = Create(e, wanted) \/ a \in AlterForeign("addFK", u, fks)
      BY <1>1, SchemaChangesAre
    <2>2. CASE a = Create(e, wanted)
      <3>1. a.kind = "create" /\ a.table = u
        BY <2>2, CreateIs
      <3> QED
        BY <1>1, <2>2, <3>1 DEF IsChange, Kinds
    <2>3. CASE a \in AlterForeign("addFK", u, fks)
      <3>1. a.kind = "addFK" /\ a.table = u
        BY <2>3, ForeignAre
      <3>2. fks \ ForeignIn(u) = fks
        BY <1>1 DEF ForeignIn
      <3> QED
        BY <1>1, <2>3, <3>1, <3>2 DEF IsChange, Kinds
    <2> QED
      BY <2>1, <2>2, <2>3
  <1>2. CASE u \in DOMAIN db
    <2>1. \/ a = Found(e, wanted, t) /\ ~IsIdle(a)
          \/ a = Charset(e, wanted)
          \/ a \in AlterForeign("dropFK", u, t.fks \ fks)
          \/ a \in AlterForeign("addFK", u, fks \ t.fks)
      <3>1. a \in (IF ~IsIdle(Found(e, wanted, t)) THEN {Found(e, wanted, t)}
                   ELSE IF t.encoding # wanted.encoding THEN {Charset(e, wanted)} ELSE {})
                  \cup AlterForeign("dropFK", u, t.fks \ fks)
                  \cup AlterForeign("addFK", u, fks \ t.fks)
        BY <1>2, SchemaChangesAre
      <3> QED
        BY <3>1
    <2>2. CASE a = Found(e, wanted, t) /\ ~IsIdle(a)
      <3>1. a.kind = "alter" /\ a.table = u
        BY <2>2, FoundIs
      <3> QED
        BY <1>2, <2>2, <3>1 DEF IsChange, Kinds
    <2>3. CASE a = Charset(e, wanted)
      <3>1. a.kind = "charset" /\ a.table = u
        BY <2>3, CharsetIs
      <3> QED
        BY <1>2, <2>3, <3>1 DEF IsChange, Kinds
    <2>4. CASE a \in AlterForeign("dropFK", u, t.fks \ fks)
      <3>1. a.kind = "dropFK" /\ a.table = u
        BY <2>4, ForeignAre
      <3> QED
        BY <1>2, <2>4, <3>1 DEF IsChange, Kinds
    <2>5. CASE a \in AlterForeign("addFK", u, fks \ t.fks)
      <3>1. a.kind = "addFK" /\ a.table = u
        BY <2>5, ForeignAre
      <3>2. ForeignIn(u) = t.fks
        BY <1>2 DEF ForeignIn
      <3> QED
        BY <1>2, <2>5, <3>1, <3>2 DEF IsChange, Kinds
    <2> QED
      BY <2>1, <2>2, <2>3, <2>4, <2>5
  <1> QED
    BY <1>1, <1>2

\* A change of a log table, and of a table that no entity has.
IsLogChange(a, e) ==
  /\ LogTable(e) \in DOMAIN db => db[LogTable(e)].columns # LogColumns(wanted)
  /\ a = CreateLog(e, wanted) \/ (a = DropTable(LogTable(e)) /\ LogTable(e) \in DOMAIN db)
IsExtra(a, u) ==
  /\ u \in DOMAIN db \ TablesInEntities(wanted)
  /\ a \in AlterForeign("dropFK", u, db[u].fks) \/ a = DropTable(u)

LEMMA AltersAre ==
  ASSUME NEW a \in Alters(wanted)
  PROVE  \/ \E e \in wanted.entities : IsChange(a, e)
         \/ \E e \in wanted.entities : e.log /\ IsLogChange(a, e)
         \/ \E u : IsExtra(a, u)
  <1>1. \/ a \in UNION {SchemaChanges(e, wanted) \cup LogChanges(e, wanted) : e \in wanted.entities}
        \/ a \in UNION {AlterForeign("dropFK", table, db[table].fks) \cup {DropTable(table)}
                        : table \in DOMAIN db \ TablesInEntities(wanted)}
    BY ZenonT(40) DEF Alters
  <1>2. \/ \E e \in wanted.entities : a \in SchemaChanges(e, wanted) \cup LogChanges(e, wanted)
        \/ \E table \in DOMAIN db \ TablesInEntities(wanted) :
              a \in AlterForeign("dropFK", table, db[table].fks) \cup {DropTable(table)}
    BY <1>1
  <1>3. CASE \E e \in wanted.entities : a \in SchemaChanges(e, wanted)
    BY <1>3, ChangeIs
  <1>4. CASE \E e \in wanted.entities : a \in LogChanges(e, wanted)
    BY <1>4 DEF LogChanges, IsLogChange
  <1>5. CASE \E table \in DOMAIN db \ TablesInEntities(wanted) :
                a \in AlterForeign("dropFK", table, db[table].fks) \cup {DropTable(table)}
    BY <1>5 DEF IsExtra
  <1> QED
    BY <1>2, <1>3, <1>4, <1>5

\* There is one alter of a kind for a table.
LEMMA ChangeIsOne ==
  ASSUME NEW e, NEW a, NEW b, IsChange(a, e), IsChange(b, e), a.kind = b.kind
  PROVE  a = b
  <1> DEFINE u == EntityTable(e)
             t == db[u]
  <1>1. CASE a.kind = "dropFK"
    <2>1. /\ a \in AlterForeign("dropFK", u, t.fks \ ForeignKeys(e, wanted))
          /\ b \in AlterForeign("dropFK", u, t.fks \ ForeignKeys(e, wanted))
      BY <1>1 DEF IsChange
    <2> QED
      BY <2>1, ForeignIsOne
  <1>2. CASE a.kind = "addFK"
    <2>1. /\ a \in AlterForeign("addFK", u, ForeignKeys(e, wanted) \ ForeignIn(u))
          /\ b \in AlterForeign("addFK", u, ForeignKeys(e, wanted) \ ForeignIn(u))
      BY <1>2 DEF IsChange
    <2> QED
      BY <2>1, ForeignIsOne
  <1> QED
    BY <1>1, <1>2 DEF IsChange, Kinds

LEMMA LogChangeIs ==
  ASSUME NEW e \in wanted.entities, e.log, NEW a, IsLogChange(a, e)
  PROVE  /\ a.table = LogTable(e) /\ a.table \in TablesInEntities(wanted)
         /\ a.kind \in {"create", "drop"}
         /\ a.kind = "create" => a = CreateLog(e, wanted)
         /\ a.kind = "drop" => a = DropTable(LogTable(e)) /\ LogTable(e) \in DOMAIN db
  <1>1. LogTable(e) \in TablesInEntities(wanted)
    BY DEF TablesInEntities
  <1>2. CreateLog(e, wanted).kind = "create" /\ CreateLog(e, wanted).table = LogTable(e)
    BY CreateLogIs
  <1>3. DropTable(LogTable(e)).kind = "drop" /\ DropTable(LogTable(e)).table = LogTable(e)
    BY DropTableIs
  <1> QED
    BY <1>1, <1>2, <1>3 DEF IsLogChange

LEMMA ExtraIs ==
  ASSUME NEW u, NEW a, IsExtra(a, u)
  PROVE  /\ a.table = u /\ a.table \notin TablesInEntities(wanted) /\ a.table \in DOMAIN db
         /\ a.kind \in {"dropFK", "drop"}
         /\ a.kind = "dropFK" => a \in AlterForeign("dropFK", u, db[u].fks)
         /\ a.kind = "drop" => a = DropTable(u)
  <1>1. DropTable(u).kind = "drop" /\ DropTable(u).table = u
    BY DropTableIs
  <1>2. \A x \in AlterForeign("dropFK", u, db[u].fks) : x.kind = "dropFK" /\ x.table = u
    BY ForeignAre
  <1> QED
    BY <1>1, <1>2 DEF IsExtra

LEMMA ChangeTable ==
  ASSUME NEW e \in wanted.entities, NEW a, IsChange(a, e)
  PROVE  a.table = EntityTable(e) /\ a.table \in TablesInEntities(wanted)
  BY DEF IsChange, TablesInEntities

LEMMA AlterIsOne ==
  ASSUME wanted \in Releases, IsValid(wanted), NEW a \in Alters(wanted), NEW b \in Alters(wanted),
         a.kind = b.kind, a.table = b.table
  PROVE  a = b
  <1>1. CASE \E e \in wanted.entities : IsChange(a, e)
    <2>1. PICK e \in wanted.entities : IsChange(a, e)
      BY <1>1
    <2>2. a.table = EntityTable(e) /\ a.table \in TablesInEntities(wanted)
      BY <2>1, ChangeTable
    <2>3. PICK other \in wanted.entities : IsChange(b, other)
      <3>1. ~\E u : IsExtra(b, u)
        BY <2>2, ExtraIs
      <3>2. ~\E o \in wanted.entities : o.log /\ IsLogChange(b, o)
        <4>1. ASSUME NEW o \in wanted.entities, o.log, IsLogChange(b, o) PROVE b.table = LogTable(o)
          BY <4>1, LogChangeIs
        <4>2. \A o : EntityTable(e) # LogTable(o)
          BY TableNames
        <4> QED
          BY <2>2, <4>1, <4>2
      <3> QED
        BY <3>1, <3>2, AltersAre
    <2>4. b.table = EntityTable(other)
      BY <2>3, ChangeTable
    <2>5. e = other
      BY <2>2, <2>4, TableOfOne
    <2> QED
      BY <2>1, <2>3, <2>5, ChangeIsOne
  <1>2. CASE \E e \in wanted.entities : e.log /\ IsLogChange(a, e)
    <2>1. PICK e \in wanted.entities : e.log /\ IsLogChange(a, e)
      BY <1>2
    <2>2. a.table = LogTable(e) /\ a.table \in TablesInEntities(wanted)
      BY <2>1, LogChangeIs
    <2>3. PICK other \in wanted.entities : other.log /\ IsLogChange(b, other)
      <3>1. ~\E u : IsExtra(b, u)
        BY <2>2, ExtraIs
      <3>2. ~\E o \in wanted.entities : IsChange(b, o)
        <4>1. ASSUME NEW o \in wanted.entities, IsChange(b, o) PROVE b.table = EntityTable(o)
          BY <4>1, ChangeTable
        <4>2. \A o : LogTable(e) # EntityTable(o)
          BY TableNames
        <4> QED
          BY <2>2, <4>1, <4>2
      <3> QED
        BY <3>1, <3>2, AltersAre
    <2>4. b.table = LogTable(other)
      BY <2>3, LogChangeIs
    <2>5. e = other
      BY <2>2, <2>4, TableOfOne
    <2> QED
      BY <2>1, <2>3, <2>5, LogChangeIs
  <1>3. CASE \E u : IsExtra(a, u)
    <2>1. PICK u : IsExtra(a, u)
      BY <1>3
    <2>2. a.table = u /\ a.table \notin TablesInEntities(wanted)
      BY <2>1, ExtraIs
    <2>3. PICK v : IsExtra(b, v)
      BY <2>2, AltersAre, ChangeTable, LogChangeIs
    <2>4. v = u
      BY <2>2, <2>3, ExtraIs
    <2>5. /\ a.kind \in {"dropFK", "drop"}
          /\ a.kind = "dropFK" => a \in AlterForeign("dropFK", u, db[u].fks)
          /\ a.kind = "drop" => a = DropTable(u)
          /\ b.kind = "dropFK" => b \in AlterForeign("dropFK", u, db[u].fks)
          /\ b.kind = "drop" => b = DropTable(u)
      BY <2>1, <2>3, <2>4, ExtraIs
    <2> QED
      BY <2>5, ForeignIsOne
  <1> QED
    BY <1>1, <1>2, <1>3, AltersAre

\* What alters do while nothing was executed.
LEMMA ChangeIsPending ==
  ASSUME wanted \in Releases, IsValid(wanted), NEW e \in wanted.entities, NEW a, IsChange(a, e)
  PROVE  IsPending(a)
  <1> DEFINE u == EntityTable(e)
             t == db[u]
  <1>1. CASE a.kind = "create"
    BY <1>1 DEF IsChange, IsPending, IsCreate
  <1>2. CASE a.kind = "alter"
    <2>1. a = Found(e, wanted, t) /\ u \in DOMAIN db /\ ~IsIdle(a) /\ a.table = u
      BY <1>2 DEF IsChange
    <2>2. /\ Makes(Columns(e, wanted), t, a)
          /\ a.dropKeys = Unwanted(e, wanted, t) /\ a.addKeys = Keys(e, wanted) \ t.keys
      BY <2>1, FoundIs
    <2>3. Alter(a, e, t)
      BY <2>1, <2>2 DEF Alter
    <2> QED
      BY <1>2, <2>1, <2>3 DEF IsPending, IsAlter
  <1>3. CASE a.kind = "charset"
    <2>1. a = Charset(e, wanted) /\ u \in DOMAIN db /\ a.table = u
      BY <1>3 DEF IsChange
    <2>2. a.encoding = wanted.encoding
      BY <2>1, CharsetIs
    <2> QED
      BY <1>3, <2>1, <2>2 DEF IsPending, IsCharset
  <1>4. CASE a.kind = "dropFK"
    <2>1. u \in DOMAIN db /\ a.table = u /\ a \in AlterForeign("dropFK", u, t.fks \ ForeignKeys(e, wanted))
      BY <1>4 DEF IsChange
    <2>2. a.fks = t.fks \ ForeignKeys(e, wanted) /\ a.fks # {}
      BY <2>1, ForeignAre
    <2>3. \A other \in wanted.entities : EntityTable(other) = u => other = e
      BY TableOfOne
    <2> QED
      BY <1>4, <2>1, <2>2, <2>3 DEF IsPending, IsDropForeign
  <1>5. CASE a.kind = "addFK"
    <2>1. a.table = u /\ a \in AlterForeign("addFK", u, ForeignKeys(e, wanted) \ ForeignIn(u))
      BY <1>5 DEF IsChange
    <2>2. a.fks = ForeignKeys(e, wanted) \ ForeignIn(u) /\ a.fks # {}
      BY <2>1, ForeignAre
    <2> QED
      BY <1>5, <2>1, <2>2 DEF IsPending, IsAddForeign, ForeignIn
  <1> QED
    BY <1>1, <1>2, <1>3, <1>4, <1>5 DEF IsChange, Kinds

LEMMA AlterIsPending ==
  ASSUME wanted \in Releases, IsValid(wanted), NEW a \in Alters(wanted), mode # "table",
         mode = "safe" \/ alters = Alters(wanted)
  PROVE  IsPending(a)
  <1>1. CASE \E e \in wanted.entities : IsChange(a, e)
    BY <1>1, ChangeIsPending
  <1>2. CASE \E e \in wanted.entities : e.log /\ IsLogChange(a, e)
    <2>1. PICK e \in wanted.entities : e.log /\ IsLogChange(a, e)
      BY <1>2
    <2>2. LogTable(e) \in DOMAIN db => db[LogTable(e)].columns # LogColumns(wanted)
      BY <2>1 DEF IsLogChange
    <2>3. CASE a = CreateLog(e, wanted)
      <3>1. ASSUME LogTable(e) \in DOMAIN db, mode # "safe"
            PROVE  \E b \in alters : b.kind = "drop" /\ b.table = LogTable(e)
        <4>1. DropTable(LogTable(e)) \in LogChanges(e, wanted)
          BY <2>1, <2>2, <3>1 DEF LogChanges
        <4>2. DropTable(LogTable(e)) \in Alters(wanted)
          BY <4>1 DEF Alters
        <4> QED
          BY <3>1, <4>2, DropTableIs
      <3> QED
        BY <2>1, <2>2, <2>3, <3>1 DEF IsPending, IsCreateLog
    <2>4. CASE a = DropTable(LogTable(e)) /\ LogTable(e) \in DOMAIN db
      <3>1. a.kind = "drop" /\ a.table = LogTable(e)
        BY <2>4, DropTableIs
      <3>2. IsWrongLog(a.table)
        BY <2>1, <2>2, <2>4, <3>1 DEF IsWrongLog
      <3> QED
        BY <2>4, <3>1, <3>2 DEF IsPending, IsDrop
    <2> QED
      BY <2>1, <2>3, <2>4 DEF IsLogChange
  <1>3. CASE \E u : IsExtra(a, u)
    <2>1. PICK u : IsExtra(a, u)
      BY <1>3
    <2>2. /\ a.table = u /\ u \notin TablesInEntities(wanted) /\ u \in DOMAIN db
          /\ a.kind \in {"dropFK", "drop"}
          /\ a.kind = "dropFK" => a \in AlterForeign("dropFK", u, db[u].fks)
      BY <2>1, ExtraIs
    <2>3. CASE a.kind = "drop"
      BY <2>2, <2>3 DEF IsPending, IsDrop
    <2>4. CASE a.kind = "dropFK"
      <3>1. a.fks = db[u].fks /\ a.fks # {}
        BY <2>2, <2>4, ForeignAre
      <3>2. \A e \in wanted.entities : EntityTable(e) # u
        BY <2>2 DEF TablesInEntities
      <3> QED
        BY <2>2, <2>4, <3>1, <3>2 DEF IsPending, IsDropForeign
    <2> QED
      BY <2>2, <2>3, <2>4
  <1> QED
    BY <1>1, <1>2, <1>3, AltersAre

-----------------------------------------------------------------------------
(* After GetAlters.                                                        *)

IsFresh ==
  /\ mode \in {"all", "safe"}
  /\ alters = {a \in Alters(wanted) : mode = "safe" => a.safe}

LEMMA InAlters ==
  /\ \A e \in wanted.entities : SchemaChanges(e, wanted) \cup LogChanges(e, wanted) \subseteq Alters(wanted)
  /\ \A u \in DOMAIN db \ TablesInEntities(wanted) :
        AlterForeign("dropFK", u, db[u].fks) \cup {DropTable(u)} \subseteq Alters(wanted)
  BY ZenonT(40) DEF Alters

LEMMA FreshForeignKeys ==
  ASSUME wanted \in Releases, IsValid(wanted), TablesOK, IsFresh
  PROVE  ForeignKeysOK
  <1> SUFFICES ASSUME NEW u \in DOMAIN db, NEW fk \in db[u].fks,
                      ~\E e \in wanted.entities : u = EntityTable(e) /\ fk \in ForeignKeys(e, wanted)
               PROVE  IsLeftFor("dropFK", u, fk)
    BY DEF ForeignKeysOK
  <1>1. ASSUME NEW fks, fk \in fks, AlterForeign("dropFK", u, fks) \subseteq Alters(wanted)
        PROVE  IsLeftFor("dropFK", u, fk)
    <2>1. PICK a \in AlterForeign("dropFK", u, fks) : TRUE
      BY <1>1, ForeignIsOne
    <2>2. a.kind = "dropFK" /\ a.table = u /\ a.fks = fks /\ a.safe
      BY <2>1, ForeignAre
    <2>3. a \in alters
      BY <1>1, <2>2 DEF IsFresh
    <2> QED
      BY <1>1, <2>2, <2>3 DEF IsLeftFor
  <1>2. CASE \E e \in wanted.entities : u = EntityTable(e)
    <2>1. PICK e \in wanted.entities : u = EntityTable(e)
      BY <1>2
    <2>2. AlterForeign("dropFK", u, db[u].fks \ ForeignKeys(e, wanted)) \subseteq SchemaChanges(e, wanted)
      BY <2>1, SchemaChangesAre
    <2> QED
      BY <1>1, <2>1, <2>2, InAlters
  <1>3. CASE \E e \in wanted.entities : u = LogTable(e)
    <2>1. u # <<u[1]>>
      BY <1>3, TableNames
    <2> QED
      BY <2>1 DEF TablesOK, IsTable
  <1>4. CASE u \notin TablesInEntities(wanted)
    BY <1>1, <1>4, InAlters
  <1> QED
    BY <1>2, <1>3, <1>4 DEF TablesInEntities

LEMMA FreshPending ==
  ASSUME wanted \in Releases, IsValid(wanted), IsFresh
  PROVE  PendingOK
  <1>1. alters \subseteq Alters(wanted) /\ mode # "table" /\ (mode = "safe" \/ alters = Alters(wanted))
    BY DEF IsFresh
  <1>2. \A a \in alters : IsPending(a)
    BY <1>1, AlterIsPending
  <1>3. \A a, b \in alters : a.kind = b.kind /\ a.table = b.table => a = b
    BY <1>1, AlterIsOne
  <1> QED
    BY <1>2, <1>3 DEF PendingOK

\* What all alters together do for an entity.
LEMMA FreshWillHold ==
  ASSUME Basics, TablesOK, RoundsHold, alters = Alters(wanted), NEW e \in wanted.entities
  PROVE  WillHold(e, rounds)
  <1> DEFINE u == EntityTable(e)
             t == db[u]
             q == Found(e, wanted, t)
  <1>0. wanted \in Releases /\ IsValid(wanted) /\ rounds \in 0 .. 3
    BY DEF Basics
  <1>1. SchemaChanges(e, wanted) \subseteq alters /\ LogChanges(e, wanted) \subseteq alters
    BY InAlters
  <1>2. u \in DOMAIN db \/ IsLeft("create", u)
    <2> SUFFICES ASSUME u \notin DOMAIN db PROVE IsLeft("create", u)
      OBVIOUS
    <2>1. Create(e, wanted) \in alters
      BY <1>1, SchemaChangesAre
    <2> QED
      BY <2>1, CreateIs DEF IsLeft
  <1>3. ASSUME u \in DOMAIN db
        PROVE  (t.columns = Columns(e, wanted) /\ HasColumns(e, t)) \/ IsLeft("alter", u)
    <2>1. CASE IsIdle(q)
      <3>1. IsTable(t, u)
        BY <1>3 DEF TablesOK
      <3>2. Makes(Columns(e, wanted), t, q) /\ q.dropKeys = Unwanted(e, wanted, t)
            /\ q.addKeys = Keys(e, wanted) \ t.keys
        BY FoundIs
      <3>3. t.columns = Columns(e, wanted) /\ HasKeys(e, wanted, t)
        BY <1>0, <2>1, <3>1, <3>2, IdleMeans
      <3> QED
        BY <3>3 DEF HasColumns, HasKeys
    <2>2. CASE ~IsIdle(q)
      <3>1. q \in SchemaChanges(e, wanted)
        BY <1>3, <2>2, SchemaChangesAre
      <3>2. q.kind = "alter" /\ q.table = u
        BY FoundIs
      <3> QED
        BY <1>1, <3>1, <3>2 DEF IsLeft
    <2> QED
      BY <2>1, <2>2
  <1>4. ASSUME u \in DOMAIN db, rounds >= 2
        PROVE  t.encoding = wanted.encoding \/ IsLeft("charset", u)
    <2>1. IsTable(t, u)
      BY <1>4 DEF TablesOK
    <2>2. HoldsAll(e)
      BY <1>0, <1>4 DEF RoundsHold
    <2>3. t.columns = Columns(e, wanted) /\ HasKeys(e, wanted, t)
      BY <1>4, <2>2 DEF HoldsAll, HasColumns, HasKeys
    <2>4. Makes(Columns(e, wanted), t, q) /\ q.dropKeys = Unwanted(e, wanted, t)
          /\ q.addKeys = Keys(e, wanted) \ t.keys
      BY FoundIs
    <2>5. IsIdle(q)
      BY <1>0, <2>1, <2>3, <2>4, IdleMeans
    <2>6. CASE t.encoding # wanted.encoding
      <3>1. Charset(e, wanted) \in SchemaChanges(e, wanted)
        BY <1>4, <2>5, <2>6, SchemaChangesAre
      <3> QED
        BY <1>1, <3>1, CharsetIs DEF IsLeft
    <2> QED
      BY <2>6
  <1>5. ASSUME NEW fk \in ForeignKeys(e, wanted)
        PROVE  (u \in DOMAIN db /\ fk \in t.fks) \/ IsLeftFor("addFK", u, fk)
    <2>1. ASSUME NEW fks, fk \in fks, AlterForeign("addFK", u, fks) \subseteq alters
          PROVE  IsLeftFor("addFK", u, fk)
      <3>1. PICK a \in AlterForeign("addFK", u, fks) : TRUE
        BY <2>1, ForeignIsOne
      <3>2. a.kind = "addFK" /\ a.table = u /\ a.fks = fks
        BY <3>1, ForeignAre
      <3> QED
        BY <2>1, <3>1, <3>2 DEF IsLeftFor
    <2>2. CASE u \notin DOMAIN db
      <3>1. AlterForeign("addFK", u, ForeignKeys(e, wanted)) \subseteq alters
        BY <1>1, <2>2, SchemaChangesAre
      <3> QED
        BY <1>5, <2>1, <3>1
    <2>3. CASE u \in DOMAIN db /\ fk \notin t.fks
      <3>1. AlterForeign("addFK", u, ForeignKeys(e, wanted) \ t.fks) \subseteq alters
        BY <1>1, <2>3, SchemaChangesAre
      <3> QED
        BY <1>5, <2>1, <2>3, <3>1
    <2> QED
      BY <2>2, <2>3
  <1>6. ASSUME e.log, ~(LogTable(e) \in DOMAIN db /\ db[LogTable(e)].columns = LogColumns(wanted))
        PROVE  IsLeft("create", LogTable(e))
    <2>1. CreateLog(e, wanted) \in LogChanges(e, wanted)
      BY <1>6 DEF LogChanges
    <2> QED
      BY <1>1, <2>1, CreateLogIs DEF IsLeft
  <1> QED
    BY <1>0, <1>2, <1>3, <1>4, <1>5, <1>6 DEF WillHold

LEMMA FreshIsComplete ==
  ASSUME Basics, TablesOK, RoundsHold, alters = Alters(wanted)
  PROVE  Complete
  <1>1. \A e \in wanted.entities : WillHold(e, rounds)
    BY FreshWillHold
  <1>2. ASSUME NEW u \in DOMAIN db, u \notin TablesInEntities(wanted) PROVE IsLeft("drop", u)
    <2>1. DropTable(u) \in alters
      BY <1>2, InAlters
    <2> QED
      BY <2>1, DropTableIs DEF IsLeft
  <1> QED
    BY <1>1, <1>2 DEF Complete, CompleteAt

\* After two rounds there is nothing to alter but an encoding, after three nothing.
LEMMA RoundsAlters ==
  ASSUME Basics, TablesOK, RoundsHold, rounds >= 2, NEW a \in Alters(wanted)
  PROVE  a.kind = "charset" /\ rounds # 3
  <1>0. wanted \in Releases /\ IsValid(wanted) /\ rounds \in 0 .. 3
    BY DEF Basics
  <1>1. DOMAIN db = TablesInEntities(wanted)
    BY <1>0 DEF RoundsHold
  <1>2. ~\E u : IsExtra(a, u)
    BY <1>1 DEF IsExtra
  <1>3. ASSUME NEW e \in wanted.entities, e.log, IsLogChange(a, e) PROVE FALSE
    <2>1. Holds(e)
      BY <1>0, <1>3 DEF RoundsHold, HoldsAll
    <2> QED
      BY <1>3, <2>1 DEF IsLogChange, Holds
  <1>4. PICK e \in wanted.entities : a \in SchemaChanges(e, wanted)
    <2>1. PICK e \in wanted.entities : a \in SchemaChanges(e, wanted) \cup LogChanges(e, wanted)
      <3>1. \/ a \in UNION {SchemaChanges(e, wanted) \cup LogChanges(e, wanted) : e \in wanted.entities}
            \/ a \in UNION {AlterForeign("dropFK", table, db[table].fks) \cup {DropTable(table)}
                            : table \in DOMAIN db \ TablesInEntities(wanted)}
        BY ZenonT(40) DEF Alters
      <3> QED
        BY <1>1, <3>1
    <2>2. a \notin LogChanges(e, wanted)
      BY <1>3 DEF LogChanges, IsLogChange
    <2> QED
      BY <2>1, <2>2
  <1> DEFINE u == EntityTable(e)
             t == db[u]
             q == Found(e, wanted, t)
  <1>5. HoldsAll(e)
    BY <1>0 DEF RoundsHold
  <1>6. u \in DOMAIN db /\ t.fks = ForeignKeys(e, wanted) /\ t.columns = Columns(e, wanted) /\ HasKeys(e, wanted, t)
        /\ (rounds = 3 => t.encoding = wanted.encoding)
    BY <1>5 DEF HoldsAll, Holds, HasColumns, HasKeys
  <1>7. IsIdle(q)
    <2>1. IsTable(t, u)
      BY <1>6 DEF TablesOK
    <2>2. Makes(Columns(e, wanted), t, q) /\ q.dropKeys = Unwanted(e, wanted, t)
          /\ q.addKeys = Keys(e, wanted) \ t.keys
      BY FoundIs
    <2> QED
      BY <1>0, <1>6, <2>1, <2>2, IdleMeans
  <1>8. AlterForeign("dropFK", u, t.fks \ ForeignKeys(e, wanted)) = {}
        /\ AlterForeign("addFK", u, ForeignKeys(e, wanted) \ t.fks) = {}
    <2>1. t.fks \ ForeignKeys(e, wanted) = {} /\ ForeignKeys(e, wanted) \ t.fks = {}
      BY <1>6
    <2>2. \A x, y : AlterForeign(x, y, {}) = {}
      BY DEF AlterForeign
    <2> QED
      BY <2>1, <2>2
  <1>9. SchemaChanges(e, wanted) = IF t.encoding # wanted.encoding THEN {Charset(e, wanted)} ELSE {}
    BY <1>6, <1>7, <1>8, SchemaChangesAre
  <1>10. a = Charset(e, wanted) /\ t.encoding # wanted.encoding
    BY <1>4, <1>9
  <1> QED
    BY <1>6, <1>10, CharsetIs

-----------------------------------------------------------------------------
(* What MySQL accepts.                                                     *)

LEMMA ColumnIs ==
  ASSUME NEW t, OwnNames(t.columns), NEW c \in ToSet(t.columns), NEW n, c.name = n
  PROVE  Column(t, n) = c
  <1>1. \A x, y \in ToSet(t.columns) : x.name = y.name => x = y
    BY NamesAre
  <1> QED
    BY <1>1 DEF Column

\* Foreign keys are dropped before all else but tables of one ALTER.
LEMMA ForeignKeysLeft ==
  ASSUME ForeignKeysOK, \A b \in alters : b.kind # "dropFK", NEW u \in DOMAIN db, NEW fk \in db[u].fks
  PROVE  \E e \in wanted.entities : u = EntityTable(e) /\ fk \in ForeignKeys(e, wanted)
  BY DEF ForeignKeysOK, IsLeftFor

LEMMA DropAccepted ==
  ASSUME Basics, ForeignKeysOK, NEW a \in alters, IsNext(a), IsDrop(a)
  PROVE  IsAccepted(a)
  <1>0. wanted \in Releases /\ IsValid(wanted) /\ a.kind = "drop" /\ mode # "table" /\ a.table \in DOMAIN db
    BY DEF Basics, IsDrop
  <1>1. \A b \in alters : b.kind # "dropFK"
    BY <1>0, RankIs
  <1>2. ASSUME NEW e \in wanted.entities PROVE EntityTable(e) # a.table
    BY TableNames DEF IsDrop, IsWrongLog, TablesInEntities
  <1>3. ASSUME NEW u \in DOMAIN db, NEW fk \in db[u].fks, <<fk.table>> = a.table PROVE FALSE
    <2>1. PICK e \in wanted.entities : fk \in ForeignKeys(e, wanted)
      BY <1>1, <1>3, ForeignKeysLeft
    <2>2. PICK other \in wanted.entities : other.table = fk.table
      BY <1>0, <2>1, ForeignKeysAre
    <2>3. EntityTable(other) = <<fk.table>>
      BY <2>2 DEF EntityTable
    <2> QED
      BY <1>2, <1>3, <2>3
  <1>4. ~IsReferenced(a.table)
    BY <1>3 DEF IsReferenced
  <1> QED
    BY <1>0, <1>4 DEF IsAccepted

LEMMA AlterAccepted ==
  ASSUME Basics, TablesOK, ForeignKeysOK, NEW a \in alters, IsNext(a), IsAlter(a), mode # "table", Retyped(a) = {}
  PROVE  IsAccepted(a)
  <1> DEFINE t == db[a.table]
  <1>0. wanted \in Releases /\ IsValid(wanted) /\ a.kind = "alter" /\ a.table \in DOMAIN db
    BY DEF Basics, IsAlter
  <1>1. \A b \in alters : b.kind # "dropFK"
    BY <1>0, RankIs
  <1>2. PICK e \in wanted.entities : a.table = EntityTable(e) /\ Alter(a, e, t)
    BY DEF IsAlter
  <1> DEFINE C == Columns(e, wanted)
  <1>3. Makes(C, t, a) /\ a.dropKeys = Unwanted(e, wanted, t) /\ a.addKeys = Keys(e, wanted) \ t.keys
    BY <1>2 DEF Alter
  <1>4. IsTable(t, a.table) /\ IsColumns(t.columns)
    BY <1>0, <1>2, TableNames DEF TablesOK, IsTable
  <1>5. IsColumns(C) /\ None \notin NamesIn(C) /\ IsSeq(C)
    BY <1>0, EntityColumns DEF IsColumns
  <1>6. /\ {k.name : k \in a.addKeys} \cap {k.name : k \in KeptKeys(t, a)} = {}
        /\ Keys(e, wanted) \subseteq AlteredKeys(t, a)
    BY <1>0, <1>2, <1>3, <1>4, AlteredKeysAre
  <1>7. ASSUME NEW fk \in t.fks PROVE fk.column \notin a.drop /\ \E k \in AlteredKeys(t, a) : Serves(k, fk)
    <2>1. PICK other \in wanted.entities : a.table = EntityTable(other) /\ fk \in ForeignKeys(other, wanted)
      BY <1>0, <1>1, <1>7, ForeignKeysLeft
    <2>2. other = e
      BY <1>0, <1>2, <2>1, TableOfOne
    <2>3. fk \in ForeignKeys(e, wanted)
      BY <2>1, <2>2
    <2>4. (\E c \in ToSet(C) : c.name = fk.column) /\ \E k \in Keys(e, wanted) : Serves(k, fk)
      BY <1>0, <2>3, ForeignKeysAre
    <2>5. fk.column \in NamesIn(C)
      BY <2>4, NamesAre
    <2>6. a.drop = NamesIn(t.columns) \ NamesIn(C)
      BY <1>3 DEF Makes
    <2> QED
      BY <1>6, <2>4, <2>5, <2>6
  <1>8. KeepsForeignKeys(a)
    BY <1>7 DEF KeepsForeignKeys
  <1>9. ASSUME NEW s \in ToSet(a.add) PROVE s.column.name \notin NamesIn(t.columns)
    <2>1. a.add = Placed(C, Added(C, t))
      BY <1>3 DEF Makes
    <2>2. ToSet(a.add) = {Spot(C, i) : i \in Added(C, t) \cap DOMAIN C}
      BY <1>5, <2>1, PlacedIs
    <2>3. PICK i \in Added(C, t) : s = Spot(C, i)
      BY <1>9, <2>2
    <2> QED
      BY <2>3 DEF Spot, Added
  <1>10. {s.column.name : s \in ToSet(a.add)} \cap NamesIn(t.columns) = {}
    BY <1>9
  <1>11. a.dropKeys \subseteq {k.name : k \in t.keys}
    BY <1>3 DEF Unwanted
  <1>12. ASSUME NEW k \in a.addKeys PROVE ToSet(k.columns) \subseteq NamesIn(AlteredColumns(t, a))
    <2>1. ToSet(AlteredColumns(t, a)) = ToSet(C)
      BY <1>3, <1>4, <1>5, AlteredColumnsAre
    <2>2. NamesIn(AlteredColumns(t, a)) = NamesIn(C)
      BY <2>1, NamesAre
    <2>3. k \in Keys(e, wanted)
      BY <1>3, <1>12
    <2> QED
      BY <1>0, <2>2, <2>3, EntityKeys
  <1> QED
    BY <1>0, <1>6, <1>8, <1>10, <1>11, <1>12 DEF IsAccepted

LEMMA AddForeignAccepted ==
  ASSUME Basics, TablesOK, ForeignKeysOK, Complete, NEW a \in alters, IsNext(a), IsAddForeign(a), mode = "all"
  PROVE  IsAccepted(a)
  <1> DEFINE u == a.table
             t == db[u]
  <1>0. wanted \in Releases /\ IsValid(wanted) /\ a.kind = "addFK"
    BY DEF Basics, IsAddForeign
  <1>1. \A b \in alters : b.kind = "addFK"
    BY <1>0, RankIs
  <1>2. ASSUME NEW e \in wanted.entities
        PROVE  /\ EntityTable(e) \in DOMAIN db /\ HasColumns(e, db[EntityTable(e)])
               /\ OwnNames(db[EntityTable(e)].columns)
    <2>1. ~IsLeft("create", EntityTable(e)) /\ ~IsLeft("alter", EntityTable(e))
      BY <1>1 DEF IsLeft
    <2>2. WillHold(e, rounds)
      BY DEF Complete, CompleteAt
    <2> QED
      BY <2>1, <2>2 DEF WillHold, TablesOK, IsTable
  <1>3. PICK e \in wanted.entities : u = EntityTable(e) /\ a.fks \subseteq ForeignKeys(e, wanted)
                                     /\ (u \in DOMAIN db => a.fks \cap t.fks = {})
    BY DEF IsAddForeign
  <1>4. u \in DOMAIN db /\ HasColumns(e, t) /\ OwnNames(t.columns)
    BY <1>2, <1>3
  <1>5. ASSUME NEW fk \in a.fks PROVE fk.name \notin {other.name : other \in t.fks}
    <2> SUFFICES ASSUME NEW other \in t.fks, other.name = fk.name PROVE FALSE
      OBVIOUS
    <2>1. PICK o \in wanted.entities : u = EntityTable(o) /\ other \in ForeignKeys(o, wanted)
      BY <1>1, <1>4, ForeignKeysLeft
    <2>2. o = e
      BY <1>0, <1>3, <2>1, TableOfOne
    <2>3. other = fk
      BY <1>0, <1>3, <1>5, <2>1, <2>2, EntityForeignKeys
    <2> QED
      BY <1>3, <1>4, <1>5, <2>3
  <1>6. ASSUME NEW fk \in a.fks
        PROVE  /\ <<fk.table>> \in DOMAIN db /\ fk.column \in NamesIn(t.columns)
               /\ Column(t, fk.column).type = Column(db[<<fk.table>>], "ID").type
    <2>1. fk \in ForeignKeys(e, wanted)
      BY <1>3, <1>6
    <2>2. PICK other \in wanted.entities :
             /\ other.table = fk.table
             /\ \E c \in ToSet(Columns(e, wanted)) : c.name = fk.column /\ c.type = Columns(other, wanted)[1].type
      BY <1>0, <2>1, ForeignKeysAre
    <2>3. PICK c \in ToSet(Columns(e, wanted)) : c.name = fk.column /\ c.type = Columns(other, wanted)[1].type
      BY <2>2
    <2>4. c \in ToSet(t.columns)
      BY <1>4, <2>3 DEF HasColumns
    <2>5. fk.column \in NamesIn(t.columns)
      BY <2>3, <2>4, NamesAre
    <2>6. Column(t, fk.column) = c
      BY <1>4, <2>3, <2>4, ColumnIs
    <2> DEFINE v == EntityTable(other)
               d == Columns(other, wanted)[1]
    <2>7. v = <<fk.table>>
      BY <2>2 DEF EntityTable
    <2>8. v \in DOMAIN db /\ HasColumns(other, db[v]) /\ OwnNames(db[v].columns)
      BY <1>2
    <2>9. d \in ToSet(Columns(other, wanted)) /\ d.name = "ID"
      <3>1. /\ IsSeq(Columns(other, wanted)) /\ Columns(other, wanted) # << >> /\ d.name = "ID"
        BY <1>0, ColumnsAre
      <3>2. 1 \in 1 .. Len(Columns(other, wanted))
        <4>1. Len(Columns(other, wanted)) \in Nat /\ DOMAIN Columns(other, wanted) = 1 .. Len(Columns(other, wanted))
          BY <3>1, SeqIs
        <4>2. Len(Columns(other, wanted)) # 0
          BY <3>1 DEF IsSeq
        <4> QED
          BY <4>1, <4>2
      <3> QED
        BY <3>1, <3>2, SeqIs
    <2>10. d \in ToSet(db[v].columns)
      BY <2>8, <2>9 DEF HasColumns
    <2> HIDE DEF d
    <2>11. Column(db[v], "ID") = d
      BY <2>8, <2>9, <2>10, ColumnIs
    <2>12. c.type = d.type
      BY <2>3 DEF d
    <2> QED
      BY <2>5, <2>6, <2>7, <2>8, <2>11, <2>12
  <1> QED
    BY <1>0, <1>4, <1>5, <1>6 DEF IsAccepted

\* What is not accepted, and why.
Explained(a) ==
  \/ a.kind = "alter" /\ Retyped(a) # {}
  \/ mode = "table" /\ a.kind \in {"alter", "addFK"}
  \/ mode = "safe" /\ a.kind \in {"addFK", "create"}

LEMMA RefusedExplained ==
  ASSUME SchemaInv, NEW a \in alters, IsNext(a), ~IsAccepted(a)
  PROVE  Explained(a)
  <1>0. /\ IsPending(a) /\ Basics /\ TablesOK /\ mode \in {"all", "safe", "table"}
        /\ mode # "table" => ForeignKeysOK
        /\ mode = "all" => Complete
    BY DEF SchemaInv, PendingOK, Basics
  <1>1. CASE IsCreate(a)
    <2>1. a.kind = "create" /\ a.table \notin DOMAIN db
      BY <1>1, CreateIs DEF IsCreate
    <2> QED
      BY <2>1 DEF IsAccepted
  <1>2. CASE IsCreateLog(a)
    <2>1. PICK e \in wanted.entities :
             /\ mode # "table" /\ a = CreateLog(e, wanted)
             /\ LogTable(e) \in DOMAIN db => mode = "safe" \/ \E b \in alters : b.kind = "drop" /\ b.table = LogTable(e)
      BY <1>2 DEF IsCreateLog
    <2>2. a.kind = "create" /\ a.table = LogTable(e)
      BY <2>1, CreateLogIs
    <2>3. ASSUME mode # "safe" PROVE a.table \notin DOMAIN db
      BY <2>1, <2>2, <2>3, RankIs
    <2>4. a.table \notin DOMAIN db => IsAccepted(a)
      BY <2>2 DEF IsAccepted
    <2> QED
      BY <2>2, <2>3, <2>4 DEF Explained
  <1>3. CASE IsDrop(a)
    BY <1>0, <1>3, DropAccepted DEF IsDrop
  <1>4. CASE IsDropForeign(a)
    <2>1. a.kind = "dropFK" /\ a.table \in DOMAIN db /\ a.fks \subseteq db[a.table].fks
      BY <1>4 DEF IsDropForeign
    <2> QED
      BY <2>1 DEF IsAccepted
  <1>5. CASE IsAddForeign(a)
    <2>1. a.kind = "addFK"
      BY <1>5 DEF IsAddForeign
    <2>2. mode # "all"
      BY <1>0, <1>5, AddForeignAccepted
    <2> QED
      BY <1>0, <2>1, <2>2 DEF Explained
  <1>6. CASE IsAlter(a)
    <2>1. a.kind = "alter"
      BY <1>6 DEF IsAlter
    <2>2. mode = "table" \/ Retyped(a) # {}
      BY <1>0, <1>6, AlterAccepted
    <2> QED
      BY <2>1, <2>2 DEF Explained
  <1>7. CASE IsCharset(a)
    <2>1. a.kind = "charset" /\ a.table \in DOMAIN db
      BY <1>7 DEF IsCharset
    <2> QED
      BY <2>1 DEF IsAccepted
  <1> QED
    BY <1>0, <1>1, <1>2, <1>3, <1>4, <1>5, <1>6, <1>7 DEF IsPending

-----------------------------------------------------------------------------
(* Executing an alter.                                                     *)

\* a, which is next, is executed.
Executes(a) ==
  /\ a \in alters /\ IsNext(a) /\ IsAccepted(a)
  /\ db' = Altered(a) /\ alters' = alters \ {a} /\ UNCHANGED <<wanted, mode>>

LEMMA LeftStays ==
  ASSUME NEW a, Executes(a), NEW kind, NEW u, ~(a.kind = kind /\ a.table = u)
  PROVE  /\ IsLeft(kind, u) => IsLeft(kind, u)'
         /\ \A fk : IsLeftFor(kind, u, fk) => IsLeftFor(kind, u, fk)'
  BY DEF IsLeft, IsLeftFor, Executes

LEMMA ExecForeignKeys ==
  ASSUME Basics, TablesOK, PendingOK, ForeignKeysOK, NEW a, Executes(a)
  PROVE  ForeignKeysOK'
  <1>0. IsPending(a) /\ Effect(a, db') /\ a.kind \in Kinds
    BY EffectIs, PendingKinds DEF PendingOK, Executes
  <1>1. SUFFICES ASSUME NEW u \in DOMAIN db', NEW fk \in db'[u].fks
                 PROVE  \/ \E e \in wanted.entities : u = EntityTable(e) /\ fk \in ForeignKeys(e, wanted)
                        \/ IsLeftFor("dropFK", u, fk)'
    BY DEF ForeignKeysOK, Executes, EntityTable, ForeignKeys, Refs, Named
  <1>2. ASSUME u \in DOMAIN db, fk \in db[u].fks, ~(a.kind = "dropFK" /\ a.table = u)
        PROVE  \/ \E e \in wanted.entities : u = EntityTable(e) /\ fk \in ForeignKeys(e, wanted)
               \/ IsLeftFor("dropFK", u, fk)'
    BY <1>2, LeftStays DEF ForeignKeysOK
  <1>3. CASE u # a.table
    BY <1>0, <1>1, <1>2, <1>3 DEF Effect
  <1>4. CASE u = a.table /\ a.kind = "create"
    BY <1>0, <1>1, <1>4 DEF Effect, Made
  <1>5. CASE u = a.table /\ a.kind = "drop"
    BY <1>0, <1>1, <1>5 DEF Effect
  <1>6. CASE u = a.table /\ a.kind \in {"charset", "alter"}
    BY <1>0, <1>1, <1>2, <1>6 DEF Effect
  <1>7. CASE u = a.table /\ a.kind = "dropFK"
    <2>1. u \in DOMAIN db /\ fk \in db[u].fks /\ fk \notin a.fks
      BY <1>0, <1>1, <1>7 DEF Effect
    <2>2. CASE IsLeftFor("dropFK", u, fk)
      <3>1. PICK b \in alters : b.kind = "dropFK" /\ b.table = u /\ fk \in b.fks
        BY <2>2 DEF IsLeftFor
      <3>2. b \in alters'
        BY <2>1, <3>1 DEF Executes
      <3> QED
        BY <3>1, <3>2 DEF IsLeftFor
    <2> QED
      BY <2>1, <2>2 DEF ForeignKeysOK
  <1>8. CASE u = a.table /\ a.kind = "addFK"
    <2>1. u \in DOMAIN db /\ (fk \in db[u].fks \/ fk \in a.fks)
      BY <1>0, <1>1, <1>8 DEF Effect
    <2>2. PICK e \in wanted.entities : u = EntityTable(e) /\ a.fks \subseteq ForeignKeys(e, wanted)
      BY <1>0, <1>8, PendingKinds DEF IsAddForeign
    <2> QED
      BY <1>2, <1>8, <2>1, <2>2
  <1> QED
    BY <1>0, <1>3, <1>4, <1>5, <1>6, <1>7, <1>8 DEF Kinds

\* What is made of the table of an entity that a concerns.
LEMMA CreateIsEntity ==
  ASSUME Basics, NEW a, IsPending(a), a.kind = "create", NEW e \in wanted.entities
  PROVE  /\ a.table = EntityTable(e) =>
              /\ Made(a).columns = Columns(e, wanted) /\ Made(a).encoding = wanted.encoding
              /\ HasColumns(e, Made(a))
         /\ a.table = LogTable(e) => Made(a).columns = LogColumns(wanted)
         /\ a.table \in TablesInEntities(wanted)
  <1>0. wanted \in Releases /\ IsValid(wanted)
    BY DEF Basics
  <1>1. CASE IsCreate(a)
    <2>1. PICK o \in wanted.entities : a = Create(o, wanted)
      BY <1>1 DEF IsCreate
    <2>2. a.table = EntityTable(o) /\ a.table # LogTable(e)
      BY <2>1, CreateIs, TableNames
    <2>3. a.table = EntityTable(e) => e = o
      BY <1>0, <2>2, TableOfOne
    <2>4. Made(a).columns = Columns(o, wanted) /\ Made(a).keys = Keys(o, wanted) /\ Made(a).encoding = wanted.encoding
      BY <2>1, CreateIs DEF Made
    <2>5. HasColumns(o, Made(a))
      BY <2>4 DEF HasColumns
    <2> QED
      BY <2>2, <2>3, <2>4, <2>5 DEF TablesInEntities
  <1>2. CASE IsCreateLog(a)
    <2>1. PICK o \in wanted.entities : o.log /\ a = CreateLog(o, wanted)
      BY <1>2 DEF IsCreateLog
    <2>2. a.table = LogTable(o) /\ a.table # EntityTable(e)
      BY <2>1, CreateLogIs, TableNames
    <2>3. Made(a).columns = LogColumns(wanted)
      BY <2>1, MadeIsLogTable
    <2> QED
      BY <2>1, <2>2, <2>3 DEF TablesInEntities
  <1> QED
    BY <1>1, <1>2, PendingKinds

LEMMA AlterIsEntity ==
  ASSUME Basics, TablesOK, mode # "table", NEW a, IsPending(a), a.kind = "alter",
         NEW e \in wanted.entities, a.table = EntityTable(e)
  PROVE  LET t == db[a.table] IN
         /\ HasColumns(e, [columns |-> AlteredColumns(t, a), keys |-> AlteredKeys(t, a)])
         /\ ToSet(t.columns) = ToSet(Columns(e, wanted)) => AlteredColumns(t, a) = Columns(e, wanted)
  <1> DEFINE t == db[a.table]
             C == Columns(e, wanted)
             q == [columns |-> AlteredColumns(t, a), keys |-> AlteredKeys(t, a)]
  <1>0. wanted \in Releases /\ IsValid(wanted)
    BY DEF Basics
  <1>1. PICK o \in wanted.entities : a.table = EntityTable(o) /\ Alter(a, o, t) /\ a.table \in DOMAIN db
    BY PendingKinds DEF IsAlter
  <1>2. o = e
    BY <1>0, <1>1, TableOfOne
  <1>3. Makes(C, t, a) /\ a.dropKeys = Unwanted(e, wanted, t) /\ a.addKeys = Keys(e, wanted) \ t.keys
    BY <1>1, <1>2 DEF Alter
  <1>4. IsTable(t, a.table) /\ IsColumns(t.columns)
    BY <1>1, TableNames DEF TablesOK, IsTable
  <1>5. IsColumns(C) /\ None \notin NamesIn(C)
    BY <1>0, EntityColumns
  <1>6. /\ Keys(e, wanted) \subseteq AlteredKeys(t, a)
        /\ \A k \in AlteredKeys(t, a) : k \in Keys(e, wanted) \/ k.name \in OwnKeys(e, wanted)
    BY <1>0, <1>3, <1>4, AlteredKeysAre
  <1>7. /\ ToSet(AlteredColumns(t, a)) = ToSet(C)
        /\ ToSet(t.columns) = ToSet(C) => AlteredColumns(t, a) = C
    BY <1>3, <1>4, <1>5, AlteredColumnsAre
  <1>8. q.columns = AlteredColumns(t, a) /\ q.keys = AlteredKeys(t, a)
    OBVIOUS
  <1> HIDE DEF q
  <1>9. HasColumns(e, q)
    BY <1>6, <1>7, <1>8 DEF HasColumns
  <1> QED
    BY <1>7, <1>9 DEF q

\* A table that a leaves to its entity has what it had.
LEMMA SameColumns ==
  ASSUME NEW e, NEW t, NEW q, q.columns = t.columns, q.keys = t.keys, HasColumns(e, t)
  PROVE  HasColumns(e, q)
  BY DEF HasColumns

LEMMA AddedColumns ==
  ASSUME Basics, NEW a, IsPending(a), a.kind = "addFK", NEW e \in wanted.entities, a.table = EntityTable(e),
         NEW t, HasColumns(e, t), NEW q, q.columns = t.columns,
         q.keys = t.keys \cup {OwnKey(fk) : fk \in Unserved(t, a)}
  PROVE  HasColumns(e, q)
  <1>0. wanted \in Releases /\ IsValid(wanted)
    BY DEF Basics
  <1>1. PICK o \in wanted.entities : a.table = EntityTable(o) /\ a.fks \subseteq ForeignKeys(o, wanted)
    BY PendingKinds DEF IsAddForeign
  <1>2. o = e
    BY <1>0, <1>1, TableOfOne
  <1>3. ASSUME NEW k \in q.keys, k \notin t.keys PROVE k.name \in OwnKeys(e, wanted)
    <2>1. PICK fk \in Unserved(t, a) : k = OwnKey(fk)
      BY <1>3
    <2>2. fk \in ForeignKeys(e, wanted)
      BY <1>1, <1>2 DEF Unserved
    <2>3. k.name = fk.name
      BY <2>1 DEF OwnKey
    <2> QED
      BY <2>2, <2>3 DEF OwnKeys
  <1> QED
    BY <1>3 DEF HasColumns

\* An entity has what it asks for after a was executed, or an alter is left that makes it.
LEMMA ExecWillHold ==
  ASSUME Basics, TablesOK, PendingOK, mode = "all", NEW n \in Nat,
         n >= 1 => \A e \in wanted.entities : HasColumns(e, db[EntityTable(e)]),
         NEW a, Executes(a), NEW e \in wanted.entities, WillHold(e, n)
  PROVE  WillHold(e, n)'
  <1> DEFINE u == EntityTable(e)
             w == LogTable(e)
  <1>0. /\ wanted \in Releases /\ IsValid(wanted) /\ mode # "table"
        /\ IsPending(a) /\ Effect(a, db') /\ a.kind \in Kinds
    BY EffectIs, PendingKinds DEF PendingOK, Executes, Basics
  <1>1. /\ u \in DOMAIN db \/ IsLeft("create", u)
        /\ u \in DOMAIN db => HasColumns(e, db[u]) \/ IsLeft("alter", u)
        /\ u \in DOMAIN db /\ n >= 1 => db[u].columns = Columns(e, wanted) \/ IsLeft("alter", u)
        /\ u \in DOMAIN db /\ n >= 2 => db[u].encoding = wanted.encoding \/ IsLeft("charset", u)
        /\ \A fk \in ForeignKeys(e, wanted) : (u \in DOMAIN db /\ fk \in db[u].fks) \/ IsLeftFor("addFK", u, fk)
        /\ e.log => (w \in DOMAIN db /\ db[w].columns = LogColumns(wanted)) \/ IsLeft("create", w)
    BY DEF WillHold
  <1>2. ~(a.kind = "drop" /\ a.table = u)
    BY <1>0, PendingKinds, TableNames DEF IsDrop, IsWrongLog, TablesInEntities
  <1>3. u \in DOMAIN db => u \in DOMAIN db'
    BY <1>0, <1>2 DEF Effect, Kinds
  <1>4. u \in DOMAIN db' /\ ~(a.kind = "create" /\ a.table = u) => u \in DOMAIN db
    BY <1>0 DEF Effect
  <1>5. a.kind = "create" /\ a.table = u =>
          /\ db'[u].columns = Columns(e, wanted) /\ db'[u].encoding = wanted.encoding
          /\ HasColumns(e, db'[u])
    BY <1>0, CreateIsEntity DEF Effect
  <1>6. u \in DOMAIN db' \/ IsLeft("create", u)'
    <2>1. CASE a.kind = "create" /\ a.table = u
      BY <1>0, <2>1 DEF Effect
    <2>2. CASE ~(a.kind = "create" /\ a.table = u)
      BY <1>1, <1>3, <2>2, LeftStays
    <2> QED
      BY <2>1, <2>2
  <1>7. ASSUME u \in DOMAIN db', ~(a.kind = "create" /\ a.table = u)
        PROVE  HasColumns(e, db'[u]) \/ IsLeft("alter", u)'
    <2>1. u \in DOMAIN db
      BY <1>4, <1>7
    <2>2. CASE a.table # u
      BY <1>0, <1>1, <2>1, <2>2, LeftStays DEF Effect
    <2>3. CASE a.table = u /\ a.kind = "alter"
      <3>1. db'[u].columns = AlteredColumns(db[u], a) /\ db'[u].keys = AlteredKeys(db[u], a)
        BY <1>0, <2>3 DEF Effect
      <3>2. HasColumns(e, [columns |-> AlteredColumns(db[u], a), keys |-> AlteredKeys(db[u], a)])
        BY <1>0, <2>3, AlterIsEntity
      <3> QED
        BY <3>1, <3>2 DEF HasColumns
    <2>4. CASE a.table = u /\ a.kind \in {"charset", "dropFK"}
      <3>1. db'[u].columns = db[u].columns /\ db'[u].keys = db[u].keys
        BY <1>0, <2>4 DEF Effect
      <3> QED
        BY <1>1, <2>1, <2>4, <3>1, LeftStays, SameColumns
    <2>5. CASE a.table = u /\ a.kind = "addFK"
      <3>1. /\ db'[u].columns = db[u].columns
            /\ db'[u].keys = db[u].keys \cup {OwnKey(fk) : fk \in Unserved(db[u], a)}
        BY <1>0, <2>5 DEF Effect
      <3>2. HasColumns(e, db[u]) => HasColumns(e, db'[u])
        BY <1>0, <2>5, <3>1, AddedColumns
      <3> QED
        BY <1>1, <2>1, <2>5, <3>2, LeftStays
    <2> QED
      BY <1>0, <1>2, <1>7, <2>2, <2>3, <2>4, <2>5 DEF Kinds
  <1>8. ASSUME u \in DOMAIN db', n >= 1, ~(a.kind = "create" /\ a.table = u)
        PROVE  db'[u].columns = Columns(e, wanted) \/ IsLeft("alter", u)'
    <2>1. u \in DOMAIN db
      BY <1>4, <1>8
    <2>2. CASE a.table # u
      BY <1>0, <1>1, <1>8, <2>1, <2>2, LeftStays DEF Effect
    <2>3. CASE a.table = u /\ a.kind = "alter"
      <3>1. db'[u].columns = AlteredColumns(db[u], a)
        BY <1>0, <2>3 DEF Effect
      <3>2. ToSet(db[u].columns) = ToSet(Columns(e, wanted))
        BY <1>8 DEF HasColumns
      <3> QED
        BY <1>0, <2>3, <3>1, <3>2, AlterIsEntity
    <2>4. CASE a.table = u /\ a.kind \in {"charset", "dropFK", "addFK"}
      <3>1. db'[u].columns = db[u].columns
        BY <1>0, <2>4 DEF Effect
      <3> QED
        BY <1>1, <1>8, <2>1, <2>4, <3>1, LeftStays
    <2> QED
      BY <1>0, <1>2, <1>8, <2>2, <2>3, <2>4 DEF Kinds
  <1>9. ASSUME u \in DOMAIN db', n >= 2, ~(a.kind = "create" /\ a.table = u)
        PROVE  db'[u].encoding = wanted.encoding \/ IsLeft("charset", u)'
    <2>1. u \in DOMAIN db
      BY <1>4, <1>9
    <2>2. CASE a.table # u
      BY <1>0, <1>1, <1>9, <2>1, <2>2, LeftStays DEF Effect
    <2>3. CASE a.table = u /\ a.kind = "charset"
      <3>1. db'[u].encoding = a.encoding
        BY <1>0, <2>3 DEF Effect
      <3>2. a.encoding = wanted.encoding
        BY <1>0, <2>3, PendingKinds DEF IsCharset
      <3> QED
        BY <3>1, <3>2
    <2>4. CASE a.table = u /\ a.kind \in {"alter", "dropFK", "addFK"}
      <3>1. db'[u].encoding = db[u].encoding
        BY <1>0, <2>4 DEF Effect
      <3> QED
        BY <1>1, <1>9, <2>1, <2>4, <3>1, LeftStays
    <2> QED
      BY <1>0, <1>2, <1>9, <2>2, <2>3, <2>4 DEF Kinds
  <1>10. ASSUME NEW fk \in ForeignKeys(e, wanted)
         PROVE  (u \in DOMAIN db' /\ fk \in db'[u].fks) \/ IsLeftFor("addFK", u, fk)'
    <2>1. ASSUME IsLeftFor("addFK", u, fk), ~(a.kind = "addFK" /\ a.table = u)
          PROVE  IsLeftFor("addFK", u, fk)'
      BY <2>1, LeftStays
    <2>2. CASE a.table # u
      BY <1>0, <1>1, <1>3, <2>1, <2>2 DEF Effect
    <2>3. CASE a.table = u /\ a.kind = "create"
      BY <1>0, <1>1, <2>1, <2>3 DEF Effect
    <2>4. CASE a.table = u /\ a.kind \in {"charset", "alter"}
      BY <1>0, <1>1, <1>3, <2>1, <2>4 DEF Effect
    <2>5. CASE a.table = u /\ a.kind = "dropFK"
      <3>1. fk \notin a.fks
        BY <1>0, <2>5, PendingKinds DEF IsDropForeign
      <3>2. db'[u].fks = db[u].fks \ a.fks
        BY <1>0, <2>5 DEF Effect
      <3> QED
        BY <1>1, <1>3, <2>1, <2>5, <3>1, <3>2
    <2>6. CASE a.table = u /\ a.kind = "addFK"
      <3>1. u \in DOMAIN db' /\ db'[u].fks = db[u].fks \cup a.fks
        BY <1>0, <2>6 DEF Effect
      <3>2. CASE IsLeftFor("addFK", u, fk)
        <4>1. PICK b \in alters : b.kind = "addFK" /\ b.table = u /\ fk \in b.fks
          BY <3>2 DEF IsLeftFor
        <4>2. CASE b = a
          BY <3>1, <4>1, <4>2
        <4>3. CASE b # a
          <5>1. b \in alters'
            BY <4>1, <4>3 DEF Executes
          <5> QED
            BY <4>1, <5>1 DEF IsLeftFor
        <4> QED
          BY <4>2, <4>3
      <3> QED
        BY <1>1, <3>1, <3>2
    <2> QED
      BY <1>0, <1>2, <2>2, <2>3, <2>4, <2>5, <2>6 DEF Kinds
  <1>11. ASSUME e.log PROVE (w \in DOMAIN db' /\ db'[w].columns = LogColumns(wanted)) \/ IsLeft("create", w)'
    <2>1. CASE w \in DOMAIN db /\ db[w].columns = LogColumns(wanted)
      <3>1. ~(a.kind = "drop" /\ a.table = w)
        <4> SUFFICES ASSUME a.kind = "drop", a.table = w PROVE FALSE
          OBVIOUS
        <4>1. w \in TablesInEntities(wanted)
          BY <1>11 DEF TablesInEntities
        <4>2. IsWrongLog(w)
          BY <1>0, <4>1, PendingKinds DEF IsDrop
        <4> QED
          BY <2>1, <4>2 DEF IsWrongLog
      <3>2. ~(a.kind = "alter" /\ a.table = w)
        BY <1>0, PendingKinds, TableNames DEF IsAlter
      <3> QED
        BY <1>0, <2>1, <3>1, <3>2 DEF Effect, Kinds
    <2>2. CASE IsLeft("create", w)
      <3>1. CASE a.kind = "create" /\ a.table = w
        <4>1. Made(a).columns = LogColumns(wanted)
          BY <1>0, <3>1, CreateIsEntity
        <4> QED
          BY <1>0, <3>1, <4>1 DEF Effect
      <3>2. CASE ~(a.kind = "create" /\ a.table = w)
        BY <2>2, <3>2, LeftStays
      <3> QED
        BY <3>1, <3>2
    <2> QED
      BY <1>1, <1>11, <2>1, <2>2
  <1>12. wanted' = wanted
    BY DEF Executes
  <1>13. HasColumns(e, db[u])' <=> HasColumns(e, db'[u])
    BY <1>12 DEF HasColumns, EntityTable
  <1>14. /\ u' = u /\ w' = w /\ Columns(e, wanted)' = Columns(e, wanted)
         /\ ForeignKeys(e, wanted)' = ForeignKeys(e, wanted) /\ LogColumns(wanted)' = LogColumns(wanted)
    BY <1>12
  <1> QED
    BY <1>5, <1>6, <1>7, <1>8, <1>9, <1>10, <1>11, <1>12, <1>13, <1>14 DEF WillHold

LEMMA ExecComplete ==
  ASSUME Basics, TablesOK, PendingOK, mode = "all", NEW n \in Nat,
         n >= 1 => \A e \in wanted.entities : HasColumns(e, db[EntityTable(e)]),
         NEW a, Executes(a), CompleteAt(n)
  PROVE  CompleteAt(n)'
  <1>0. IsPending(a) /\ Effect(a, db') /\ a.kind \in Kinds /\ wanted' = wanted
    BY EffectIs, PendingKinds DEF PendingOK, Executes
  <1>1. \A e \in wanted.entities : WillHold(e, n)'
    BY ExecWillHold DEF CompleteAt
  <1>2. ASSUME NEW u \in DOMAIN db', u \notin TablesInEntities(wanted) PROVE IsLeft("drop", u)'
    <2>1. ~(a.kind = "create" /\ a.table = u)
      <3>1. CASE IsCreate(a)
        BY <1>2, <3>1, CreateIs DEF IsCreate, TablesInEntities
      <3>2. CASE IsCreateLog(a)
        BY <1>2, <3>2, CreateLogIs DEF IsCreateLog, TablesInEntities
      <3> QED
        BY <1>0, <3>1, <3>2, PendingKinds
    <2>2. ~(a.kind = "drop" /\ a.table = u)
      BY <1>0, <1>2 DEF Effect
    <2>3. u \in DOMAIN db
      BY <1>0, <1>2, <2>1 DEF Effect
    <2> QED
      BY <1>2, <2>2, <2>3, LeftStays DEF CompleteAt
  <1>3. TablesInEntities(wanted)' = TablesInEntities(wanted)
    BY <1>0
  <1> QED
    BY <1>0, <1>1, <1>2, <1>3 DEF CompleteAt

-----------------------------------------------------------------------------
(* Rounds.                                                                 *)

\* All alters were executed.
Ends == alters = {} /\ rounds \in 1 .. 3 /\ Basics /\ ForeignKeysOK /\ CompleteAt(rounds - 1)

LEMMA EndsHolds == Ends => RoundsHold
  <1> SUFFICES ASSUME Ends PROVE RoundsHold
    OBVIOUS
  <1>0. /\ wanted \in Releases /\ IsValid(wanted) /\ rounds \in 1 .. 3
        /\ \A e \in wanted.entities : WillHold(e, rounds - 1)
        /\ \A u \in DOMAIN db : u \in TablesInEntities(wanted) \/ IsLeft("drop", u)
    BY DEF Ends, Basics, CompleteAt
  <1>1. \A kind, u : ~IsLeft(kind, u) /\ \A fk : ~IsLeftFor(kind, u, fk)
    BY DEF Ends, IsLeft, IsLeftFor
  <1>2. ASSUME NEW e \in wanted.entities
        PROVE  HoldsAll(e) /\ EntityTable(e) \in DOMAIN db /\ (e.log => LogTable(e) \in DOMAIN db)
    <2> DEFINE u == EntityTable(e)
    <2>1. /\ u \in DOMAIN db /\ HasColumns(e, db[u])
          /\ rounds >= 2 => db[u].columns = Columns(e, wanted)
          /\ rounds = 3 => db[u].encoding = wanted.encoding
          /\ \A fk \in ForeignKeys(e, wanted) : fk \in db[u].fks
          /\ e.log => LogTable(e) \in DOMAIN db /\ db[LogTable(e)].columns = LogColumns(wanted)
      BY <1>0, <1>1 DEF WillHold
    <2>2. ASSUME NEW fk \in db[u].fks PROVE fk \in ForeignKeys(e, wanted)
      <3>1. PICK o \in wanted.entities : u = EntityTable(o) /\ fk \in ForeignKeys(o, wanted)
        BY <1>1, <2>1, <2>2 DEF Ends, ForeignKeysOK
      <3>2. o = e
        BY <1>0, <3>1, TableOfOne
      <3> QED
        BY <3>1, <3>2
    <2>3. db[u].fks = ForeignKeys(e, wanted)
      BY <2>1, <2>2
    <2>4. Holds(e)
      BY <2>1, <2>3 DEF Holds, HasColumns
    <2> QED
      BY <2>1, <2>4 DEF HoldsAll
  <1>3. DOMAIN db = TablesInEntities(wanted)
    <2>1. DOMAIN db \subseteq TablesInEntities(wanted)
      BY <1>0, <1>1
    <2>2. TablesInEntities(wanted) \subseteq DOMAIN db
      BY <1>2 DEF TablesInEntities
    <2> QED
      BY <2>1, <2>2
  <1> QED
    BY <1>2, <1>3 DEF RoundsHold

\* After a round, what is left to execute leaves what it made.
LEMMA RoundKinds ==
  ASSUME Basics, TablesOK, RoundsHold, rounds >= 1, mode = "all", NEW a \in alters, IsPending(a), IsAccepted(a)
  PROVE  a.kind \in {"alter", "charset"} /\ \E e \in wanted.entities : a.table = EntityTable(e)
  <1>0. /\ wanted \in Releases /\ IsValid(wanted)
        /\ DOMAIN db = TablesInEntities(wanted)
        /\ \A e \in wanted.entities : Holds(e)
    BY DEF Basics, RoundsHold, HoldsAll
  <1>1. a.kind # "create"
    <2> SUFFICES ASSUME a.kind = "create" PROVE FALSE
      OBVIOUS
    <2>1. PICK e \in wanted.entities : TRUE
      BY PendingKinds DEF IsCreate, IsCreateLog
    <2>2. a.table \in TablesInEntities(wanted)
      BY <2>1, CreateIsEntity
    <2> QED
      BY <1>0, <2>2, AcceptedIs
  <1>2. a.kind # "drop"
    <2> SUFFICES ASSUME a.kind = "drop" PROVE FALSE
      OBVIOUS
    <2>1. IsWrongLog(a.table)
      BY <1>0, PendingKinds DEF IsDrop
    <2> QED
      BY <1>0, <2>1 DEF IsWrongLog, Holds
  <1>3. a.kind # "dropFK"
    <2> SUFFICES ASSUME a.kind = "dropFK" PROVE FALSE
      OBVIOUS
    <2>1. /\ a.table \in DOMAIN db /\ a.fks # {} /\ a.fks \subseteq db[a.table].fks
          /\ \A e \in wanted.entities : EntityTable(e) = a.table => a.fks \cap ForeignKeys(e, wanted) = {}
      BY PendingKinds DEF IsDropForeign
    <2>2. CASE \E e \in wanted.entities : a.table = EntityTable(e)
      BY <1>0, <2>1, <2>2 DEF Holds
    <2>3. CASE \E e \in wanted.entities : a.table = LogTable(e)
      <3>1. a.table # <<a.table[1]>>
        BY <2>3, TableNames
      <3> QED
        BY <2>1, <3>1 DEF TablesOK, IsTable
    <2> QED
      BY <1>0, <2>1, <2>2, <2>3 DEF TablesInEntities
  <1>4. a.kind # "addFK"
    <2> SUFFICES ASSUME a.kind = "addFK" PROVE FALSE
      OBVIOUS
    <2>1. a.fks # {} /\ a.table \in DOMAIN db => a.fks \cap db[a.table].fks = {}
      BY PendingKinds DEF IsAddForeign
    <2>2. PICK e \in wanted.entities : a.table = EntityTable(e) /\ a.fks \subseteq ForeignKeys(e, wanted)
      BY PendingKinds DEF IsAddForeign
    <2>3. db[a.table].fks = ForeignKeys(e, wanted) /\ a.table \in DOMAIN db
      BY <1>0, <2>2 DEF Holds
    <2>4. a.fks # {}
      BY PendingKinds DEF IsAddForeign
    <2> QED
      BY <2>1, <2>2, <2>3, <2>4
  <1> QED
    BY <1>1, <1>2, <1>3, <1>4, PendingKinds DEF Kinds, IsAlter, IsCharset

LEMMA ExecHolds ==
  ASSUME Basics, TablesOK, PendingOK, RoundsHold, rounds >= 1, mode = "all",
         NEW a, Executes(a), rounds' = rounds, rounds # 3
  PROVE  RoundsHold'
  <1>0. /\ wanted \in Releases /\ IsValid(wanted) /\ rounds \in 1 .. 2 /\ wanted' = wanted /\ mode # "table"
        /\ DOMAIN db = TablesInEntities(wanted)
        /\ \A e \in wanted.entities : HoldsAll(e)
        /\ a \in alters /\ IsPending(a) /\ IsAccepted(a) /\ Effect(a, db')
    BY EffectIs DEF Basics, RoundsHold, PendingOK, Executes
  <1>1. a.kind \in {"alter", "charset"} /\ \E e \in wanted.entities : a.table = EntityTable(e)
    BY <1>0, RoundKinds
  <1>2. DOMAIN db' = DOMAIN db
    <2>1. a.table \in DOMAIN db /\ a.table \in DOMAIN db'
      BY <1>0, <1>1 DEF Effect
    <2> QED
      BY <1>0, <2>1 DEF Effect
  <1>3. ASSUME NEW e \in wanted.entities PROVE HoldsAll(e)'
    <2> DEFINE u == EntityTable(e)
               w == LogTable(e)
    <2>1. /\ u \in DOMAIN db /\ HasColumns(e, db[u]) /\ db[u].fks = ForeignKeys(e, wanted)
          /\ e.log => w \in DOMAIN db /\ db[w].columns = LogColumns(wanted)
          /\ rounds >= 2 => db[u].columns = Columns(e, wanted)
      BY <1>0 DEF HoldsAll, Holds
    <2>2. a.table # w
      BY <1>1, TableNames
    <2>3. e.log => w \in DOMAIN db' /\ db'[w].columns = LogColumns(wanted)
      BY <1>0, <2>1, <2>2 DEF Effect
    <2>4. /\ u \in DOMAIN db' /\ HasColumns(e, db'[u]) /\ db'[u].fks = ForeignKeys(e, wanted)
          /\ rounds >= 2 => db'[u].columns = Columns(e, wanted)
      <3>1. CASE a.table # u
        BY <1>0, <2>1, <3>1 DEF Effect
      <3>2. CASE a.table = u /\ a.kind = "charset"
        <4>1. /\ u \in DOMAIN db' /\ db'[u].columns = db[u].columns /\ db'[u].keys = db[u].keys
              /\ db'[u].fks = db[u].fks
          BY <1>0, <3>2 DEF Effect
        <4> QED
          BY <2>1, <4>1, SameColumns
      <3>3. CASE a.table = u /\ a.kind = "alter"
        <4>1. /\ u \in DOMAIN db' /\ db'[u].columns = AlteredColumns(db[u], a)
              /\ db'[u].keys = AlteredKeys(db[u], a) /\ db'[u].fks = db[u].fks
          BY <1>0, <3>3 DEF Effect
        <4>2. /\ HasColumns(e, [columns |-> AlteredColumns(db[u], a), keys |-> AlteredKeys(db[u], a)])
              /\ ToSet(db[u].columns) = ToSet(Columns(e, wanted)) => AlteredColumns(db[u], a) = Columns(e, wanted)
          BY <1>0, <3>3, AlterIsEntity
        <4>3. HasColumns(e, db'[u])
          BY <4>1, <4>2 DEF HasColumns
        <4>4. AlteredColumns(db[u], a) = Columns(e, wanted)
          BY <2>1, <4>2 DEF HasColumns
        <4> QED
          BY <2>1, <4>1, <4>3, <4>4
      <3> QED
        BY <1>1, <3>1, <3>2, <3>3
    <2>5. /\ u' = u /\ w' = w /\ Columns(e, wanted)' = Columns(e, wanted) /\ Keys(e, wanted)' = Keys(e, wanted)
          /\ ForeignKeys(e, wanted)' = ForeignKeys(e, wanted) /\ LogColumns(wanted)' = LogColumns(wanted)
      BY <1>0
    <2>6. HasColumns(e, db[u])' <=> HasColumns(e, db'[u])
      BY <1>0 DEF HasColumns, EntityTable
    <2>7. Holds(e)'
      BY <2>3, <2>4, <2>5 DEF Holds, HasColumns
    <2> QED
      BY <1>0, <2>4, <2>5, <2>6, <2>7 DEF HoldsAll
  <1>4. TablesInEntities(wanted)' = TablesInEntities(wanted)
    BY <1>0
  <1> QED
    BY <1>0, <1>2, <1>3, <1>4 DEF RoundsHold

-----------------------------------------------------------------------------
(* Every step.                                                             *)

\* What an alter of the program leaves of the invariant while it is computed, and after.
FreshOK == ForeignKeysOK /\ PendingOK /\ (mode = "all" => Complete) /\ mode # "table"

LEMMA FreshIs == Basics /\ TablesOK /\ RoundsHold /\ IsFresh => FreshOK
  <1> SUFFICES ASSUME Basics, TablesOK, RoundsHold, IsFresh PROVE FreshOK
    OBVIOUS
  <1>1. wanted \in Releases /\ IsValid(wanted) /\ mode # "table"
    BY DEF Basics, IsFresh
  <1>2. mode = "all" => alters = Alters(wanted)
    BY DEF IsFresh
  <1>3. mode = "all" => Complete
    BY <1>2, FreshIsComplete
  <1> QED
    BY <1>1, <1>3, FreshForeignKeys, FreshPending DEF FreshOK

IsTableFresh == mode = "table" /\ \E e \in wanted.entities : alters = SchemaChanges(e, wanted)

LEMMA TableFreshIs == Basics /\ IsTableFresh => PendingOK
  <1> SUFFICES ASSUME Basics, IsTableFresh PROVE PendingOK
    OBVIOUS
  <1>1. PICK e \in wanted.entities : alters = SchemaChanges(e, wanted)
    BY DEF IsTableFresh
  <1>2. \A a \in alters : IsChange(a, e)
    BY <1>1, ChangeIs
  <1>3. \A a \in alters : IsPending(a)
    BY <1>2, ChangeIsPending DEF Basics
  <1> QED
    BY <1>2, <1>3, ChangeIsOne DEF PendingOK

\* Nothing but db and wanted says what an entity has, and nothing but rows what is safe.
LEMMA SameTables ==
  ASSUME UNCHANGED <<wanted, db>>
  PROVE  /\ TablesOK' = TablesOK
         /\ UNCHANGED rounds => RoundsHold' = RoundsHold
  <1>1. TablesOK' = TablesOK
    BY DEF TablesOK
  <1>2. \A e : Holds(e)' = Holds(e)
    BY DEF Holds, Columns, Keys, ForeignKeys, LogColumns, EntityTable, LogTable
  <1>3. \A e : HasColumns(e, db[EntityTable(e)])' = HasColumns(e, db[EntityTable(e)])
    BY DEF HasColumns, EntityTable
  <1>4. TablesInEntities(wanted)' = TablesInEntities(wanted)
    OBVIOUS
  <1>5. ASSUME UNCHANGED rounds PROVE RoundsHold' = RoundsHold
    BY <1>2, <1>3, <1>4, <1>5 DEF RoundsHold, HoldsAll
  <1> QED
    BY <1>1, <1>5

LEMMA SamePending ==
  ASSUME UNCHANGED <<wanted, db, alters, mode>>
  PROVE  /\ PendingOK' = PendingOK /\ ForeignKeysOK' = ForeignKeysOK
         /\ UNCHANGED rounds => Complete' = Complete
  <1>1. \A a : IsPending(a)' = IsPending(a)
    BY DEF IsPending, IsCreate, IsCreateLog, IsDrop, IsDropForeign, IsAddForeign, IsAlter, IsCharset, Alter, IsWrongLog
  <1>2. \A kind, u : IsLeft(kind, u)' = IsLeft(kind, u) /\ \A fk : IsLeftFor(kind, u, fk)' = IsLeftFor(kind, u, fk)
    BY DEF IsLeft, IsLeftFor
  <1>3. PendingOK' = PendingOK
    BY <1>1 DEF PendingOK
  <1>4. ForeignKeysOK' = ForeignKeysOK
    BY <1>2 DEF ForeignKeysOK
  <1>5. \A e, n : WillHold(e, n)' = WillHold(e, n)
    BY <1>2 DEF WillHold, HasColumns
  <1>6. ASSUME UNCHANGED rounds PROVE Complete' = Complete
    BY <1>2, <1>5, <1>6 DEF Complete, CompleteAt
  <1> QED
    BY <1>3, <1>4, <1>6

LEMMA SameAlters ==
  ASSUME UNCHANGED <<wanted, db, rows>>
  PROVE  /\ \A e : SchemaChanges(e, wanted)' = SchemaChanges(e, wanted)
         /\ Alters(wanted)' = Alters(wanted)
  <1>1. \A table : DropTable(table)' = DropTable(table)
    BY DEF DropTable
  <1>2. \A a : IsSafe(a)' = IsSafe(a)
    BY DEF IsSafe
  <1>3. \A e : SchemaChanges(e, wanted)' = SchemaChanges(e, wanted)
    BY <1>2 DEF SchemaChanges
  <1>4. \A e : LogChanges(e, wanted)' = LogChanges(e, wanted)
    BY <1>1 DEF LogChanges
  <1>5. Alters(wanted)' = Alters(wanted)
    BY <1>1, <1>3, <1>4 DEF Alters
  <1> QED
    BY <1>3, <1>5

\* What a step that leaves the tables and ends what was to execute needs to keep.
LEMMA NothingLeft ==
  ASSUME alters' = {}, Basics', TablesOK', RoundsHold'
  PROVE  SchemaInv'
  BY DEF SchemaInv, PendingOK

LEMMA ExecInv ==
  ASSUME SchemaInv, Exec
  PROVE  SchemaInv'
  <1>0. /\ Basics /\ TablesOK /\ PendingOK /\ RoundsHold /\ (rounds = 3 => alters = {})
        /\ wanted \in Releases /\ IsValid(wanted) /\ rounds \in 0 .. 3 /\ rows \subseteq DOMAIN db
        /\ mode \in {"all", "safe", "table"}
        /\ releases \in 0 .. MaxReleases /\ changes \in 0 .. MaxChanges
    BY DEF SchemaInv, Basics
  <1>1. PICK a \in alters :
           /\ Executes(a) /\ UNCHANGED <<releases, changes, refused>>
           /\ rows' = IF a.kind = "drop" THEN rows \ {a.table} ELSE rows
           /\ rounds' = IF mode # "all" THEN 0 ELSE IF alters' = {} /\ rounds < 3 THEN rounds + 1 ELSE rounds
    BY DEF Exec, Executes
  <1>2. /\ alters # {} /\ rounds # 3 /\ refused = {}
        /\ IsNext(a) /\ IsAccepted(a) /\ db' = Altered(a) /\ alters' = alters \ {a} /\ wanted' = wanted /\ mode' = mode
        /\ IsPending(a) /\ Effect(a, db')
    BY <1>0, <1>1, EffectIs DEF SchemaInv, PendingOK, Executes
  <1>3. /\ mode # "table" => ForeignKeysOK
        /\ mode = "all" => Complete
    BY <1>2 DEF SchemaInv
  <1>4. rounds' \in 0 .. 3 /\ (mode = "all" => rounds' = IF alters' = {} THEN rounds + 1 ELSE rounds)
        /\ (mode # "all" => rounds' = 0)
    BY <1>0, <1>1, <1>2
  <1>5. rows' \subseteq DOMAIN db'
    <2>1. \A v \in rows' : v \in rows /\ v \in DOMAIN db /\ ~(a.kind = "drop" /\ v = a.table)
      BY <1>0, <1>1
    <2>2. a.kind # "drop" => a.table \in DOMAIN db'
      BY <1>2 DEF Effect
    <2> QED
      BY <1>2, <2>1, <2>2 DEF Effect
  <1>6. Basics'
    BY <1>0, <1>1, <1>2, <1>4, <1>5 DEF Basics
  <1>7. TablesOK'
    <2>1. \A v \in DOMAIN db' : IsTable(db'[v], v)
      BY <1>0, <1>2, AlteredTables
    <2> QED
      BY <2>1 DEF TablesOK
  <1>8. PendingOK'
    <2>1. ASSUME NEW b \in alters' PROVE IsPending(b)'
      <3>1. b \in alters /\ b # a
        BY <1>2, <2>1
      <3> QED
        BY <1>0, <1>2, <3>1, PendingStays
    <2>2. \A b, c \in alters' : b.kind = c.kind /\ b.table = c.table => b = c
      BY <1>0, <1>2 DEF PendingOK
    <2> QED
      BY <2>1, <2>2 DEF PendingOK
  <1>9. ASSUME mode # "table" PROVE ForeignKeysOK'
    BY <1>0, <1>1, <1>3, <1>9, ExecForeignKeys
  <1>10. ASSUME mode = "all" PROVE CompleteAt(rounds)' \/ alters' = {}
    <2> SUFFICES ASSUME alters' # {} PROVE CompleteAt(rounds)'
      OBVIOUS
    <2>1. PICK n \in Nat : n = rounds
      BY <1>0
    <2>2. n >= 1 => \A e \in wanted.entities : HasColumns(e, db[EntityTable(e)])
      BY <1>0, <2>1 DEF RoundsHold, HoldsAll
    <2>3. CompleteAt(n)
      BY <1>3, <1>10, <2>1 DEF Complete
    <2>4. CompleteAt(n)'
      BY <1>0, <1>1, <1>10, <2>2, <2>3, ExecComplete
    <2>5. rounds' = n
      BY <1>4, <1>10, <2>1
    <2> QED
      BY <2>4, <2>5 DEF CompleteAt
  <1>11. RoundsHold'
    <2>1. CASE mode # "all"
      BY <1>4, <2>1 DEF RoundsHold
    <2>2. CASE mode = "all" /\ alters' = {}
      <3>1. PICK n \in Nat : n = rounds
        BY <1>0
      <3>2. n >= 1 => \A e \in wanted.entities : HasColumns(e, db[EntityTable(e)])
        BY <1>0, <3>1 DEF RoundsHold, HoldsAll
      <3>3. CompleteAt(n)
        BY <1>3, <2>2, <3>1 DEF Complete
      <3>4. CompleteAt(n)'
        BY <1>0, <1>1, <2>2, <3>2, <3>3, ExecComplete
      <3>5. rounds' - 1 = n /\ rounds' \in 1 .. 3
        BY <1>0, <1>4, <2>2, <3>1
      <3>6. CompleteAt(rounds - 1)'
        BY <3>4, <3>5 DEF CompleteAt
      <3>7. Ends'
        BY <1>6, <1>9, <2>2, <3>5, <3>6 DEF Ends
      <3> QED
        BY <3>7, EndsHolds, PTL
    <2>3. CASE mode = "all" /\ alters' # {} /\ rounds = 0
      BY <1>4, <2>3 DEF RoundsHold
    <2>4. CASE mode = "all" /\ alters' # {} /\ rounds >= 1
      <3>1. rounds' = rounds
        BY <1>4, <2>4
      <3> QED
        BY <1>0, <1>1, <1>2, <2>4, <3>1, ExecHolds
    <2> QED
      BY <1>0, <2>1, <2>2, <2>3, <2>4
  <1>12. rounds' = 3 => alters' = {}
    BY <1>0, <1>2, <1>4
  <1>13. mode' = "all" /\ alters' # {} => Complete'
    BY <1>2, <1>10 DEF Complete
  <1> QED
    BY <1>1, <1>2, <1>6, <1>7, <1>8, <1>9, <1>11, <1>12, <1>13 DEF SchemaInv

LEMMA SchemaInvInductive ==
  /\ Init => SchemaInv
  /\ SchemaInv /\ [Next]_vars => SchemaInv'
  <1>1. ASSUME Init PROVE SchemaInv
    <2>1. /\ wanted \in Releases /\ IsValid(wanted) /\ DOMAIN db = {} /\ rows = {} /\ alters = {} /\ mode = "all"
          /\ releases = 0 /\ changes = 0 /\ rounds = 0 /\ refused = {}
      BY <1>1 DEF Init
    <2>2. Basics
      BY <2>1, ReleasesAssumption DEF Basics
    <2> QED
      BY <2>1, <2>2 DEF SchemaInv, TablesOK, PendingOK, RoundsHold
  <1>2. ASSUME SchemaInv, [Next]_vars PROVE SchemaInv'
    <2>0. /\ Basics /\ TablesOK /\ PendingOK /\ RoundsHold /\ (rounds = 3 => alters = {})
          /\ wanted \in Releases /\ IsValid(wanted) /\ rounds \in 0 .. 3 /\ rows \subseteq DOMAIN db
          /\ mode \in {"all", "safe", "table"}
          /\ releases \in 0 .. MaxReleases /\ changes \in 0 .. MaxChanges
          /\ (refused = {} \/ \E a \in refused : refused = {a})
          /\ MaxReleases \in Nat /\ MaxChanges \in Nat
      BY <1>2, ReleasesAssumption DEF SchemaInv, Basics
    <2>1. CASE UNCHANGED vars
      <3>1. Basics' = Basics
        BY <2>1 DEF Basics, vars
      <3> QED
        BY <1>2, <2>1, <3>1, SameTables, SamePending DEF SchemaInv, vars
    <2>2. CASE Release
      <3>1. /\ wanted' \in Releases /\ IsValid(wanted') /\ releases' \in 0 .. MaxReleases
            /\ alters' = {} /\ rounds' = 0 /\ refused' = {} /\ UNCHANGED <<db, rows, mode, changes>>
        BY <2>0, <2>2 DEF Release
      <3>2. Basics'
        BY <2>0, <3>1 DEF Basics, IsValid
      <3>3. TablesOK'
        BY <2>0, <3>1 DEF TablesOK
      <3>4. RoundsHold'
        BY <3>1 DEF RoundsHold
      <3> QED
        BY <3>1, <3>2, <3>3, <3>4, NothingLeft
    <2>3. CASE GetAlters
      <3>1. /\ UNCHANGED <<wanted, db, rows, releases, changes, rounds>> /\ refused' = {}
            /\ mode' \in {"all", "safe"} /\ alters' = {a \in Alters(wanted) : mode' = "safe" => a.safe}
            /\ Alters(wanted) # {}
        BY <2>3 DEF GetAlters
      <3>2. Basics'
        BY <2>0, <3>1 DEF Basics
      <3>3. TablesOK' /\ RoundsHold'
        BY <2>0, <3>1, SameTables
      <3>4. Alters(wanted)' = Alters(wanted)
        BY <3>1, SameAlters
      <3>5. IsFresh'
        BY <3>1, <3>4 DEF IsFresh
      <3>6. FreshOK'
        BY <3>2, <3>3, <3>5, FreshIs, PTL
      <3>7. rounds # 3
        BY <2>0, <3>1, RoundsAlters
      <3> QED
        BY <3>1, <3>2, <3>3, <3>6, <3>7 DEF SchemaInv, FreshOK
    <2>4. CASE UpdateSchema
      <3>1. /\ UNCHANGED <<wanted, db, rows, releases, changes, rounds>> /\ refused' = {} /\ mode' = "table"
            /\ \E e \in wanted.entities : SchemaChanges(e, wanted) # {} /\ alters' = SchemaChanges(e, wanted)
        BY <2>4 DEF UpdateSchema
      <3>2. Basics'
        BY <2>0, <3>1 DEF Basics
      <3>3. TablesOK' /\ RoundsHold'
        BY <2>0, <3>1, SameTables
      <3>4. \A e : SchemaChanges(e, wanted)' = SchemaChanges(e, wanted)
        BY <3>1, SameAlters
      <3>5. IsTableFresh'
        BY <3>1, <3>4 DEF IsTableFresh
      <3>6. PendingOK'
        BY <3>2, <3>5, TableFreshIs, PTL
      <3>7. rounds # 3
        <4>1. Alters(wanted) # {}
          BY <3>1, InAlters
        <4> QED
          BY <2>0, <4>1, RoundsAlters
      <3> QED
        BY <3>1, <3>2, <3>3, <3>6, <3>7 DEF SchemaInv
    <2>5. CASE Exec
      BY <1>2, <2>5, ExecInv
    <2>6. CASE ExecRefused
      <3>1. /\ UNCHANGED <<wanted, db, rows, mode, releases, changes>> /\ alters' = {} /\ rounds' = 0
            /\ \E a \in alters : refused' = {a}
        BY <2>6 DEF ExecRefused
      <3>2. Basics'
        BY <2>0, <3>1 DEF Basics
      <3>3. TablesOK'
        BY <2>0, <3>1, SameTables
      <3>4. RoundsHold'
        BY <3>1 DEF RoundsHold
      <3> QED
        BY <3>1, <3>2, <3>3, <3>4, NothingLeft
    <2>7. CASE ExecFails
      <3>1. /\ UNCHANGED <<wanted, db, rows, mode, releases, changes, refused>> /\ alters' = {} /\ rounds' = 0
        BY <2>7 DEF ExecFails
      <3>2. Basics'
        BY <2>0, <3>1 DEF Basics
      <3>3. TablesOK'
        BY <2>0, <3>1, SameTables
      <3>4. RoundsHold'
        BY <3>1 DEF RoundsHold
      <3> QED
        BY <3>1, <3>2, <3>3, <3>4, NothingLeft
    <2>8. CASE TruncateTable
      <3>1. /\ UNCHANGED <<wanted, db, alters, mode, releases, changes, rounds>> /\ alters = {} /\ refused' = {}
            /\ rows' \subseteq rows
        BY <2>8 DEF TruncateTable
      <3>2. Basics'
        BY <2>0, <3>1 DEF Basics
      <3>3. TablesOK' /\ RoundsHold'
        BY <2>0, <3>1, SameTables
      <3> QED
        BY <3>1, <3>2, <3>3, NothingLeft
    <2>9. CASE DropEntityTable
      <3>1. PICK e \in wanted.entities :
               /\ db' = Altered(DropTable(EntityTable(e))) /\ rows' = rows \ {EntityTable(e)}
               /\ alters = {} /\ changes' = changes + 1 /\ changes < MaxChanges /\ rounds' = 0 /\ refused' = {}
               /\ UNCHANGED <<wanted, alters, mode, releases>>
        BY <2>9 DEF DropEntityTable
      <3>2. DropTable(EntityTable(e)).kind = "drop" /\ DropTable(EntityTable(e)).table = EntityTable(e)
        BY DropTableIs
      <3>3. /\ DOMAIN db' = DOMAIN db \ {EntityTable(e)}
            /\ \A v \in DOMAIN db \ {EntityTable(e)} : db'[v] = db[v]
        BY <3>1, <3>2, AlteredDrop
      <3>4. Basics'
        BY <2>0, <3>1, <3>3 DEF Basics
      <3>5. TablesOK'
        BY <2>0, <3>3 DEF TablesOK
      <3>6. RoundsHold'
        BY <3>1 DEF RoundsHold
      <3> QED
        BY <3>1, <3>4, <3>5, <3>6, NothingLeft
    <2>10. CASE InsertRows
      <3>1. PICK table \in DOMAIN db :
               /\ rows' = rows \cup {table} /\ changes' = changes + 1 /\ changes < MaxChanges /\ refused' = {}
               /\ UNCHANGED <<wanted, db, alters, mode, releases, rounds>>
        BY <2>10 DEF InsertRows
      <3>2. Basics'
        BY <2>0, <3>1 DEF Basics
      <3> QED
        BY <1>2, <3>1, <3>2, SameTables, SamePending DEF SchemaInv
    <2>11. CASE Cascade
      <3>0. PICK table \in DOMAIN db : \E fk \in db[table].fks :
               db' = [db EXCEPT ![table].fks = (@ \ {fk}) \cup {[fk EXCEPT !.onDelete = "CASCADE"]}]
        BY <2>11 DEF Cascade
      <3>7. PICK fk \in db[table].fks :
               db' = [db EXCEPT ![table].fks = (@ \ {fk}) \cup {[fk EXCEPT !.onDelete = "CASCADE"]}]
        BY <3>0
      <3>1. /\ alters = {} /\ changes' = changes + 1 /\ changes < MaxChanges /\ rounds' = 0 /\ refused' = {}
            /\ UNCHANGED <<wanted, rows, alters, mode, releases>>
        BY <2>11 DEF Cascade
      <3> DEFINE n == [fk EXCEPT !.onDelete = "CASCADE"]
                 q == [db[table] EXCEPT !.fks = (db[table].fks \ {fk}) \cup {n}]
      <3>2. IsTable(q, table)
        BY <2>0, TableCascades DEF TablesOK
      <3>3. DOMAIN db' = DOMAIN db /\ db'[table] = q /\ \A v \in DOMAIN db \ {table} : db'[v] = db[v]
        BY <3>7
      <3> HIDE DEF q, n
      <3>4. Basics'
        BY <2>0, <3>1, <3>3 DEF Basics
      <3>5. TablesOK'
        BY <2>0, <3>2, <3>3 DEF TablesOK
      <3>6. RoundsHold'
        BY <3>1 DEF RoundsHold
      <3> QED
        BY <3>1, <3>4, <3>5, <3>6, NothingLeft
    <2> QED
      BY <1>2, <2>1, <2>2, <2>3, <2>4, <2>5, <2>6, <2>7, <2>8, <2>9, <2>10, <2>11 DEF Next
  <1> QED
    BY <1>1, <1>2

\* Whatever alters are executed, of whatever releases, refused or not, no table has a
\* column, an index or a foreign key twice, no index is left without columns or with one that
\* its table has not, and no rows are where no table is: checkStruct and getSchemaChanges
\* never ask for a name that is taken by what stays.
THEOREM TypeCorrect == Spec => []TypeOK
  <1>1. ASSUME SchemaInv PROVE TypeOK
    <2>1. Basics /\ TablesOK
      BY <1>1 DEF SchemaInv
    <2>2. Cardinality(refused) <= 1
      <3>1. Cardinality({}) = 0 /\ \A a : Cardinality({a}) = 1
        BY FS_EmptySet, FS_Singleton
      <3>2. refused = {} \/ \E a \in refused : refused = {a}
        BY <2>1 DEF Basics
      <3>3. CASE refused = {}
        <4>1. Cardinality(refused) = 0
          BY <3>1, <3>3
        <4> QED
          BY <4>1
      <3>4. ASSUME NEW a \in refused, refused = {a} PROVE Cardinality(refused) <= 1
        <4>1. Cardinality(refused) = 1
          BY <3>1, <3>4
        <4> QED
          BY <4>1
      <3> QED
        BY <3>2, <3>3, <3>4
    <2>3. ASSUME NEW table \in DOMAIN db PROVE TableType(db[table])
      <3> DEFINE t == db[table]
      <3>1. IsTable(t, table)
        BY <2>1 DEF TablesOK
      <3> HIDE DEF t
      <3>2. IsInjective([i \in DOMAIN t.columns |-> t.columns[i].name])
        BY <3>1 DEF IsTable, OwnNames, IsInjective
      <3>3. \A k \in t.keys : k.columns # << >> /\ ToSet(k.columns) \subseteq NamesIn(t.columns)
        BY <3>1 DEF IsTable, IsKey
      <3>4. TableType(t)
        BY <3>1, <3>2, <3>3 DEF IsTable, TableType
      <3> QED
        BY <3>4 DEF t
    <2> QED
      BY <2>1, <2>2, <2>3 DEF TypeOK, Basics
  <1> QED
    BY <1>1, SchemaInvInductive, PTL DEF Spec

\* When all alters of GetAlters were executed, each entity has its columns, indexes and
\* foreign keys, and there is no table but those of entities; when they were executed again the
\* columns are in order too; and after the third time GetAlters finds nothing: its alters
\* do not undo one another, whatever tables they started from.
THEOREM RoundsConverge == Spec => []Converges
  <1>1. ASSUME SchemaInv PROVE Converges
    <2>1. Basics /\ TablesOK /\ RoundsHold /\ rounds \in 0 .. 3
      BY <1>1 DEF SchemaInv, Basics
    <2>2. rounds >= 2 => \A a \in Alters(wanted) : a.kind = "charset" /\ rounds # 3
      BY <2>1, RoundsAlters
    <2>3. rounds >= 1 => DOMAIN db = TablesInEntities(wanted) /\ \A e \in wanted.entities : HoldsAll(e)
      BY <2>1 DEF RoundsHold
    <2> QED
      BY <2>1, <2>2, <2>3 DEF Converges, HoldsAll
  <1> QED
    BY <1>1, SchemaInvInductive, PTL DEF Spec

\* MySQL refuses an alter of GetAlters, when all are executed in their order, only where it
\* changes the type of a column that a foreign key holds: that foreign keys are dropped first
\* and added last (getAlters), and that the index of a foreign key is added with its column
\* and never dropped before it (getSchemaChanges), is all that the others need.
THEOREM RefusalsAreExplained == Spec => []RefusedIsExplained
  <1>1. Init => RefusedIsExplained
    BY DEF Init, RefusedIsExplained
  <1>2. ASSUME SchemaInv, RefusedIsExplained, [Next]_vars PROVE RefusedIsExplained'
    <2>1. ASSUME refused' = {} PROVE RefusedIsExplained'
      BY <2>1 DEF RefusedIsExplained
    <2>2. CASE UNCHANGED vars
      <3>1. \A a : Retyped(a)' = Retyped(a)
        BY <2>2 DEF Retyped, Column, IsReferenced, vars
      <3> QED
        BY <1>2, <2>2, <3>1 DEF RefusedIsExplained, vars
    <2>3. CASE Exec \/ ExecFails
      <3>1. alters # {} /\ refused' = refused
        BY <2>3 DEF Exec, ExecFails
      <3>2. refused' = {}
        BY <1>2, <3>1 DEF SchemaInv
      <3> QED
        BY <2>1, <3>2
    <2>4. CASE ExecRefused
      <3>1. PICK a \in alters : IsNext(a) /\ ~IsAccepted(a) /\ refused' = {a} /\ UNCHANGED <<db, mode>>
        BY <2>4 DEF ExecRefused
      <3>2. Explained(a)
        BY <1>2, <3>1, RefusedExplained
      <3>3. Retyped(a)' = Retyped(a)
        BY <3>1 DEF Retyped, Column, IsReferenced
      <3> QED
        BY <3>1, <3>2, <3>3 DEF RefusedIsExplained, Explained
    <2>5. CASE Release \/ GetAlters \/ UpdateSchema \/ TruncateTable \/ DropEntityTable \/ InsertRows \/ Cascade
      <3>1. refused' = {}
        BY <2>5 DEF Release, GetAlters, UpdateSchema, TruncateTable, DropEntityTable, InsertRows, Cascade
      <3> QED
        BY <2>1, <3>1
    <2> QED
      BY <1>2, <2>2, <2>3, <2>4, <2>5 DEF Next
  <1> QED
    BY <1>1, <1>2, SchemaInvInductive, PTL DEF Spec

=============================================================================
