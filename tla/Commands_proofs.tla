---------------------------- MODULE Commands_proofs ----------------------------
(***************************************************************************)
(* Proofs about Commands: what is sent of a line is what the line means,   *)
(* for any aliases, and lines and texts of any length.                     *)
(***************************************************************************)
EXTENDS Commands, WellFoundedInduction, FiniteSetTheorems, SequenceTheorems, TLAPS

(***************************************************************************)
(* Operators of the libraries.                                             *)
(***************************************************************************)
\* A set of naturals that is not empty has a least element: every induction below
\* is over the least counterexample.
LEMMA Least ==
  ASSUME NEW S \in SUBSET Nat, S # {}
  PROVE  \E x \in S : \A y \in S : x <= y
<1>1. PICK x \in S : \A y \in S : ~(<<y, x>> \in OpToRel(<, Nat))
  BY NatLessThanWellFounded, WFMin
<1>2. \A y \in S : x <= y
  <2> TAKE y \in S
  <2>1. ~(<<y, x>> \in {ss \in Nat \X Nat : ss[1] < ss[2]})
    BY <1>1, Zenon DEF OpToRel
  <2> QED
    BY <2>1
<1> QED
  BY <1>2


\* What a subset of 1..k + 1 with k + 1 in it has as its Max.
LEMMA MaxIs ==
  ASSUME NEW k \in Nat, NEW s \in SUBSET (1 .. k), k \in s
  PROVE  Max(s) = k
<1>1. \A y \in s : k >= y
  OBVIOUS
<1>2. Max(s) \in s /\ \A y \in s : Max(s) >= y
  BY <1>1 DEF Max
<1>3. Max(s) \in 1 .. k
  BY <1>2
<1> QED
  BY <1>2, <1>3

Folded(m, es) == FoldLeft(Scan, m, es)

\* The fold of Scan, one character after the other.
LEMMA FoldIs ==
  ASSUME NEW base, NEW seq, NEW n \in Nat, DOMAIN seq = 1 .. n
  PROVE  \E h : /\ h[0] = base
                /\ \A i \in 1 .. n : h[i] = Scan(h[i - 1], seq[i])
                /\ Folded(base, seq) = h[n]
<1> DEFINE Turn(f, s) == IF s = {} THEN base ELSE Scan(f[s \ {Max(s)}], seq[Max(s)])
           Rec(f, k)  == [s \in SUBSET (1 .. k) |-> Turn(f, s)]
           Short      == {k \in 0 .. n : ~\E g : g = Rec(g, k)}
           it         == CHOOSE f : f = Rec(f, n)
<1>1. Folded(base, seq) = (CHOOSE f : f = [s \in SUBSET DOMAIN seq |-> Turn(f, s)])[DOMAIN seq]
  BY DEF Folded, FoldLeft, MapThenFoldSet
<1>2. ASSUME Short # {}
      PROVE  FALSE
  <2>1. PICK k \in Short : \A y \in Short : k <= y
    <3>1. Short \in SUBSET Nat
      OBVIOUS
    <3> QED
      BY <1>2, <3>1, Least
  <2>2. CASE k = 0
    <3> DEFINE g == [s \in SUBSET (1 .. 0) |-> base]
    <3>1. \A s \in SUBSET (1 .. 0) : s = {}
      OBVIOUS
    <3>2. g = Rec(g, 0)
      BY <3>1
    <3> QED
      BY <2>1, <2>2, <3>2
  <2>3. CASE k # 0
    <3>1. k - 1 \in 0 .. n /\ k - 1 + 1 = k /\ k \in Nat
      BY <2>1, <2>3
    <3>5. k - 1 \notin Short
      <4>1. ~(k <= k - 1)
        BY <3>1
      <4> QED
        BY <2>1, <4>1
    <3>2. PICK g : g = Rec(g, k - 1)
      BY <3>1, <3>5
    <3> DEFINE h == [s \in SUBSET (1 .. k) |->
                       IF s \in SUBSET (1 .. k - 1) THEN g[s]
                       ELSE Scan(g[s \ {k}], seq[k])]
    <3>3. ASSUME NEW s \in SUBSET (1 .. k)
          PROVE  h[s] = Turn(h, s)
      <4>1. CASE s \in SUBSET (1 .. k - 1) /\ s # {}
        <5>1. s \ {Max(s)} \in SUBSET (1 .. k - 1)
          BY <4>1
        <5>2. s \ {Max(s)} \in SUBSET (1 .. k)
          BY <5>1, <3>1
        <5>3. h[s] = g[s] /\ h[s \ {Max(s)}] = g[s \ {Max(s)}] /\ g[s] = Turn(g, s)
          BY <3>2, <4>1, <5>1, <5>2
        <5> QED
          BY <4>1, <5>3
      <4>2. CASE s = {}
        <5>1. s \in SUBSET (1 .. k - 1)
          BY <4>2
        <5>2. g[s] = base
          BY <3>2, <4>2, <5>1
        <5> QED
          BY <4>2, <5>1, <5>2
      <4>3. CASE ~(s \in SUBSET (1 .. k - 1))
        <5>1. k \in s /\ s # {} /\ k \in Nat
          BY <3>1, <4>3
        <5>2. Max(s) = k
          BY <5>1, MaxIs
        <5>3. s \ {k} \in SUBSET (1 .. k - 1) /\ s \ {k} \in SUBSET (1 .. k)
          BY <3>1
        <5>4. h[s] = Scan(g[s \ {k}], seq[k]) /\ h[s \ {k}] = g[s \ {k}]
          BY <4>3, <5>3
        <5> QED
          BY <5>1, <5>2, <5>4
      <4> QED
        BY <4>1, <4>2, <4>3
    <3>4. h = Rec(h, k)
      BY <3>3
    <3> QED
      BY <2>1, <3>4
  <2> QED
    BY <2>2, <2>3
<1>3. \E f : f = Rec(f, n)
  <2>1. Short = {}
    BY <1>2, Zenon
  <2>2. n \in 0 .. n
    OBVIOUS
  <2> QED
    BY <2>1, <2>2
<1>4. it = Rec(it, n)
  BY <1>3, Zenon
<1>5. Folded(base, seq) = it[1 .. n]
  BY <1>1, Zenon
<1> HIDE DEF it
<1> DEFINE h == [k \in 0 .. n |-> it[1 .. k]]
<1>6. \A s \in SUBSET (1 .. n) : it[s] = Turn(it, s)
  BY <1>4
<1>7. h[0] = base
  <2>1. 1 .. 0 = {} /\ {} \in SUBSET (1 .. n) /\ 0 \in 0 .. n
    OBVIOUS
  <2>2. it[{}] = base
    BY <1>6, <2>1, Zenon
  <2> QED
    BY <2>1, <2>2
<1>8. ASSUME NEW i \in 1 .. n
      PROVE  h[i] = Scan(h[i - 1], seq[i])
  <2>1. 1 .. i \in SUBSET (1 .. n) /\ i \in 1 .. i /\ i \in Nat /\ 1 .. i # {}
    OBVIOUS
  <2>2. Max(1 .. i) = i
    BY <2>1, MaxIs
  <2>3. (1 .. i) \ {i} = 1 .. (i - 1) /\ i \in 0 .. n /\ i - 1 \in 0 .. n
    OBVIOUS
  <2> QED
    BY <1>6, <2>1, <2>2, <2>3
<1>9. h[n] = it[1 .. n]
  OBVIOUS
<1> HIDE DEF h
<1> QED
  BY <1>5, <1>7, <1>8, <1>9

\* Nothing lies between one and zero.
LEMMA NoPlace == \A i : i \notin 1 .. 0
OBVIOUS

\* FlattenSeq() is a function that satisfies its recursion.
LEMMA FlattenIs ==
  ASSUME NEW seqs, NEW n \in Nat, n # 0, Len(seqs) = n
  PROVE  \E f : /\ f[1] = seqs[1]
                /\ \A i \in 2 .. n : f[i] = f[i - 1] \o seqs[i]
                /\ FlattenSeq(seqs) = f[n]
<1> DEFINE Turn(f, i) == IF i = 1 THEN seqs[i] ELSE f[i - 1] \o seqs[i]
           Rec(f, k)  == [i \in 1 .. k |-> Turn(f, i)]
           Short      == {k \in 0 .. n : ~\E g : g = Rec(g, k)}
           it         == CHOOSE f : f = [i \in 1 .. Len(seqs) |-> Turn(f, i)]
<1>1. FlattenSeq(seqs) = it[n]
  <2>1. Len(seqs) # 0
    OBVIOUS
  <2>2. FlattenSeq(seqs) = it[Len(seqs)]
    BY <2>1, Zenon DEF FlattenSeq
  <2> QED
    BY <2>2, Zenon
<1>2. ASSUME Short # {}
      PROVE  FALSE
  <2>1. PICK k \in Short : \A y \in Short : k <= y
    <3>1. Short \in SUBSET (0 .. n)
      BY Zenon
    <3> HIDE DEF Short
    <3>2. Short \in SUBSET Nat
      BY <3>1
    <3> QED
      BY <1>2, <3>2, Least
  <2>2. CASE k = 0
    <3> DEFINE g == [i \in 1 .. 0 |-> <<>>]
    <3>2. g = Rec(g, 0)
      BY NoPlace, Zenon
    <3> QED
      BY <2>1, <2>2, <3>2
  <2>3. CASE k # 0
    <3>1. k - 1 \in 0 .. n /\ k \in 1 .. n /\ ~(k <= k - 1)
      BY <2>1, <2>3
    <3>2. k - 1 \notin Short
      BY <2>1, <3>1
    <3>3. PICK g : g = Rec(g, k - 1)
      BY <3>1, <3>2
    <3> DEFINE h == [i \in 1 .. k |-> IF i = k THEN Turn(g, k) ELSE g[i]]
    <3>4. ASSUME NEW i \in 1 .. k - 1
          PROVE  g[i] = Turn(g, i) /\ h[i] = g[i]
      <4>1. i \in 1 .. k /\ i # k
        BY <3>1
      <4> QED
        BY <3>3, <4>1, Zenon
    <3>5. h[k] = Turn(g, k)
      BY <3>1
    <3>6. ASSUME NEW i \in 1 .. k
          PROVE  h[i] = Turn(h, i)
      <4>1. CASE i = 1
        <5>1. i = k \/ i \in 1 .. k - 1
          BY <3>1
        <5>2. h[i] = seqs[i]
          BY <3>4, <3>5, <4>1, <5>1, Zenon
        <5> QED
          BY <4>1, <5>2
      <4>2. CASE i # 1
        <5>1. i - 1 \in 1 .. k - 1 /\ (i = k \/ i \in 1 .. k - 1)
          BY <3>1, <4>2
        <5> QED
          BY <3>4, <3>5, <4>2, <5>1
      <4> QED
        BY <4>1, <4>2
    <3>7. h = Rec(h, k)
      BY <3>6, Zenon
    <3> QED
      BY <2>1, <3>7
  <2> QED
    BY <2>2, <2>3
<1>3. \E f : f = [i \in 1 .. Len(seqs) |-> Turn(f, i)]
  <2>1. n \notin Short
    BY <1>2
  <2>2. n \in 0 .. n
    OBVIOUS
  <2> QED
    BY <2>1, <2>2, Zenon
<1>4. it = [i \in 1 .. Len(seqs) |-> Turn(it, i)]
  BY <1>3, Zenon
<1> HIDE DEF it
<1>5. \A i \in 1 .. n : it[i] = Turn(it, i)
  BY <1>4
<1>6. 1 \in 1 .. n /\ \A i \in 2 .. n : i \in 1 .. n /\ i # 1
  OBVIOUS
<1> QED
  BY <1>1, <1>5, <1>6

\* Flattening a sequence that is one longer.
LEMMA FlattenMore ==
  ASSUME NEW M, NEW s \in Seq(Seq(M)), NEW x \in Seq(M)
  PROVE  /\ FlattenSeq(s) \in Seq(M)
         /\ FlattenSeq(Append(s, x)) = FlattenSeq(s) \o x
<1> DEFINE n == Len(s)
           t == Append(s, x)
<1>1. /\ n \in Nat /\ Len(t) = n + 1 /\ t[n + 1] = x
      /\ \A i \in 1 .. n : t[i] = s[i] /\ s[i] \in Seq(M)
  OBVIOUS
<1>2. PICK g : /\ g[1] = t[1]
               /\ \A i \in 2 .. n + 1 : g[i] = g[i - 1] \o t[i]
               /\ FlattenSeq(t) = g[n + 1]
  <2> PICK tt : tt = t
    OBVIOUS
  <2>1. n + 1 \in Nat /\ n + 1 # 0 /\ Len(tt) = n + 1
    BY <1>1
  <2> HIDE DEF n, t
  <2> QED
    BY <2>1, FlattenIs
<1>3. CASE n = 0
  <2>1. s = <<>> /\ t[1] = x
    BY <1>1, <1>3
  <2>2. FlattenSeq(s) = <<>>
    BY <2>1 DEF FlattenSeq
  <2>3. g[n + 1] = g[1] /\ <<>> \o x = x
    BY <1>3
  <2>4. FlattenSeq(t) = x
    BY <1>2, <2>1, <2>3
  <2> HIDE DEF t
  <2> QED
    BY <2>2, <2>3, <2>4 DEF t
<1>4. CASE n # 0
  <2>1. PICK f : /\ f[1] = s[1]
                 /\ \A i \in 2 .. n : f[i] = f[i - 1] \o s[i]
                 /\ FlattenSeq(s) = f[n]
    <3>1. n \in Nat /\ Len(s) = n
      BY <1>1
    <3> PICK ss : ss = s
      OBVIOUS
    <3> HIDE DEF n
    <3> QED
      BY <1>4, <3>1, FlattenIs
  <2> DEFINE Bad == {i \in 1 .. n : ~(f[i] \in Seq(M) /\ g[i] = f[i])}
  <2> HIDE DEF n, t
  <2>2. ASSUME Bad # {}
        PROVE  FALSE
    <3>1. PICK k \in Bad : \A y \in Bad : k <= y
      <4>1. Bad \in SUBSET Nat
        BY <1>1
      <4> QED
        BY <2>2, <4>1, Least
    <3>2. CASE k = 1
      BY <1>1, <1>2, <2>1, <3>1, <3>2
    <3>3. CASE k # 1
      <4>1. k - 1 \in 1 .. n /\ k \in 2 .. n /\ ~(k <= k - 1) /\ k \in 2 .. n + 1
        BY <1>1, <3>1, <3>3
      <4>2. f[k - 1] \in Seq(M) /\ g[k - 1] = f[k - 1]
        BY <3>1, <4>1
      <4>3. f[k] = f[k - 1] \o s[k] /\ g[k] = g[k - 1] \o s[k] /\ s[k] \in Seq(M)
        BY <1>1, <1>2, <2>1, <3>1, <4>1
      <4>4. f[k] \in Seq(M) /\ g[k] = f[k]
        BY <4>2, <4>3
      <4> QED
        BY <3>1, <4>4
    <3> QED
      BY <3>2, <3>3
  <2>3. f[n] \in Seq(M) /\ g[n] = f[n]
    <3>1. n \in 1 .. n
      BY <1>1, <1>4
    <3> QED
      BY <2>2, <3>1
  <2>4. n + 1 \in 2 .. n + 1 /\ n + 1 - 1 = n
    BY <1>1, <1>4
  <2>5. g[n + 1] = g[n] \o x
    <3> PICK k : k = n + 1
      OBVIOUS
    <3>1. k \in 2 .. n + 1 /\ k - 1 = n
      <4>1. n \in Nat
        BY <1>1
      <4> QED
        BY <1>4, <4>1
    <3>2. g[k] = g[k - 1] \o t[k]
      BY <1>2, <3>1
    <3> QED
      BY <1>1, <3>1, <3>2
  <2>6. FlattenSeq(s) \in Seq(M) /\ FlattenSeq(t) = FlattenSeq(s) \o x
    BY <1>2, <2>1, <2>3, <2>5
  <2> QED
    BY <2>6 DEF t
<1> QED
  BY <1>3, <1>4

(***************************************************************************)
(* Flattening, one element after the other.                                *)
(***************************************************************************)
Pre(F, k) == FlattenSeq([i \in 1 .. k |-> F[i]])

LEMMA AnySeq ==
  ASSUME NEW S, NEW n \in Nat, NEW q \in [1 .. n -> S]
  PROVE  q \in Seq(S) /\ Len(q) = n
  OBVIOUS

\* Concatenation: its type, that it is associative, and what has no effect on it.
LEMMA ConcatTyped ==
  ASSUME NEW S, NEW a \in Seq(S), NEW b \in Seq(S)
  PROVE  a \o b \in Seq(S) /\ Len(a \o b) = Len(a) + Len(b)
  OBVIOUS

LEMMA ConcatAssoc ==
  ASSUME NEW S, NEW a \in Seq(S), NEW b \in Seq(S), NEW c \in Seq(S)
  PROVE  (a \o b) \o c = a \o (b \o c)
  OBVIOUS

Three(S, a, b, c) == a \in Seq(S) /\ b \in Seq(S) /\ c \in Seq(S)
Assoc(a, b, c)    == (a \o b) \o c = a \o (b \o c)

LEMMA ThreeAssoc ==
  ASSUME NEW S, NEW a, NEW b, NEW c, Three(S, a, b, c)
  PROVE  Assoc(a, b, c)
  BY ConcatAssoc DEF Three, Assoc

LEMMA ConcatNone ==
  ASSUME NEW S, NEW a \in Seq(S)
  PROVE  a \o <<>> = a /\ <<>> \o a = a
  OBVIOUS

\* What follows the same beginning is the same.
LEMMA ConcatCancel ==
  ASSUME NEW S, NEW a \in Seq(S), NEW b \in Seq(S), NEW c \in Seq(S), a \o b = a \o c
  PROVE  b = c
<1>1. Len(b) = Len(c)
  <2>1. Len(a \o b) = Len(a) + Len(b) /\ Len(a \o c) = Len(a) + Len(c)
    OBVIOUS
  <2>2. Len(a) \in Nat /\ Len(b) \in Nat /\ Len(c) \in Nat
    OBVIOUS
  <2> QED
    BY <2>1, <2>2
<1>2. ASSUME NEW i \in 1 .. Len(b) PROVE b[i] = c[i]
  <2>1. Len(a) + i \in 1 .. Len(a) + Len(b) /\ ~(Len(a) + i <= Len(a)) /\ Len(a) + i - Len(a) = i
    OBVIOUS
  <2>2. (a \o b)[Len(a) + i] = b[i]
    BY <2>1
  <2>3. (a \o c)[Len(a) + i] = c[i]
    BY <1>1, <2>1
  <2> QED
    BY <2>2, <2>3
<1>3. b = [i \in 1 .. Len(b) |-> b[i]] /\ c = [i \in 1 .. Len(c) |-> c[i]]
  OBVIOUS
<1> QED
  BY <1>1, <1>2, <1>3, Zenon

\* A sequence of n sequences over M, and positions in it.
Seqs(F, n, M)   == n \in Nat /\ F \in [1 .. n -> Seq(M)]
Within(a, b, n) == a \in 0 .. n /\ b \in a .. n
Blank(F, a, b)  == \A i \in a + 1 .. b : F[i] = <<>>

\* What is flattened grows by one sequence at a time.
Beginnings(F, n, M) ==
  /\ Pre(F, 0) = <<>>
  /\ \A k \in 0 .. n : Pre(F, k) \in Seq(M)
  /\ \A k \in 1 .. n : Pre(F, k) = Pre(F, k - 1) \o F[k]

\* Such a beginning grows by one sequence at a time.
LEMMA PreIs ==
  ASSUME NEW M, NEW n, NEW F, Seqs(F, n, M)
  PROVE  Beginnings(F, n, M)
<1> USE DEF Seqs
<1> DEFINE G(k) == [i \in 1 .. k |-> F[i]]
<1>1. Pre(F, 0) = <<>>
  <2>1. G(0) = <<>>
    OBVIOUS
  <2>2. FlattenSeq(<<>>) = <<>>
    BY DEF FlattenSeq
  <2> QED
    BY <2>1, <2>2, Zenon DEF Pre
<1>2. ASSUME NEW k \in 0 .. n PROVE G(k) \in Seq(Seq(M)) /\ Len(G(k)) = k
  <2>1. k \in Nat /\ G(k) \in [1 .. k -> Seq(M)]
    OBVIOUS
  <2> QED
    BY <2>1, AnySeq
<1>3. ASSUME NEW k \in 1 .. n PROVE Pre(F, k) = Pre(F, k - 1) \o F[k] /\ Pre(F, k) \in Seq(M)
  <2>1. k - 1 \in 0 .. n /\ k \in 0 .. n /\ k - 1 + 1 = k
    OBVIOUS
  <2>2. G(k) = Append(G(k - 1), F[k])
    BY <1>2, <2>1
  <2> HIDE DEF G
  <2>3. G(k - 1) \in Seq(Seq(M)) /\ G(k) \in Seq(Seq(M)) /\ F[k] \in Seq(M)
    BY <1>2, <2>1
  <2>4. FlattenSeq(G(k)) = FlattenSeq(G(k - 1)) \o F[k] /\ FlattenSeq(G(k)) \in Seq(M)
    BY <2>2, <2>3, FlattenMore, Zenon
  <2> QED
    BY <2>4 DEF Pre, G
<1>4. \A k \in 0 .. n : k = 0 \/ k \in 1 .. n
  OBVIOUS
<1>5. <<>> \in Seq(M)
  OBVIOUS
<1> QED
  BY <1>1, <1>3, <1>4, <1>5 DEF Beginnings

\* All of a sequence is its longest beginning.
LEMMA PreAll ==
  ASSUME NEW S, NEW s \in Seq(S)
  PROVE  FlattenSeq(s) = Pre(s, Len(s))
<1>1. s = [i \in 1 .. Len(s) |-> s[i]]
  OBVIOUS
<1> QED
  BY <1>1, Zenon DEF Pre

\* Elements that are empty add nothing.
LEMMA PreSkips ==
  ASSUME NEW M, NEW n, NEW F, NEW a, NEW b,
         Seqs(F, n, M), Within(a, b, n), Blank(F, a, b)
  PROVE  Pre(F, b) = Pre(F, a)
<1>0. /\ Pre(F, 0) = <<>> /\ \A k \in 0 .. n : Pre(F, k) \in Seq(M)
      /\ \A k \in 1 .. n : Pre(F, k) = Pre(F, k - 1) \o F[k]
  <2>1. Beginnings(F, n, M)
    BY PreIs
  <2> QED
    BY <2>1, Zenon DEF Beginnings
<1> n \in Nat /\ a \in 0 .. n /\ b \in a .. n /\ \A i \in a + 1 .. b : F[i] = <<>>
  BY DEF Seqs, Within, Blank
<1> DEFINE Bad == {k \in a .. b : Pre(F, k) # Pre(F, a)}
<1>1. ASSUME Bad # {} PROVE FALSE
  <2>1. Bad \in SUBSET Nat
    OBVIOUS
  <2> HIDE DEF Bad
  <2>2. PICK k \in Bad : \A y \in Bad : k <= y
    BY <1>1, <2>1, Least
  <2> USE DEF Bad
  <2>3. k # a /\ k \in a .. b
    BY <2>2
  <2>4. k - 1 \in a .. b /\ k \in a + 1 .. b /\ k \in 1 .. n /\ k - 1 \in 0 .. n /\ ~(k <= k - 1)
    BY <2>3
  <2>5. Pre(F, k - 1) = Pre(F, a)
    BY <2>2, <2>4
  <2>6. Pre(F, k) = Pre(F, k - 1) \o <<>> /\ Pre(F, k - 1) \in Seq(M)
    BY <1>0, <2>4
  <2> HIDE DEF Bad
  <2>7. Pre(F, k) = Pre(F, k - 1)
    BY <2>6, ConcatNone
  <2> QED
    BY <2>2, <2>5, <2>7 DEF Bad
<1>2. b \in a .. b
  OBVIOUS
<1> QED
  BY <1>1, <1>2

\* A longer prefix begins with a shorter one.
LEMMA PreGrows ==
  ASSUME NEW M, NEW n, NEW F, NEW a, NEW b, Seqs(F, n, M), Within(a, b, n)
  PROVE  \E x \in Seq(M) : Pre(F, b) = Pre(F, a) \o x
<1> n \in Nat /\ a \in 0 .. n /\ b \in a .. n /\ F \in [1 .. n -> Seq(M)]
  BY DEF Seqs, Within
<1>0. /\ Pre(F, 0) = <<>> /\ \A k \in 0 .. n : Pre(F, k) \in Seq(M)
      /\ \A k \in 1 .. n : Pre(F, k) = Pre(F, k - 1) \o F[k]
  <2>1. Beginnings(F, n, M)
    BY PreIs
  <2> QED
    BY <2>1, Zenon DEF Beginnings
<1> DEFINE Bad == {k \in a .. b : ~\E x \in Seq(M) : Pre(F, k) = Pre(F, a) \o x}
<1>1. ASSUME Bad # {} PROVE FALSE
  <2>1. Bad \in SUBSET Nat
    OBVIOUS
  <2> HIDE DEF Bad
  <2>2. PICK k \in Bad : \A y \in Bad : k <= y
    BY <1>1, <2>1, Least
  <2> USE DEF Bad
  <2>3. CASE k = a
    <3>1. Pre(F, a) \in Seq(M) /\ <<>> \in Seq(M)
      BY <1>0
    <3>2. Pre(F, a) = Pre(F, a) \o <<>>
      BY <3>1, ConcatNone
    <3> QED
      BY <2>2, <2>3, <3>1, <3>2
  <2>4. CASE k # a
    <3>1. k - 1 \in a .. b /\ k \in 1 .. n /\ k - 1 \in 0 .. n /\ ~(k <= k - 1)
      BY <2>2, <2>4
    <3>2. PICK x \in Seq(M) : Pre(F, k - 1) = Pre(F, a) \o x
      BY <2>2, <3>1
    <3>3. /\ Pre(F, k) = Pre(F, k - 1) \o F[k] /\ F[k] \in Seq(M) /\ Pre(F, a) \in Seq(M)
      BY <1>0, <3>1
    <3> HIDE DEF Bad
    <3>4. Pre(F, k) = Pre(F, a) \o (x \o F[k]) /\ x \o F[k] \in Seq(M)
      <4>1. x \o F[k] \in Seq(M)
        BY <3>3, ConcatTyped
      <4>2. (Pre(F, a) \o x) \o F[k] = Pre(F, a) \o (x \o F[k])
        <5> DEFINE y == Pre(F, a)
                   z == F[k]
        <5>1. y \in Seq(M) /\ z \in Seq(M) /\ x \in Seq(M)
          BY <3>2, <3>3
        <5> HIDE DEF y, z
        <5>2. (y \o x) \o z = y \o (x \o z)
          <6>1. Three(M, y, x, z)
            BY <5>1 DEF Three
          <6>2. Assoc(y, x, z)
            BY <6>1, ThreeAssoc
          <6> QED
            BY <6>2, Zenon DEF Assoc
        <5> QED
          BY <5>2 DEF y, z
      <4> QED
        BY <3>2, <3>3, <4>1, <4>2
    <3> QED
      BY <2>2, <3>4 DEF Bad
  <2> QED
    BY <2>3, <2>4
<1>2. b \in a .. b
  OBVIOUS
<1> QED
  BY <1>1, <1>2

\* A beginning depends on nothing behind it.
LEMMA PreSame ==
  ASSUME NEW F, NEW G, NEW k, \A i \in 1 .. k : F[i] = G[i]
  PROVE  Pre(F, k) = Pre(G, k)
<1>1. [i \in 1 .. k |-> F[i]] = [i \in 1 .. k |-> G[i]]
  OBVIOUS
<1> QED
  BY <1>1, Zenon DEF Pre

(***************************************************************************)
(* The characters at some positions.                                       *)
(***************************************************************************)
Bits(s, T) == [i \in DOMAIN s |-> IF i \in T THEN <<s[i]>> ELSE <<>>]

\* The characters at some positions, as one sequence for every position.
LEMMA BitsAre ==
  ASSUME NEW S, NEW s \in Seq(S), NEW T
  PROVE  /\ Len(s) \in Nat /\ Seqs(Bits(s, T), Len(s), S)
         /\ \A i \in 1 .. Len(s) : Bits(s, T)[i] = IF i \in T THEN <<s[i]>> ELSE <<>>
         /\ At(s, T) = Pre(Bits(s, T), Len(s))
<1>1. Len(s) \in Nat /\ DOMAIN s = 1 .. Len(s) /\ \A i \in 1 .. Len(s) : s[i] \in S
  OBVIOUS
<1>2. \A i \in 1 .. Len(s) : Bits(s, T)[i] = IF i \in T THEN <<s[i]>> ELSE <<>>
  BY <1>1 DEF Bits
<1>3. \A i \in 1 .. Len(s) : Bits(s, T)[i] \in Seq(S)
  <2> TAKE i \in 1 .. Len(s)
  <2>1. <<s[i]>> \in Seq(S) /\ <<>> \in Seq(S)
    BY <1>1
  <2> QED
    BY <1>2, <2>1
<1>4. At(s, T) = Pre(Bits(s, T), Len(s))
  <2>1. Bits(s, T) = [i \in 1 .. Len(s) |-> Bits(s, T)[i]]
    BY <1>1 DEF Bits
  <2>2. At(s, T) = FlattenSeq(Bits(s, T))
    BY DEF At, Bits
  <2> QED
    BY <2>1, <2>2, Zenon DEF Pre
<1>5. Seqs(Bits(s, T), Len(s), S)
  BY <1>1, <1>3 DEF Bits, Seqs
<1> QED
  BY <1>1, <1>2, <1>4, <1>5

\* Nothing but what stands at the positions.
LEMMA AtIn ==
  ASSUME NEW S, NEW s \in Seq(S), NEW T
  PROVE  At(s, T) \in Seq({s[i] : i \in T \cap (1 .. Len(s))}) /\ At(s, T) \in Seq(S)
<1> DEFINE M == {s[i] : i \in T \cap (1 .. Len(s))}
<1>1. ASSUME NEW i \in 1 .. Len(s) PROVE Bits(s, T)[i] \in Seq(M)
  <2>1. Bits(s, T)[i] = IF i \in T THEN <<s[i]>> ELSE <<>>
    BY BitsAre
  <2>2. i \in T => s[i] \in M
    OBVIOUS
  <2> HIDE DEF M
  <2> QED
    BY <2>1, <2>2
<1> HIDE DEF M
<1>2. /\ Len(s) \in Nat /\ At(s, T) = Pre(Bits(s, T), Len(s)) /\ Len(s) \in 0 .. Len(s)
      /\ Seqs(Bits(s, T), Len(s), S)
  BY BitsAre
<1>3. At(s, T) \in Seq(M)
  <2>1. Seqs(Bits(s, T), Len(s), M)
    BY <1>1, <1>2 DEF Seqs
  <2>2. Beginnings(Bits(s, T), Len(s), M)
    BY <2>1, PreIs
  <2> QED
    BY <1>2, <2>2 DEF Beginnings
<1>4. At(s, T) \in Seq(S)
  <2>1. Beginnings(Bits(s, T), Len(s), S)
    BY <1>2, PreIs
  <2> QED
    BY <1>2, <2>1 DEF Beginnings
<1> QED
  BY <1>3, <1>4 DEF M

\* Where no later position is wanted, a beginning will do.
LEMMA AtPrefix ==
  ASSUME NEW S, NEW s \in Seq(S), NEW T, NEW m \in 0 .. Len(s), T \cap (m + 1 .. Len(s)) = {}
  PROVE  At(s, T) = Pre(Bits(s, T), m)
<1>1. /\ Len(s) \in Nat /\ Seqs(Bits(s, T), Len(s), S)
      /\ \A i \in 1 .. Len(s) : Bits(s, T)[i] = IF i \in T THEN <<s[i]>> ELSE <<>>
      /\ At(s, T) = Pre(Bits(s, T), Len(s))
  BY BitsAre
<1>2. Blank(Bits(s, T), m, Len(s))
  <2>1. ASSUME NEW i \in m + 1 .. Len(s) PROVE Bits(s, T)[i] = <<>>
    <3>1. i \in 1 .. Len(s) /\ i \notin T
      BY <1>1
    <3> QED
      BY <1>1, <3>1
  <2> QED
    BY <2>1 DEF Blank
<1>3. Within(m, Len(s), Len(s))
  BY <1>1 DEF Within
<1>4. Pre(Bits(s, T), Len(s)) = Pre(Bits(s, T), m)
  BY <1>1, <1>2, <1>3, PreSkips
<1> QED
  BY <1>1, <1>4

LEMMA AtNone ==
  ASSUME NEW S, NEW s \in Seq(S), NEW T, T \cap (1 .. Len(s)) = {}
  PROVE  At(s, T) = <<>>
<1>1. Len(s) \in Nat /\ 0 \in 0 .. Len(s) /\ 0 + 1 = 1
  OBVIOUS
<1>2. At(s, T) = Pre(Bits(s, T), 0)
  BY <1>1, AtPrefix
<1>3. Seqs(Bits(s, T), Len(s), S)
  BY BitsAre
<1>4. Beginnings(Bits(s, T), Len(s), S)
  BY <1>3, PreIs
<1> QED
  BY <1>2, <1>4 DEF Beginnings

\* Positions in front of a place and behind it.
LEMMA AtConcat ==
  ASSUME NEW S, NEW s \in Seq(S), NEW m \in 0 .. Len(s),
         NEW T \in SUBSET (1 .. m), NEW U \in SUBSET (m + 1 .. Len(s))
  PROVE  At(s, T \cup U) = At(s, T) \o At(s, U)
<1> DEFINE n == Len(s)
           W == T \cup U
           Eq(k) == Pre(Bits(s, W), k) = Pre(Bits(s, T), m) \o Pre(Bits(s, U), k)
           Bad == {k \in m .. n : ~Eq(k)}
<1>1. n \in Nat /\ m \in Nat /\ m <= n
  OBVIOUS
<1>2. ASSUME NEW V
      PROVE  /\ Seqs(Bits(s, V), n, S)
             /\ \A i \in 1 .. n : Bits(s, V)[i] = IF i \in V THEN <<s[i]>> ELSE <<>>
             /\ At(s, V) = Pre(Bits(s, V), n)
  BY BitsAre
<1>21. ASSUME NEW V
      PROVE  /\ Pre(Bits(s, V), 0) = <<>>
             /\ \A k \in 0 .. n : Pre(Bits(s, V), k) \in Seq(S)
             /\ \A k \in 1 .. n : Pre(Bits(s, V), k) = Pre(Bits(s, V), k - 1) \o Bits(s, V)[k]
  <2>1. Seqs(Bits(s, V), n, S)
    BY <1>2
  <2> HIDE DEF n
  <2>2. Beginnings(Bits(s, V), n, S)
    BY <2>1, PreIs
  <2> QED
    BY <2>2, Zenon DEF Beginnings
<1>22. ASSUME NEW V, NEW i \in 1 .. n PROVE Bits(s, V)[i] \in Seq(S)
  BY <1>2 DEF Seqs
<1>3. At(s, T) = Pre(Bits(s, T), m)
  <2>1. T \cap (m + 1 .. Len(s)) = {}
    BY <1>1
  <2> QED
    BY <2>1, AtPrefix
<1>4. Eq(m)
  <2>1. \A i \in 1 .. m : Bits(s, W)[i] = Bits(s, T)[i]
    <3> TAKE i \in 1 .. m
    <3>1. i \in 1 .. n /\ (i \in W <=> i \in T)
      BY <1>1
    <3> HIDE DEF W
    <3> QED
      BY <1>2, <3>1
  <2>2. Pre(Bits(s, W), m) = Pre(Bits(s, T), m)
    BY <2>1, PreSame
  <2>3. Blank(Bits(s, U), 0, m)
    <3>1. ASSUME NEW i \in 0 + 1 .. m PROVE Bits(s, U)[i] = <<>>
      <4>1. i \in 1 .. n /\ i \notin U
        BY <1>1
      <4> QED
        BY <1>2, <4>1
    <3> QED
      BY <3>1 DEF Blank
  <2>4. Pre(Bits(s, U), m) = <<>>
    <3>1. Within(0, m, n)
      BY <1>1 DEF Within
    <3>2. Seqs(Bits(s, U), n, S)
      BY <1>2
    <3> HIDE DEF n
    <3>3. Pre(Bits(s, U), m) = Pre(Bits(s, U), 0)
      BY <2>3, <3>1, <3>2, PreSkips
    <3> QED
      BY <1>21, <3>3
  <2>5. Pre(Bits(s, T), m) \in Seq(S)
    BY <1>1, <1>21
  <2> QED
    BY <2>2, <2>4, <2>5, ConcatNone
<1> HIDE DEF W
<1>5. ASSUME Bad # {} PROVE FALSE
  <2>1. Bad \in SUBSET Nat
    BY <1>1
  <2> HIDE DEF Bad, Eq
  <2>2. PICK k \in Bad : \A y \in Bad : k <= y
    BY <1>5, <2>1, Least
  <2>3. k \in m .. n /\ k # m /\ ~Eq(k)
    BY <1>4, <2>2 DEF Bad
  <2>4. k - 1 \in m .. n /\ k \in m + 1 .. n /\ k \in 1 .. n /\ k - 1 \in 0 .. n /\ ~(k <= k - 1)
    BY <1>1, <2>3
  <2>5. Eq(k - 1)
    BY <2>2, <2>4 DEF Bad
  <2>6. Bits(s, W)[k] = Bits(s, U)[k]
    <3>1. k \in W <=> k \in U
      BY <1>1, <2>4 DEF W
    <3> QED
      BY <1>2, <2>4, <3>1
  <2> DEFINE a == Pre(Bits(s, T), m)
             b == Pre(Bits(s, U), k - 1)
             c == Bits(s, U)[k]
  <2>7. a \in Seq(S) /\ b \in Seq(S) /\ c \in Seq(S)
    <3>1. m \in 0 .. n
      BY <1>1
    <3> QED
      BY <1>21, <1>22, <2>4, <3>1
  <2>8. Pre(Bits(s, W), k) = (a \o b) \o c
    <3>1. Pre(Bits(s, W), k) = Pre(Bits(s, W), k - 1) \o Bits(s, W)[k]
      BY <1>21, <2>4, Zenon
    <3>2. Pre(Bits(s, W), k - 1) = a \o b
      BY <2>5, Zenon DEF Eq
    <3> QED
      BY <2>6, <3>1, <3>2, Zenon
  <2>9. Pre(Bits(s, U), k) = b \o c
    BY <1>21, <2>4, Zenon
  <2>10. (a \o b) \o c = a \o (b \o c)
    <3> HIDE DEF a, b, c
    <3> QED
      BY <2>7
  <2>11. Eq(k)
    BY <2>8, <2>9, <2>10, Zenon DEF Eq
  <2> QED
    BY <2>3, <2>11
<1>6. Eq(n)
  <2>1. n \in m .. n
    BY <1>1
  <2> QED
    BY <1>5, <2>1
<1> QED
  BY <1>2, <1>3, <1>6 DEF W

LEMMA AtOne ==
  ASSUME NEW S, NEW s \in Seq(S), NEW m \in 1 .. Len(s)
  PROVE  At(s, {m}) = <<s[m]>>
<1>1. PICK T, n, k : T = {m} /\ n = Len(s) /\ k = m - 1
  OBVIOUS
<1>2. /\ n \in Nat /\ k \in 0 .. n /\ m \in 0 .. n /\ k = m - 1
      /\ T \cap (m + 1 .. n) = {} /\ n = Len(s) /\ m \in 1 .. n
  BY <1>1
<1>3. At(s, T) = Pre(Bits(s, T), m)
  BY <1>2, AtPrefix
<1>4. PICK F : F = Bits(s, T)
  OBVIOUS
<1>5. Seqs(F, n, S) /\ F[m] = <<s[m]>> /\ Blank(F, 0, k) /\ Within(0, k, n)
  <2>1. Seqs(F, n, S) /\ \A i \in 1 .. n : F[i] = IF i \in T THEN <<s[i]>> ELSE <<>>
    BY <1>2, <1>4, BitsAre
  <2>2. m \in T /\ \A i \in 0 + 1 .. k : i \in 1 .. n /\ i \notin T
    BY <1>1, <1>2
  <2>3. Within(0, k, n)
    BY <1>2 DEF Within
  <2>4. Blank(F, 0, k)
    BY <2>1, <2>2 DEF Blank
  <2>5. F[m] = <<s[m]>>
    BY <1>2, <2>1, <2>2
  <2> QED
    BY <2>1, <2>3, <2>4, <2>5
<1>6. Pre(F, k) = Pre(F, 0)
  BY <1>5, PreSkips
<1>7. Pre(F, 0) = <<>> /\ Pre(F, m) = Pre(F, m - 1) \o F[m]
  <2>1. Seqs(F, n, S)
    BY <1>5
  <2>2. Beginnings(F, n, S)
    BY <2>1, PreIs
  <2> QED
    BY <1>2, <2>2 DEF Beginnings
<1>8. Pre(F, m) = <<>> \o <<s[m]>>
  BY <1>2, <1>5, <1>6, <1>7
<1>9. <<>> \o <<s[m]>> = <<s[m]>>
  OBVIOUS
<1> QED
  BY <1>1, <1>3, <1>4, <1>8, <1>9

\* A sequence of one.
LEMMA OneTyped ==
  ASSUME NEW S, NEW x \in S
  PROVE  <<x>> \in Seq(S)
OBVIOUS

\* Every character on its own: the text itself.
LEMMA OnesAre ==
  ASSUME NEW S, NEW s \in Seq(S)
  PROVE  FlattenSeq([i \in DOMAIN s |-> <<s[i]>>]) = s
<1>1. PICK n, F : n = Len(s) /\ F = [i \in DOMAIN s |-> <<s[i]>>]
  OBVIOUS
<1>2. n \in Nat /\ DOMAIN s = 1 .. n /\ s = [i \in 1 .. n |-> s[i]] /\ \A i \in 1 .. n : s[i] \in S
  BY <1>1
<1>3. Seqs(F, n, S) /\ \A i \in 1 .. n : F[i] = <<s[i]>>
  <2>1. \A i \in 1 .. n : <<s[i]>> \in Seq(S)
    BY <1>2, OneTyped
  <2>2. F = [i \in 1 .. n |-> <<s[i]>>]
    BY <1>1, <1>2
  <2> QED
    BY <1>2, <2>1, <2>2 DEF Seqs
<1>4. Beginnings(F, n, S)
  BY <1>3, PreIs
<1>7. FlattenSeq([i \in DOMAIN s |-> <<s[i]>>]) = Pre(F, n)
  <2>1. F = [i \in 1 .. n |-> F[i]]
    BY <1>1, <1>2
  <2> QED
    BY <1>1, <2>1, Zenon DEF Pre
<1> DEFINE Up(k) == [i \in 1 .. k |-> s[i]]
           Bad   == {k \in 0 .. n : Pre(F, k) # Up(k)}
<1>5. ASSUME Bad # {} PROVE FALSE
  <2>1. Bad \in SUBSET Nat
    BY <1>2
  <2> HIDE DEF Bad
  <2>2. PICK k \in Bad : \A y \in Bad : k <= y
    BY <1>5, <2>1, Least
  <2> USE DEF Bad
  <2>3. CASE k = 0
    <3>1. Pre(F, 0) = <<>>
      BY <1>4 DEF Beginnings
    <3>2. Up(0) = <<>>
      OBVIOUS
    <3> QED
      BY <2>2, <2>3, <3>1, <3>2
  <2>4. CASE k # 0
    <3>1. k \in 1 .. n /\ k - 1 \in 0 .. n /\ ~(k <= k - 1) /\ k \in Nat
      BY <1>2, <2>2, <2>4
    <3>2. Pre(F, k - 1) = Up(k - 1)
      BY <2>2, <3>1
    <3>3. Pre(F, k) = Pre(F, k - 1) \o F[k]
      BY <1>4, <3>1, Zenon DEF Beginnings
    <3>4. Up(k - 1) \o <<s[k]>> = Up(k)
      <4>1. \A i \in 1 .. k - 1 : s[i] \in S
        BY <1>2, <3>1
      <4>2. Up(k - 1) \in Seq(S) /\ Len(Up(k - 1)) = k - 1
        BY <3>1, <4>1, AnySeq
      <4>3. s[k] \in S
        BY <1>2, <3>1
      <4>4. Up(k - 1) \o <<s[k]>> = [i \in 1 .. k |-> IF i <= k - 1 THEN Up(k - 1)[i] ELSE s[k]]
        <5> PICK u, c : u = Up(k - 1) /\ c = s[k]
          OBVIOUS
        <5> HIDE DEF Up
        <5>1. u \in Seq(S) /\ Len(u) = k - 1 /\ c \in S
          BY <4>2, <4>3
        <5>2. u \o <<c>> = [i \in 1 .. k |-> IF i <= k - 1 THEN u[i] ELSE c]
          BY <3>1, <5>1
        <5> QED
          BY <5>2
      <4>5. \A i \in 1 .. k : (IF i <= k - 1 THEN Up(k - 1)[i] ELSE s[k]) = s[i]
        BY <3>1
      <4> QED
        BY <4>4, <4>5
    <3>5. Pre(F, k) = Up(k)
      BY <1>3, <3>1, <3>2, <3>3, <3>4
    <3> QED
      BY <2>2, <3>5
  <2> QED
    BY <2>3, <2>4
<1>6. Pre(F, n) = s
  <2>1. n \in 0 .. n
    BY <1>2
  <2>2. Pre(F, n) = Up(n)
    BY <1>5, <2>1
  <2> QED
    BY <1>2, <2>2
<1> QED
  BY <1>1, <1>6, <1>7

(***************************************************************************)
(* The text between two positions, without some of its characters.         *)
(***************************************************************************)
Typed(s)       == s \in Seq(Chars)
Span(s, p, a)  == p \in Nat /\ a \in Nat /\ p <= a /\ a <= Len(s)
Kept(s, D, p, a) == At(s, (p + 1 .. a) \ D)

\* What is kept of a stretch: its type, nothing of nothing, the halves, one character.
LEMMA KeptTyped ==
  ASSUME NEW s, NEW D, NEW p, NEW a, Typed(s)
  PROVE  Typed(Kept(s, D, p, a))
<1>1. PICK T : T = (p + 1 .. a) \ D
  OBVIOUS
<1>2. At(s, T) \in Seq(Chars)
  BY AtIn DEF Typed
<1> QED
  BY <1>1, <1>2 DEF Typed, Kept

LEMMA KeptNone ==
  ASSUME NEW s, NEW D, NEW p, Typed(s), Span(s, p, p)
  PROVE  Kept(s, D, p, p) = <<>>
<1>1. PICK T : T = (p + 1 .. p) \ D
  OBVIOUS
<1>2. T \cap (1 .. Len(s)) = {}
  BY <1>1 DEF Span
<1>3. At(s, T) = <<>>
  BY <1>2, AtNone DEF Typed
<1> QED
  BY <1>1, <1>3 DEF Kept

LEMMA KeptSplit ==
  ASSUME NEW s, NEW D, NEW p, NEW a, NEW b, Typed(s), Span(s, p, a), Span(s, a, b)
  PROVE  Kept(s, D, p, b) = Kept(s, D, p, a) \o Kept(s, D, a, b)
<1>1. PICK T, U : T = (p + 1 .. a) \ D /\ U = (a + 1 .. b) \ D
  OBVIOUS
<1>2. T \in SUBSET (1 .. a) /\ U \in SUBSET (a + 1 .. Len(s)) /\ a \in 0 .. Len(s)
  BY <1>1 DEF Span
<1>3. At(s, T \cup U) = At(s, T) \o At(s, U)
  <2>1. s \in Seq(Chars)
    BY DEF Typed
  <2> QED
    BY <1>2, <2>1, AtConcat, ZenonT(60)
<1>4. T \cup U = (p + 1 .. b) \ D
  BY <1>1 DEF Span
<1> QED
  BY <1>1, <1>3, <1>4, Zenon DEF Kept

Cut(s, p, a, b)       == Typed(s) /\ Span(s, p, a) /\ Span(s, a, b)
Halves(s, D, p, a, b) == Kept(s, D, p, b) = Kept(s, D, p, a) \o Kept(s, D, a, b)

LEMMA KeptCut ==
  ASSUME NEW s, NEW D, NEW p, NEW a, NEW b, Cut(s, p, a, b)
  PROVE  Halves(s, D, p, a, b)
<1>1. Typed(s) /\ Span(s, p, a) /\ Span(s, a, b)
  BY DEF Cut
<1>2. Kept(s, D, p, b) = Kept(s, D, p, a) \o Kept(s, D, a, b)
  BY <1>1, KeptSplit, SMTT(30)
<1> QED
  BY <1>2, Zenon DEF Halves

LEMMA KeptOne ==
  ASSUME NEW s, NEW D, NEW i, Typed(s), i \in 1 .. Len(s)
  PROVE  Kept(s, D, i - 1, i) = IF i \in D THEN <<>> ELSE <<s[i]>>
<1>1. PICK T : T = (i - 1 + 1 .. i) \ D
  OBVIOUS
<1>0. Len(s) \in Nat
  BY DEF Typed
<1>2. CASE i \in D
  <2>1. T \cap (1 .. Len(s)) = {}
    BY <1>0, <1>1, <1>2
  <2>2. At(s, T) = <<>>
    BY <2>1, AtNone DEF Typed
  <2> QED
    BY <1>1, <1>2, <2>2 DEF Kept
<1>3. CASE i \notin D
  <2>1. T = {i}
    BY <1>0, <1>1, <1>3
  <2>2. At(s, {i}) = <<s[i]>>
    BY AtOne DEF Typed
  <2> QED
    BY <1>1, <1>3, <2>1, <2>2 DEF Kept
<1> QED
  BY <1>2, <1>3

\* What is dropped outside of the span, or none of it, makes no difference.
LEMMA KeptSame ==
  ASSUME NEW s, NEW D, NEW E, NEW p, NEW a, (p + 1 .. a) \cap D = (p + 1 .. a) \cap E
  PROVE  Kept(s, D, p, a) = Kept(s, E, p, a)
<1>1. (p + 1 .. a) \ D = (p + 1 .. a) \ E
  OBVIOUS
<1> QED
  BY <1>1, Zenon DEF Kept

(***************************************************************************)
(* The last of some positions before another.                              *)
(***************************************************************************)
Before(S, j) == Max({0} \cup {i \in S : i < j})
IsBefore(p, S, j) == p \in {0} \cup S /\ p < j /\ \A i \in S : i < j => i <= p

\* The last element before a place is one, and the only one.
LEMMA BeforeIs ==
  ASSUME NEW S \in SUBSET Nat, NEW j \in Nat, j > 0
  PROVE  IsBefore(Before(S, j), S, j)
<1> DEFINE X == {0} \cup {i \in S : i < j}
           U == {u \in Nat : \A x \in X : x <= u}
<1>1. X \in SUBSET Nat /\ 0 \in X /\ \A x \in X : x <= j
  <2>1. 0 \in Nat /\ 0 <= j /\ \A i \in S : i \in Nat
    OBVIOUS
  <2>2. \A x \in X : x \in Nat /\ x <= j
    BY <2>1
  <2> QED
    BY <2>2
<1>2. U \in SUBSET Nat /\ j \in U
  BY <1>1
<1>3. PICK u \in U : \A y \in U : u <= y
  <2> HIDE DEF U
  <2> QED
    BY <1>2, Least
<1>4. u \in X
  <2>1. CASE u = 0
    BY <1>1, <2>1
  <2>2. CASE u # 0
    <3>1. u - 1 \in Nat /\ ~(u <= u - 1)
      BY <1>3, <2>2
    <3>2. u - 1 \notin U
      BY <1>3, <3>1
    <3>3. PICK x \in X : ~(x <= u - 1)
      BY <3>1, <3>2
    <3>4. x = u
      BY <1>1, <1>3, <3>3
    <3> QED
      BY <3>3, <3>4
  <2> QED
    BY <2>1, <2>2
<1>5. u \in X /\ \A y \in X : u >= y
  BY <1>1, <1>3, <1>4
<1>6. Max(X) \in X /\ \A y \in X : Max(X) >= y
  <2> HIDE DEF X
  <2> QED
    BY <1>5, Zenon DEF Max
<1>7. Before(S, j) = Max(X)
  BY DEF Before
<1> QED
  BY <1>6, <1>7 DEF IsBefore

LEMMA BeforeOnly ==
  ASSUME NEW S \in SUBSET Nat, NEW j \in Nat, NEW p, j > 0, IsBefore(p, S, j)
  PROVE  Before(S, j) = p
<1>1. PICK q : q = Before(S, j)
  OBVIOUS
<1>2. IsBefore(q, S, j)
  BY <1>1, BeforeIs
<1>3. p \in Nat /\ q \in Nat /\ p <= q /\ q <= p
  BY <1>2 DEF IsBefore
<1> QED
  BY <1>1, <1>3

(***************************************************************************)
(* Where a line is cut: at its lone semicolons and at its end.             *)
(***************************************************************************)
\* The first semicolon of every run.
Opens(s)  == {i \in DOMAIN s : IsSemi(s, i) /\ ~IsSemi(s, i - 1)}
Breaks(s) == {i \in DOMAIN s : Lone(s, i)} \cup {Len(s) + 1}
Raw(s, j) == Kept(s, Opens(s), Before(Breaks(s), j), j - 1)
Cuts(s)   == [j \in 1 .. Len(s) + 1 |-> IF j \in Breaks(s) THEN <<Raw(s, j)>> ELSE <<>>]

\* From one position that adds something to the next.
LEMMA PreNext ==
  ASSUME NEW F, NEW n, NEW M, NEW p, NEW q, Seqs(F, n, M), Within(p, q - 1, n),
         Within(q, n, n), q # 0, Blank(F, p, q - 1)
  PROVE  Pre(F, q) = Pre(F, p) \o F[q]
<1>1. Beginnings(F, n, M)
  BY PreIs
<1>2. Pre(F, q) = Pre(F, q - 1) \o F[q]
  <2>1. q \in 1 .. n
    BY DEF Within, Seqs
  <2> QED
    BY <1>1, <2>1 DEF Beginnings
<1>3. Pre(F, q - 1) = Pre(F, p)
  <2>1. PICK b : b = q - 1
    OBVIOUS
  <2>2. Pre(F, b) = Pre(F, p)
    BY <2>1, PreSkips
  <2> QED
    BY <2>1, <2>2
<1> QED
  BY <1>2, <1>3

\* The places where a piece ends: lone semicolons, and the end.
LEMMA BreaksAre ==
  ASSUME NEW s, Typed(s)
  PROVE  /\ Len(s) \in Nat /\ Breaks(s) \in SUBSET (1 .. Len(s) + 1) /\ Breaks(s) \in SUBSET Nat
         /\ Len(s) + 1 \in Breaks(s)
         /\ \A i \in 1 .. Len(s) : i \in Breaks(s) <=> Lone(s, i)
<1>1. Len(s) \in Nat /\ DOMAIN s = 1 .. Len(s)
  BY DEF Typed
<1>2. Breaks(s) \in SUBSET (1 .. Len(s) + 1)
  BY <1>1 DEF Breaks
<1>3. \A i \in 1 .. Len(s) : i # Len(s) + 1
  BY <1>1
<1>4. \A i \in 1 .. Len(s) + 1 : i \in Nat
  BY <1>1
<1> QED
  BY <1>1, <1>2, <1>3, <1>4 DEF Breaks

\* The pieces, one for each such place.
LEMMA CutsAre ==
  ASSUME NEW s, Typed(s)
  PROVE  /\ Seqs(Cuts(s), Len(s) + 1, Seq(Chars))
         /\ Beginnings(Cuts(s), Len(s) + 1, Seq(Chars))
         /\ FlattenSeq(Cuts(s)) = Pre(Cuts(s), Len(s) + 1)
         /\ \A j \in 1 .. Len(s) + 1 :
              Cuts(s)[j] = IF j \in Breaks(s) THEN <<Raw(s, j)>> ELSE <<>>
<1>1. PICK n, F : n = Len(s) + 1 /\ F = Cuts(s)
  OBVIOUS
<1>2. n \in Nat /\ \A j \in 1 .. n : F[j] = IF j \in Breaks(s) THEN <<Raw(s, j)>> ELSE <<>>
  <2>1. Len(s) \in Nat
    BY DEF Typed
  <2> QED
    BY <1>1, <2>1 DEF Cuts
<1>3. \A j \in 1 .. n : F[j] \in Seq(Seq(Chars))
  <2> TAKE j \in 1 .. n
  <2>1. Raw(s, j) \in Seq(Chars)
    BY KeptTyped DEF Raw, Typed
  <2> PICK x : x = Raw(s, j)
    OBVIOUS
  <2>2. <<x>> \in Seq(Seq(Chars)) /\ <<>> \in Seq(Seq(Chars))
    BY <2>1
  <2> QED
    BY <1>2, <2>2
<1>4. F = [j \in 1 .. n |-> F[j]]
  BY <1>1 DEF Cuts
<1>5. Seqs(F, n, Seq(Chars))
  BY <1>2, <1>3, <1>4 DEF Seqs
<1>6. Beginnings(F, n, Seq(Chars))
  BY <1>5, PreIs
<1>7. FlattenSeq(F) = Pre(F, n)
  BY <1>4, Zenon DEF Pre
<1> QED
  BY <1>1, <1>2, <1>5, <1>6, <1>7

\* Up to a break there is one piece more than up to the break before it.
LEMMA CutsStep ==
  ASSUME NEW s, Typed(s), NEW q \in Breaks(s)
  PROVE  /\ Before(Breaks(s), q) \in {0} \cup Breaks(s) /\ Before(Breaks(s), q) < q
         /\ Pre(Cuts(s), Before(Breaks(s), q)) \in Seq(Seq(Chars))
         /\ Pre(Cuts(s), q) = Pre(Cuts(s), Before(Breaks(s), q)) \o <<Raw(s, q)>>
<1>1. PICK p, n, F : p = Before(Breaks(s), q) /\ n = Len(s) + 1 /\ F = Cuts(s)
  OBVIOUS
<1>2. n \in Nat /\ q \in 1 .. n /\ Breaks(s) \in SUBSET Nat /\ Breaks(s) \in SUBSET (1 .. n)
  BY <1>1, BreaksAre
<1>3. IsBefore(p, Breaks(s), q)
  <2>1. q \in Nat /\ q > 0
    BY <1>2
  <2> QED
    BY <1>1, <1>2, <2>1, BeforeIs
<1>4. p \in Nat /\ p \in 0 .. n /\ p < q /\ p \in {0} \cup Breaks(s)
  BY <1>2, <1>3 DEF IsBefore
<1>5. \A j \in 1 .. n : F[j] = IF j \in Breaks(s) THEN <<Raw(s, j)>> ELSE <<>>
  BY <1>1, CutsAre
<1>6. Blank(F, p, q - 1)
  <2>1. ASSUME NEW i \in p + 1 .. q - 1 PROVE F[i] = <<>>
    <3>1. i \in 1 .. n /\ i \in Nat /\ i < q /\ ~(i <= p)
      BY <1>2, <1>4
    <3>2. i \notin Breaks(s)
      BY <1>3, <3>1 DEF IsBefore
    <3> QED
      BY <1>5, <3>1, <3>2
  <2> QED
    BY <2>1 DEF Blank
<1>7. Within(p, q - 1, n)
  BY <1>2, <1>4 DEF Within
<1>8. Seqs(F, n, Seq(Chars)) /\ Beginnings(F, n, Seq(Chars))
  BY <1>1, CutsAre
<1>9. Pre(F, q) = Pre(F, p) \o F[q]
  <2>1. Within(q, n, n) /\ q # 0
    BY <1>2 DEF Within
  <2> QED
    BY <1>6, <1>7, <1>8, <2>1, PreNext
<1>10. Pre(F, p) \in Seq(Seq(Chars))
  BY <1>4, <1>8 DEF Beginnings
<1>11. F[q] = <<Raw(s, q)>>
  BY <1>2, <1>5
<1> QED
  BY <1>1, <1>4, <1>9, <1>10, <1>11

(***************************************************************************)
(* splitSemicolonSafe() cuts a line at its breaks.                         *)
(***************************************************************************)
Lists == Seq(Seq(Chars))

\* All but the last, and the last.
LEMMA FrontIs ==
  ASSUME NEW M, NEW s \in Seq(M), s # <<>>
  PROVE  /\ Front(s) \in Seq(M) /\ Len(s) \in Nat \ {0} /\ Len(Front(s)) = Len(s) - 1
         /\ \A i \in 1 .. Len(s) - 1 : Front(s)[i] = s[i]
         /\ Last(s) = s[Len(s)] /\ Last(s) \in M
<1>1. Len(s) \in Nat \ {0}
  OBVIOUS
<1> PICK n : n = Len(s) - 1
  OBVIOUS
<1>2. 1 \in Int /\ n \in Int /\ \A i \in 1 .. n : s[i] \in M
  BY <1>1
<1>3. /\ SubSeq(s, 1, n) \in Seq(M)
      /\ Len(SubSeq(s, 1, n)) = IF 1 <= n THEN n - 1 + 1 ELSE 0
      /\ \A i \in 1 .. n - 1 + 1 : SubSeq(s, 1, n)[i] = s[1 + i - 1]
  BY <1>2, SubSeqProperties
<1>4. Front(s) = SubSeq(s, 1, n)
  BY Zenon DEF Front
<1>5. n - 1 + 1 = n /\ n \in Nat /\ \A i \in 1 .. n : 1 + i - 1 = i
  BY <1>1
<1>6. Len(Front(s)) = n /\ \A i \in 1 .. n : Front(s)[i] = s[i]
  <2> PICK f : f = SubSeq(s, 1, n)
    OBVIOUS
  <2>1. Len(f) = n /\ \A i \in 1 .. n : f[i] = s[i]
    BY <1>3, <1>5
  <2> QED
    BY <1>4, <2>1
<1>7. Last(s) = s[Len(s)] /\ s[Len(s)] \in M
  BY <1>1 DEF Last
<1> QED
  BY <1>1, <1>3, <1>4, <1>6, <1>7

LEMMA AppendTyped ==
  ASSUME NEW S, NEW l \in Seq(S), NEW e \in S
  PROVE  Append(l, e) \in Seq(S) /\ Append(l, e) # <<>>
<1>1. Append(l, e) \in Seq(S) /\ Len(Append(l, e)) = Len(l) + 1 /\ Len(l) \in Nat
  OBVIOUS
<1>2. Len(<<>>) = 0
  OBVIOUS
<1> QED
  BY <1>1, <1>2

\* Extending the last of a list.
LEMMA ExtendIs ==
  ASSUME NEW l, NEW e, NEW x, l \in Lists, Typed(e), Typed(x)
  PROVE  /\ Extend(Append(l, e), x) = Append(l, e \o x)
         /\ Append(l, e) # <<>> /\ Append(l, e) \in Lists
         /\ Typed(e \o x)
<1> USE DEF Typed
<1>0. l \in Seq(Seq(Chars))
  BY DEF Lists
<1>3. Append(l, e) # <<>> /\ Append(l, e) \in Seq(Seq(Chars)) /\ e \o x \in Seq(Chars)
  <2>1. e \o x \in Seq(Chars)
    OBVIOUS
  <2> PICK S : S = Seq(Chars)
    OBVIOUS
  <2>2. l \in Seq(S) /\ e \in S
    BY <1>0
  <2>3. Append(l, e) \in Seq(S) /\ Append(l, e) # <<>>
    BY <2>2, AppendTyped
  <2> QED
    BY <2>1, <2>3
<1>4. /\ Len(Append(l, e)) = Len(l) + 1 /\ Len(l) \in Nat /\ Append(l, e)[Len(l) + 1] = e
      /\ \A i \in 1 .. Len(l) : Append(l, e)[i] = l[i]
  BY <1>0
<1>5. PICK a : a = Append(l, e)
  OBVIOUS
<1>6. /\ Front(a) \in Seq(Seq(Chars)) /\ Len(Front(a)) = Len(a) - 1
      /\ \A i \in 1 .. Len(a) - 1 : Front(a)[i] = a[i]
      /\ Last(a) = a[Len(a)]
  <2>1. a \in Seq(Seq(Chars)) /\ a # <<>>
    BY <1>3, <1>5
  <2> QED
    BY <2>1, FrontIs
<1>1. Front(a) = l
  <2>1. Len(Front(a)) = Len(l) /\ \A i \in 1 .. Len(l) : Front(a)[i] = l[i]
    BY <1>4, <1>5, <1>6
  <2> PICK f : f = Front(a)
    OBVIOUS
  <2>2. f = [i \in 1 .. Len(f) |-> f[i]] /\ l = [i \in 1 .. Len(l) |-> l[i]]
    BY <1>0, <1>6
  <2> QED
    BY <2>1, <2>2, Zenon
<1>2. Last(a) = e
  BY <1>4, <1>5, <1>6
<1> QED
  BY <1>1, <1>2, <1>3, <1>5 DEF Extend, Lists

\* The pieces that end before position j, and what comes after them up to n.
To(s, j, n) ==
  Append(Pre(Cuts(s), Before(Breaks(s), j)), Kept(s, Opens(s), Before(Breaks(s), j), n))
NoBreak(s, j, k) == \A i \in j .. k - 1 : i \notin Breaks(s)

\* The place where the piece that is read began.
LEMMA ToTyped ==
  ASSUME NEW s, NEW j, Typed(s), j \in 1 .. Len(s) + 1
  PROVE  /\ IsBefore(Before(Breaks(s), j), Breaks(s), j)
         /\ Before(Breaks(s), j) \in Nat /\ Before(Breaks(s), j) < j
         /\ Pre(Cuts(s), Before(Breaks(s), j)) \in Lists
<1>1. /\ Len(s) \in Nat /\ Breaks(s) \in SUBSET Nat /\ Breaks(s) \in SUBSET (1 .. Len(s) + 1)
  BY BreaksAre
<1>2. j \in Nat /\ j > 0
  BY <1>1
<1>3. PICK p : p = Before(Breaks(s), j)
  OBVIOUS
<1>4. IsBefore(p, Breaks(s), j)
  BY <1>1, <1>2, <1>3, BeforeIs
<1>5. p \in 0 .. Len(s) + 1 /\ p < j
  BY <1>1, <1>4 DEF IsBefore
<1>6. Beginnings(Cuts(s), Len(s) + 1, Seq(Chars))
  BY CutsAre
<1>7. Pre(Cuts(s), p) \in Seq(Seq(Chars))
  BY <1>5, <1>6, Zenon DEF Beginnings
<1> QED
  BY <1>3, <1>4, <1>5, <1>7 DEF Lists

\* Without a break between them the same piece goes on.
LEMMA ToGrows ==
  ASSUME NEW s, NEW j, NEW k, NEW n, NEW m, Typed(s),
         j \in 1 .. Len(s) + 1, k \in j .. Len(s) + 1, NoBreak(s, j, k),
         Span(s, j, n) \/ (j - 1 = n /\ Span(s, n, n)), Span(s, n, m)
  PROVE  To(s, k, m) = Extend(To(s, j, n), Kept(s, Opens(s), n, m)) /\ To(s, j, n) # <<>>
<1>1. /\ Len(s) \in Nat /\ Breaks(s) \in SUBSET Nat /\ j \in Nat /\ k \in Nat /\ k > 0 /\ j > 0
  BY BreaksAre
<1>2. PICK p, D : p = Before(Breaks(s), j) /\ D = Opens(s)
  OBVIOUS
<1>3. IsBefore(p, Breaks(s), j) /\ p \in Nat /\ p < j /\ Pre(Cuts(s), p) \in Lists
  BY <1>2, ToTyped
<1>4. IsBefore(p, Breaks(s), k)
  <2>1. \A i \in Breaks(s) : i < k => i <= p
    <3> TAKE i \in Breaks(s)
    <3>1. i \in Nat
      BY <1>1
    <3>2. CASE i < j
      BY <1>3, <3>2 DEF IsBefore
    <3>3. CASE ~(i < j) /\ i < k
      <4>1. i \in j .. k - 1
        BY <1>1, <3>1, <3>3
      <4> QED
        BY <4>1 DEF NoBreak
    <3> QED
      BY <3>2, <3>3
  <2>2. p < k /\ p \in {0} \cup Breaks(s)
    BY <1>1, <1>3 DEF IsBefore
  <2> QED
    BY <2>1, <2>2 DEF IsBefore
<1>5. Before(Breaks(s), k) = p
  BY <1>1, <1>4, BeforeOnly
<1>6. Span(s, p, n)
  BY <1>1, <1>3 DEF Span
<1>7. Kept(s, D, p, m) = Kept(s, D, p, n) \o Kept(s, D, n, m)
  <2>1. Cut(s, p, n, m)
    BY <1>6 DEF Cut
  <2>2. Halves(s, D, p, n, m)
    BY <2>1, KeptCut
  <2> QED
    BY <2>2, Zenon DEF Halves
<1>8. PICK l, e, x : l = Pre(Cuts(s), p) /\ e = Kept(s, D, p, n) /\ x = Kept(s, D, n, m)
  OBVIOUS
<1>9. l \in Lists /\ Typed(e) /\ Typed(x)
  BY <1>3, <1>8, KeptTyped
<1>10. Extend(Append(l, e), x) = Append(l, e \o x) /\ Append(l, e) # <<>>
  BY <1>9, ExtendIs
<1>11. To(s, k, m) = Append(l, e \o x)
  BY <1>2, <1>5, <1>7, <1>8, Zenon DEF To
<1>12. To(s, j, n) = Append(l, e)
  BY <1>2, <1>8, Zenon DEF To
<1> QED
  BY <1>2, <1>8, <1>10, <1>11, <1>12

\* Behind a break there is a new piece.
LEMMA ToNext ==
  ASSUME NEW s, NEW j, NEW k, NEW m, Typed(s), j \in 1 .. Len(s), j \in Breaks(s),
         k \in j + 1 .. Len(s) + 1, NoBreak(s, j + 1, k), Span(s, j, m)
  PROVE  To(s, k, m) = Append(To(s, j, j), Kept(s, Opens(s), j, m))
<1>1. /\ Len(s) \in Nat /\ Breaks(s) \in SUBSET Nat /\ j \in Nat /\ k \in Nat /\ k > 0 /\ j > 0
      /\ Lone(s, j)
  BY BreaksAre
<1>2. PICK p, D : p = Before(Breaks(s), j) /\ D = Opens(s)
  OBVIOUS
<1>3. IsBefore(p, Breaks(s), j) /\ p \in Nat /\ p < j
  <2>1. j \in 1 .. Len(s) + 1
    BY <1>1
  <2> QED
    BY <1>2, <2>1, ToTyped
<1>4. IsBefore(j, Breaks(s), k)
  <2>1. \A i \in Breaks(s) : i < k => i <= j
    <3> TAKE i \in Breaks(s)
    <3>1. i \in Nat
      BY <1>1
    <3>3. CASE ~(i <= j) /\ i < k
      <4>1. i \in j + 1 .. k - 1
        BY <1>1, <3>1, <3>3
      <4> QED
        BY <4>1 DEF NoBreak
    <3> QED
      BY <3>3
  <2>2. j < k /\ j \in {0} \cup Breaks(s)
    BY <1>1
  <2> QED
    BY <2>1, <2>2 DEF IsBefore
<1>5. Before(Breaks(s), k) = j
  BY <1>1, <1>4, BeforeOnly
<1>6. Pre(Cuts(s), j) = Pre(Cuts(s), p) \o <<Raw(s, j)>> /\ Pre(Cuts(s), p) \in Seq(Seq(Chars))
  BY <1>2, CutsStep
<1>7. Raw(s, j) = Kept(s, D, p, j)
  <2>1. j \in D
    BY <1>1, <1>2 DEF Lone, Opens, IsSemi
  <2>2. (p + 1 .. j - 1) \ D = (p + 1 .. j) \ D
    BY <1>1, <1>3, <2>1
  <2> QED
    BY <1>2, <2>2, Zenon DEF Raw, Kept
<1>8. PICK l, e : l = Pre(Cuts(s), p) /\ e = Kept(s, D, p, j)
  OBVIOUS
<1>9. l \in Seq(Seq(Chars)) /\ e \in Seq(Chars)
  BY <1>6, <1>8, KeptTyped DEF Typed
<1>10. l \o <<e>> = Append(l, e)
  BY <1>9
<1>11. Pre(Cuts(s), j) = Append(l, e)
  BY <1>6, <1>7, <1>8, <1>10
<1>12. To(s, j, j) = Append(l, e)
  BY <1>2, <1>8, Zenon DEF To
<1>13. To(s, k, m) = Append(Pre(Cuts(s), j), Kept(s, D, j, m))
  BY <1>2, <1>5, Zenon DEF To
<1> QED
  BY <1>2, <1>11, <1>12, <1>13

\* Before the first lone semicolon there is one piece.
LEMMA ToFirst ==
  ASSUME NEW s, NEW k, NEW m, Typed(s), k \in 1 .. Len(s) + 1, NoBreak(s, 1, k)
  PROVE  To(s, k, m) = <<Kept(s, Opens(s), 0, m)>>
<1>1. /\ Len(s) \in Nat /\ Breaks(s) \in SUBSET Nat /\ Breaks(s) \in SUBSET (1 .. Len(s) + 1)
      /\ k \in Nat /\ k > 0
  BY BreaksAre
<1>2. IsBefore(0, Breaks(s), k)
  <2>1. \A i \in Breaks(s) : ~(i < k)
    <3> TAKE i \in Breaks(s)
    <3>1. i \in Nat /\ i >= 1
      BY <1>1
    <3>2. i < k => i \in 1 .. k - 1
      BY <1>1, <3>1
    <3> QED
      BY <3>2 DEF NoBreak
  <2> QED
    BY <1>1, <2>1 DEF IsBefore
<1>3. Before(Breaks(s), k) = 0
  BY <1>1, <1>2, BeforeOnly
<1>4. Pre(Cuts(s), 0) = <<>>
  BY CutsAre DEF Beginnings
<1>5. PICK x : x = Kept(s, Opens(s), 0, m)
  OBVIOUS
<1>6. To(s, k, m) = Append(<<>>, x)
  BY <1>3, <1>4, <1>5, Zenon DEF To
<1>7. Append(<<>>, x) = <<x>>
  OBVIOUS
<1> QED
  BY <1>5, <1>6, <1>7

\* At the end of the line: all pieces.
LEMMA ToAll ==
  ASSUME NEW s, Typed(s)
  PROVE  To(s, Len(s) + 1, Len(s)) = FlattenSeq(Cuts(s))
<1>1. PICK q, n : q = Len(s) + 1 /\ n = Len(s)
  OBVIOUS
<1>2. q \in Breaks(s) /\ q - 1 = n
  BY <1>1, BreaksAre
<1>3. PICK p : p = Before(Breaks(s), q)
  OBVIOUS
<1>4. Pre(Cuts(s), q) = Pre(Cuts(s), p) \o <<Raw(s, q)>> /\ Pre(Cuts(s), p) \in Seq(Seq(Chars))
  BY <1>2, <1>3, CutsStep
<1>5. PICK l, e : l = Pre(Cuts(s), p) /\ e = Raw(s, q)
  OBVIOUS
<1>6. l \in Seq(Seq(Chars)) /\ e \in Seq(Chars)
  BY <1>4, <1>5, KeptTyped DEF Typed, Raw
<1>7. l \o <<e>> = Append(l, e)
  BY <1>6
<1>8. e = Kept(s, Opens(s), p, n)
  BY <1>2, <1>3, <1>5 DEF Raw
<1>9. To(s, q, n) = Append(l, e)
  BY <1>3, <1>5, <1>8, Zenon DEF To
<1>10. FlattenSeq(Cuts(s)) = Pre(Cuts(s), q)
  BY <1>1, CutsAre
<1> QED
  BY <1>1, <1>4, <1>5, <1>7, <1>9, <1>10

\* What splitSemicolonSafe() keeps between two rounds.
R(l, p, ap, fs) == [list |-> l, part |-> p, append |-> ap, firstSemi |-> fs]

\* The cases of a semicolon: first of the text, second, literal, and the end of a piece.
LEMMA ScanFirst ==
  ASSUME NEW ap
  PROVE  Scan(R(<<>>, <<>>, ap, TRUE), ";") = R(<<>>, <<>>, TRUE, FALSE)
  BY DEF Scan, R, Literal

LEMMA ScanSecond ==
  ASSUME NEW ap
  PROVE  Scan(R(<<>>, <<>>, ap, FALSE), ";") = R(<< <<";">> >>, <<>>, TRUE, FALSE)
  BY DEF Scan, R, Literal

LEMMA ScanLiteral ==
  ASSUME NEW l, NEW ap, NEW fs \in BOOLEAN, l # <<>>
  PROVE  Scan(R(l, <<>>, ap, fs), ";") = R(Extend(l, <<";">>), <<>>, TRUE, fs)
<1> PICK x : x = Extend(l, <<";">>)
  OBVIOUS
<1> QED
  BY DEF Scan, R, Literal

LEMMA ScanCommand ==
  ASSUME NEW l, NEW p, NEW fs, p # <<>>
  PROVE  Scan(R(l, p, FALSE, fs), ";") = R(Append(l, p), <<>>, FALSE, fs)
  BY DEF Scan, R, Separate

LEMMA ScanMore ==
  ASSUME NEW l, NEW p, NEW fs, p # <<>>, l # <<>>
  PROVE  Scan(R(l, p, TRUE, fs), ";") = R(Extend(l, p), <<>>, FALSE, fs)
  BY DEF Scan, R, Separate

\* After n characters, of which the last semicolon is at a.
Scanned(s, n, r, a) ==
  /\ a \in 0 .. n /\ (a = 0 \/ IsSemi(s, a)) /\ \A i \in a + 1 .. n : ~IsSemi(s, i)
  /\ a = 0 => r = R(<<>>, Kept(s, Opens(s), a, n), FALSE, TRUE)
  /\ a = 1 => r = R(<<>>, Kept(s, Opens(s), a, n), TRUE, FALSE)
  /\ a > 1 => \E ap, fs \in BOOLEAN : /\ r = R(To(s, a, a), Kept(s, Opens(s), a, n), ap, fs)
                                      /\ ap <=> IsSemi(s, a - 1)

\* A character that is not a semicolon goes to the piece that is read.
LEMMA ScanWord ==
  ASSUME NEW s, NEW n, NEW r, NEW a, Typed(s), n \in 0 .. Len(s) - 1, ~IsSemi(s, n + 1),
         Scanned(s, n, r, a)
  PROVE  Scanned(s, n + 1, Scan(r, s[n + 1]), a)
<1>1. PICK i, c, O : i = n + 1 /\ c = s[n + 1] /\ O = Opens(s)
  OBVIOUS
<1>2. Len(s) \in Nat /\ i \in 1 .. Len(s) /\ n \in Nat /\ n = i - 1 /\ DOMAIN s = 1 .. Len(s)
  BY <1>1 DEF Typed
<1>3. c # ";" /\ c = s[i] /\ i \notin O
  BY <1>1, <1>2 DEF IsSemi, Opens
<1>4. a \in 0 .. n /\ a \in Nat
  BY <1>2 DEF Scanned
<1>5. Kept(s, O, a, i) = Append(Kept(s, O, a, n), c)
  <2>1. Span(s, a, n) /\ Span(s, n, i)
    BY <1>2, <1>4 DEF Span
  <2>2. Kept(s, O, a, i) = Kept(s, O, a, n) \o Kept(s, O, n, i)
    <3>1. Cut(s, a, n, i)
      BY <2>1 DEF Cut
    <3>2. Halves(s, O, a, n, i)
      BY <3>1, KeptCut
    <3> QED
      BY <3>2, Zenon DEF Halves
  <2>3. Kept(s, O, n, i) = <<c>>
    BY <1>2, <1>3, KeptOne
  <2>4. PICK k : k = Kept(s, O, a, n)
    OBVIOUS
  <2>5. k \in Seq(Chars) /\ c \in Chars
    <3>1. k \in Seq(Chars)
      BY <2>4, KeptTyped DEF Typed
    <3>2. c \in Chars
      <4>1. s[i] \in Chars
        BY <1>2 DEF Typed
      <4> QED
        BY <1>3, <4>1
    <3> QED
      BY <3>1, <3>2
  <2>6. k \o <<c>> = Append(k, c)
    BY <2>5
  <2> QED
    BY <2>2, <2>3, <2>4, <2>6
<1>6. a \in 0 .. i /\ (a = 0 \/ IsSemi(s, a)) /\ \A j \in a + 1 .. i : ~IsSemi(s, j)
  <2>1. \A j \in a + 1 .. i : j = i \/ j \in a + 1 .. n
    BY <1>2, <1>4
  <2>2. ~IsSemi(s, i)
    BY <1>1
  <2>3. (a = 0 \/ IsSemi(s, a)) /\ \A j \in a + 1 .. n : ~IsSemi(s, j)
    BY DEF Scanned
  <2> QED
    BY <1>2, <1>4, <2>1, <2>2, <2>3
<1>10. PICK k, kk : k = Kept(s, O, a, n) /\ kk = Kept(s, O, a, i)
  OBVIOUS
<1>11. kk = Append(k, c)
  BY <1>5, <1>10
<1>12. \A l, ap, fs : Scan(R(l, k, ap, fs), c) = R(l, kk, ap, fs)
  <2>1. c # ";"
    BY <1>3
  <2>2. ASSUME NEW l, NEW ap, NEW fs PROVE Scan(R(l, k, ap, fs), c) = R(l, Append(k, c), ap, fs)
    BY <2>1 DEF Scan, R
  <2> QED
    BY <1>11, <2>2, Zenon
<1>7. CASE a = 0
  <2>1. r = R(<<>>, k, FALSE, TRUE)
    BY <1>1, <1>7, <1>10, Zenon DEF Scanned
  <2>2. Scan(r, c) = R(<<>>, kk, FALSE, TRUE)
    BY <1>12, <2>1, Zenon
  <2> QED
    BY <1>1, <1>6, <1>7, <1>10, <2>2 DEF Scanned
<1>8. CASE a = 1
  <2>1. r = R(<<>>, k, TRUE, FALSE)
    BY <1>1, <1>8, <1>10, Zenon DEF Scanned
  <2>2. Scan(r, c) = R(<<>>, kk, TRUE, FALSE)
    BY <1>12, <2>1, Zenon
  <2> QED
    BY <1>1, <1>6, <1>8, <1>10, <2>2 DEF Scanned
<1>9. CASE a > 1
  <2>1. PICK ap \in BOOLEAN, fs \in BOOLEAN :
          r = R(To(s, a, a), k, ap, fs) /\ (ap <=> IsSemi(s, a - 1))
    BY <1>1, <1>9, <1>10, Zenon DEF Scanned
  <2>2. Scan(r, c) = R(To(s, a, a), kk, ap, fs)
    BY <1>12, <2>1, Zenon
  <2>3. a # 0 /\ a # 1
    BY <1>9
  <2> QED
    BY <1>1, <1>6, <1>10, <2>1, <2>2, <2>3, Zenon DEF Scanned
<1> QED
  BY <1>4, <1>7, <1>8, <1>9

\* A semicolon behind another one.
LEMMA ScanAgain ==
  ASSUME NEW s, NEW n, NEW r, Typed(s), ~Lone(s, 1), n \in 0 .. Len(s) - 1, IsSemi(s, n + 1),
         Scanned(s, n, r, n)
  PROVE  Scanned(s, n + 1, Scan(r, ";"), n + 1)
<1>1. PICK i, O : i = n + 1 /\ O = Opens(s)
  OBVIOUS
<1>2. Len(s) \in Nat /\ i \in 1 .. Len(s) /\ n \in Nat /\ n = i - 1 /\ DOMAIN s = 1 .. Len(s)
  BY <1>1 DEF Typed
<1>3. Kept(s, O, n, n) = <<>> /\ Kept(s, O, i, i) = <<>>
  BY <1>2, KeptNone DEF Span
<1>4. s[i] = ";" /\ IsSemi(s, i) /\ (n # 0 => IsSemi(s, n))
  BY <1>1 DEF IsSemi, Scanned
<1>5. i \in 0 .. i /\ \A j \in i + 1 .. i : ~IsSemi(s, j)
  BY <1>2
<1>6. CASE n = 0
  <2>1. r = R(<<>>, <<>>, FALSE, TRUE)
    <3>1. r = R(<<>>, Kept(s, O, n, n), FALSE, TRUE)
      BY <1>1, <1>6, Zenon DEF Scanned
    <3> QED
      BY <1>3, <3>1
  <2>2. Scan(r, ";") = R(<<>>, <<>>, TRUE, FALSE)
    BY <2>1, ScanFirst
  <2>3. i = 1 /\ i # 0 /\ ~(i > 1)
    BY <1>1, <1>6
  <2>4. Scan(r, ";") = R(<<>>, Kept(s, O, i, i), TRUE, FALSE)
    BY <1>3, <2>2
  <2> QED
    BY <1>1, <1>4, <1>5, <2>3, <2>4, Zenon DEF Scanned
<1>7. CASE n = 1
  <2>1. r = R(<<>>, <<>>, TRUE, FALSE)
    <3>1. r = R(<<>>, Kept(s, O, n, n), TRUE, FALSE)
      BY <1>1, <1>7, Zenon DEF Scanned
    <3> QED
      BY <1>3, <3>1
  <2>2. Scan(r, ";") = R(<< <<";">> >>, <<>>, TRUE, FALSE)
    BY <2>1, ScanSecond
  <2>3. i = 2 /\ 1 \in DOMAIN s /\ ~IsSemi(s, 0) /\ IsSemi(s, 1) /\ IsSemi(s, 2)
    <3>1. i = 2 /\ 1 \in DOMAIN s /\ 0 \notin DOMAIN s
      BY <1>1, <1>2, <1>7
    <3> QED
      BY <1>4, <1>7, <3>1 DEF IsSemi
  <2>4. 1 \in O /\ 2 \notin O
    BY <1>1, <2>3 DEF Opens
  <2>5. Kept(s, O, 0, 2) = <<";">>
    <3>1. Kept(s, O, 0, 1) = <<>> /\ Kept(s, O, 1, 2) = <<s[2]>>
      <4>1. 1 \in 1 .. Len(s) /\ 2 \in 1 .. Len(s) /\ 1 - 1 = 0 /\ 2 - 1 = 1
        BY <1>2, <2>3
      <4>2. Kept(s, O, 1 - 1, 1) = <<>>
        BY <2>4, <4>1, KeptOne
      <4>3. Kept(s, O, 2 - 1, 2) = <<s[2]>>
        BY <2>4, <4>1, KeptOne
      <4> QED
        BY <4>1, <4>2, <4>3
    <3>2. Span(s, 0, 1) /\ Span(s, 1, 2)
      BY <1>2, <2>3 DEF Span
    <3>3. Kept(s, O, 0, 2) = <<>> \o <<s[2]>>
      BY <3>1, <3>2, KeptSplit
    <3>4. <<>> \o <<s[2]>> = <<s[2]>>
      OBVIOUS
    <3> QED
      BY <1>4, <2>3, <3>3, <3>4
  <2>6. To(s, 2, 2) = << <<";">> >>
    <3>1. NoBreak(s, 1, 2)
      <4>1. 1 \notin Breaks(s) /\ \A j \in 1 .. 2 - 1 : j = 1
        BY <1>2, <2>3, BreaksAre
      <4> QED
        BY <4>1 DEF NoBreak
    <3>2. 2 \in 1 .. Len(s) + 1
      BY <1>2, <2>3
    <3>3. To(s, 2, 2) = <<Kept(s, O, 0, 2)>>
      BY <1>1, <3>1, <3>2, ToFirst
    <3> QED
      BY <2>5, <3>3
  <2>7. Scan(r, ";") = R(To(s, i, i), Kept(s, O, i, i), TRUE, FALSE)
    BY <1>3, <2>2, <2>3, <2>6
  <2>8. i - 1 = 1 /\ i # 0 /\ i # 1
    BY <2>3
  <2>9. IsSemi(s, i - 1)
    BY <2>3, <2>8
  <2> QED
    BY <1>1, <1>4, <1>5, <2>7, <2>8, <2>9, Zenon DEF Scanned
<1>8. CASE n > 1
  <2>1. PICK ap \in BOOLEAN, fs \in BOOLEAN : r = R(To(s, n, n), Kept(s, O, n, n), ap, fs)
    BY <1>1, <1>8, Zenon DEF Scanned
  <2>2. PICK l : l = To(s, n, n)
    OBVIOUS
  <2>3. r = R(l, <<>>, ap, fs)
    BY <1>3, <2>1, <2>2
  <2>4. n \notin Breaks(s)
    <3>1. ~Lone(s, n) /\ n \in 1 .. Len(s)
      BY <1>1, <1>2, <1>8 DEF Lone
    <3> QED
      BY <3>1, BreaksAre
  <2>5. Kept(s, O, n, i) = <<";">>
    <3>1. i \notin O
      <4>2. n = i - 1 /\ n # 0
        BY <1>2, <1>8
      <4>1. IsSemi(s, i - 1)
        BY <1>4, <4>2, Zenon
      <4> QED
        BY <1>1, <4>1 DEF Opens
    <3>2. Kept(s, O, i - 1, i) = <<s[i]>>
      BY <1>2, <3>1, KeptOne
    <3> QED
      BY <1>2, <1>4, <3>2
  <2>6. To(s, i, i) = Extend(l, <<";">>) /\ l # <<>>
    <3>1. NoBreak(s, n, i)
      <4>1. \A j \in n .. i - 1 : j = n
        BY <1>2
      <4> QED
        BY <2>4, <4>1 DEF NoBreak
    <3>2. Span(s, n, n) /\ Span(s, n, i) /\ n \in 1 .. Len(s) + 1 /\ i \in n .. Len(s) + 1
      BY <1>2, <1>8 DEF Span
    <3>3. To(s, i, i) = Extend(To(s, n, n), Kept(s, O, n, i)) /\ To(s, n, n) # <<>>
      BY <1>1, <3>1, <3>2, ToGrows
    <3> QED
      BY <2>2, <2>5, <3>3
  <2>7. Scan(r, ";") = R(Extend(l, <<";">>), <<>>, TRUE, fs)
    BY <2>3, <2>6, ScanLiteral
  <2>8. Scan(r, ";") = R(To(s, i, i), Kept(s, O, i, i), TRUE, fs)
    BY <1>3, <2>6, <2>7
  <2>9. i - 1 = n /\ i # 0 /\ i # 1 /\ n # 0
    BY <1>2, <1>8
  <2>10. IsSemi(s, i - 1) /\ fs \in BOOLEAN
    BY <1>4, <2>1, <2>9
  <2> QED
    BY <1>1, <1>4, <1>5, <2>8, <2>9, <2>10, Zenon DEF Scanned
<1>9. n = 0 \/ n = 1 \/ n > 1
  BY <1>2
<1> QED
  BY <1>6, <1>7, <1>8, <1>9, Zenon

\* A semicolon with something between it and the one before.
LEMMA ScanHead ==
  ASSUME NEW s, NEW n, NEW r, NEW a, Typed(s), ~Lone(s, 1), n \in 0 .. Len(s) - 1,
         IsSemi(s, n + 1), a # n, Scanned(s, n, r, a)
  PROVE  Scanned(s, n + 1, Scan(r, ";"), n + 1)
<1>1. PICK i, O : i = n + 1 /\ O = Opens(s)
  OBVIOUS
<1>2. Len(s) \in Nat /\ i \in 1 .. Len(s) /\ n \in Nat /\ n = i - 1 /\ DOMAIN s = 1 .. Len(s)
  BY <1>1 DEF Typed
<1>3. /\ a \in 0 .. n /\ (a = 0 \/ IsSemi(s, a)) /\ \A j \in a + 1 .. n : ~IsSemi(s, j)
  BY DEF Scanned
<1>4. a \in Nat /\ a < n
  BY <1>2, <1>3
<1>5. ~IsSemi(s, n) /\ ~IsSemi(s, a + 1) /\ n # 0 /\ IsSemi(s, i)
  <2>1. n \in a + 1 .. n /\ a + 1 \in a + 1 .. n
    BY <1>2, <1>4
  <2> QED
    BY <1>1, <1>3, <1>4, <2>1
<1>6. i \in O
  <2>1. ~IsSemi(s, i - 1) /\ i \in DOMAIN s
    BY <1>2, <1>5
  <2> QED
    BY <1>1, <1>5, <2>1 DEF Opens
<1>7. PICK k : k = Kept(s, O, a, n)
  OBVIOUS
<1>8. Kept(s, O, a, i) = k /\ Typed(k)
  <2>1. Span(s, a, n) /\ Span(s, n, i)
    BY <1>2, <1>4 DEF Span
  <2>2. Kept(s, O, a, i) = k \o Kept(s, O, n, i)
    <3>1. Kept(s, O, a, i) = Kept(s, O, a, n) \o Kept(s, O, n, i)
      <4>1. Cut(s, a, n, i)
        BY <2>1 DEF Cut
      <4>2. Halves(s, O, a, n, i)
        BY <4>1, KeptCut
      <4> QED
        BY <4>2, Zenon DEF Halves
    <3> QED
      BY <1>7, <3>1
  <2>3. Kept(s, O, n, i) = <<>>
    BY <1>2, <1>6, KeptOne
  <2>4. Typed(k)
    BY <1>7, KeptTyped
  <2> QED
    BY <2>2, <2>3, <2>4, ConcatNone DEF Typed
<1>9. k # <<>>
  <2>1. PICK b : b = a + 1
    OBVIOUS
  <2>2. Span(s, a, b) /\ Span(s, b, n) /\ b \in 1 .. Len(s) /\ a = b - 1
    BY <1>2, <1>4, <2>1 DEF Span
  <2>3. b \notin O
    BY <1>1, <1>5, <2>1 DEF Opens
  <2>4. Kept(s, O, a, b) = <<s[b]>>
    BY <2>2, <2>3, KeptOne
  <2>5. k = <<s[b]>> \o Kept(s, O, b, n)
    <3>1. Kept(s, O, a, n) = Kept(s, O, a, b) \o Kept(s, O, b, n)
      <4>1. Cut(s, a, b, n)
        BY <2>2 DEF Cut
      <4>2. Halves(s, O, a, b, n)
        BY <4>1, KeptCut
      <4> QED
        BY <4>2, Zenon DEF Halves
    <3> QED
      BY <1>7, <2>4, <3>1
  <2>6. PICK x : x = Kept(s, O, b, n)
    OBVIOUS
  <2>7. x \in Seq(Chars) /\ <<s[b]>> \in Seq(Chars) /\ Len(<<s[b]>>) = 1
    <3>1. Typed(x)
      BY <2>6, KeptTyped
    <3>2. s[b] \in Chars
      BY <2>2 DEF Typed
    <3> QED
      BY <3>1, <3>2 DEF Typed
  <2>8. PICK y : y = <<s[b]>>
    OBVIOUS
  <2>9. Len(y \o x) = 1 + Len(x) /\ Len(x) \in Nat
    BY <2>7, <2>8, ConcatTyped
  <2>10. Len(k) # 0
    BY <2>5, <2>6, <2>8, <2>9
  <2> QED
    BY <2>10
<1>10. Kept(s, O, i, i) = <<>>
  BY <1>2, KeptNone DEF Span
<1>11. i \in 0 .. i /\ (\A j \in i + 1 .. i : ~IsSemi(s, j)) /\ i > 1 /\ i # 0 /\ i # 1
       /\ ~IsSemi(s, i - 1)
  BY <1>2, <1>4, <1>5
<1>12. ASSUME NEW fs \in BOOLEAN, Scan(r, ";") = R(To(s, i, i), <<>>, FALSE, fs)
       PROVE  Scanned(s, i, Scan(r, ";"), i)
  <2>1. Scan(r, ";") = R(To(s, i, i), Kept(s, O, i, i), FALSE, fs)
    BY <1>10, <1>12
  <2> QED
    BY <1>1, <1>5, <1>11, <2>1, Zenon DEF Scanned
<1>13. \A j \in a + 1 .. i - 1 : j \notin Breaks(s)
  <2> TAKE j \in a + 1 .. i - 1
  <2>1. j \in a + 1 .. n /\ j \in 1 .. Len(s)
    BY <1>2, <1>4
  <2>2. ~Lone(s, j)
    BY <1>3, <2>1 DEF Lone
  <2> QED
    BY <2>1, <2>2, BreaksAre
<1>14. CASE a = 0
  <2>1. r = R(<<>>, k, FALSE, TRUE)
    BY <1>1, <1>7, <1>14, Zenon DEF Scanned
  <2>2. Scan(r, ";") = R(Append(<<>>, k), <<>>, FALSE, TRUE)
    BY <1>9, <2>1, ScanCommand
  <2>3. Append(<<>>, k) = <<k>>
    OBVIOUS
  <2>4. NoBreak(s, 1, i)
    BY <1>13, <1>14 DEF NoBreak
  <2>5. i \in 1 .. Len(s) + 1
    BY <1>2
  <2>6. To(s, i, i) = <<Kept(s, O, 0, i)>>
    BY <1>1, <2>4, <2>5, ToFirst
  <2>7. To(s, i, i) = <<k>>
    BY <1>8, <1>14, <2>6
  <2>8. Scan(r, ";") = R(To(s, i, i), <<>>, FALSE, TRUE)
    BY <2>2, <2>3, <2>7
  <2> QED
    BY <1>1, <1>12, <2>8
<1>15. a # 1
  <2>1. ASSUME a = 1 PROVE FALSE
    <3>1. IsSemi(s, 1) /\ ~IsSemi(s, 1 + 1)
      BY <1>3, <1>5, <2>1
    <3>2. ~IsSemi(s, 1 - 1)
      <4>1. 1 - 1 = 0 /\ 0 \notin DOMAIN s
        BY <1>2
      <4> QED
        BY <4>1 DEF IsSemi
    <3> QED
      BY <3>1, <3>2 DEF Lone
  <2> QED
    BY <2>1
<1>16. CASE a > 1
  <2>1. PICK ap \in BOOLEAN, fs \in BOOLEAN :
          r = R(To(s, a, a), k, ap, fs) /\ (ap <=> IsSemi(s, a - 1))
    BY <1>1, <1>7, <1>16, Zenon DEF Scanned
  <2>2. PICK l : l = To(s, a, a)
    OBVIOUS
  <2>3. a \in 1 .. Len(s) /\ a \in 1 .. Len(s) + 1 /\ Span(s, a, a) /\ Span(s, a, i)
        /\ i \in a .. Len(s) + 1 /\ i \in a + 1 .. Len(s) + 1 /\ IsSemi(s, a)
    BY <1>2, <1>3, <1>4, <1>16 DEF Span
  <2>4. CASE ap = FALSE
    <3>1. Scan(r, ";") = R(Append(l, k), <<>>, FALSE, fs)
      BY <1>9, <2>1, <2>2, <2>4, ScanCommand
    <3>2. Lone(s, a)
      BY <1>5, <2>1, <2>3, <2>4 DEF Lone
    <3>3. a \in Breaks(s)
      BY <2>3, <3>2, BreaksAre
    <3>4. NoBreak(s, a + 1, i)
      BY <1>13 DEF NoBreak
    <3>5. To(s, i, i) = Append(To(s, a, a), Kept(s, O, a, i))
      BY <1>1, <2>3, <3>3, <3>4, ToNext
    <3>6. Scan(r, ";") = R(To(s, i, i), <<>>, FALSE, fs)
      BY <1>8, <2>2, <3>1, <3>5
    <3> QED
      BY <1>1, <1>12, <2>1, <3>6
  <2>5. CASE ap = TRUE
    <3>2. ~Lone(s, a)
      BY <2>1, <2>5 DEF Lone
    <3>3. a \notin Breaks(s)
      BY <2>3, <3>2, BreaksAre
    <3>4. NoBreak(s, a, i)
      <4>1. \A j \in a .. i - 1 : j = a \/ j \in a + 1 .. i - 1
        BY <1>2, <1>4
      <4> QED
        BY <1>13, <3>3, <4>1 DEF NoBreak
    <3>5. To(s, i, i) = Extend(To(s, a, a), Kept(s, O, a, i)) /\ To(s, a, a) # <<>>
      BY <1>1, <2>3, <3>4, ToGrows
    <3>1. Scan(r, ";") = R(Extend(l, k), <<>>, FALSE, fs)
      BY <1>9, <2>1, <2>2, <2>5, <3>5, ScanMore, ZenonT(60)
    <3>6. Scan(r, ";") = R(To(s, i, i), <<>>, FALSE, fs)
      BY <1>8, <2>2, <3>1, <3>5
    <3> QED
      BY <1>1, <1>12, <2>1, <3>6
  <2> QED
    BY <2>1, <2>4, <2>5
<1> QED
  <2>1. a = 0 \/ a = 1 \/ a > 1
    BY <1>4
  <2> QED
    BY <1>14, <1>15, <1>16, <2>1, Zenon

\* Nothing dropped: the text itself.
LEMMA KeptAll ==
  ASSUME NEW s, NEW D, Typed(s), D \cap (1 .. Len(s)) = {}
  PROVE  Kept(s, D, 0, Len(s)) = s
<1>1. PICK T : T = (0 + 1 .. Len(s)) \ D
  OBVIOUS
<1>2. T = 1 .. Len(s) /\ DOMAIN s = 1 .. Len(s)
  BY <1>1 DEF Typed
<1>3. At(s, T) = FlattenSeq([i \in DOMAIN s |-> <<s[i]>>])
  <2>1. \A i \in DOMAIN s : i \in T
    BY <1>2
  <2>2. [i \in DOMAIN s |-> IF i \in T THEN <<s[i]>> ELSE <<>>] = [i \in DOMAIN s |-> <<s[i]>>]
    BY <2>1, Zenon
  <2> QED
    BY <2>2, Zenon DEF At
<1>4. FlattenSeq([i \in DOMAIN s |-> <<s[i]>>]) = s
  BY OnesAre DEF Typed
<1> QED
  BY <1>1, <1>3, <1>4 DEF Kept

\* After the last character.
LEMMA ScannedAll ==
  ASSUME NEW s, Typed(s), ~Lone(s, 1)
  PROVE  \E a : Scanned(s, Len(s), Folded(Start, s), a)
<1>1. PICK n : n = Len(s)
  OBVIOUS
<1>2. n \in Nat /\ DOMAIN s = 1 .. n
  BY <1>1 DEF Typed
<1>3. PICK h : /\ h[0] = Start
               /\ \A i \in 1 .. n : h[i] = Scan(h[i - 1], s[i])
               /\ Folded(Start, s) = h[n]
  <2> PICK st, q : st = Start /\ q = s
    OBVIOUS
  <2>1. DOMAIN q = 1 .. n
    BY <1>2
  <2>2. \E h : /\ h[0] = st
               /\ \A i \in 1 .. n : h[i] = Scan(h[i - 1], q[i])
               /\ Folded(st, q) = h[n]
    BY <1>2, <2>1, FoldIs
  <2> QED
    BY <2>2
<1> DEFINE Bad == {k \in 0 .. n : ~\E a : Scanned(s, k, h[k], a)}
<1>4. 0 \notin Bad
  <2>1. Start = R(<<>>, <<>>, FALSE, TRUE)
    BY DEF Start, R
  <2>2. Kept(s, Opens(s), 0, 0) = <<>>
    <3>1. Span(s, 0, 0)
      BY <1>1, <1>2 DEF Span
    <3> QED
      BY <3>1, KeptNone
  <2>3. 0 \in 0 .. 0 /\ \A i \in 0 + 1 .. 0 : ~IsSemi(s, i)
    OBVIOUS
  <2>4. h[0] = R(<<>>, Kept(s, Opens(s), 0, 0), FALSE, TRUE) /\ 0 # 1 /\ ~(0 > 1)
    <3>1. h[0] = R(<<>>, Kept(s, Opens(s), 0, 0), FALSE, TRUE)
      BY <1>3, <2>1, <2>2, Zenon
    <3>2. 0 # 1 /\ ~(0 > 1)
      OBVIOUS
    <3> QED
      BY <3>1, <3>2
  <2>5. Scanned(s, 0, h[0], 0)
    BY <2>3, <2>4, Zenon DEF Scanned
  <2> QED
    BY <2>5
<1>5. ASSUME Bad # {} PROVE FALSE
  <2>1. Bad \in SUBSET Nat
    BY <1>2
  <2> HIDE DEF Bad
  <2>2. PICK k \in Bad : \A y \in Bad : k <= y
    BY <1>5, <2>1, Least
  <2>3. k # 0 /\ k \in 0 .. n
    BY <1>4, <2>2 DEF Bad
  <2>4. PICK m : m = k - 1
    OBVIOUS
  <2>5. m \in 0 .. n /\ m + 1 = k /\ ~(k <= m) /\ k \in 1 .. n /\ m \in 0 .. Len(s) - 1 /\ k - 1 = m
    BY <1>1, <1>2, <2>3, <2>4
  <2>6. PICK a : Scanned(s, m, h[m], a)
    BY <2>2, <2>5 DEF Bad
  <2>7. h[k] = Scan(h[m], s[k])
    BY <1>3, <2>5
  <2>8. PICK r : r = h[m]
    OBVIOUS
  <2>9. \E b : Scanned(s, k, Scan(r, s[k]), b)
    <3>0. Scanned(s, m, r, a)
      BY <2>6, <2>8
    <3>1. CASE ~IsSemi(s, k)
      <4>1. Scanned(s, m + 1, Scan(r, s[m + 1]), a)
        BY <2>5, <3>0, <3>1, ScanWord
      <4> QED
        BY <2>5, <4>1
    <3>2. CASE IsSemi(s, k) /\ a = m
      <4>1. Scanned(s, m + 1, Scan(r, ";"), m + 1)
        BY <2>5, <3>0, <3>2, ScanAgain
      <4> QED
        BY <2>5, <3>2, <4>1 DEF IsSemi
    <3>3. CASE IsSemi(s, k) /\ a # m
      <4>1. Scanned(s, m + 1, Scan(r, ";"), m + 1)
        BY <2>5, <3>0, <3>3, ScanHead
      <4> QED
        BY <2>5, <3>3, <4>1 DEF IsSemi
    <3> QED
      BY <3>1, <3>2, <3>3
  <2> QED
    BY <2>2, <2>3, <2>7, <2>8, <2>9 DEF Bad
<1>6. n \in 0 .. n
  BY <1>2
<1>7. \E a : Scanned(s, n, h[n], a)
  BY <1>5, <1>6
<1> QED
  BY <1>1, <1>3, <1>7

\* splitSemicolonSafe() of a line of any length that does not begin with a lone semicolon,
\* by positions: a piece ends at every lone semicolon, and of a longer run the first
\* semicolon goes and the others belong to the piece around them.
THEOREM SplitIs ==
  ASSUME NEW s, Typed(s), ~Lone(s, 1)
  PROVE  splitSemicolonSafe(s) = FlattenSeq(Cuts(s))
<1>1. PICK n, O, r : n = Len(s) /\ O = Opens(s) /\ r = Folded(Start, s)
  OBVIOUS
<1>2. n \in Nat /\ DOMAIN s = 1 .. n
  BY <1>1 DEF Typed
<1>3. PICK a : Scanned(s, n, r, a)
  BY <1>1, ScannedAll
<1>4. a \in 0 .. n /\ (a = 0 \/ IsSemi(s, a)) /\ \A i \in a + 1 .. n : ~IsSemi(s, i)
  BY <1>3 DEF Scanned
<1>5. \A i \in a + 1 .. n : i \notin Breaks(s)
  <2> TAKE i \in a + 1 .. n
  <2>1. i \in 1 .. Len(s) /\ ~IsSemi(s, i)
    BY <1>1, <1>2, <1>4
  <2>2. ~Lone(s, i)
    BY <2>1 DEF Lone
  <2> QED
    BY <2>1, <2>2, BreaksAre
<1>6. PICK k : k = Kept(s, O, a, n)
  OBVIOUS
<1>7. splitSemicolonSafe(s) =
        IF ~Contains(s, ";") THEN <<s>>
        ELSE IF ~r.append THEN Append(r.list, r.part)
        ELSE IF r.list = <<>> THEN <<>> ELSE Extend(r.list, r.part)
  BY <1>1, Zenon DEF splitSemicolonSafe, Folded
<1>8. Contains(s, ";") <=> a # 0
  <2>1. ASSUME a # 0 PROVE Contains(s, ";")
    <3>1. a \in 1 .. Len(s) /\ s[a] = ";"
      BY <1>1, <1>2, <1>4, <2>1 DEF IsSemi
    <3> QED
      BY <3>1 DEF Contains
  <2>2. ASSUME a = 0 PROVE ~Contains(s, ";")
    <3>1. \A i \in 1 .. Len(s) : ~(s[i] = ";")
      <4> TAKE i \in 1 .. Len(s)
      <4>1. i \in a + 1 .. n /\ i \in DOMAIN s
        BY <1>1, <1>2, <2>2
      <4> QED
        BY <1>4, <4>1 DEF IsSemi
    <3> QED
      BY <3>1 DEF Contains
  <2> QED
    BY <2>1, <2>2
<1>9. To(s, n + 1, n) = FlattenSeq(Cuts(s))
  BY <1>1, ToAll
<1>10. CASE a = 0
  <2>1. NoBreak(s, 1, n + 1)
    <3> PICK q : q = n + 1
      OBVIOUS
    <3>1. ASSUME NEW i \in 1 .. q - 1 PROVE i \notin Breaks(s)
      <4>1. i \in a + 1 .. n
        BY <1>2, <1>10
      <4> QED
        BY <1>5, <4>1
    <3>2. NoBreak(s, 1, q)
      BY <3>1 DEF NoBreak
    <3> QED
      BY <3>2
  <2>2. n + 1 \in 1 .. Len(s) + 1
    BY <1>1, <1>2
  <2>3. To(s, n + 1, n) = <<Kept(s, Opens(s), 0, n)>>
    BY <2>1, <2>2, ToFirst
  <2>4. Kept(s, Opens(s), 0, n) = s
    <3>1. O \cap (1 .. n) = {}
      <4>1. \A i \in 1 .. n : i \in a + 1 .. n
        BY <1>2, <1>10
      <4> QED
        BY <1>1, <1>4, <4>1 DEF Opens
    <3> QED
      BY <1>1, <3>1, KeptAll
  <2> QED
    BY <1>7, <1>8, <1>9, <1>10, <2>3, <2>4
<1>11. a # 1
  <2>1. ASSUME a = 1 PROVE FALSE
    <3>1. IsSemi(s, 1) /\ ~IsSemi(s, 1 + 1)
      <4>1. 1 + 1 \in DOMAIN s => 1 + 1 \in a + 1 .. n
        BY <1>2, <2>1
      <4>2. ~IsSemi(s, 1 + 1)
        BY <1>4, <4>1 DEF IsSemi
      <4> QED
        BY <1>4, <2>1, <4>2
    <3>2. ~IsSemi(s, 1 - 1)
      <4>1. 1 - 1 = 0 /\ 0 \notin DOMAIN s
        BY <1>2
      <4> QED
        BY <4>1 DEF IsSemi
    <3> QED
      BY <3>1, <3>2 DEF Lone
  <2> QED
    BY <2>1
<1>12. CASE a > 1
  <2>1. PICK ap \in BOOLEAN, fs \in BOOLEAN :
          r = R(To(s, a, a), k, ap, fs) /\ (ap <=> IsSemi(s, a - 1))
    BY <1>1, <1>3, <1>6, <1>12, Zenon DEF Scanned
  <2>2. PICK l : l = To(s, a, a)
    OBVIOUS
  <2>3. r.list = l /\ r.part = k /\ r.append = ap
    BY <2>1, <2>2 DEF R
  <2>4. a \in 1 .. Len(s) /\ a \in 1 .. Len(s) + 1 /\ Span(s, a, a) /\ Span(s, a, n)
        /\ n + 1 \in a .. Len(s) + 1 /\ n + 1 \in a + 1 .. Len(s) + 1 /\ IsSemi(s, a) /\ a # 0
    BY <1>1, <1>2, <1>4, <1>12 DEF Span
  <2>5. CASE ap = FALSE
    <3>1. Lone(s, a)
      <4>1. a + 1 \in DOMAIN s => a + 1 \in a + 1 .. n
        BY <1>2, <2>4
      <4>2. ~IsSemi(s, a + 1)
        BY <1>4, <4>1 DEF IsSemi
      <4> QED
        BY <2>1, <2>4, <2>5, <4>2 DEF Lone
    <3>2. a \in Breaks(s)
      BY <2>4, <3>1, BreaksAre
    <3>3. NoBreak(s, a + 1, n + 1)
      <4> PICK q : q = n + 1
        OBVIOUS
      <4>1. ASSUME NEW i \in a + 1 .. q - 1 PROVE i \notin Breaks(s)
        <5>1. i \in a + 1 .. n
          BY <1>2, <2>4
        <5> QED
          BY <1>5, <5>1
      <4>2. NoBreak(s, a + 1, q)
        BY <4>1 DEF NoBreak
      <4> QED
        BY <4>2
    <3>4. To(s, n + 1, n) = Append(To(s, a, a), Kept(s, Opens(s), a, n))
      BY <2>4, <3>2, <3>3, ToNext
    <3> QED
      BY <1>1, <1>6, <1>7, <1>8, <1>9, <2>2, <2>3, <2>4, <2>5, <3>4
  <2>6. CASE ap = TRUE
    <3>1. a \notin Breaks(s)
      <4>1. ~Lone(s, a)
        BY <2>1, <2>6 DEF Lone
      <4> QED
        BY <2>4, <4>1, BreaksAre
    <3>2. NoBreak(s, a, n + 1)
      <4> PICK q : q = n + 1
        OBVIOUS
      <4>1. ASSUME NEW i \in a .. q - 1 PROVE i \notin Breaks(s)
        <5>1. i = a \/ i \in a + 1 .. n
          BY <1>2, <2>4
        <5> QED
          BY <1>5, <3>1, <5>1
      <4>2. NoBreak(s, a, q)
        BY <4>1 DEF NoBreak
      <4> QED
        BY <4>2
    <3>3. To(s, n + 1, n) = Extend(To(s, a, a), Kept(s, Opens(s), a, n)) /\ To(s, a, a) # <<>>
      BY <2>4, <3>2, ToGrows
    <3> QED
      BY <1>1, <1>6, <1>7, <1>8, <1>9, <2>2, <2>3, <2>4, <2>6, <3>3
  <2> QED
    BY <2>1, <2>5, <2>6
<1>13. a = 0 \/ a = 1 \/ a > 1
  BY <1>2, <1>4
<1> QED
  BY <1>10, <1>11, <1>12, <1>13, Zenon

(***************************************************************************)
(* What a line says from one break to the next.                            *)
(***************************************************************************)
Mutes(s) == {i \in DOMAIN s : Silent(s, i)}

\* The places where a command ends: lone semicolons that no ~ precedes, and the end.
LEMMA StopsAre ==
  ASSUME NEW s, Typed(s)
  PROVE  /\ Len(s) + 1 \in Stops(s) /\ Stops(s) \in SUBSET Breaks(s) /\ Stops(s) \in SUBSET Nat
         /\ \A i \in 1 .. Len(s) : i \in Stops(s) <=> Lone(s, i) /\ ~Tilde(s, i - 1)
<1>1. Len(s) \in Nat /\ DOMAIN s = 1 .. Len(s)
  BY DEF Typed
<1>2. Stops(s) = {i \in DOMAIN s : Lone(s, i) /\ ~Tilde(s, i - 1)} \cup {Len(s) + 1}
  BY Zenon DEF Stops, Ends
<1>3. \A i \in 1 .. Len(s) : i # Len(s) + 1
  BY <1>1
<1>4. Stops(s) \in SUBSET Breaks(s)
  BY <1>2 DEF Breaks
<1>5. Breaks(s) \in SUBSET Nat
  BY BreaksAre
<1>6. \A i \in 1 .. Len(s) : i \in Stops(s) <=> Lone(s, i) /\ ~Tilde(s, i - 1)
  BY <1>1, <1>2, <1>3
<1> QED
  BY <1>2, <1>4, <1>5, <1>6

\* A command is what is kept from the place where the last one ended.
LEMMA SaidIs ==
  ASSUME NEW s, NEW j, NEW b, Typed(s), j \in 1 .. Len(s) + 1, IsBefore(b, Stops(s), j)
  PROVE  Said(s, j) = Kept(s, Mutes(s), b, j - 1)
<1>1. Len(s) \in Nat /\ DOMAIN s = 1 .. Len(s) /\ Stops(s) \in SUBSET Nat /\ j \in Nat /\ j > 0
  BY StopsAre DEF Typed
<1>2. Before(Stops(s), j) = b
  BY <1>1, BeforeOnly
<1>3. Begin(s, j) = b
  BY <1>2, Zenon DEF Begin, Before
<1>4. b \in Nat
  BY <1>1 DEF IsBefore
<1>5. {i \in b + 1 .. j - 1 : ~Silent(s, i)} = (b + 1 .. j - 1) \ Mutes(s)
  <2>1. \A i \in b + 1 .. j - 1 : i \in DOMAIN s
    BY <1>1, <1>4
  <2> QED
    BY <2>1 DEF Mutes
<1>6. Said(s, j) = At(s, {i \in b + 1 .. j - 1 : ~Silent(s, i)})
  BY <1>3, Zenon DEF Said
<1> QED
  BY <1>5, <1>6, Zenon DEF Kept

LEMMA SaidTyped ==
  ASSUME NEW s, NEW j, Typed(s)
  PROVE  Typed(Said(s, j))
<1>1. PICK T : T = {i \in Begin(s, j) + 1 .. j - 1 : ~Silent(s, i)}
  OBVIOUS
<1>2. At(s, T) \in Seq(Chars)
  BY AtIn DEF Typed
<1>3. Said(s, j) = At(s, T)
  BY <1>1, Zenon DEF Said
<1> QED
  BY <1>2, <1>3 DEF Typed

\* Behind a stop nothing is said yet.
LEMMA SaidNone ==
  ASSUME NEW s, NEW q, Typed(s), q \in Stops(s)
  PROVE  Said(s, q + 1) = <<>>
<1>1. Len(s) \in Nat /\ Stops(s) \in SUBSET Nat /\ q \in Nat
  BY StopsAre DEF Typed
<1>2. PICK j : j = q + 1
  OBVIOUS
<1>3. IsBefore(q, Stops(s), j)
  BY <1>1, <1>2 DEF IsBefore
<1>4. Before(Stops(s), j) = q
  <2>1. j \in Nat /\ j > 0
    BY <1>1, <1>2
  <2> QED
    BY <1>1, <1>3, <2>1, BeforeOnly
<1>5. Begin(s, j) = q
  BY <1>4, Zenon DEF Begin, Before
<1>6. PICK T : T = {i \in q + 1 .. j - 1 : ~Silent(s, i)}
  OBVIOUS
<1>7. T \cap (1 .. Len(s)) = {}
  BY <1>1, <1>2, <1>6
<1>8. At(s, T) = <<>>
  BY <1>7, AtNone DEF Typed
<1>9. Said(s, j) = At(s, T)
  BY <1>5, <1>6, Zenon DEF Said
<1> QED
  BY <1>2, <1>8, <1>9

\* The commands, one for each such place that has one.
LEMMA SayingAre ==
  ASSUME NEW s, Typed(s)
  PROVE  /\ Seqs(Saying(s), Len(s) + 1, Seq(Chars))
         /\ Beginnings(Saying(s), Len(s) + 1, Seq(Chars))
         /\ Meaning(s) = Pre(Saying(s), Len(s) + 1)
         /\ \A j \in 1 .. Len(s) + 1 :
              Saying(s)[j] = IF j \in Stops(s) /\ Said(s, j) # <<>> THEN <<Said(s, j)>> ELSE <<>>
<1>1. PICK n, F : n = Len(s) + 1 /\ F = Saying(s)
  OBVIOUS
<1>2. n \in Nat /\ \A j \in 1 .. n :
        F[j] = IF j \in Stops(s) /\ Said(s, j) # <<>> THEN <<Said(s, j)>> ELSE <<>>
  <2>1. Len(s) \in Nat
    BY DEF Typed
  <2> QED
    BY <1>1, <2>1 DEF Saying
<1>3. \A j \in 1 .. n : F[j] \in Seq(Seq(Chars))
  <2> TAKE j \in 1 .. n
  <2>1. Said(s, j) \in Seq(Chars)
    BY SaidTyped DEF Typed
  <2> PICK x : x = Said(s, j)
    OBVIOUS
  <2>2. <<x>> \in Seq(Seq(Chars)) /\ <<>> \in Seq(Seq(Chars))
    BY <2>1
  <2> QED
    BY <1>2, <2>2
<1>4. F = [j \in 1 .. n |-> F[j]]
  BY <1>1 DEF Saying
<1>5. Seqs(F, n, Seq(Chars))
  BY <1>2, <1>3, <1>4 DEF Seqs
<1>6. Beginnings(F, n, Seq(Chars))
  BY <1>5, PreIs
<1>7. FlattenSeq(F) = Pre(F, n)
  BY <1>4, Zenon DEF Pre
<1>8. Meaning(s) = FlattenSeq(F)
  BY <1>1, Zenon DEF Meaning
<1> QED
  BY <1>1, <1>2, <1>5, <1>6, <1>7, <1>8

\* From one break to the next nothing is silent but the first semicolon of a run
\* and a ~ at the end.
LEMMA BetweenBreaks ==
  ASSUME NEW s, NEW p, NEW q, Typed(s), q \in Breaks(s), p = Before(Breaks(s), q)
  PROVE  /\ p \in Nat /\ p < q /\ q \in 1 .. Len(s) + 1 /\ p \in {0} \cup Breaks(s)
         /\ \A i \in p + 1 .. q - 1 :
              /\ i \in DOMAIN s /\ i \notin Breaks(s) /\ i \notin Stops(s)
              /\ i \in Mutes(s) <=> i \in Opens(s) \/ Tilde(s, i)
              /\ Tilde(s, i) => i = q - 1
         /\ p < q - 1 => q - 1 \notin Opens(s)
<1>1. /\ Len(s) \in Nat /\ DOMAIN s = 1 .. Len(s)
      /\ Breaks(s) \in SUBSET (1 .. Len(s) + 1) /\ Breaks(s) \in SUBSET Nat
      /\ q \in Nat /\ q > 0 /\ q \in 1 .. Len(s) + 1
  BY BreaksAre DEF Typed
<1>2. IsBefore(p, Breaks(s), q)
  BY <1>1, BeforeIs
<1>3. p \in Nat /\ p < q /\ p \in {0} \cup Breaks(s)
  BY <1>1, <1>2 DEF IsBefore
<1>4. ASSUME NEW i \in p + 1 .. q - 1
      PROVE  /\ i \in DOMAIN s /\ i \notin Breaks(s) /\ i \notin Stops(s)
             /\ i \in Mutes(s) <=> i \in Opens(s) \/ Tilde(s, i)
             /\ Tilde(s, i) => i = q - 1
  <2>1. i \in 1 .. Len(s) /\ i \in DOMAIN s /\ i \in Nat /\ i < q /\ ~(i <= p)
    BY <1>1, <1>3
  <2>2. i \notin Breaks(s)
    BY <1>2, <2>1 DEF IsBefore
  <2>3. ~Lone(s, i)
    BY <2>1, <2>2, BreaksAre
  <2>4. i \notin Stops(s)
    BY <2>2, StopsAre
  <2>5. i \in Mutes(s) <=> i \in Opens(s) \/ Tilde(s, i)
    <3>1. i \notin Ends(s)
      BY <2>3 DEF Ends
    <3>2. i \in Opens(s) <=> IsSemi(s, i) /\ ~IsSemi(s, i - 1)
      BY <2>1 DEF Opens
    <3>3. i \in Mutes(s) <=> Silent(s, i)
      BY <2>1 DEF Mutes
    <3> QED
      BY <2>3, <3>1, <3>2, <3>3, Zenon DEF Silent, Lone
  <2>6. Tilde(s, i) => i = q - 1
    <3>1. ASSUME Tilde(s, i) PROVE i = q - 1
      <4>1. PICK k : k = i + 1
        OBVIOUS
      <4>2. Lone(s, k)
        BY <3>1, <4>1, Zenon DEF Tilde
      <4>3. k \in DOMAIN s
        BY <4>2 DEF Lone, IsSemi
      <4>4. k \in Breaks(s) /\ k \in Nat
        BY <1>1, <4>2, <4>3 DEF Breaks
      <4>5. ~(k <= p)
        BY <1>3, <2>1, <4>1, <4>4
      <4>6. ~(k < q)
        BY <1>2, <4>4, <4>5 DEF IsBefore
      <4> QED
        BY <1>1, <2>1, <4>1, <4>4, <4>6
    <3> QED
      BY <3>1
  <2> QED
    BY <2>1, <2>2, <2>4, <2>5, <2>6
<1>5. p < q - 1 => q - 1 \notin Opens(s)
  <2>1. ASSUME p < q - 1, q - 1 \in Opens(s) PROVE FALSE
    <3>1. PICK k : k = q - 1
      OBVIOUS
    <3>2. IsSemi(s, k) /\ ~IsSemi(s, k - 1) /\ k \in 1 .. Len(s) /\ q = k + 1
      BY <1>1, <2>1, <3>1 DEF Opens
    <3>3. CASE q \in 1 .. Len(s)
      <4>1. Lone(s, q)
        BY <3>3, BreaksAre
      <4> QED
        BY <3>1, <3>2, <4>1 DEF Lone
    <3>4. CASE q = Len(s) + 1
      <4>1. q \notin DOMAIN s /\ k + 1 = q
        BY <1>1, <3>2, <3>4
      <4>6. ~IsSemi(s, k + 1)
        BY <4>1, Zenon DEF IsSemi
      <4>2. Lone(s, k)
        BY <3>2, <4>6, Zenon DEF Lone
      <4>3. k \in Breaks(s)
        BY <3>2, <4>2, BreaksAre
      <4>4. k \in Nat /\ k < q
        BY <1>1, <3>2
      <4>5. k = p
        BY <1>1, <1>2, <1>3, <3>2, <4>3, <4>4 DEF IsBefore
      <4> QED
        BY <1>1, <1>3, <2>1, <3>1, <4>5
    <3> QED
      BY <1>1, <3>3, <3>4
  <2> QED
    BY <2>1
<1> QED
  BY <1>1, <1>3, <1>4, <1>5

\* A piece that ends in a ~ goes on behind the semicolon.
LEMMA ReadOn ==
  ASSUME NEW s, NEW p, NEW q, Typed(s), q \in Breaks(s), p = Before(Breaks(s), q),
         p < q - 1, s[q - 1] = "~", q # Len(s) + 1
  PROVE  /\ EndsWith(Raw(s, q), "~") /\ Typed(Raw(s, q)) /\ Typed(Front(Raw(s, q)))
         /\ Said(s, q + 1) = (Said(s, p + 1) \o Front(Raw(s, q))) \o <<";">>
         /\ Pre(Saying(s), q) = Pre(Saying(s), p)
<1>1. PICK n, O, M : n = Len(s) /\ O = Opens(s) /\ M = Mutes(s)
  OBVIOUS
<1>2. /\ p \in Nat /\ p < q /\ q \in 1 .. n + 1 /\ p \in {0} \cup Breaks(s)
      /\ \A i \in p + 1 .. q - 1 :
           /\ i \in DOMAIN s /\ i \notin Breaks(s) /\ i \notin Stops(s)
           /\ i \in M <=> i \in O \/ Tilde(s, i)
           /\ Tilde(s, i) => i = q - 1
      /\ q - 1 \notin O
  BY <1>1, BetweenBreaks
<1>3. n \in Nat /\ DOMAIN s = 1 .. n /\ q \in 1 .. n /\ Stops(s) \in SUBSET Nat
      /\ Stops(s) \in SUBSET Breaks(s)
  BY <1>1, <1>2, StopsAre DEF Typed
<1>4. PICK k, m : k = q - 1 /\ m = q - 2
  OBVIOUS
<1>5. /\ k \in Nat /\ m \in Nat /\ m = k - 1 /\ q = k + 1 /\ k \in p + 1 .. q - 1 /\ k \in 1 .. n
      /\ Span(s, p, m) /\ Span(s, m, k) /\ Span(s, k, q) /\ Span(s, p, k) /\ Span(s, p, q) /\ k = q - 1
      /\ q \in 1 .. Len(s) /\ k \in 1 .. Len(s)
  BY <1>1, <1>2, <1>3, <1>4 DEF Span
<1>51. Span(s, p, m) /\ Span(s, m, k) /\ Span(s, k, q) /\ Span(s, p, k) /\ Span(s, p, q)
  BY <1>5
<1>52. q \in 1 .. Len(s) /\ k \in 1 .. Len(s)
  BY <1>5
<1>6. Lone(s, q) /\ IsSemi(s, q) /\ ~IsSemi(s, q - 1) /\ ~IsSemi(s, q + 1)
  <2>1. Lone(s, q)
    BY <1>5, BreaksAre
  <2> QED
    BY <2>1, Zenon DEF Lone
<1>7. Tilde(s, k)
  BY <1>3, <1>4, <1>5, <1>6 DEF Tilde
<1>8. q \notin Stops(s)
  <2>1. q \in Stops(s) <=> Lone(s, q) /\ ~Tilde(s, q - 1)
    BY <1>5, StopsAre
  <2> QED
    BY <1>4, <1>7, <2>1
<1>9. PICK x : x = Kept(s, O, p, m)
  OBVIOUS
<1>10. Raw(s, q) = x \o <<"~">> /\ Typed(x)
  <2>0. Span(s, p, m) /\ Span(s, m, k)
    BY <1>51
  <2>1. Kept(s, O, p, k) = Kept(s, O, p, m) \o Kept(s, O, m, k)
    <3>1. Cut(s, p, m, k)
      BY <2>0 DEF Cut
    <3>2. Halves(s, O, p, m, k)
      BY <3>1, KeptCut
    <3> QED
      BY <3>2, Zenon DEF Halves
  <2>2. k \notin O /\ s[k] = "~"
    BY <1>2, <1>4
  <2>3. Kept(s, O, k - 1, k) = <<s[k]>>
    BY <1>52, <2>2, KeptOne
  <2>4. Raw(s, q) = Kept(s, O, p, k)
    BY <1>1, <1>4, Zenon DEF Raw
  <2>5. Typed(x)
    BY <1>9, KeptTyped
  <2> QED
    BY <1>5, <1>9, <2>1, <2>2, <2>3, <2>4, <2>5
<1>11. EndsWith(Raw(s, q), "~") /\ Front(Raw(s, q)) = x /\ Typed(Raw(s, q))
  <2>1. x \in Seq(Chars) /\ "~" \in Chars
    BY <1>10 DEF Typed, Chars, Marks
  <2>2. x \o <<"~">> = Append(x, "~")
    BY <2>1
  <2>3. PICK y : y = Append(x, "~")
    OBVIOUS
  <2>4. y \in Seq(Chars) /\ y # <<>> /\ Len(y) = Len(x) + 1 /\ y[Len(x) + 1] = "~"
        /\ Len(x) \in Nat /\ \A i \in 1 .. Len(x) : y[i] = x[i]
    <3>1. y \in Seq(Chars) /\ y # <<>>
      BY <2>1, <2>3, AppendTyped
    <3> QED
      BY <2>1, <2>3, <3>1
  <2>5. /\ Front(y) \in Seq(Chars) /\ Len(Front(y)) = Len(y) - 1
        /\ \A i \in 1 .. Len(y) - 1 : Front(y)[i] = y[i]
        /\ Last(y) = y[Len(y)]
    BY <2>4, FrontIs
  <2>6. Front(y) = x
    <3> PICK f : f = Front(y)
      OBVIOUS
    <3>1. Len(f) = Len(x) /\ f \in Seq(Chars) /\ \A i \in 1 .. Len(x) : f[i] = x[i]
      BY <2>4, <2>5
    <3>2. f = [i \in 1 .. Len(f) |-> f[i]] /\ x = [i \in 1 .. Len(x) |-> x[i]]
      BY <2>1, <3>1
    <3> QED
      BY <3>1, <3>2, Zenon
  <2>7. Last(y) = "~"
    BY <2>4, <2>5
  <2>8. Raw(s, q) = y
    BY <1>10, <2>2, <2>3
  <2> QED
    BY <2>4, <2>6, <2>7, <2>8 DEF EndsWith, Typed
<1>12. PICK b : b = Before(Stops(s), p + 1)
  OBVIOUS
<1>13. IsBefore(b, Stops(s), p + 1)
  <2>1. p + 1 \in Nat /\ p + 1 > 0
    BY <1>2
  <2> QED
    BY <1>3, <1>12, <2>1, BeforeIs
<1>14. b \in Nat /\ b <= p
  BY <1>2, <1>3, <1>13 DEF IsBefore
<1>15. Said(s, p + 1) = Kept(s, M, b, p)
  <2>1. PICK j : j = p + 1
    OBVIOUS
  <2>2. j \in 1 .. Len(s) + 1 /\ j - 1 = p
    BY <1>1, <1>2, <1>3, <2>1
  <2>3. Said(s, j) = Kept(s, M, b, j - 1)
    BY <1>1, <1>13, <2>1, <2>2, SaidIs
  <2> QED
    BY <2>1, <2>2, <2>3
<1>16. \A i \in p + 1 .. q : i \notin Stops(s)
  <2>1. \A i \in p + 1 .. q : i = q \/ i \in p + 1 .. q - 1
    BY <1>2, <1>3
  <2> QED
    BY <1>2, <1>8, <2>1
<1>17. Said(s, q + 1) = Kept(s, M, b, q)
  <2>1. PICK j : j = q + 1
    OBVIOUS
  <2>2. j \in 1 .. Len(s) + 1 /\ j - 1 = q
    BY <1>1, <1>3, <2>1
  <2>3. IsBefore(b, Stops(s), j)
    <3>1. \A i \in Stops(s) : i < j => i <= b
      <4> TAKE i \in Stops(s)
      <4>1. i \in Nat /\ i \notin p + 1 .. q
        BY <1>3, <1>16
      <4>2. i < j => i < p + 1
        BY <1>2, <1>3, <2>1, <4>1
      <4> QED
        BY <1>13, <4>2 DEF IsBefore
    <3>2. b < j /\ b \in {0} \cup Stops(s)
      BY <1>2, <1>3, <1>13, <1>14, <2>1 DEF IsBefore
    <3> QED
      BY <3>1, <3>2 DEF IsBefore
  <2>4. Said(s, j) = Kept(s, M, b, j - 1)
    BY <1>1, <2>2, <2>3, SaidIs
  <2> QED
    BY <2>1, <2>2, <2>4
<1>18. Kept(s, M, p, q) = x \o <<";">>
  <2>01. Span(s, p, k) /\ Span(s, k, q)
    BY <1>51
  <2>02. Span(s, p, m) /\ Span(s, m, k)
    BY <1>51
  <2>1. Kept(s, M, p, q) = Kept(s, M, p, k) \o Kept(s, M, k, q)
    <3>1. Cut(s, p, k, q)
      BY <2>01 DEF Cut
    <3>2. Halves(s, M, p, k, q)
      BY <3>1, KeptCut
    <3> QED
      BY <3>2, Zenon DEF Halves
  <2>2. Kept(s, M, p, k) = Kept(s, M, p, m) \o Kept(s, M, m, k)
    <3>1. Cut(s, p, m, k)
      BY <2>02 DEF Cut
    <3>2. Halves(s, M, p, m, k)
      BY <3>1, KeptCut
    <3> QED
      BY <3>2, Zenon DEF Halves
  <2>3. Kept(s, M, m, k) = <<>>
    <3>1. k \in M
      BY <1>2, <1>5, <1>7
    <3>2. Kept(s, M, k - 1, k) = <<>>
      BY <1>52, <3>1, KeptOne
    <3> QED
      BY <1>5, <3>2
  <2>4. Kept(s, M, k, q) = <<";">>
    <3>1. q \notin M
      <4>1. s[q] = ";"
        BY <1>6 DEF IsSemi
      <4>2. q \notin Ends(s)
        <5>1. Tilde(s, q - 1)
          BY <1>4, <1>7
        <5> QED
          BY <5>1 DEF Ends
      <4>3. ~Tilde(s, q)
        BY <4>1 DEF Tilde
      <4>4. ~Silent(s, q)
        BY <1>6, <4>2, <4>3 DEF Silent
      <4> QED
        BY <1>1, <4>4 DEF Mutes
    <3>2. Kept(s, M, q - 1, q) = <<s[q]>>
      BY <1>52, <3>1, KeptOne
    <3> QED
      BY <1>4, <1>6, <3>2 DEF IsSemi
  <2>5. Kept(s, M, p, m) = x
    <3>1. (p + 1 .. m) \cap M = (p + 1 .. m) \cap O
      <4>1. ASSUME NEW i \in p + 1 .. m PROVE i \in M <=> i \in O
        <5>1. i \in p + 1 .. q - 1 /\ i # q - 1
          BY <1>2, <1>3, <1>4
        <5> QED
          BY <1>2, <5>1
      <4> QED
        BY <4>1
    <3>2. Kept(s, M, p, m) = Kept(s, O, p, m)
      BY <3>1, KeptSame
    <3> QED
      BY <1>9, <3>2
  <2>6. x \o <<>> = x
    BY <1>10, ConcatNone DEF Typed
  <2> QED
    BY <2>1, <2>2, <2>3, <2>4, <2>5, <2>6
<1>19. Said(s, q + 1) = (Said(s, p + 1) \o x) \o <<";">>
  <2>1. Span(s, b, p)
    BY <1>1, <1>2, <1>3, <1>14 DEF Span
  <2>2. Kept(s, M, b, q) = Kept(s, M, b, p) \o Kept(s, M, p, q)
    <3>1. Cut(s, b, p, q)
      BY <1>51, <2>1 DEF Cut
    <3>2. Halves(s, M, b, p, q)
      BY <3>1, KeptCut
    <3> QED
      BY <3>2, Zenon DEF Halves
  <2>3. PICK h, e : h = Kept(s, M, b, p) /\ e = <<";">>
    OBVIOUS
  <2>4. h \in Seq(Chars) /\ x \in Seq(Chars) /\ e \in Seq(Chars)
    <3>1. Typed(h)
      BY <2>3, KeptTyped
    <3>2. e \in Seq(Chars)
      <4>1. ";" \in Chars
        BY DEF Chars, Marks
      <4> QED
        <5>1. <<";">> \in Seq(Chars)
          BY <4>1, OneTyped
        <5> QED
          BY <2>3, <5>1
    <3> QED
      BY <1>10, <3>1, <3>2 DEF Typed
  <2>5. h \o (x \o e) = (h \o x) \o e
    <3>1. Three(Chars, h, x, e)
      BY <2>4 DEF Three
    <3>2. Assoc(h, x, e)
      BY <3>1, ThreeAssoc
    <3> QED
      BY <3>2, Zenon DEF Assoc
  <2> QED
    BY <1>15, <1>17, <1>18, <2>2, <2>3, <2>5
<1>20. Pre(Saying(s), q) = Pre(Saying(s), p)
  <2>1. PICK F, l : F = Saying(s) /\ l = n + 1
    OBVIOUS
  <2>2. Seqs(F, l, Seq(Chars)) /\ \A j \in 1 .. l :
           F[j] = IF j \in Stops(s) /\ Said(s, j) # <<>> THEN <<Said(s, j)>> ELSE <<>>
    BY <1>1, <2>1, SayingAre
  <2>3. Blank(F, p, q)
    <3>1. ASSUME NEW i \in p + 1 .. q PROVE F[i] = <<>>
      <4>1. i \in 1 .. l /\ i \notin Stops(s)
        BY <1>2, <1>3, <1>16, <2>1
      <4> QED
        BY <2>2, <4>1
    <3> QED
      BY <3>1 DEF Blank
  <2>4. Within(p, q, l)
    BY <1>2, <1>3, <2>1 DEF Within
  <2>5. Pre(F, q) = Pre(F, p)
    BY <2>2, <2>3, <2>4, PreSkips
  <2> QED
    BY <2>1, <2>5
<1> QED
  BY <1>10, <1>11, <1>19, <1>20

\* Any other piece ends a command.
LEMMA ReadCommand ==
  ASSUME NEW s, NEW p, NEW q, Typed(s), q \in Breaks(s), p = Before(Breaks(s), q),
         ~(p < q - 1 /\ s[q - 1] = "~")
  PROVE  /\ ~EndsWith(Raw(s, q), "~") /\ Typed(Raw(s, q)) /\ q \in Stops(s)
         /\ Said(s, q) = Said(s, p + 1) \o Raw(s, q)
         /\ Pre(Saying(s), q) = Pre(Saying(s), p) \o Saying(s)[q]
<1>1. PICK n, O, M : n = Len(s) /\ O = Opens(s) /\ M = Mutes(s)
  OBVIOUS
<1>2. /\ p \in Nat /\ p < q /\ q \in 1 .. n + 1 /\ p \in {0} \cup Breaks(s)
      /\ \A i \in p + 1 .. q - 1 :
           /\ i \in DOMAIN s /\ i \notin Breaks(s) /\ i \notin Stops(s)
           /\ i \in M <=> i \in O \/ Tilde(s, i)
           /\ Tilde(s, i) => i = q - 1
      /\ p < q - 1 => q - 1 \notin O
  BY <1>1, BetweenBreaks
<1>3. n \in Nat /\ DOMAIN s = 1 .. n /\ Stops(s) \in SUBSET Nat /\ Stops(s) \in SUBSET Breaks(s)
  BY <1>1, StopsAre DEF Typed
<1>4. PICK k : k = q - 1
  OBVIOUS
<1>5. k \in Nat /\ q = k + 1 /\ p <= k /\ k <= n /\ k = q - 1
  BY <1>2, <1>3, <1>4
<1>51. Span(s, p, k) /\ Span(s, k, k)
  BY <1>1, <1>2, <1>5 DEF Span
<1>6. PICK r : r = Raw(s, q)
  OBVIOUS
<1>7. r = Kept(s, O, p, k) /\ Typed(r)
  <2>1. r = Kept(s, O, p, k)
    BY <1>1, <1>4, <1>6, Zenon DEF Raw
  <2> QED
    BY <2>1, KeptTyped
<1>8. ~EndsWith(r, "~")
  <2>1. CASE p = k
    <3>1. r = <<>>
      BY <1>7, <1>51, <2>1, KeptNone
    <3> QED
      BY <3>1 DEF EndsWith
  <2>2. CASE p # k
    <3>1. PICK m : m = k - 1
      OBVIOUS
    <3>2. m \in Nat /\ p <= m /\ m <= n /\ m <= k /\ k \in 1 .. n /\ k - 1 = m /\ p < q - 1
      <4>1. p < k /\ k \in Nat /\ p \in Nat /\ n \in Nat /\ k <= n
        BY <1>2, <1>3, <1>5, <2>2
      <4>2. m \in Nat /\ p <= m /\ m <= n /\ m <= k /\ k \in 1 .. n /\ k - 1 = m
        BY <3>1, <4>1
      <4> QED
        BY <1>5, <4>1, <4>2
    <3>3. Span(s, p, m) /\ Span(s, m, k)
      BY <1>1, <1>2, <1>5, <3>2 DEF Span
    <3>4. k \notin O /\ s[k] # "~" /\ k \in 1 .. Len(s)
      BY <1>1, <1>2, <1>4, <3>2
    <3>5. Kept(s, O, k - 1, k) = <<s[k]>>
      BY <3>4, KeptOne
    <3>6. Kept(s, O, p, k) = Kept(s, O, p, m) \o Kept(s, O, m, k)
      <4>1. Span(s, p, m) /\ Span(s, m, k)
        BY <3>3
      <4> QED
        <5>1. Cut(s, p, m, k)
          BY <4>1 DEF Cut
        <5>2. Halves(s, O, p, m, k)
          BY <5>1, KeptCut
        <5> QED
          BY <5>2, Zenon DEF Halves
    <3>7. PICK x, c : x = Kept(s, O, p, m) /\ c = s[k]
      OBVIOUS
    <3>8. x \in Seq(Chars) /\ c \in Chars /\ c # "~"
      <4>1. Typed(x)
        BY <3>7, KeptTyped
      <4>2. s[k] \in Chars
        BY <3>4 DEF Typed
      <4> QED
        BY <3>4, <3>7, <4>1, <4>2 DEF Typed
    <3>9. r = x \o <<c>>
      BY <1>7, <3>2, <3>5, <3>6, <3>7
    <3>10. x \o <<c>> = Append(x, c)
      BY <3>8
    <3>11. Len(Append(x, c)) = Len(x) + 1 /\ Append(x, c)[Len(x) + 1] = c
      BY <3>8
    <3>12. Last(r) = c
      BY <3>9, <3>10, <3>11 DEF Last
    <3> QED
      BY <3>8, <3>12 DEF EndsWith
  <2> QED
    BY <2>1, <2>2
<1>9. ~Tilde(s, k)
  <2>1. ASSUME Tilde(s, k) PROVE FALSE
    <3>1. k \in 1 .. n /\ s[k] = "~"
      BY <1>3, <2>1 DEF Tilde
    <3>2. p = k
      BY <1>2, <1>4, <1>5, <3>1
    <3>3. k \in Breaks(s)
      BY <1>2, <3>1, <3>2
    <3>4. Lone(s, k)
      BY <1>1, <3>1, <3>3, BreaksAre
    <3> QED
      BY <3>1, <3>4 DEF Lone, IsSemi
  <2> QED
    BY <2>1
<1>10. q \in Stops(s)
  <2>1. CASE q = Len(s) + 1
    BY <2>1, StopsAre
  <2>2. CASE q # Len(s) + 1
    <3>1. q \in 1 .. Len(s)
      BY <1>1, <1>2, <1>3, <2>2
    <3>2. Lone(s, q)
      BY <3>1, BreaksAre
    <3>3. q \in Stops(s) <=> Lone(s, q) /\ ~Tilde(s, q - 1)
      BY <3>1, StopsAre
    <3> QED
      BY <1>4, <1>9, <3>2, <3>3
  <2> QED
    BY <2>1, <2>2
<1>12. PICK b : b = Before(Stops(s), p + 1)
  OBVIOUS
<1>13. IsBefore(b, Stops(s), p + 1)
  <2>1. p + 1 \in Nat /\ p + 1 > 0
    BY <1>2
  <2> QED
    BY <1>3, <1>12, <2>1, BeforeIs
<1>14. b \in Nat /\ b <= p
  BY <1>2, <1>3, <1>13 DEF IsBefore
<1>15. Said(s, p + 1) = Kept(s, M, b, p)
  <2>1. PICK j : j = p + 1
    OBVIOUS
  <2>2. j \in 1 .. Len(s) + 1 /\ j - 1 = p
    BY <1>1, <1>2, <1>3, <2>1
  <2>3. Said(s, j) = Kept(s, M, b, j - 1)
    BY <1>1, <1>13, <2>1, <2>2, SaidIs
  <2> QED
    BY <2>1, <2>2, <2>3
<1>17. Said(s, q) = Kept(s, M, b, k)
  <2>2. q \in 1 .. Len(s) + 1
    BY <1>1, <1>2
  <2>3. IsBefore(b, Stops(s), q)
    <3>1. \A i \in Stops(s) : i < q => i <= b
      <4> TAKE i \in Stops(s)
      <4>1. i \in Nat /\ i \notin p + 1 .. q - 1
        BY <1>2, <1>3
      <4>2. i < q => i < p + 1
        BY <1>2, <1>3, <4>1
      <4> QED
        BY <1>13, <4>2 DEF IsBefore
    <3>2. b < q /\ b \in {0} \cup Stops(s)
      BY <1>2, <1>3, <1>13, <1>14 DEF IsBefore
    <3> QED
      BY <3>1, <3>2 DEF IsBefore
  <2>4. Said(s, q) = Kept(s, M, b, q - 1)
    BY <1>1, <2>2, <2>3, SaidIs
  <2> QED
    BY <1>4, <2>4
<1>18. Kept(s, M, p, k) = r
  <2>1. (p + 1 .. k) \cap M = (p + 1 .. k) \cap O
    <3>1. ASSUME NEW i \in p + 1 .. k PROVE i \in M <=> i \in O
      <4>1. i \in p + 1 .. q - 1
        BY <1>4
      <4>2. ~Tilde(s, i)
        BY <1>2, <1>4, <1>9, <4>1
      <4> QED
        BY <1>2, <4>1, <4>2
    <3> QED
      BY <3>1
  <2>2. Kept(s, M, p, k) = Kept(s, O, p, k)
    BY <2>1, KeptSame
  <2> QED
    BY <1>7, <2>2
<1>19. Said(s, q) = Said(s, p + 1) \o r
  <2>1. Span(s, b, p)
    BY <1>1, <1>2, <1>5, <1>14 DEF Span
  <2>2. Kept(s, M, b, k) = Kept(s, M, b, p) \o Kept(s, M, p, k)
    <3>1. Span(s, p, k)
      BY <1>51
    <3> QED
      <4>1. Cut(s, b, p, k)
        BY <2>1, <3>1 DEF Cut
      <4>2. Halves(s, M, b, p, k)
        BY <4>1, KeptCut
      <4> QED
        BY <4>2, Zenon DEF Halves
  <2> QED
    BY <1>15, <1>17, <1>18, <2>2
<1>20. Pre(Saying(s), q) = Pre(Saying(s), p) \o Saying(s)[q]
  <2>1. PICK F, l : F = Saying(s) /\ l = n + 1
    OBVIOUS
  <2>2. Seqs(F, l, Seq(Chars)) /\ \A j \in 1 .. l :
           F[j] = IF j \in Stops(s) /\ Said(s, j) # <<>> THEN <<Said(s, j)>> ELSE <<>>
    BY <1>1, <2>1, SayingAre
  <2>3. Blank(F, p, q - 1)
    <3>1. ASSUME NEW i \in p + 1 .. k PROVE F[i] = <<>>
      <4>1. i \in 1 .. l /\ i \notin Stops(s)
        BY <1>2, <1>3, <1>4, <2>1
      <4> QED
        BY <2>2, <4>1
    <3>2. Blank(F, p, k)
      BY <3>1 DEF Blank
    <3> QED
      BY <1>4, <3>2
  <2>4. Within(p, q - 1, l)
    <3>1. Within(p, k, l)
      BY <1>2, <1>3, <1>5, <2>1 DEF Within
    <3> QED
      BY <1>4, <3>1
  <2>5. Within(q, l, l) /\ q # 0
    BY <1>2, <1>3, <2>1 DEF Within
  <2>7. Seqs(F, l, Seq(Chars))
    BY <2>2
  <2>6. Pre(F, q) = Pre(F, p) \o F[q]
    BY <2>3, <2>4, <2>5, <2>7, PreNext, SMTT(60)
  <2> QED
    BY <2>1, <2>6
<1> QED
  BY <1>6, <1>7, <1>8, <1>10, <1>19, <1>20

LEMMA SameSeq ==
  ASSUME NEW S, NEW s \in Seq(S)
  PROVE  s = [i \in 1 .. Len(s) |-> s[i]]
OBVIOUS

LEMMA ConsIs ==
  ASSUME NEW S, NEW e \in S, NEW x \in Seq(S)
  PROVE  <<e>> \o x # <<>> /\ Head(<<e>> \o x) = e /\ Tail(<<e>> \o x) = x
<1>1. PICK l : l = <<e>> \o x
  OBVIOUS
<1>2. /\ l \in Seq(S) /\ Len(l) = Len(x) + 1 /\ Len(x) \in Nat /\ l[1] = e
      /\ \A i \in 1 .. Len(x) : l[i + 1] = x[i]
  BY <1>1
<1>3. l # <<>> /\ Head(l) = e
  BY <1>2
<1>4. /\ Tail(l) \in Seq(S) /\ Len(Tail(l)) = Len(x)
      /\ \A i \in 1 .. Len(x) : Tail(l)[i] = l[i + 1]
  BY <1>2, <1>3
<1>5. Tail(l) = x
  <2> PICK t : t = Tail(l)
    OBVIOUS
  <2>0. t \in Seq(S) /\ Len(t) = Len(x)
    BY <1>4
  <2>1. t = [i \in 1 .. Len(t) |-> t[i]] /\ x = [i \in 1 .. Len(x) |-> x[i]]
    BY <2>0, SameSeq
  <2>2. \A i \in 1 .. Len(x) : t[i] = x[i]
    BY <1>2, <1>4
  <2> QED
    BY <2>0, <2>1, <2>2, Zenon
<1> QED
  BY <1>1, <1>3, <1>5

(***************************************************************************)
(* Reading the pieces of a text, from one break to the next.               *)
(***************************************************************************)
\* The pieces up to p are read, l is left and h held back.
Reads(s, p, l, h) ==
  /\ p \in {0} \cup Breaks(s) /\ l \in Lists /\ h = Said(s, p + 1)
  /\ Pre(Cuts(s), p) \o l = FlattenSeq(Cuts(s))

\* Before the first piece is read.
LEMMA ReadsStart ==
  ASSUME NEW s, Typed(s), ~Lone(s, 1)
  PROVE  Reads(s, 0, splitSemicolonSafe(s), <<>>)
<1>1. PICK l : l = splitSemicolonSafe(s)
  OBVIOUS
<1>2. l = FlattenSeq(Cuts(s))
  BY <1>1, SplitIs
<1>3. PICK n, M : n = Len(s) + 1 /\ M = Mutes(s)
  OBVIOUS
<1>4. Beginnings(Cuts(s), n, Seq(Chars)) /\ l = Pre(Cuts(s), n) /\ n \in Nat
  BY <1>2, <1>3, CutsAre DEF Typed
<1>5. n \in 0 .. n
  BY <1>4
<1>6. Pre(Cuts(s), 0) = <<>> /\ l \in Lists
  BY <1>4, <1>5, Zenon DEF Beginnings, Lists
<1>7. <<>> \o l = l
  BY <1>6 DEF Lists
<1>8. Said(s, 0 + 1) = <<>>
  <2>1. PICK j : j = 0 + 1
    OBVIOUS
  <2>2. j \in 1 .. Len(s) + 1 /\ j - 1 = 0 /\ Len(s) \in Nat
    BY <2>1 DEF Typed
  <2>3. IsBefore(0, Stops(s), j)
    <3>1. \A i \in Stops(s) : i \in 1 .. Len(s) + 1
      BY StopsAre, BreaksAre
    <3>2. \A i \in Stops(s) : ~(i < j)
      BY <2>1, <2>2, <3>1
    <3> QED
      BY <2>1, <3>2 DEF IsBefore
  <2>4. Said(s, j) = Kept(s, M, 0, j - 1)
    BY <1>3, <2>2, <2>3, SaidIs
  <2>5. Span(s, 0, 0)
    BY <2>2 DEF Span
  <2>6. Kept(s, M, 0, 0) = <<>>
    BY <2>5, KeptNone
  <2> QED
    BY <2>1, <2>2, <2>4, <2>6
<1> QED
  BY <1>1, <1>2, <1>6, <1>7, <1>8 DEF Reads

\* There is a piece left as long as there is a break left, and it ends there.
LEMMA ReadsCut ==
  ASSUME NEW s, NEW p, NEW l, NEW h, Typed(s), Reads(s, p, l, h)
  PROVE  /\ l = <<>> => p = Len(s) + 1
         /\ l # <<>> => \E q \in Breaks(s) :
              /\ p = Before(Breaks(s), q) /\ Head(l) = Raw(s, q) /\ Tail(l) \in Lists
              /\ Pre(Cuts(s), q) \o Tail(l) = FlattenSeq(Cuts(s))
<1>1. PICK n, F, B : n = Len(s) + 1 /\ F = Cuts(s) /\ B = Breaks(s)
  OBVIOUS
<1>2. n \in Nat /\ B \in SUBSET (1 .. n) /\ B \in SUBSET Nat /\ n \in B
  BY <1>1, BreaksAre
<1>3. Seqs(F, n, Seq(Chars)) /\ Beginnings(F, n, Seq(Chars)) /\ FlattenSeq(F) = Pre(F, n)
  BY <1>1, CutsAre
<1>4. p \in {0} \cup B /\ p \in 0 .. n /\ l \in Seq(Seq(Chars)) /\ Pre(F, p) \o l = Pre(F, n)
  BY <1>1, <1>2, <1>3 DEF Reads, Lists
<1>5. Pre(F, p) \in Seq(Seq(Chars)) /\ Pre(F, n) \in Seq(Seq(Chars))
  <2>1. n \in 0 .. n
    BY <1>2
  <2> QED
    BY <1>3, <1>4, <2>1, Zenon DEF Beginnings
<1>6. CASE p = n
  <2>1. Pre(F, p) \o l = Pre(F, p) \o <<>>
    BY <1>4, <1>5, <1>6, ConcatNone
  <2>2. <<>> \in Seq(Seq(Chars))
    OBVIOUS
  <2>3. l = <<>>
    BY <1>4, <1>5, <2>1, <2>2, ConcatCancel
  <2> QED
    BY <1>1, <1>6, <2>3
<1>7. CASE p # n
  <2>1. PICK q \in {i \in B : p < i} : \A y \in {i \in B : p < i} : q <= y
    <3>1. n \in {i \in B : p < i}
      BY <1>2, <1>4, <1>7
    <3>2. {i \in B : p < i} \in SUBSET Nat
      BY <1>2
    <3> QED
      BY <3>1, <3>2, Least
  <2>2. q \in B /\ q \in 1 .. n /\ p < q /\ q \in Nat /\ p \in Nat
    BY <1>2, <1>4, <2>1
  <2>3. IsBefore(p, B, q)
    <3>1. \A i \in B : i < q => i <= p
      BY <1>2, <2>1, <2>2
    <3> QED
      BY <1>4, <2>2, <3>1 DEF IsBefore
  <2>4. Before(B, q) = p
    <3>1. q > 0
      BY <2>2
    <3> QED
      BY <1>2, <2>2, <2>3, <3>1, BeforeOnly
  <2>5. Pre(F, q) = Pre(F, p) \o <<Raw(s, q)>>
    BY <1>1, <2>2, <2>4, CutsStep
  <2>6. PICK x \in Seq(Seq(Chars)) : Pre(F, n) = Pre(F, q) \o x
    <3>1. Within(q, n, n)
      BY <1>2, <2>2 DEF Within
    <3>2. Seqs(F, n, Seq(Chars))
      BY <1>3
    <3>3. \E x \in Seq(Seq(Chars)) : Pre(F, n) = Pre(F, q) \o x
      BY <3>1, <3>2, PreGrows
    <3> QED
      BY <3>3
  <2>7. PICK a, e : a = Pre(F, p) /\ e = <<Raw(s, q)>>
    OBVIOUS
  <2>8. a \in Seq(Seq(Chars)) /\ e \in Seq(Seq(Chars)) /\ Raw(s, q) \in Seq(Chars)
    <3>1. Raw(s, q) \in Seq(Chars)
      BY KeptTyped DEF Raw, Typed
    <3>2. <<Raw(s, q)>> \in Seq(Seq(Chars))
      BY <3>1, OneTyped
    <3> QED
      BY <1>5, <2>7, <3>1, <3>2
  <2>9. a \o l = a \o (e \o x)
    <3>1. (a \o e) \o x = a \o (e \o x)
      <4>1. Three(Seq(Chars), a, e, x)
        BY <2>6, <2>8 DEF Three
      <4>2. Assoc(a, e, x)
        BY <4>1, ThreeAssoc
      <4> QED
        BY <4>2, Zenon DEF Assoc
    <3> QED
      BY <1>4, <2>5, <2>6, <2>7, <3>1
  <2>10. l = e \o x
    <3>1. e \o x \in Seq(Seq(Chars))
      BY <2>6, <2>8, ConcatTyped
    <3> QED
      BY <1>4, <2>8, <2>9, <3>1, ConcatCancel
  <2>11. l # <<>> /\ Head(l) = Raw(s, q) /\ Tail(l) = x
    BY <2>6, <2>7, <2>8, <2>10, ConsIs
  <2>12. Pre(F, q) \o x = FlattenSeq(F)
    BY <1>3, <2>6
  <2> QED
    BY <1>1, <1>7, <2>2, <2>4, <2>6, <2>11, <2>12 DEF Lists
<1> QED
  BY <1>6, <1>7

(***************************************************************************)
(* What a list of pieces, behind what is held back, still says.            *)
(***************************************************************************)
Over(s, V)  == s \in Seq(V)
Spoken(V)   == Seq(V) \ {<<>>}

\* The commands of a text are made of its characters.
LEMMA SayingOf ==
  ASSUME NEW s, NEW V, Typed(s), Over(s, V)
  PROVE  /\ Seqs(Saying(s), Len(s) + 1, Spoken(V))
         /\ Beginnings(Saying(s), Len(s) + 1, Spoken(V))
         /\ Meaning(s) = Pre(Saying(s), Len(s) + 1)
         /\ Meaning(s) \in Seq(Spoken(V))
<1>1. PICK n, F : n = Len(s) + 1 /\ F = Saying(s)
  OBVIOUS
<1>2. n \in Nat /\ \A j \in 1 .. n :
        F[j] = IF j \in Stops(s) /\ Said(s, j) # <<>> THEN <<Said(s, j)>> ELSE <<>>
  BY <1>1, SayingAre DEF Typed
<1>3. \A j \in 1 .. n : F[j] \in Seq(Spoken(V))
  <2> TAKE j \in 1 .. n
  <2>1. PICK x : x = Said(s, j)
    OBVIOUS
  <2>2. x \in Seq(V)
    <3>1. PICK T : T = {i \in Begin(s, j) + 1 .. j - 1 : ~Silent(s, i)}
      OBVIOUS
    <3>2. At(s, T) \in Seq(V)
      BY AtIn DEF Over
    <3>3. Said(s, j) = At(s, T)
      BY <3>1, Zenon DEF Said
    <3> QED
      BY <2>1, <3>2, <3>3
  <2>3. x # <<>> => x \in Spoken(V)
    BY <2>2 DEF Spoken
  <2>4. x # <<>> => <<x>> \in Seq(Spoken(V))
    BY <2>3, OneTyped
  <2>5. <<>> \in Seq(Spoken(V))
    OBVIOUS
  <2> QED
    BY <1>2, <2>1, <2>4, <2>5
<1>4. F = [j \in 1 .. n |-> F[j]]
  BY <1>1 DEF Saying
<1>5. Seqs(F, n, Spoken(V))
  BY <1>2, <1>3, <1>4 DEF Seqs
<1>6. Beginnings(F, n, Spoken(V))
  BY <1>5, PreIs
<1>7. Meaning(s) = Pre(F, n)
  BY <1>1, SayingAre
<1>8. n \in 0 .. n
  BY <1>2
<1>9. Pre(F, n) \in Seq(Spoken(V))
  BY <1>6, <1>8, Zenon DEF Beginnings
<1> QED
  BY <1>1, <1>5, <1>6, <1>7, <1>9

\* The text it is read from, and how far.
From(s, p, l, h, c, V) ==
  /\ Typed(s) /\ Whole(s) /\ Over(s, V) /\ Reads(s, p, l, h)
  /\ Over(c, Spoken(V)) /\ Pre(Saying(s), p) \o c = Meaning(s)

Owes(l, h, c, V) == \E s, p : From(s, p, l, h, c, V)

\* At the beginning the list owes what the text means.
LEMMA OwesStart ==
  ASSUME NEW s, NEW V, Typed(s), Whole(s), Over(s, V)
  PROVE  Owes(splitSemicolonSafe(s), <<>>, Meaning(s), V)
<1>1. Reads(s, 0, splitSemicolonSafe(s), <<>>)
  BY ReadsStart DEF Whole
<1>2. Beginnings(Saying(s), Len(s) + 1, Spoken(V)) /\ Meaning(s) \in Seq(Spoken(V))
  BY SayingOf
<1>3. Pre(Saying(s), 0) = <<>>
  BY <1>2, Zenon DEF Beginnings
<1>4. <<>> \o Meaning(s) = Meaning(s)
  BY <1>2, ConcatNone
<1>5. Pre(Saying(s), 0) \o Meaning(s) = Meaning(s)
  BY <1>3, <1>4
<1>6. Over(Meaning(s), Spoken(V))
  BY <1>2 DEF Over
<1> QED
  BY <1>1, <1>5, <1>6, Zenon DEF Owes, From

\* What owes something is well typed, and so is what is owed.
LEMMA OwesTyped ==
  ASSUME NEW l, NEW h, NEW c, NEW V, Owes(l, h, c, V)
  PROVE  l \in Lists /\ Over(c, Spoken(V)) /\ Typed(h)
<1>1. PICK s, p : From(s, p, l, h, c, V)
  BY Zenon DEF Owes
<1>2. Typed(s) /\ Reads(s, p, l, h) /\ Over(c, Spoken(V))
  BY <1>1, Zenon DEF From
<1>3. h = Said(s, p + 1) /\ l \in Lists
  BY <1>2, Zenon DEF Reads
<1>4. Typed(Said(s, p + 1))
  BY <1>2, SaidTyped
<1> QED
  BY <1>2, <1>3, <1>4

Rest(s, p, c)    == Pre(Saying(s), p) \o c = Meaning(s)
Follows(a, b, M) == \E x \in Seq(M) : b = a \o x

\* PreGrows, with its conclusion named.
LEMMA PreFollows ==
  ASSUME NEW M, NEW n, NEW F, NEW a, NEW b, Seqs(F, n, M), Within(a, b, n)
  PROVE  Follows(Pre(F, a), Pre(F, b), M)
<1>1. \E x \in Seq(M) : Pre(F, b) = Pre(F, a) \o x
  BY PreGrows
<1> QED
  BY <1>1, Zenon DEF Follows

\* What is said from some position on, of what is said from an earlier one on.
Remains(s, V, p, q, c, e) ==
  /\ Typed(s) /\ Over(s, V) /\ Within(p, q, Len(s) + 1) /\ Over(c, Spoken(V))
  /\ Over(e, Spoken(V)) /\ Rest(s, p, c) /\ Pre(Saying(s), q) = Pre(Saying(s), p) \o e

LEMMA SayingRest ==
  ASSUME NEW s, NEW V, NEW p, NEW q, NEW c, NEW e, Remains(s, V, p, q, c, e)
  PROVE  \E x : Over(x, Spoken(V)) /\ c = e \o x /\ Rest(s, q, x)
<1> /\ Typed(s) /\ Over(s, V) /\ Within(p, q, Len(s) + 1) /\ Over(c, Spoken(V))
    /\ Over(e, Spoken(V)) /\ Rest(s, p, c) /\ Pre(Saying(s), q) = Pre(Saying(s), p) \o e
  BY Zenon DEF Remains
<1>1. PICK n, F, S : n = Len(s) + 1 /\ F = Saying(s) /\ S = Spoken(V)
  OBVIOUS
<1>2. Seqs(F, n, S) /\ Beginnings(F, n, S) /\ Meaning(s) = Pre(F, n) /\ n \in Nat
  <2>1. n \in Nat
    BY <1>1 DEF Typed
  <2> QED
    BY <1>1, <2>1, SayingOf
<1>3. p \in 0 .. n /\ q \in 0 .. n /\ c \in Seq(S) /\ e \in Seq(S)
  BY <1>1 DEF Over, Within
<1>4. PICK a, b : a = Pre(F, p) /\ b = Pre(F, q)
  OBVIOUS
<1>5. a \in Seq(S) /\ b \in Seq(S)
  BY <1>2, <1>3, <1>4, Zenon DEF Beginnings
<1>6. PICK x \in Seq(S) : Pre(F, n) = Pre(F, q) \o x
  <2>1. Within(q, n, n)
    BY <1>2, <1>3 DEF Within
  <2>2. Seqs(F, n, S)
    BY <1>2
  <2>3. Follows(Pre(F, q), Pre(F, n), S)
    BY <2>1, <2>2, PreFollows
  <2> QED
    BY <2>3, Zenon DEF Follows
<1>7. (a \o e) \o x = a \o (e \o x) /\ e \o x \in Seq(S)
  <2>1. x \in Seq(S)
    BY <1>6
  <2>2. Three(S, a, e, x)
    BY <1>3, <1>5, <2>1 DEF Three
  <2>3. e \o x \in Seq(S)
    BY <1>3, <2>1, ConcatTyped
  <2>4. Assoc(a, e, x)
    BY <2>2, <2>3, ThreeAssoc
  <2> QED
    BY <2>4, <2>3, Zenon DEF Assoc
<1>8. a \o c = a \o (e \o x)
  <2>1. a \o c = Meaning(s)
    BY <1>1, <1>4, Zenon DEF Rest
  <2>2. Meaning(s) = b \o x /\ b = a \o e
    BY <1>1, <1>2, <1>4, <1>6
  <2> QED
    BY <1>7, <2>1, <2>2
<1>9. c = e \o x
  BY <1>3, <1>5, <1>7, <1>8, ConcatCancel
<1>10. Pre(F, q) \o x = Meaning(s)
  BY <1>2, <1>6
<1> QED
  BY <1>1, <1>6, <1>9, <1>10 DEF Over, Rest

\* An empty list owes nothing.
LEMMA OwesNone ==
  ASSUME NEW h, NEW c, NEW V, Owes(<<>>, h, c, V)
  PROVE  h = <<>> /\ c = <<>>
<1>1. PICK s, p : From(s, p, <<>>, h, c, V)
  BY Zenon DEF Owes
<1>2. /\ Typed(s) /\ Over(s, V) /\ Reads(s, p, <<>>, h)
      /\ Over(c, Spoken(V)) /\ Pre(Saying(s), p) \o c = Meaning(s)
  BY <1>1, Zenon DEF From
<1>3. p = Len(s) + 1
  BY <1>2, ReadsCut
<1>4. h = Said(s, p + 1)
  BY <1>2, Zenon DEF Reads
<1>5. Said(s, p + 1) = <<>>
  <2>1. p \in Stops(s)
    BY <1>2, <1>3, StopsAre
  <2> QED
    BY <1>2, <2>1, SaidNone
<1>6. PICK m, S : m = Meaning(s) /\ S = Spoken(V)
  OBVIOUS
<1>7. m \in Seq(S) /\ m = Pre(Saying(s), p) /\ c \in Seq(S)
  BY <1>2, <1>3, <1>6, SayingOf DEF Over
<1>8. m \o c = m \o <<>>
  BY <1>2, <1>6, <1>7, ConcatNone
<1>9. <<>> \in Seq(S)
  OBVIOUS
<1>10. c = <<>>
  BY <1>7, <1>8, <1>9, ConcatCancel
<1> QED
  BY <1>4, <1>5, <1>10

\* Behind the command m of c, the list l says x.
Left(l, m, c, x, V) ==
  /\ Owes(l, <<>>, x, V)
  /\ m = <<>> => c = x
  /\ m # <<>> => m \in Spoken(V) /\ c = <<m>> \o x

\* The next piece.
LEMMA OwesNext ==
  ASSUME NEW l, NEW h, NEW c, NEW V, Owes(l, h, c, V), l # <<>>
  PROVE  /\ EndsWith(Head(l), "~") => Owes(Tail(l), (h \o Front(Head(l))) \o <<";">>, c, V)
         /\ ~EndsWith(Head(l), "~") => \E x : Left(Tail(l), h \o Head(l), c, x, V)
<1>1. PICK s, p : From(s, p, l, h, c, V)
  BY Zenon DEF Owes
<1>2. /\ Typed(s) /\ Whole(s) /\ Over(s, V) /\ Reads(s, p, l, h)
      /\ Over(c, Spoken(V)) /\ Pre(Saying(s), p) \o c = Meaning(s)
  BY <1>1, Zenon DEF From
<1>3. PICK q \in Breaks(s) : /\ p = Before(Breaks(s), q) /\ Head(l) = Raw(s, q) /\ Tail(l) \in Lists
                             /\ Pre(Cuts(s), q) \o Tail(l) = FlattenSeq(Cuts(s))
  BY <1>2, ReadsCut
<1>4. h = Said(s, p + 1)
  BY <1>2, Zenon DEF Reads
<1>5. /\ Len(s) \in Nat /\ p \in Nat /\ p < q /\ q \in 1 .. Len(s) + 1
      /\ p \in 0 .. Len(s) + 1 /\ q \in 0 .. Len(s) + 1
  <2>1. Len(s) \in Nat
    BY <1>2 DEF Typed
  <2>2. p \in Nat /\ p < q /\ q \in 1 .. Len(s) + 1
    BY <1>2, <1>3, BetweenBreaks
  <2> QED
    BY <2>1, <2>2
<1>6. Reads(s, q, Tail(l), Said(s, q + 1))
  BY <1>3, Zenon DEF Reads
<1>7. CASE p < q - 1 /\ s[q - 1] = "~"
  <2>1. q # Len(s) + 1
    <3>1. ASSUME q = Len(s) + 1 PROVE FALSE
      <4>1. q - 1 = Len(s) /\ Len(s) # 0
        BY <1>5, <1>7, <3>1
      <4>2. s # <<>> /\ Last(s) = s[Len(s)]
        BY <1>2, <4>1 DEF Typed, Last
      <4>3. EndsWith(s, "~")
        BY <1>7, <4>1, <4>2 DEF EndsWith
      <4> QED
        BY <1>2, <4>3 DEF Whole
    <3> QED
      BY <3>1
  <2>2. /\ EndsWith(Raw(s, q), "~")
        /\ Said(s, q + 1) = (Said(s, p + 1) \o Front(Raw(s, q))) \o <<";">>
        /\ Pre(Saying(s), q) = Pre(Saying(s), p)
    BY <1>2, <1>3, <1>7, <2>1, ReadOn
  <2>3. From(s, q, Tail(l), (h \o Front(Head(l))) \o <<";">>, c, V)
    BY <1>2, <1>3, <1>4, <1>6, <2>2, Zenon DEF From
  <2> QED
    BY <1>3, <2>2, <2>3, Zenon DEF Owes
<1>8. CASE ~(p < q - 1 /\ s[q - 1] = "~")
  <2>1. /\ ~EndsWith(Raw(s, q), "~") /\ q \in Stops(s)
        /\ Said(s, q) = Said(s, p + 1) \o Raw(s, q)
        /\ Pre(Saying(s), q) = Pre(Saying(s), p) \o Saying(s)[q]
    BY <1>2, <1>3, <1>8, ReadCommand
  <2>2. PICK m : m = h \o Head(l)
    OBVIOUS
  <2>3. m = Said(s, q)
    BY <1>3, <1>4, <2>1, <2>2
  <2>4. PICK e : e = Saying(s)[q]
    OBVIOUS
  <2>5. e = IF m # <<>> THEN <<m>> ELSE <<>>
    <3>1. Saying(s)[q] = IF q \in Stops(s) /\ Said(s, q) # <<>> THEN <<Said(s, q)>> ELSE <<>>
      BY <1>2, <1>5, SayingAre
    <3> QED
      BY <2>1, <2>3, <2>4, <3>1
  <2>6. e \in Seq(Spoken(V))
    <3>1. Seqs(Saying(s), Len(s) + 1, Spoken(V))
      BY <1>2, SayingOf
    <3> QED
      BY <1>5, <2>4, <3>1 DEF Seqs
  <2>7. PICK x : Over(x, Spoken(V)) /\ c = e \o x /\ Pre(Saying(s), q) \o x = Meaning(s)
    <3>1. Over(e, Spoken(V)) /\ Pre(Saying(s), q) = Pre(Saying(s), p) \o e
      BY <2>1, <2>4, <2>6 DEF Over
    <3>2. Rest(s, p, c) /\ Within(p, q, Len(s) + 1)
      BY <1>2, <1>5 DEF Rest, Within
    <3>3. \E x : Over(x, Spoken(V)) /\ c = e \o x /\ Rest(s, q, x)
      <4>1. Remains(s, V, p, q, c, e)
        BY <1>2, <3>1, <3>2, Zenon DEF Remains
      <4> QED
        BY <4>1, SayingRest
    <3> QED
      BY <3>3, Zenon DEF Rest
  <2>8. Said(s, q + 1) = <<>>
    BY <1>2, <2>1, SaidNone
  <2>9. From(s, q, Tail(l), <<>>, x, V)
    BY <1>2, <1>6, <2>7, <2>8, Zenon DEF From
  <2>10. Owes(Tail(l), <<>>, x, V)
    BY <2>9, Zenon DEF Owes
  <2>11. m = <<>> => c = x
    <3>1. <<>> \o x = x
      BY <2>7, ConcatNone DEF Over
    <3> QED
      BY <2>5, <2>7, <3>1
  <2>12. m # <<>> => m \in Spoken(V) /\ c = <<m>> \o x
    <3>1. ASSUME m # <<>> PROVE m \in Spoken(V)
      <4>1. e = <<m>> /\ Len(e) = 1 /\ e[1] = m
        BY <2>5, <3>1
      <4> QED
        BY <2>6, <4>1
    <3> QED
      BY <2>5, <2>7, <3>1
  <2>13. Left(Tail(l), m, c, x, V)
    BY <2>10, <2>11, <2>12, Zenon DEF Left
  <2> QED
    BY <1>3, <2>1, <2>2, <2>13
<1> QED
  BY <1>7, <1>8

(***************************************************************************)
(* Commands without dots, and those without aliases.                       *)
(***************************************************************************)
Dotless == Chars \ {"."}
Bare    == Dotless \ Names

\* A text that is Whole has no dots.
LEMMA WholeIs ==
  ASSUME NEW s, Typed(s), Whole(s)
  PROVE  Over(s, Dotless) /\ (~HasAlias(s) => Over(s, Bare))
<1>1. Len(s) \in Nat /\ DOMAIN s = 1 .. Len(s) /\ \A i \in 1 .. Len(s) : s[i] \in Chars
  BY DEF Typed
<1>2. \A i \in 1 .. Len(s) : s[i] # "."
  BY DEF Whole, Contains
<1>3. s = [i \in 1 .. Len(s) |-> s[i]]
  BY DEF Typed
<1>4. ASSUME NEW S, \A i \in 1 .. Len(s) : s[i] \in S PROVE s \in Seq(S)
  <2>1. s \in [1 .. Len(s) -> S]
    BY <1>3, <1>4
  <2> QED
    BY <1>1, <2>1, AnySeq
<1>5. \A i \in 1 .. Len(s) : s[i] \in Dotless
  BY <1>1, <1>2 DEF Dotless
<1>6. ~HasAlias(s) => \A i \in 1 .. Len(s) : s[i] \in Bare
  BY <1>1, <1>5 DEF HasAlias, Bare
<1> QED
  BY <1>4, <1>5, <1>6 DEF Over

\* A command without dots is no dot command.
LEMMA SpokenIs ==
  ASSUME NEW c, c \in Spoken(Dotless)
  PROVE  /\ Typed(c) /\ c # <<>> /\ ~StartsWith(c, <<".">>) /\ c # <<".", ".">>
         /\ c \in Spoken(Bare) => ~HasAlias(c)
<1>1. /\ c \in Seq(Dotless) /\ c # <<>> /\ Len(c) \in Nat \ {0} /\ DOMAIN c = 1 .. Len(c)
      /\ \A i \in 1 .. Len(c) : c[i] \in Chars /\ c[i] # "."
  <2>1. c \in Seq(Dotless) /\ c # <<>>
    BY DEF Spoken
  <2> QED
    BY <2>1 DEF Dotless
<1>2. Typed(c)
  <2>1. c = [i \in 1 .. Len(c) |-> c[i]]
    BY <1>1
  <2>2. c \in [1 .. Len(c) -> Chars]
    BY <1>1, <2>1
  <2> QED
    BY <1>1, <2>2, AnySeq DEF Typed
<1>3. c[1] # "."
  BY <1>1
<1>4. ~StartsWith(c, <<".">>)
  <2>1. ASSUME IsPrefix(<<".">>, c) PROVE FALSE
    <3>1. SubSeq(c, 1, Len(<<".">>)) = <<".">>
      BY <1>1, <2>1 DEF IsPrefix
    <3>2. SubSeq(c, 1, 1)[1] = c[1] /\ Len(<<".">>) = 1 /\ <<".">>[1] = "."
      BY <1>1
    <3> QED
      BY <1>3, <3>1, <3>2
  <2> QED
    BY <2>1, Zenon DEF StartsWith
<1>5. c # <<".", ".">>
  <2>1. <<".", ".">>[1] = "."
    OBVIOUS
  <2> QED
    BY <1>3, <2>1
<1>6. c \in Spoken(Bare) => ~HasAlias(c)
  <2>1. ASSUME c \in Spoken(Bare) PROVE ~HasAlias(c)
    <3>1. c \in Seq(Bare)
      BY <2>1 DEF Spoken
    <3>2. \A i \in 1 .. Len(c) : c[i] \in Bare
      BY <3>1
    <3> QED
      BY <1>1, <3>2 DEF HasAlias, Bare
  <2> QED
    BY <2>1
<1> QED
  BY <1>1, <1>2, <1>4, <1>5, <1>6

\* One without aliases is one without dots.
LEMMA SpokenMore ==
  ASSUME NEW c, c \in Spoken(Bare)
  PROVE  c \in Spoken(Dotless)
<1>1. c \in Seq(Bare) /\ c # <<>>
  BY DEF Spoken
<1>2. c \in Seq(Dotless)
  BY <1>1 DEF Bare
<1> QED
  BY <1>1, <1>2 DEF Spoken

(***************************************************************************)
(* What the list says: the commands of the line, behind those of one text  *)
(* of an alias, which has no aliases any more.                             *)
(***************************************************************************)
Both(l, h, c, k, m, d, e) ==
  /\ l = k \o m /\ c = d \o e
  /\ Owes(k, h, d, Bare) /\ Owes(m, <<>>, e, Dotless)

Due(l, h, c) ==
  \/ Owes(l, h, c, Dotless)
  \/ \E k, m, d, e : Both(l, h, c, k, m, d, e)

\* Of two lists, the first not empty.
LEMMA HeadOfBoth ==
  ASSUME NEW k, NEW m, k \in Lists, m \in Lists
  PROVE  /\ k # <<>> => k \o m # <<>> /\ Head(k \o m) = Head(k) /\ Tail(k \o m) = Tail(k) \o m
         /\ k = <<>> => k \o m = m
<1>1. PICK S : S = Seq(Chars)
  OBVIOUS
<1>2. k \in Seq(S) /\ m \in Seq(S)
  BY <1>1 DEF Lists
<1>3. ASSUME k # <<>>
      PROVE  k \o m # <<>> /\ Head(k \o m) = Head(k) /\ Tail(k \o m) = Tail(k) \o m
  <2>1. PICK e, t : e = Head(k) /\ t = Tail(k)
    OBVIOUS
  <2>2. e \in S /\ t \in Seq(S) /\ k = <<e>> \o t
    BY <1>2, <1>3, <2>1
  <2>3. <<e>> \in Seq(S)
    BY <2>2, OneTyped
  <2>4. k \o m = <<e>> \o (t \o m) /\ t \o m \in Seq(S)
    BY <1>2, <2>2, <2>3, ConcatAssoc, ConcatTyped
  <2>5. <<e>> \o (t \o m) # <<>> /\ Head(<<e>> \o (t \o m)) = e /\ Tail(<<e>> \o (t \o m)) = t \o m
    BY <2>2, <2>4, ConsIs
  <2> QED
    BY <2>1, <2>4, <2>5
<1>4. <<>> \o m = m
  BY <1>2, ConcatNone
<1> QED
  BY <1>3, <1>4

\* Once the first is empty, there is only the second.
LEMMA BothEnds ==
  ASSUME NEW l, NEW h, NEW c, NEW m, NEW d, NEW e, Both(l, h, c, <<>>, m, d, e)
  PROVE  Owes(l, h, c, Dotless)
<1>1. l = <<>> \o m /\ c = d \o e /\ Owes(<<>>, h, d, Bare) /\ Owes(m, <<>>, e, Dotless)
  BY Zenon DEF Both
<1>2. h = <<>> /\ d = <<>>
  BY <1>1, OwesNone
<1>3. <<>> \o m = m
  <2>1. m \in Seq(Seq(Chars))
    BY <1>1, OwesTyped DEF Lists
  <2> QED
    BY <2>1, ConcatNone
<1>4. <<>> \o e = e
  <2>1. e \in Seq(Spoken(Dotless))
    BY <1>1, OwesTyped DEF Over
  <2> QED
    BY <2>1, ConcatNone
<1>5. l = m /\ c = e
  BY <1>1, <1>2, <1>3, <1>4
<1> QED
  BY <1>1, <1>2, <1>5

\* The same for what is due of two lists, an alias' and the rest of the line's.
LEMMA DueNone ==
  ASSUME NEW h, NEW c, Due(<<>>, h, c)
  PROVE  h = <<>> /\ c = <<>>
<1>1. CASE Owes(<<>>, h, c, Dotless)
  BY <1>1, OwesNone
<1>2. CASE \E k, m, d, e : Both(<<>>, h, c, k, m, d, e)
  <2>1. PICK k, m, d, e : Both(<<>>, h, c, k, m, d, e)
    BY <1>2
  <2>2. <<>> = k \o m /\ Owes(k, h, d, Bare) /\ Owes(m, <<>>, e, Dotless)
    BY <2>1, Zenon DEF Both
  <2>3. k \in Lists /\ m \in Lists
    BY <2>2, OwesTyped
  <2>4. k = <<>>
    BY <2>2, <2>3, HeadOfBoth
  <2>5. Owes(<<>>, h, c, Dotless)
    BY <2>1, <2>4, BothEnds
  <2> QED
    BY <2>5, OwesNone
<1> QED
  BY <1>1, <1>2, Zenon DEF Due

LEMMA DueTyped ==
  ASSUME NEW l, NEW h, NEW c, Due(l, h, c)
  PROVE  l \in Lists /\ Typed(h) /\ Over(c, Spoken(Dotless))
<1>1. CASE Owes(l, h, c, Dotless)
  BY <1>1, OwesTyped
<1>2. CASE \E k, m, d, e : Both(l, h, c, k, m, d, e)
  <2>1. PICK k, m, d, e : Both(l, h, c, k, m, d, e)
    BY <1>2
  <2>2. /\ l = k \o m /\ c = d \o e
        /\ Owes(k, h, d, Bare) /\ Owes(m, <<>>, e, Dotless)
    BY <2>1, Zenon DEF Both
  <2>3. k \in Lists /\ m \in Lists /\ Over(d, Spoken(Bare)) /\ Over(e, Spoken(Dotless)) /\ Typed(h)
    BY <2>2, OwesTyped
  <2>4. k \in Seq(Seq(Chars)) /\ m \in Seq(Seq(Chars))
    BY <2>3 DEF Lists
  <2>5. l \in Seq(Seq(Chars))
    BY <2>2, <2>4, ConcatTyped
  <2>6. d \in Seq(Spoken(Dotless)) /\ e \in Seq(Spoken(Dotless))
    <3>1. PICK S, T : S = Spoken(Bare) /\ T = Spoken(Dotless)
      OBVIOUS
    <3>2. S \in SUBSET T
      BY <3>1, SpokenMore
    <3>3. d \in Seq(S) /\ e \in Seq(T)
      BY <2>3, <3>1 DEF Over
    <3>4. d \in Seq(T)
      BY <3>2, <3>3
    <3> QED
      BY <3>1, <3>3, <3>4
  <2>7. c \in Seq(Spoken(Dotless))
    BY <2>2, <2>6, ConcatTyped
  <2> QED
    BY <2>3, <2>5, <2>7 DEF Over, Lists
<1> QED
  BY <1>1, <1>2, Zenon DEF Due

\* The command that comes next: behind it the line goes on, or it has no alias.
Then(l, m, c, x) ==
  /\ Due(l, <<>>, x)
  /\ m = <<>> => c = x
  /\ m # <<>> => /\ m \in Spoken(Dotless) /\ c = <<m>> \o x
                 /\ m \in Spoken(Bare) \/ Owes(l, <<>>, x, Dotless)

\* A piece is read: it is held back, or it is a command and the rest is due.
LEMMA DueNext ==
  ASSUME NEW l, NEW h, NEW c, Due(l, h, c), l # <<>>
  PROVE  /\ EndsWith(Head(l), "~") => Due(Tail(l), (h \o Front(Head(l))) \o <<";">>, c)
         /\ ~EndsWith(Head(l), "~") => \E x : Then(Tail(l), h \o Head(l), c, x)
<1>1. CASE Owes(l, h, c, Dotless)
  <2>1. CASE EndsWith(Head(l), "~")
    <3>1. Owes(Tail(l), (h \o Front(Head(l))) \o <<";">>, c, Dotless)
      BY <1>1, <2>1, OwesNext
    <3> QED
      BY <2>1, <3>1, Zenon DEF Due
  <2>2. CASE ~EndsWith(Head(l), "~")
    <3>1. PICK x : Left(Tail(l), h \o Head(l), c, x, Dotless)
      BY <1>1, <2>2, OwesNext
    <3>2. Then(Tail(l), h \o Head(l), c, x)
      BY <3>1, Zenon DEF Left, Then, Due
    <3> QED
      BY <2>2, <3>2
  <2> QED
    BY <2>1, <2>2
<1>2. CASE ~Owes(l, h, c, Dotless)
  <2>1. PICK k, m, d, e : Both(l, h, c, k, m, d, e)
    BY <1>2, Zenon DEF Due
  <2>2. /\ l = k \o m /\ c = d \o e
        /\ Owes(k, h, d, Bare) /\ Owes(m, <<>>, e, Dotless)
    BY <2>1, Zenon DEF Both
  <2>3. k \in Lists /\ m \in Lists /\ Over(d, Spoken(Bare)) /\ Over(e, Spoken(Dotless))
    BY <2>2, OwesTyped
  <2>4. k # <<>>
    BY <1>2, <2>1, BothEnds
  <2>5. Head(l) = Head(k) /\ Tail(l) = Tail(k) \o m
    BY <2>2, <2>3, <2>4, HeadOfBoth
  <2>6. CASE EndsWith(Head(l), "~")
    <3>1. PICK g : g = (h \o Front(Head(l))) \o <<";">>
      OBVIOUS
    <3>2. Owes(Tail(k), g, d, Bare)
      BY <2>2, <2>4, <2>5, <2>6, <3>1, OwesNext
    <3>3. Both(Tail(l), g, c, Tail(k), m, d, e)
      BY <2>2, <2>5, <3>2, Zenon DEF Both
    <3> QED
      BY <2>6, <3>1, <3>3, Zenon DEF Due
  <2>7. CASE ~EndsWith(Head(l), "~")
    <3>1. PICK g : g = h \o Head(l)
      OBVIOUS
    <3>2. g = h \o Head(k)
      BY <2>5, <3>1
    <3>9. PICK x : Left(Tail(k), g, d, x, Bare)
      <4>1. \E x : Left(Tail(k), h \o Head(k), d, x, Bare)
        BY <2>2, <2>4, <2>5, <2>7, OwesNext
      <4> QED
        BY <3>2, <4>1
    <3>3. /\ Owes(Tail(k), <<>>, x, Bare)
          /\ g = <<>> => d = x
          /\ g # <<>> => g \in Spoken(Bare) /\ d = <<g>> \o x
      BY <3>9, Zenon DEF Left
    <3>4. Both(Tail(l), <<>>, x \o e, Tail(k), m, x, e)
      BY <2>2, <2>5, <3>3, Zenon DEF Both
    <3>5. Due(Tail(l), <<>>, x \o e)
      BY <3>4, Zenon DEF Due
    <3>6. g = <<>> => c = x \o e
      BY <2>2, <3>3
    <3>7. g # <<>> => c = <<g>> \o (x \o e) /\ g \in Spoken(Dotless)
      <4>1. ASSUME g # <<>> PROVE c = <<g>> \o (x \o e) /\ g \in Spoken(Dotless)
        <5>1. g \in Spoken(Dotless) /\ d = <<g>> \o x
          BY <3>3, <4>1, SpokenMore
        <5>2. PICK T, y : T = Spoken(Dotless) /\ y = <<g>>
          OBVIOUS
        <5>3. x \in Seq(T) /\ e \in Seq(T) /\ y \in Seq(T)
          <6>1. y \in Seq(T)
            BY <5>1, <5>2, OneTyped
          <6>2. Over(x, Spoken(Bare))
            BY <3>3, OwesTyped
          <6>3. PICK S : S = Spoken(Bare)
            OBVIOUS
          <6>4. S \in SUBSET T /\ x \in Seq(S)
            BY <5>2, <6>2, <6>3, SpokenMore DEF Over
          <6>5. x \in Seq(T)
            BY <6>4
          <6> QED
            BY <2>3, <5>2, <6>1, <6>5 DEF Over
        <5>4. (y \o x) \o e = y \o (x \o e)
          BY <5>3, ConcatAssoc
        <5> QED
          BY <2>2, <5>1, <5>2, <5>4
      <4> QED
        BY <4>1
    <3>8. Then(Tail(l), g, c, x \o e)
      BY <3>3, <3>5, <3>6, <3>7, Zenon DEF Then
    <3> QED
      BY <2>7, <3>1, <3>8
  <2> QED
    BY <2>6, <2>7
<1> QED
  BY <1>1, <1>2

\* The pieces of what an alias stands for come in front.
LEMMA DuePush ==
  ASSUME NEW t, NEW l, NEW c, Typed(t), Whole(t), ~HasAlias(t), Owes(l, <<>>, c, Dotless)
  PROVE  Due(splitSemicolonSafe(t) \o l, <<>>, Meaning(t) \o c)
<1>1. Over(t, Bare)
  BY WholeIs
<1>2. Owes(splitSemicolonSafe(t), <<>>, Meaning(t), Bare)
  BY <1>1, OwesStart
<1>3. Both(splitSemicolonSafe(t) \o l, <<>>, Meaning(t) \o c, splitSemicolonSafe(t), l, Meaning(t), c)
  BY <1>2, Zenon DEF Both
<1> QED
  BY <1>3, Zenon DEF Due

(***************************************************************************)
(* Two sequences, one behind the other, flattened.                         *)
(***************************************************************************)
\* H is F with G behind it.
Joined(H, F, n, G, m) ==
  /\ \A i \in 1 .. n : H[i] = F[i]
  /\ \A i \in 1 .. m : H[n + i] = G[i]

\* The beginnings of two sequences, one behind the other.
LEMMA PreJoined ==
  ASSUME NEW M, NEW F, NEW n, NEW G, NEW m, NEW H, NEW t, t = n + m,
         Seqs(F, n, M), Seqs(G, m, M), Seqs(H, t, M), Joined(H, F, n, G, m)
  PROVE  Pre(H, t) = Pre(F, n) \o Pre(G, m)
<1>1. n \in Nat /\ m \in Nat /\ t \in Nat
  BY DEF Seqs
<1>2. Beginnings(F, n, M) /\ Beginnings(G, m, M) /\ Beginnings(H, t, M)
  BY PreIs
<1>3. PICK a : a = Pre(F, n)
  OBVIOUS
<1>4. a \in Seq(M)
  <2>1. n \in 0 .. n
    BY <1>1
  <2> QED
    BY <1>2, <1>3, <2>1, Zenon DEF Beginnings
<1> DEFINE Bad == {k \in 0 .. m : Pre(H, n + k) # a \o Pre(G, k)}
<1>5. ASSUME Bad # {} PROVE FALSE
  <2>1. Bad \in SUBSET Nat
    BY <1>1
  <2> HIDE DEF Bad
  <2>2. PICK k \in Bad : \A y \in Bad : k <= y
    BY <1>5, <2>1, Least
  <2> USE DEF Bad
  <2>3. CASE k = 0
    <3>1. Pre(H, n) = a
      <4>1. \A i \in 1 .. n : H[i] = F[i]
        BY DEF Joined
      <4> QED
        BY <1>3, <4>1, PreSame
    <3>2. Pre(G, 0) = <<>>
      BY <1>2, Zenon DEF Beginnings
    <3>3. a \o <<>> = a /\ n + k = n
      BY <1>1, <1>4, <2>3, ConcatNone
    <3> QED
      BY <2>2, <2>3, <3>1, <3>2, <3>3
  <2>4. CASE k # 0
    <3>1. PICK j, i : j = k - 1 /\ i = n + k
      OBVIOUS
    <3>2. /\ j \in Nat /\ k = j + 1 /\ k \in 1 .. m /\ j \in 0 .. m /\ ~(k <= j)
          /\ i \in 1 .. t /\ i - 1 = n + j /\ j = k - 1
      BY <1>1, <2>2, <2>4, <3>1
    <3>3. Pre(H, n + j) = a \o Pre(G, j)
      BY <2>2, <3>2
    <3>4. Pre(H, i) = Pre(H, i - 1) \o H[i]
      BY <1>2, <3>2, Zenon DEF Beginnings
    <3>5. Pre(G, k) = Pre(G, k - 1) \o G[k] /\ Pre(G, j) \in Seq(M)
      BY <1>2, <3>2, Zenon DEF Beginnings
    <3>6. H[i] = G[k]
      BY <3>1, <3>2 DEF Joined
    <3>7. PICK b, c : b = Pre(G, j) /\ c = G[k]
      OBVIOUS
    <3>8. b \in Seq(M) /\ c \in Seq(M)
      BY <3>2, <3>5, <3>7 DEF Seqs
    <3>9. (a \o b) \o c = a \o (b \o c)
      <4>1. Three(M, a, b, c)
        BY <1>4, <3>8 DEF Three
      <4>2. Assoc(a, b, c)
        BY <4>1, ThreeAssoc
      <4> QED
        BY <4>2, Zenon DEF Assoc
    <3>10. Pre(H, i) = (a \o b) \o c
      BY <3>2, <3>3, <3>4, <3>6, <3>7
    <3>11. Pre(G, k) = b \o c
      BY <3>2, <3>5, <3>7
    <3> QED
      BY <2>2, <3>1, <3>9, <3>10, <3>11
  <2> QED
    BY <2>3, <2>4
<1>6. Pre(H, n + m) = a \o Pre(G, m)
  <2>1. m \in 0 .. m
    BY <1>1
  <2> QED
    BY <1>5, <2>1
<1> QED
  BY <1>3, <1>6

(***************************************************************************)
(* What is sent of commands, with the aliases al.                          *)
(***************************************************************************)
RepBy(al, s) ==
  FlattenSeq([i \in DOMAIN s |-> IF s[i] \in Names THEN al[s[i]] ELSE <<s[i]>>])
PassBy(al, s) ==
  LET pass[k \in 0 .. Cardinality(Names)] == IF k = 0 THEN s ELSE RepBy(al, pass[k - 1])
  IN  pass
ExpBy(al, s)   == PassBy(al, s)[Cardinality(Names)]
DoesBy(al, c) == IF HasAlias(c) THEN Meaning(ExpBy(al, c)) ELSE <<c>>

\* The operators of Commands are those of its aliases.
LEMMA ByAliases ==
  ASSUME NEW c
  PROVE  /\ Replace(c) = RepBy(aliases, c)
         /\ Expanded(c) = ExpBy(aliases, c)
         /\ Does(c) = DoesBy(aliases, c)
<1>1. Replace(c) = RepBy(aliases, c)
  BY Zenon DEF Replace, RepBy
<1>2. Expanded(c) = ExpBy(aliases, c)
  BY Zenon DEF Expanded, ExpBy, PassBy, Replace, RepBy
<1> QED
  BY <1>1, <1>2, Zenon DEF Does, DoesBy

\* A command whose aliases come to an end.
Fine(al, c) == HasAlias(c) => Typed(ExpBy(al, c)) /\ Whole(ExpBy(al, c)) /\ ~HasAlias(ExpBy(al, c))

Fines(al) == {c \in Spoken(Dotless) : Fine(al, c)}
All(al, c) == FlattenSeq([i \in DOMAIN c |-> DoesBy(al, c[i])])

\* What a command comes to is a list of commands.
LEMMA DoesTyped ==
  ASSUME NEW al, NEW c, c \in Fines(al)
  PROVE  DoesBy(al, c) \in Lists
<1>1. c \in Spoken(Dotless) /\ Fine(al, c)
  BY DEF Fines
<1>2. CASE HasAlias(c)
  <2>1. Typed(ExpBy(al, c)) /\ DoesBy(al, c) = Meaning(ExpBy(al, c))
    BY <1>1, <1>2, Zenon DEF Fine, DoesBy
  <2>2. Over(ExpBy(al, c), Chars)
    BY <2>1 DEF Over, Typed
  <2>3. Meaning(ExpBy(al, c)) \in Seq(Spoken(Chars))
    BY <2>1, <2>2, SayingOf
  <2>4. Spoken(Chars) \in SUBSET Seq(Chars)
    BY DEF Spoken
  <2>5. PICK S, T, m : S = Spoken(Chars) /\ T = Seq(Chars) /\ m = Meaning(ExpBy(al, c))
    OBVIOUS
  <2>6. m \in Seq(T)
    <3>1. m \in Seq(S) /\ S \in SUBSET T
      BY <2>3, <2>4, <2>5
    <3> QED
      BY <3>1
  <2> QED
    BY <2>1, <2>5, <2>6 DEF Lists
<1>3. CASE ~HasAlias(c)
  <2>1. DoesBy(al, c) = <<c>>
    BY <1>3, Zenon DEF DoesBy
  <2>2. c \in Seq(Chars)
    BY <1>1, SpokenIs DEF Typed
  <2>3. <<c>> \in Seq(Seq(Chars))
    BY <2>2, OneTyped
  <2> QED
    BY <2>1, <2>3 DEF Lists
<1> QED
  BY <1>2, <1>3

\* What commands come to, one for each of them.
LEMMA AllIs ==
  ASSUME NEW al, NEW c, Over(c, Fines(al))
  PROVE  \E F : /\ Seqs(F, Len(c), Seq(Chars)) /\ All(al, c) = Pre(F, Len(c))
                /\ \A i \in 1 .. Len(c) : F[i] = DoesBy(al, c[i])
<1>1. PICK n, S : n = Len(c) /\ S = Fines(al)
  OBVIOUS
<1>2. n \in Nat /\ DOMAIN c = 1 .. n /\ \A i \in 1 .. n : c[i] \in S
  <2>1. c \in Seq(S)
    BY <1>1 DEF Over
  <2> QED
    BY <1>1, <2>1
<1>3. PICK F : F = [i \in 1 .. n |-> DoesBy(al, c[i])]
  OBVIOUS
<1>4. \A i \in 1 .. n : F[i] = DoesBy(al, c[i])
  BY <1>3
<1>5. \A i \in 1 .. n : F[i] \in Seq(Seq(Chars))
  <2> TAKE i \in 1 .. n
  <2>1. DoesBy(al, c[i]) \in Lists
    BY <1>1, <1>2, DoesTyped
  <2> QED
    BY <1>4, <2>1 DEF Lists
<1>6. F = [i \in 1 .. n |-> F[i]]
  BY <1>3
<1>7. Seqs(F, n, Seq(Chars))
  BY <1>2, <1>5, <1>6 DEF Seqs
<1>8. All(al, c) = Pre(F, n)
  <2>1. [i \in DOMAIN c |-> DoesBy(al, c[i])] = [i \in 1 .. n |-> F[i]]
    BY <1>2, <1>3, <1>6, Zenon
  <2> QED
    BY <2>1, Zenon DEF All, Pre
<1> QED
  BY <1>1, <1>4, <1>7, <1>8

\* What two lists of commands come to, one behind the other.
LEMMA AllJoined ==
  ASSUME NEW al, NEW a, NEW b, Over(a, Fines(al)), Over(b, Fines(al))
  PROVE  /\ All(al, a \o b) = All(al, a) \o All(al, b) /\ Over(a \o b, Fines(al))
         /\ All(al, a) \in Lists /\ All(al, b) \in Lists
<1>1. PICK S, c : S = Fines(al) /\ c = a \o b
  OBVIOUS
<1>2. /\ a \in Seq(S) /\ b \in Seq(S) /\ c \in Seq(S) /\ Len(a) \in Nat /\ Len(b) \in Nat
      /\ Len(c) = Len(a) + Len(b)
      /\ \A i \in 1 .. Len(a) : c[i] = a[i] /\ i \in 1 .. Len(c)
      /\ \A i \in 1 .. Len(b) : c[Len(a) + i] = b[i] /\ Len(a) + i \in 1 .. Len(c)
  <2>1. a \in Seq(S) /\ b \in Seq(S)
    BY <1>1 DEF Over
  <2> QED
    BY <1>1, <2>1
<1>3. Over(c, Fines(al))
  BY <1>1, <1>2 DEF Over
<1>4. PICK F : /\ Seqs(F, Len(a), Seq(Chars)) /\ All(al, a) = Pre(F, Len(a))
               /\ \A i \in 1 .. Len(a) : F[i] = DoesBy(al, a[i])
  BY AllIs
<1>5. PICK G : /\ Seqs(G, Len(b), Seq(Chars)) /\ All(al, b) = Pre(G, Len(b))
               /\ \A i \in 1 .. Len(b) : G[i] = DoesBy(al, b[i])
  BY AllIs
<1>6. PICK H : /\ Seqs(H, Len(c), Seq(Chars)) /\ All(al, c) = Pre(H, Len(c))
               /\ \A i \in 1 .. Len(c) : H[i] = DoesBy(al, c[i])
  BY <1>3, AllIs
<1>7. Joined(H, F, Len(a), G, Len(b))
  BY <1>2, <1>4, <1>5, <1>6 DEF Joined
<1>8. Pre(H, Len(c)) = Pre(F, Len(a)) \o Pre(G, Len(b))
  <2>1. PICK u, v, w : u = Len(a) /\ v = Len(b) /\ w = Len(c)
    OBVIOUS
  <2>2. Seqs(F, u, Seq(Chars)) /\ Seqs(G, v, Seq(Chars)) /\ Seqs(H, w, Seq(Chars))
    BY <1>4, <1>5, <1>6, <2>1
  <2>3. w = u + v /\ Joined(H, F, u, G, v)
    BY <1>2, <1>7, <2>1
  <2>4. Pre(H, w) = Pre(F, u) \o Pre(G, v)
    BY <2>2, <2>3, PreJoined
  <2> QED
    BY <2>1, <2>4
<1>9. Pre(F, Len(a)) \in Lists /\ Pre(G, Len(b)) \in Lists
  <2>1. Beginnings(F, Len(a), Seq(Chars)) /\ Beginnings(G, Len(b), Seq(Chars))
    BY <1>4, <1>5, PreIs
  <2>2. Len(a) \in 0 .. Len(a) /\ Len(b) \in 0 .. Len(b)
    BY <1>2
  <2> QED
    BY <2>1, <2>2, Zenon DEF Beginnings, Lists
<1> QED
  BY <1>1, <1>3, <1>4, <1>5, <1>6, <1>8, <1>9

\* What one command comes to.
LEMMA AllOne ==
  ASSUME NEW al, NEW c, c \in Fines(al)
  PROVE  All(al, <<c>>) = DoesBy(al, c) /\ Over(<<c>>, Fines(al))
<1>1. PICK d : d = <<c>>
  OBVIOUS
<1>2. Over(d, Fines(al))
  BY <1>1, OneTyped DEF Over
<1>3. Len(d) = 1 /\ d[1] = c
  BY <1>1
<1>4. PICK F : /\ Seqs(F, 1, Seq(Chars)) /\ All(al, d) = Pre(F, 1) /\ F[1] = DoesBy(al, c)
  <2>1. PICK F : /\ Seqs(F, Len(d), Seq(Chars)) /\ All(al, d) = Pre(F, Len(d))
                 /\ \A i \in 1 .. Len(d) : F[i] = DoesBy(al, d[i])
    BY <1>2, AllIs
  <2>2. 1 \in 1 .. 1
    OBVIOUS
  <2> QED
    BY <1>3, <2>1, <2>2
<1>5. Pre(F, 1) = F[1]
  <2>1. Beginnings(F, 1, Seq(Chars)) /\ F[1] \in Seq(Seq(Chars))
    <3>1. F[1] \in Seq(Seq(Chars))
      BY <1>4 DEF Seqs
    <3> QED
      BY <1>4, <3>1, PreIs
  <2>2. Pre(F, 0) = <<>>
    BY <2>1, Zenon DEF Beginnings
  <2>3. Pre(F, 1) = Pre(F, 0) \o F[1]
    <3>1. 1 \in 1 .. 1 /\ 1 - 1 = 0
      OBVIOUS
    <3>2. \A k \in 1 .. 1 : Pre(F, k) = Pre(F, k - 1) \o F[k]
      BY <2>1, Zenon DEF Beginnings
    <3> QED
      BY <3>1, <3>2
  <2> QED
    BY <2>1, <2>2, <2>3, ConcatNone
<1> QED
  BY <1>1, <1>2, <1>4, <1>5

\* Commands without aliases are sent as they are.
LEMMA AllBare ==
  ASSUME NEW al, NEW c, Over(c, Spoken(Bare))
  PROVE  All(al, c) = c /\ Over(c, Fines(al))
<1>1. PICK S, T : S = Spoken(Bare) /\ T = Fines(al)
  OBVIOUS
<1>2. c \in Seq(S)
  BY <1>1 DEF Over
<1>3. \A x \in S : x \in T /\ DoesBy(al, x) = <<x>>
  <2> TAKE x \in S
  <2>1. x \in Spoken(Dotless) /\ ~HasAlias(x)
    BY <1>1, SpokenMore, SpokenIs
  <2> QED
    BY <1>1, <2>1 DEF Fines, Fine, DoesBy
<1>4. c \in Seq(T)
  BY <1>2, <1>3
<1>5. \A i \in DOMAIN c : DoesBy(al, c[i]) = <<c[i]>>
  BY <1>2, <1>3
<1>6. [i \in DOMAIN c |-> DoesBy(al, c[i])] = [i \in DOMAIN c |-> <<c[i]>>]
  BY <1>5, Zenon
<1>7. FlattenSeq([i \in DOMAIN c |-> <<c[i]>>]) = c
  BY <1>2, OnesAre
<1>8. All(al, c) = c
  BY <1>6, <1>7, Zenon DEF All
<1> QED
  BY <1>1, <1>4, <1>8 DEF Over

(***************************************************************************)
(* The passes of doAliasReplacement().                                     *)
(***************************************************************************)
Texts(al) == al \in [Names -> Seq(Chars)]

\* Every alias of s stands for a text over V, and what is not an alias is in V.
Turns(al, s, V) ==
  \A i \in DOMAIN s : IF s[i] \in Names THEN Over(al[s[i]], V) ELSE s[i] \in V

\* A pass keeps the characters' kind, if the aliases' texts are of that kind.
LEMMA RepOver ==
  ASSUME NEW al, NEW s, NEW V, Typed(s), Turns(al, s, V)
  PROVE  Over(RepBy(al, s), V)
<1>1. PICK n, F : n = Len(s) /\ F = [i \in DOMAIN s |-> IF s[i] \in Names THEN al[s[i]] ELSE <<s[i]>>]
  OBVIOUS
<1>2. n \in Nat /\ DOMAIN s = 1 .. n
  BY <1>1 DEF Typed
<1>3. F = [i \in 1 .. n |-> F[i]]
  BY <1>1, <1>2
<1>4. \A i \in 1 .. n : F[i] \in Seq(V)
  <2> TAKE i \in 1 .. n
  <2>1. CASE s[i] \in Names
    BY <1>1, <1>2, <2>1 DEF Turns, Over
  <2>2. CASE s[i] \notin Names
    <3>1. s[i] \in V
      BY <1>2, <2>2 DEF Turns
    <3>2. <<s[i]>> \in Seq(V)
      BY <3>1, OneTyped
    <3> QED
      BY <1>1, <1>2, <2>2, <3>2
  <2> QED
    BY <2>1, <2>2
<1>5. Seqs(F, n, V)
  BY <1>2, <1>3, <1>4 DEF Seqs
<1>6. Beginnings(F, n, V)
  BY <1>5, PreIs
<1>7. n \in 0 .. n
  BY <1>2
<1>8. Pre(F, n) \in Seq(V)
  BY <1>6, <1>7, Zenon DEF Beginnings
<1>9. RepBy(al, s) = Pre(F, n)
  BY <1>1, <1>3, Zenon DEF RepBy, Pre
<1> QED
  BY <1>8, <1>9 DEF Over

LEMMA RepTyped ==
  ASSUME NEW al, NEW s, Texts(al), Typed(s)
  PROVE  Typed(RepBy(al, s))
<1>1. \A i \in DOMAIN s : s[i] \in Chars
  BY DEF Typed
<1>2. \A m \in Names : Over(al[m], Chars)
  BY DEF Texts, Over
<1>3. Turns(al, s, Chars)
  BY <1>1, <1>2 DEF Turns
<1>4. Over(RepBy(al, s), Chars)
  BY <1>3, RepOver
<1> QED
  BY <1>4 DEF Over, Typed

\* Where no alias is left a pass changes nothing.
LEMMA RepSame ==
  ASSUME NEW al, NEW s, Typed(s), ~HasAlias(s)
  PROVE  RepBy(al, s) = s
<1>1. \A i \in DOMAIN s : s[i] \notin Names
  BY DEF HasAlias
<1>2. [i \in DOMAIN s |-> IF s[i] \in Names THEN al[s[i]] ELSE <<s[i]>>] = [i \in DOMAIN s |-> <<s[i]>>]
  BY <1>1, Zenon
<1>3. FlattenSeq([i \in DOMAIN s |-> <<s[i]>>]) = s
  BY OnesAre DEF Typed
<1> QED
  BY <1>2, <1>3, Zenon DEF RepBy

\* The passes, as many as there are names.
LEMMA PassesAre ==
  ASSUME NEW al, NEW s, NEW n, n = Cardinality(Names)
  PROVE  /\ n \in Nat /\ PassBy(al, s)[0] = s
         /\ \A k \in 1 .. n : PassBy(al, s)[k] = RepBy(al, PassBy(al, s)[k - 1])
<1>1. n \in Nat
  BY CommandsAssumption, FS_CardinalityType
<1> DEFINE Turn(f, i) == IF i = 0 THEN s ELSE RepBy(al, f[i - 1])
           Rec(f, k)  == [i \in 0 .. k |-> Turn(f, i)]
           Short      == {k \in 0 .. n : ~\E g : g = Rec(g, k)}
           it         == CHOOSE f : f = [i \in 0 .. Cardinality(Names) |-> Turn(f, i)]
<1>2. PassBy(al, s) = it
  BY Zenon DEF PassBy
<1>3. ASSUME Short # {} PROVE FALSE
  <2>1. PICK k \in Short : \A y \in Short : k <= y
    <3>1. Short \in SUBSET (0 .. n)
      BY Zenon
    <3> HIDE DEF Short
    <3>2. Short \in SUBSET Nat
      BY <1>1, <3>1
    <3> QED
      BY <1>3, <3>2, Least
  <2>2. CASE k = 0
    <3> DEFINE g == [i \in 0 .. 0 |-> s]
    <3>1. \A i \in 0 .. 0 : i = 0
      OBVIOUS
    <3>2. \A i \in 0 .. 0 : Turn(g, i) = s
      BY <3>1, Zenon
    <3>3. g = Rec(g, 0)
      BY <3>2, Zenon
    <3> QED
      BY <2>1, <2>2, <3>3
  <2>3. CASE k # 0
    <3>1. k - 1 \in 0 .. n /\ k \in 1 .. n /\ ~(k <= k - 1) /\ k \in 0 .. k
      BY <1>1, <2>1, <2>3
    <3>2. k - 1 \notin Short
      BY <2>1, <3>1
    <3>3. PICK g : g = Rec(g, k - 1)
      BY <3>1, <3>2
    <3> DEFINE h == [i \in 0 .. k |-> IF i = k THEN Turn(g, k) ELSE g[i]]
    <3>4. ASSUME NEW i \in 0 .. k - 1
          PROVE  g[i] = Turn(g, i) /\ h[i] = g[i]
      <4>1. i \in 0 .. k /\ i # k
        BY <1>1, <3>1
      <4> QED
        BY <3>3, <4>1, Zenon
    <3>5. h[k] = Turn(g, k)
      BY <3>1
    <3>6. ASSUME NEW i \in 0 .. k
          PROVE  h[i] = Turn(h, i)
      <4>1. CASE i = 0
        <5>1. i \in 0 .. k - 1
          BY <1>1, <3>1, <4>1
        <5>2. h[i] = s
          BY <3>4, <4>1, <5>1, Zenon
        <5> QED
          BY <4>1, <5>2
      <4>2. CASE i # 0
        <5>1. i - 1 \in 0 .. k - 1 /\ (i = k \/ i \in 0 .. k - 1)
          BY <1>1, <3>1, <4>2
        <5>2. h[i - 1] = g[i - 1]
          BY <3>4, <5>1
        <5>3. h[i] = Turn(g, i)
          BY <3>4, <3>5, <5>1
        <5> HIDE DEF h
        <5> QED
          BY <4>2, <5>2, <5>3
      <4> QED
        BY <4>1, <4>2
    <3>7. h = Rec(h, k)
      BY <3>6, Zenon
    <3> QED
      BY <2>1, <3>7
  <2> QED
    BY <2>2, <2>3
<1>4. \E f : f = [i \in 0 .. Cardinality(Names) |-> Turn(f, i)]
  <2>1. n \notin Short
    BY <1>3
  <2>2. n \in 0 .. n
    BY <1>1
  <2> QED
    BY <2>1, <2>2, Zenon
<1>5. it = [i \in 0 .. Cardinality(Names) |-> Turn(it, i)]
  BY <1>4, Zenon
<1> HIDE DEF it
<1>6. \A i \in 0 .. n : it[i] = Turn(it, i)
  BY <1>5
<1>7. 0 \in 0 .. n /\ \A i \in 1 .. n : i \in 0 .. n /\ i # 0
  BY <1>1
<1> QED
  BY <1>1, <1>2, <1>6, <1>7

\* Every pass is a text.
LEMMA PassTyped ==
  ASSUME NEW al, NEW s, NEW n, n = Cardinality(Names), Texts(al), Typed(s)
  PROVE  \A k \in 0 .. n : Typed(PassBy(al, s)[k])
<1>1. PICK f : f = PassBy(al, s)
  OBVIOUS
<1>2. n \in Nat /\ f[0] = s /\ \A k \in 1 .. n : f[k] = RepBy(al, f[k - 1])
  BY <1>1, PassesAre
<1> DEFINE Bad == {k \in 0 .. n : ~Typed(f[k])}
<1>3. ASSUME Bad # {} PROVE FALSE
  <2>1. Bad \in SUBSET Nat
    BY <1>2
  <2> HIDE DEF Bad
  <2>2. PICK k \in Bad : \A y \in Bad : k <= y
    BY <1>3, <2>1, Least
  <2> USE DEF Bad
  <2>3. k # 0
    BY <1>2, <2>2
  <2>4. k \in 1 .. n /\ k - 1 \in 0 .. n /\ ~(k <= k - 1)
    BY <1>2, <2>2, <2>3
  <2>5. Typed(f[k - 1])
    BY <2>2, <2>4
  <2>6. Typed(RepBy(al, f[k - 1]))
    BY <2>5, RepTyped
  <2> QED
    BY <1>2, <2>2, <2>4, <2>6
<1> QED
  BY <1>1, <1>3

\* A pass without aliases is the last.
LEMMA PassEnds ==
  ASSUME NEW al, NEW s, NEW n, NEW j, n = Cardinality(Names), Texts(al), Typed(s),
         j \in 0 .. n, ~HasAlias(PassBy(al, s)[j])
  PROVE  ExpBy(al, s) = PassBy(al, s)[j]
<1>1. PICK f : f = PassBy(al, s)
  OBVIOUS
<1>2. n \in Nat /\ \A k \in 1 .. n : f[k] = RepBy(al, f[k - 1])
  BY <1>1, PassesAre
<1>3. Typed(f[j]) /\ ~HasAlias(f[j]) /\ j \in Nat /\ j <= n
  BY <1>1, <1>2, PassTyped
<1>4. RepBy(al, f[j]) = f[j]
  BY <1>3, RepSame
<1> DEFINE Bad == {k \in j .. n : f[k] # f[j]}
<1>5. ASSUME Bad # {} PROVE FALSE
  <2>1. Bad \in SUBSET Nat
    BY <1>2, <1>3
  <2> HIDE DEF Bad
  <2>2. PICK k \in Bad : \A y \in Bad : k <= y
    BY <1>5, <2>1, Least
  <2> USE DEF Bad
  <2>3. k \in 1 .. n /\ k - 1 \in j .. n /\ ~(k <= k - 1)
    BY <1>2, <1>3, <2>2
  <2>4. f[k - 1] = f[j]
    BY <2>2, <2>3
  <2> QED
    BY <1>2, <1>4, <2>2, <2>3, <2>4
<1>6. n \in j .. n
  BY <1>2, <1>3
<1>7. f[n] = f[j]
  BY <1>5, <1>6
<1> QED
  BY <1>1, <1>7, Zenon DEF ExpBy

(***************************************************************************)
(* Aliases of which none leads back to itself come to an end.              *)
(***************************************************************************)
AcyclicBy(al) ==
  \A S \in (SUBSET Names) \ {{}} : \E n \in S : ToSet(al[n]) \cap S = {}

\* Names that lead only to names before them, one more at every place.
Chain(al, i, D) ==
  /\ D \in [0 .. i -> SUBSET Names] /\ D[0] = {}
  /\ \A k \in 1 .. i : /\ D[k - 1] \in SUBSET D[k]
                       /\ \A m \in D[k] : ToSet(al[m]) \cap Names \in SUBSET D[k - 1]
  /\ Cardinality(Names \ D[i]) <= Cardinality(Names) - i

\* As long as a name is left, one of them has a text without the others.
LEMMA ChainNext ==
  ASSUME NEW al, NEW j \in Nat, NEW i, i = j + 1, NEW D, Chain(al, j, D), AcyclicBy(al),
         i <= Cardinality(Names)
  PROVE  \E E : Chain(al, i, E)
<1>1. PICK N, S : N = Cardinality(Names) /\ S = Names \ D[j]
  OBVIOUS
<1>2. /\ N \in Nat /\ IsFiniteSet(Names) /\ IsFiniteSet(S) /\ Cardinality(S) \in Nat
      /\ Cardinality(S) <= N - j /\ j \in 0 .. j /\ i \in 1 .. i /\ i - 1 = j
  <2>1. IsFiniteSet(Names)
    BY CommandsAssumption
  <2>2. IsFiniteSet(S)
    BY <1>1, <2>1, FS_Subset
  <2>3. N \in Nat /\ Cardinality(S) \in Nat
    BY <1>1, <2>1, <2>2, FS_CardinalityType
  <2> QED
    BY <1>1, <2>1, <2>2, <2>3 DEF Chain
<1>3. \A k \in 0 .. j : D[k] \in SUBSET Names
  BY DEF Chain
<1>4. \A m \in D[j] : ToSet(al[m]) \cap Names \in SUBSET D[j]
  <2>1. CASE j = 0
    BY <2>1 DEF Chain
  <2>2. CASE j # 0
    <3>1. j \in 1 .. j
      BY <2>2
    <3> QED
      BY <3>1 DEF Chain
  <2> QED
    BY <2>1, <2>2
<1>5. \E A \in SUBSET Names : /\ D[j] \in SUBSET A /\ Cardinality(Names \ A) <= N - i
                              /\ \A m \in A : ToSet(al[m]) \cap Names \in SUBSET D[j]
  <2>1. CASE S = {}
    <3>1. D[j] = Names
      BY <1>1, <1>2, <1>3, <2>1
    <3>2. Cardinality(Names \ D[j]) = 0
      BY <1>1, <2>1, FS_EmptySet
    <3>3. 0 <= N - i
      BY <1>1, <1>2
    <3> QED
      BY <1>4, <3>1, <3>2, <3>3
  <2>2. CASE S # {}
    <3>1. PICK n \in S : ToSet(al[n]) \cap S = {}
      BY <1>1, <2>2 DEF AcyclicBy
    <3>2. PICK A : A = D[j] \cup {n}
      OBVIOUS
    <3>3. A \in SUBSET Names /\ D[j] \in SUBSET A
      BY <1>1, <1>2, <1>3, <3>2
    <3>4. Names \ A = S \ {n}
      BY <1>1, <3>2
    <3>5. Cardinality(S \ {n}) = Cardinality(S) - 1
      BY <1>2, FS_RemoveElement
    <3>6. Cardinality(S) - 1 <= N - i
      BY <1>2
    <3>7. \A m \in A : ToSet(al[m]) \cap Names \in SUBSET D[j]
      BY <1>1, <1>4, <3>1, <3>2
    <3> QED
      BY <3>3, <3>4, <3>5, <3>6, <3>7
  <2> QED
    BY <2>1, <2>2
<1>6. PICK A \in SUBSET Names : /\ D[j] \in SUBSET A /\ Cardinality(Names \ A) <= N - i
                                /\ \A m \in A : ToSet(al[m]) \cap Names \in SUBSET D[j]
  BY <1>5
<1>7. PICK E : E = [k \in 0 .. i |-> IF k = i THEN A ELSE D[k]]
  OBVIOUS
<1>8. E[i] = A /\ \A k \in 0 .. j : E[k] = D[k]
  BY <1>2, <1>7
<1>9. E \in [0 .. i -> SUBSET Names]
  <2>1. \A k \in 0 .. i : k = i \/ k \in 0 .. j
    BY <1>2
  <2> QED
    BY <1>3, <1>6, <1>7, <2>1
<1>10. E[0] = {}
  BY <1>2, <1>8 DEF Chain
<1>11. ASSUME NEW k \in 1 .. i
       PROVE  /\ E[k - 1] \in SUBSET E[k]
              /\ \A m \in E[k] : ToSet(al[m]) \cap Names \in SUBSET E[k - 1]
  <2>1. CASE k = i
    BY <1>2, <1>6, <1>8, <2>1
  <2>2. CASE k # i
    <3>1. k \in 1 .. j /\ k \in 0 .. j /\ k - 1 \in 0 .. j
      BY <1>2, <2>2
    <3>2. /\ D[k - 1] \in SUBSET D[k]
          /\ \A m \in D[k] : ToSet(al[m]) \cap Names \in SUBSET D[k - 1]
      BY <3>1 DEF Chain
    <3> QED
      BY <1>8, <3>1, <3>2
  <2> QED
    BY <2>1, <2>2
<1>12. Cardinality(Names \ E[i]) <= Cardinality(Names) - i
  BY <1>1, <1>6, <1>8
<1> QED
  BY <1>9, <1>10, <1>11, <1>12 DEF Chain

\* So all names can be put into such an order.
LEMMA ChainIs ==
  ASSUME NEW al, AcyclicBy(al), NEW n, n = Cardinality(Names)
  PROVE  \E D : Chain(al, n, D) /\ D[n] = Names
<1>1. n \in Nat /\ IsFiniteSet(Names)
  BY CommandsAssumption, FS_CardinalityType
<1> DEFINE Bad == {i \in 0 .. n : ~\E D : Chain(al, i, D)}
<1>2. ASSUME Bad # {} PROVE FALSE
  <2>1. Bad \in SUBSET Nat
    BY <1>1
  <2> HIDE DEF Bad
  <2>2. PICK i \in Bad : \A y \in Bad : i <= y
    BY <1>2, <2>1, Least
  <2> USE DEF Bad
  <2>3. CASE i = 0
    <3>1. PICK D : D = [k \in 0 .. 0 |-> {}]
      OBVIOUS
    <3>2. D \in [0 .. 0 -> SUBSET Names] /\ D[0] = {}
      BY <3>1
    <3>3. Names \ D[0] = Names /\ n <= n - 0
      BY <1>1, <3>2
    <3>4. \A k \in 1 .. 0 : FALSE
      OBVIOUS
    <3>5. Chain(al, 0, D)
      BY <3>2, <3>3, <3>4 DEF Chain
    <3> QED
      BY <2>2, <2>3, <3>5
  <2>4. CASE i # 0
    <3>1. PICK j : j = i - 1
      OBVIOUS
    <3>2. j \in Nat /\ j \in 0 .. n /\ ~(i <= j) /\ i = j + 1 /\ i <= n
      BY <1>1, <2>2, <2>4, <3>1
    <3>3. PICK D : Chain(al, j, D)
      BY <2>2, <3>2
    <3>4. \E E : Chain(al, i, E)
      BY <3>2, <3>3, ChainNext
    <3> QED
      BY <2>2, <3>4
  <2> QED
    BY <2>3, <2>4
<1>3. n \in 0 .. n
  BY <1>1
<1>4. PICK D : Chain(al, n, D)
  BY <1>2, <1>3
<1>5. PICK S : S = Names \ D[n]
  OBVIOUS
<1>6. D[n] \in SUBSET Names /\ Cardinality(S) <= n - n
  BY <1>3, <1>4, <1>5 DEF Chain
<1>7. S = {}
  <2>1. IsFiniteSet(S)
    BY <1>1, <1>5, FS_Subset
  <2>2. Cardinality(S) \in Nat
    BY <2>1, FS_CardinalityType
  <2>3. Cardinality(S) = 0
    BY <1>1, <1>6, <2>2
  <2> QED
    BY <2>1, <2>3, FS_EmptySet
<1> QED
  BY <1>4, <1>5, <1>6, <1>7

\* The loop of doAliasReplacement() ends: unless an alias leads back to itself, no alias is left
\* after as many passes as there are names, whatever the text and the texts of the aliases.
THEOREM AcyclicEnds ==
  ASSUME NEW al, NEW s, Texts(al), AcyclicBy(al), Typed(s)
  PROVE  ~HasAlias(ExpBy(al, s)) /\ Typed(ExpBy(al, s))
<1>1. PICK n, f : n = Cardinality(Names) /\ f = PassBy(al, s)
  OBVIOUS
<1>2. n \in Nat /\ f[0] = s /\ \A k \in 1 .. n : f[k] = RepBy(al, f[k - 1])
  BY <1>1, PassesAre
<1>3. \A k \in 0 .. n : Typed(f[k])
  BY <1>1, PassTyped
<1>4. PICK D : Chain(al, n, D) /\ D[n] = Names
  BY <1>1, ChainIs
<1> DEFINE V(k) == (Chars \ Names) \cup D[n - k]
           Bad  == {k \in 0 .. n : ~Over(f[k], V(k))}
<1>5. ASSUME Bad # {} PROVE FALSE
  <2>1. Bad \in SUBSET Nat
    BY <1>2
  <2> HIDE DEF Bad
  <2>2. PICK k \in Bad : \A y \in Bad : k <= y
    BY <1>5, <2>1, Least
  <2>3. k \in 0 .. n /\ ~Over(f[k], V(k))
    BY <2>2 DEF Bad
  <2>4. CASE k = 0
    <3>1. V(0) = Chars
      <4>1. n - 0 = n /\ Names \in SUBSET Chars
        BY <1>2 DEF Chars
      <4> QED
        BY <1>4, <4>1
    <3> QED
      BY <1>2, <2>3, <2>4, <3>1 DEF Over, Typed
  <2>5. CASE k # 0
    <3>1. PICK j, i : j = k - 1 /\ i = n - j
      OBVIOUS
    <3>2. /\ j \in 0 .. n /\ ~(k <= j) /\ k \in 1 .. n /\ i \in 1 .. n /\ i - 1 = n - k /\ i = n - j
          /\ j = k - 1
      BY <1>2, <2>3, <2>5, <3>1
    <3>3. Over(f[j], V(j))
      BY <2>2, <3>2 DEF Bad
    <3>4. /\ \A m \in D[i] : ToSet(al[m]) \cap Names \in SUBSET D[n - k]
          /\ D[i] \in SUBSET Names
      <4>1. /\ \A m \in D[i] : ToSet(al[m]) \cap Names \in SUBSET D[i - 1]
            /\ D \in [0 .. n -> SUBSET Names] /\ i \in 0 .. n
        <5>1. D \in [0 .. n -> SUBSET Names]
          BY <1>4, Zenon DEF Chain
        <5>2. i \in 0 .. n /\ i \in 1 .. n
          BY <1>2, <3>2
        <5>3. \A l \in 1 .. n : \A m \in D[l] : ToSet(al[m]) \cap Names \in SUBSET D[l - 1]
          BY <1>4, Zenon DEF Chain
        <5> QED
          BY <5>1, <5>2, <5>3
      <4>2. D[i - 1] = D[n - k]
        BY <3>2
      <4> QED
        BY <4>1, <4>2
    <3>5. PICK W : W = V(k)
      OBVIOUS
    <3>6. \A m \in D[i] : Over(al[m], W)
      <4> TAKE m \in D[i]
      <4>1. al[m] \in Seq(Chars) /\ ToSet(al[m]) \cap Names \in SUBSET D[n - k]
        BY <3>4 DEF Texts
      <4>2. PICK t : t = al[m]
        OBVIOUS
      <4>3. t \in Seq(Chars) /\ \A x \in 1 .. Len(t) : t[x] \in Chars /\ t[x] \in ToSet(t)
        BY <4>1, <4>2 DEF ToSet
      <4>4. \A x \in 1 .. Len(t) : t[x] \in W
        BY <3>5, <4>1, <4>2, <4>3
      <4>5. t = [x \in 1 .. Len(t) |-> t[x]] /\ Len(t) \in Nat
        BY <4>3
      <4>6. t \in [1 .. Len(t) -> W]
        BY <4>4, <4>5
      <4>7. t \in Seq(W)
        BY <4>5, <4>6, AnySeq
      <4> QED
        BY <4>2, <4>7 DEF Over
    <3>7. Turns(al, f[j], W)
      <4>1. PICK g, U : g = f[j] /\ U = V(j)
        OBVIOUS
      <4>2. g \in Seq(U)
        BY <3>3, <4>1 DEF Over
      <4>3. \A x \in DOMAIN g : g[x] \in U
        BY <4>2
      <4>4. \A x \in DOMAIN g : IF g[x] \in Names THEN g[x] \in D[i] ELSE g[x] \in W
        <5>1. U = (Chars \ Names) \cup D[i] /\ W = (Chars \ Names) \cup D[n - k]
          BY <3>1, <3>5, <4>1
        <5> QED
          <6> TAKE x \in DOMAIN g
          <6>1. g[x] \in U
            BY <4>3
          <6>2. CASE g[x] \in Names
            BY <5>1, <6>1, <6>2
          <6>3. CASE g[x] \notin Names
            BY <3>4, <5>1, <6>1, <6>3
          <6> QED
            BY <6>2, <6>3
      <4> QED
        BY <3>6, <4>1, <4>4 DEF Turns
    <3>8. Over(RepBy(al, f[j]), W)
      BY <1>3, <3>2, <3>7, RepOver
    <3>9. f[k] = RepBy(al, f[j])
      BY <1>2, <3>2
    <3> QED
      BY <2>3, <3>5, <3>8, <3>9
  <2> QED
    BY <2>4, <2>5
<1>6. PICK t : t = f[n]
  OBVIOUS
<1>7. t \in Seq(Chars \ Names)
  <2>1. n \in 0 .. n /\ n - n = 0 /\ D[0] = {}
    BY <1>2, <1>4 DEF Chain
  <2>2. V(n) = Chars \ Names
    BY <2>1
  <2> QED
    BY <1>5, <1>6, <2>1, <2>2 DEF Over
<1>8. ~HasAlias(t)
  <2>1. \A i \in DOMAIN t : t[i] \in Chars \ Names
    BY <1>7
  <2> QED
    BY <2>1 DEF HasAlias
<1>9. Typed(t)
  <2>1. n \in 0 .. n
    BY <1>2
  <2> QED
    BY <1>3, <1>6, <2>1
<1> QED
  BY <1>1, <1>6, <1>8, <1>9, Zenon DEF ExpBy

LEMMA NoneTyped ==
  ASSUME NEW S
  PROVE  <<>> \in Seq(S)
OBVIOUS

LEMMA SeqIs ==
  ASSUME NEW S, NEW s \in Seq(S)
  PROVE  Len(s) \in Nat /\ DOMAIN s = 1 .. Len(s) /\ \A i \in 1 .. Len(s) : s[i] \in S
OBVIOUS

(***************************************************************************)
(* The commands of any text are made of its characters.                    *)
(***************************************************************************)
Semi(V)    == ";" \in V
Made(r, V) ==
  \E l, p : Over(l, Seq(V)) /\ Over(p, V) /\ \E ap, fs \in BOOLEAN : r = R(l, p, ap, fs)

\* The steps of splitSemicolonSafe() keep what its pieces are made of.
LEMMA ExtendOver ==
  ASSUME NEW l, NEW e, NEW V, Over(l, Seq(V)), Over(e, V), l # <<>>
  PROVE  Over(Extend(l, e), Seq(V))
<1>1. PICK S : S = Seq(V)
  OBVIOUS
<1>2. l \in Seq(S) /\ e \in Seq(V)
  BY <1>1 DEF Over
<1>3. PICK a, b : a = Front(l) /\ b = Last(l)
  OBVIOUS
<1>4. a \in Seq(S) /\ b \in Seq(V)
  BY <1>1, <1>2, <1>3, FrontIs
<1>5. b \o e \in S
  BY <1>1, <1>2, <1>4, ConcatTyped
<1>6. Append(a, b \o e) \in Seq(S)
  BY <1>4, <1>5, AppendTyped
<1> QED
  BY <1>1, <1>3, <1>6 DEF Extend, Over

LEMMA AppendOver ==
  ASSUME NEW l, NEW e, NEW V, Over(l, Seq(V)), Over(e, V)
  PROVE  Over(Append(l, e), Seq(V))
<1>1. PICK S : S = Seq(V)
  OBVIOUS
<1>2. l \in Seq(S) /\ e \in S
  BY <1>1 DEF Over
<1> QED
  BY <1>1, <1>2, AppendTyped DEF Over

LEMMA ScanOver ==
  ASSUME NEW r, NEW c, NEW V, Made(r, V), c \in V, Semi(V)
  PROVE  Made(Scan(r, c), V)
<1>1. PICK l, p : Over(l, Seq(V)) /\ Over(p, V) /\ \E ap, fs \in BOOLEAN : r = R(l, p, ap, fs)
  BY Zenon DEF Made
<1>2. PICK ap \in BOOLEAN, fs \in BOOLEAN : r = R(l, p, ap, fs)
  BY <1>1
<1>3. Over(<<>>, V) /\ Over(<<";">>, V) /\ Over(<<>>, Seq(V)) /\ Over(<< <<";">> >>, Seq(V))
  <2>1. PICK s : s = <<";">>
    OBVIOUS
  <2>2. s \in Seq(V)
    BY <2>1, OneTyped DEF Semi
  <2>3. <<s>> \in Seq(Seq(V))
    BY <2>2, OneTyped
  <2>4. <<>> \in Seq(V) /\ <<>> \in Seq(Seq(V))
    BY NoneTyped, Zenon
  <2> QED
    BY <2>1, <2>2, <2>3, <2>4, Zenon DEF Over
<1>4. ASSUME NEW k, NEW q, NEW x \in BOOLEAN, NEW y \in BOOLEAN,
             Over(k, Seq(V)), Over(q, V), Scan(r, c) = R(k, q, x, y)
      PROVE  Made(Scan(r, c), V)
  BY <1>4, Zenon DEF Made
<1>5. CASE c # ";"
  <2>1. Scan(R(l, p, ap, fs), c) = R(l, Append(p, c), ap, fs)
    BY <1>5 DEF Scan, R
  <2>2. Over(Append(p, c), V)
    BY <1>1, AppendTyped DEF Over
  <2> QED
    BY <1>1, <1>2, <1>4, <2>1, <2>2
<1>6. CASE c = ";" /\ p = <<>>
  <2>1. CASE l = <<>> /\ fs
    <3>1. Scan(R(<<>>, <<>>, ap, TRUE), ";") = R(<<>>, <<>>, TRUE, FALSE)
      BY ScanFirst
    <3>2. fs = TRUE
      BY <2>1
    <3> QED
      BY <1>2, <1>3, <1>4, <1>6, <2>1, <3>1, <3>2
  <2>2. CASE l = <<>> /\ ~fs
    <3>1. Scan(R(<<>>, <<>>, ap, FALSE), ";") = R(<< <<";">> >>, <<>>, TRUE, FALSE)
      BY ScanSecond
    <3>2. fs = FALSE
      BY <2>2
    <3>3. Scan(r, c) = R(<< <<";">> >>, <<>>, TRUE, FALSE)
      BY <1>2, <1>6, <2>2, <3>1, <3>2, Zenon
    <3> QED
      BY <1>3, <1>4, <3>3, Zenon
  <2>3. CASE l # <<>>
    <3>1. Scan(R(l, <<>>, ap, fs), ";") = R(Extend(l, <<";">>), <<>>, TRUE, fs)
      BY <2>3, ScanLiteral
    <3>2. Over(Extend(l, <<";">>), Seq(V))
      BY <1>1, <1>3, <2>3, ExtendOver
    <3>3. Scan(r, c) = R(Extend(l, <<";">>), <<>>, TRUE, fs)
      BY <1>2, <1>6, <3>1, Zenon
    <3>4. TRUE \in BOOLEAN
      OBVIOUS
    <3> QED
      BY <1>3, <1>4, <3>2, <3>3, <3>4, Zenon
  <2> QED
    BY <2>1, <2>2, <2>3
<1>7. CASE c = ";" /\ p # <<>>
  <2>1. CASE ~ap
    <3>1. Scan(R(l, p, FALSE, fs), ";") = R(Append(l, p), <<>>, FALSE, fs)
      BY <1>7, ScanCommand
    <3>2. Over(Append(l, p), Seq(V))
      BY <1>1, AppendOver
    <3>3. ap = FALSE /\ FALSE \in BOOLEAN
      BY <2>1
    <3> QED
      BY <1>2, <1>3, <1>4, <1>7, <3>1, <3>2, <3>3, Zenon
  <2>2. CASE ap /\ l # <<>>
    <3>1. Scan(R(l, p, TRUE, fs), ";") = R(Extend(l, p), <<>>, FALSE, fs)
      BY <1>7, <2>2, ScanMore
    <3>2. Over(Extend(l, p), Seq(V))
      BY <1>1, <2>2, ExtendOver
    <3>3. ap = TRUE /\ FALSE \in BOOLEAN
      BY <2>2
    <3> QED
      BY <1>2, <1>3, <1>4, <1>7, <3>1, <3>2, <3>3, Zenon
  <2>3. CASE ap /\ l = <<>>
    <3>1. Scan(R(<<>>, p, TRUE, fs), ";") = R(<< <<";">> >>, <<>>, FALSE, fs)
      BY <1>7 DEF Scan, R, Separate
    <3>2. ap = TRUE /\ FALSE \in BOOLEAN
      BY <2>3
    <3>3. Scan(r, c) = R(<< <<";">> >>, <<>>, FALSE, fs)
      BY <1>2, <1>7, <2>3, <3>1, <3>2, Zenon
    <3> QED
      BY <1>3, <1>4, <3>2, <3>3, Zenon
  <2> QED
    BY <2>1, <2>2, <2>3
<1> QED
  BY <1>5, <1>6, <1>7

Long(q, n) == n \in Nat /\ DOMAIN q = 1 .. n
Folds(h, m, q, n) ==
  /\ h[0] = m
  /\ \A i \in 1 .. n : h[i] = Scan(h[i - 1], q[i])
  /\ Folded(m, q) = h[n]

\* A fold over a mapping from 1 .. n is a function that satisfies its recursion.
LEMMA FoldsAre ==
  ASSUME NEW m, NEW q, NEW n, Long(q, n)
  PROVE  \E h : Folds(h, m, q, n)
<1>1. n \in Nat /\ DOMAIN q = 1 .. n
  BY DEF Long
<1>2. \E h : /\ h[0] = m
             /\ \A i \in 1 .. n : h[i] = Scan(h[i - 1], q[i])
             /\ Folded(m, q) = h[n]
  BY <1>1, FoldIs
<1> QED
  BY <1>2, Zenon DEF Folds

\* The pieces of a text are made of the text's characters.
LEMMA SplitOver ==
  ASSUME NEW s, NEW V, Over(s, V), Semi(V)
  PROVE  Over(splitSemicolonSafe(s), Seq(V))
<1>1. PICK n, r : n = Len(s) /\ r = Folded(Start, s)
  OBVIOUS
<1>2. n \in Nat /\ DOMAIN s = 1 .. n /\ \A i \in 1 .. n : s[i] \in V
  <2>1. s \in Seq(V)
    BY DEF Over
  <2>2. Len(s) \in Nat /\ DOMAIN s = 1 .. Len(s) /\ \A i \in 1 .. Len(s) : s[i] \in V
    BY <2>1, SeqIs
  <2> QED
    BY <1>1, <2>2, Zenon
<1>4. n \in Nat /\ DOMAIN s = 1 .. n
  BY <1>2
<1>40. n \in Nat
  BY <1>2
<1>3. PICK h : /\ h[0] = Start
               /\ \A i \in 1 .. n : h[i] = Scan(h[i - 1], s[i])
               /\ r = h[n]
  <2>1. Long(s, n)
    BY <1>4 DEF Long
  <2>2. \E h : Folds(h, Start, s, n)
    BY <2>1, FoldsAre
  <2> QED
    BY <1>1, <2>2, Zenon DEF Folds
<1>5. Over(<<>>, V) /\ Over(<<>>, Seq(V))
  <2>1. <<>> \in Seq(V) /\ <<>> \in Seq(Seq(V))
    BY NoneTyped, Zenon
  <2> QED
    BY <2>1, Zenon DEF Over
<1> DEFINE Bad == {k \in 0 .. n : ~Made(h[k], V)}
<1>6. ASSUME Bad # {} PROVE FALSE
  <2>1. Bad \in SUBSET Nat
    BY <1>40
  <2> HIDE DEF Bad
  <2>2. PICK k \in Bad : \A y \in Bad : k <= y
    BY <1>6, <2>1, Least
  <2> USE DEF Bad
  <2>3. k # 0
    <3>1. Start = R(<<>>, <<>>, FALSE, TRUE) /\ FALSE \in BOOLEAN /\ TRUE \in BOOLEAN
      BY DEF Start, R
    <3>2. Made(h[0], V)
      BY <1>3, <1>5, <3>1, Zenon DEF Made
    <3> QED
      BY <2>2, <3>2
  <2>4. PICK m : m = k - 1
    OBVIOUS
  <2>5. m \in 0 .. n /\ ~(k <= m) /\ k \in 1 .. n /\ k - 1 = m
    BY <1>40, <2>2, <2>3, <2>4
  <2>6. Made(h[m], V)
    BY <2>2, <2>5
  <2>7. Made(Scan(h[m], s[k]), V)
    BY <1>2, <2>5, <2>6, ScanOver
  <2> QED
    BY <1>3, <2>2, <2>5, <2>7
<1>7. Made(r, V)
  <2>1. n \in 0 .. n
    BY <1>40
  <2> QED
    BY <1>3, <1>6, <2>1
<1>8. PICK l, p, ap, fs : Over(l, Seq(V)) /\ Over(p, V) /\ ap \in BOOLEAN /\ r = R(l, p, ap, fs)
  BY <1>7, Zenon DEF Made
<1>9. r.list = l /\ r.part = p /\ r.append = ap
  BY <1>8 DEF R
<1>10. splitSemicolonSafe(s) =
        IF ~Contains(s, ";") THEN <<s>>
        ELSE IF ~ap THEN Append(l, p)
        ELSE IF l = <<>> THEN <<>> ELSE Extend(l, p)
  <2>1. splitSemicolonSafe(s) =
          IF ~Contains(s, ";") THEN <<s>>
          ELSE IF ~r.append THEN Append(r.list, r.part)
          ELSE IF r.list = <<>> THEN <<>> ELSE Extend(r.list, r.part)
    BY <1>1, Zenon DEF splitSemicolonSafe, Folded
  <2> QED
    BY <1>9, <2>1
<1>11. Over(<<s>>, Seq(V))
  <2>1. s \in Seq(V)
    BY DEF Over
  <2> QED
    BY <2>1, OneTyped DEF Over
<1>12. Over(Append(l, p), Seq(V)) /\ (l # <<>> => Over(Extend(l, p), Seq(V)))
  BY <1>8, AppendOver, ExtendOver
<1> QED
  BY <1>5, <1>10, <1>11, <1>12

\* Concatenation, character by character.
LEMMA ConcatIs ==
  ASSUME NEW S, NEW a \in Seq(S), NEW b \in Seq(S)
  PROVE  /\ a \o b \in Seq(S) /\ Len(a \o b) = Len(a) + Len(b)
         /\ \A i \in 1 .. Len(a) : (a \o b)[i] = a[i]
         /\ \A i \in 1 .. Len(b) : (a \o b)[Len(a) + i] = b[i]
OBVIOUS

(***************************************************************************)
(* A line without dots leaves the aliases alone: what an alias stands for  *)
(* may begin with a dot, but names no alias any more.                      *)
(***************************************************************************)
\* The command would change an alias.
Alters(s) == Len(s) > 1 /\ s[1] = "." /\ s[2] \in Names
Held(h) == ~Alters(h) /\ ~(Len(h) = 1 /\ h[1] = ".")

\* A piece without dots, or without aliases.
Safe(e) == \/ \A i \in 1 .. Len(e) : e[i] # "."
           \/ \A i \in 1 .. Len(e) : e[i] \notin Names
Safes   == {e \in Seq(Chars) : Safe(e)}

\* What begins with a dot.
LEMMA DotIs ==
  ASSUME NEW c, Typed(c), StartsWith(c, <<".">>)
  PROVE  c[1] = "."
<1>1. c \in Seq(Chars) /\ Len(c) \in Nat
  BY DEF Typed
<1>2. Len(<<".">>) = 1 /\ <<".">>[1] = "."
  OBVIOUS
<1>3. Len(<<".">>) <= Len(c) /\ SubSeq(<<".">>, 1, Len(<<".">>)) = SubSeq(c, 1, Len(<<".">>))
  BY Zenon DEF StartsWith, IsPrefix
<1>4. 1 <= Len(c) /\ SubSeq(<<".">>, 1, 1) = SubSeq(c, 1, 1)
  BY <1>2, <1>3
<1>5. SubSeq(c, 1, 1)[1] = c[1]
  BY <1>1, <1>4
<1>6. SubSeq(<<".">>, 1, 1)[1] = "."
  OBVIOUS
<1> QED
  BY <1>4, <1>5, <1>6

\* What is held back and a piece: no alias is changed.
LEMMA CommandSafe ==
  ASSUME NEW h, NEW e, Typed(h), Held(h), e \in Safes
  PROVE  ~Alters(h \o e)
<1>1. h \in Seq(Chars) /\ e \in Seq(Chars) /\ Len(h) \in Nat /\ Len(e) \in Nat /\ Safe(e)
  BY DEF Typed, Safes
<1>2. PICK c : c = h \o e
  OBVIOUS
<1>3. /\ Len(c) = Len(h) + Len(e)
      /\ \A i \in 1 .. Len(h) : c[i] = h[i]
      /\ \A i \in 1 .. Len(e) : c[Len(h) + i] = e[i]
  BY <1>1, <1>2
<1>4. ASSUME Alters(c) PROVE FALSE
  <2>1. Len(c) > 1 /\ c[1] = "." /\ c[2] \in Names
    BY <1>4 DEF Alters
  <2>2. CASE Len(h) = 0
    <3>1. 1 \in 1 .. Len(e) /\ 2 \in 1 .. Len(e) /\ c[1] = e[1] /\ c[2] = e[2]
      BY <1>1, <1>3, <2>1, <2>2
    <3> QED
      BY <1>1, <2>1, <3>1 DEF Safe
  <2>3. CASE Len(h) = 1
    <3>1. c[1] = h[1]
      BY <1>3, <2>3
    <3> QED
      BY <2>1, <2>3, <3>1 DEF Held
  <2>4. CASE Len(h) > 1
    <3>1. c[1] = h[1] /\ c[2] = h[2]
      BY <1>1, <1>3, <2>4
    <3> QED
      BY <2>1, <2>4, <3>1 DEF Held, Alters
  <2>5. Len(h) = 0 \/ Len(h) = 1 \/ Len(h) > 1
    <3>1. \A n \in Nat : n = 0 \/ n = 1 \/ n > 1
      OBVIOUS
    <3>2. Len(h) \in Nat
      BY <1>1
    <3> QED
      BY <3>1, <3>2, Zenon
  <2> QED
    BY <2>2, <2>3, <2>4, <2>5
<1> QED
  BY <1>2, <1>4

\* A piece that ends in a ~ is held back with a semicolon.
LEMMA HoldSafe ==
  ASSUME NEW h, NEW e, Typed(h), Held(h), e \in Safes, e # <<>>
  PROVE  Typed((h \o Front(e)) \o <<";">>) /\ Held((h \o Front(e)) \o <<";">>)
<1>1. h \in Seq(Chars) /\ e \in Seq(Chars) /\ Len(h) \in Nat /\ Len(e) \in Nat /\ Safe(e)
  BY DEF Typed, Safes
<1>2. PICK f, s, m : f = Front(e) /\ s = <<";">> /\ m = ";"
  OBVIOUS
<1>3. f \in Seq(Chars) /\ Len(f) = Len(e) - 1 /\ \A i \in 1 .. Len(f) : f[i] = e[i]
  <2>1. /\ Front(e) \in Seq(Chars) /\ Len(Front(e)) = Len(e) - 1
        /\ \A i \in 1 .. Len(e) - 1 : Front(e)[i] = e[i]
    BY <1>1, FrontIs
  <2> QED
    BY <1>2, <2>1
<1>4. s \in Seq(Chars) /\ Len(s) = 1 /\ s[1] = m /\ m # "." /\ m \notin Names
  <2>1. m \in Chars
    BY <1>2 DEF Chars, Marks
  <2>2. <<m>> \in Seq(Chars)
    BY <2>1, OneTyped
  <2>3. m \notin Names
    BY <1>2, CommandsAssumption
  <2>4. m # "."
    BY <1>2
  <2> QED
    BY <1>2, <2>2, <2>3, <2>4
<1>5. PICK g : g = h \o f
  OBVIOUS
<1>6. ~Alters(g) /\ g \in Seq(Chars) /\ Len(g) \in Nat
  <2>1. Safe(f)
    <3>1. \A i \in 1 .. Len(f) : i \in 1 .. Len(e)
      BY <1>1, <1>3
    <3> QED
      BY <1>1, <1>3, <3>1 DEF Safe
  <2>2. f \in Safes
    BY <1>3, <2>1 DEF Safes
  <2>3. ~Alters(g)
    BY <1>5, <2>2, CommandSafe
  <2> QED
    BY <1>1, <1>3, <1>5, <2>3
<1>7. PICK c : c = g \o s
  OBVIOUS
<1>8. /\ c \in Seq(Chars) /\ Len(c) = Len(g) + 1 /\ c[Len(g) + 1] = m
      /\ \A i \in 1 .. Len(g) : c[i] = g[i]
  <2>1. s \in Seq(Chars) /\ Len(s) = 1 /\ g \in Seq(Chars) /\ Len(g) \in Nat
    BY <1>4, <1>6
  <2>2. /\ c \in Seq(Chars) /\ Len(c) = Len(g) + 1 /\ c[Len(g) + 1] = s[1]
        /\ \A i \in 1 .. Len(g) : c[i] = g[i]
    <3>1. /\ g \o s \in Seq(Chars) /\ Len(g \o s) = Len(g) + Len(s)
          /\ \A i \in 1 .. Len(g) : (g \o s)[i] = g[i]
          /\ \A i \in 1 .. Len(s) : (g \o s)[Len(g) + i] = s[i]
      <4>1. g \in Seq(Chars) /\ s \in Seq(Chars)
        BY <2>1
      <4> QED
        BY <4>1, ConcatIs
    <3>2. 1 \in 1 .. Len(s)
      BY <2>1
    <3> QED
      BY <1>7, <2>1, <3>1, <3>2
  <2> QED
    BY <1>4, <2>2
<1>9. ~Alters(c)
  <2>1. Len(c) = Len(g) + 1 /\ Len(g) \in Nat
    BY <1>6, <1>8
  <2>2. CASE Len(g) > 1
    <3>1. 1 \in 1 .. Len(g) /\ 2 \in 1 .. Len(g)
      BY <2>1, <2>2
    <3>2. c[1] = g[1] /\ c[2] = g[2]
      BY <1>8, <3>1
    <3> QED
      BY <1>6, <2>2, <3>2 DEF Alters
  <2>3. CASE Len(g) = 1
    <3>1. c[2] = m
      BY <1>8, <2>3
    <3> QED
      BY <1>4, <3>1 DEF Alters
  <2>4. CASE Len(g) = 0
    <3>1. ~(Len(c) > 1)
      BY <2>1, <2>4
    <3> QED
      BY <3>1 DEF Alters
  <2>5. PICK n : n = Len(g)
    OBVIOUS
  <2>6. n \in Nat
    BY <2>1, <2>5
  <2>7. n > 1 \/ n = 1 \/ n = 0
    BY <2>6
  <2> QED
    BY <2>2, <2>3, <2>4, <2>5, <2>7, Zenon
<1>10. ~(Len(c) = 1 /\ c[1] = ".")
  <2>1. Len(c) = 1 => c[1] = m
    BY <1>6, <1>8
  <2> QED
    BY <1>4, <2>1
<1> QED
  BY <1>2, <1>5, <1>7, <1>8, <1>9, <1>10 DEF Typed, Held

\* The pieces of a text without dots, or of one without aliases.
LEMMA SplitSafe ==
  ASSUME NEW s, Over(s, Dotless) \/ (Typed(s) /\ ~HasAlias(s))
  PROVE  Over(splitSemicolonSafe(s), Safes) /\ Over(<<s>>, Safes)
<1>1. ASSUME NEW V, V \in SUBSET Chars, Semi(V), (V \cap {"."} = {}) \/ (V \cap Names = {}), Over(s, V)
      PROVE  Over(splitSemicolonSafe(s), Safes) /\ Over(<<s>>, Safes)
  <2>1. PICK S, l, k : S = Seq(V) /\ l = splitSemicolonSafe(s) /\ k = <<s>>
    OBVIOUS
  <2>2. S \in SUBSET Safes
    <3>1. ASSUME NEW e \in Seq(V) PROVE e \in Safes
      <4>1. \A i \in 1 .. Len(e) : e[i] \in V
        BY SeqIs
      <4>2. e \in Seq(Chars)
        BY <1>1
      <4>3. Safe(e)
        BY <1>1, <4>1 DEF Safe
      <4> QED
        BY <4>2, <4>3 DEF Safes
    <3> QED
      BY <2>1, <3>1
  <2>3. l \in Seq(S)
    BY <1>1, <2>1, SplitOver DEF Over
  <2>4. k \in Seq(S)
    <3>1. s \in S
      BY <1>1, <2>1 DEF Over
    <3> QED
      BY <2>1, <3>1, OneTyped
  <2>5. l \in Seq(Safes) /\ k \in Seq(Safes)
    BY <2>2, <2>3, <2>4
  <2> QED
    BY <2>1, <2>5 DEF Over
<1>2. CASE Over(s, Dotless)
  <2>1. Dotless \in SUBSET Chars /\ Semi(Dotless) /\ Dotless \cap {"."} = {}
    BY DEF Dotless, Semi, Chars, Marks
  <2> QED
    BY <1>1, <1>2, <2>1
<1>3. CASE Typed(s) /\ ~HasAlias(s)
  <2>1. PICK V : V = Chars \ Names
    OBVIOUS
  <2>2. V \in SUBSET Chars /\ V \cap Names = {}
    BY <2>1
  <2>3. Semi(V)
    <3>1. ";" \notin Names
      BY CommandsAssumption
    <3> QED
      BY <2>1, <3>1 DEF Semi, Chars, Marks
  <2>4. Over(s, V)
    <3>1. Len(s) \in Nat /\ s = [i \in 1 .. Len(s) |-> s[i]] /\ DOMAIN s = 1 .. Len(s)
      BY <1>3 DEF Typed
    <3>2. \A i \in 1 .. Len(s) : s[i] \in V
      <4>1. \A i \in 1 .. Len(s) : s[i] \in Chars
        BY <1>3 DEF Typed
      <4> QED
        BY <1>3, <2>1, <3>1, <4>1 DEF HasAlias
    <3>3. s \in [1 .. Len(s) -> V]
      BY <3>1, <3>2
    <3>4. s \in Seq(V)
      BY <3>1, <3>3, AnySeq
    <3> QED
      BY <3>4 DEF Over
  <2> QED
    BY <1>1, <2>2, <2>3, <2>4
<1> QED
  BY <1>2, <1>3

\* Without every second dot it is still a text.
LEMMA UndotTyped ==
  ASSUME NEW s, Typed(s)
  PROVE  Typed(Undot(s))
<1>1. PICK T : T = {i \in DOMAIN s :
         ~(s[i] = "." /\ Cardinality({k \in 1 .. i : \A j \in k .. i : s[j] = "."}) % 2 = 0)}
  OBVIOUS
<1>2. At(s, T) \in Seq(Chars)
  BY AtIn DEF Typed
<1>3. Undot(s) = At(s, T)
  <2>1. [i \in DOMAIN s |->
            IF s[i] = "." /\ Cardinality({k \in 1 .. i : \A j \in k .. i : s[j] = "."}) % 2 = 0
            THEN <<>> ELSE <<s[i]>>]
        = [i \in DOMAIN s |-> IF i \in T THEN <<s[i]>> ELSE <<>>]
    BY <1>1, Zenon
  <2> QED
    BY <2>1, Zenon DEF Undot, At
<1> QED
  BY <1>2, <1>3 DEF Typed

(***************************************************************************)
(* What is sent of a line, step by step: what is collected, and what the   *)
(* commands left will add, is what is sent of the line in the end.         *)
(***************************************************************************)
\* With these aliases the line comes to an end, without dots.
Ok(al, ln)    == Typed(ln) /\ ln # <<>> /\ Whole(ln) /\ Over(Meaning(ln), Fines(al))
Total(al, ln) == All(al, Meaning(ln))

Adds(al, l, h, sv, t, c) == Over(c, Fines(al)) /\ Due(l, h, c) /\ sv \o All(al, c) = t
NextOk(al, l, h, sv, t)  == \E c : Adds(al, l, h, sv, t, c)

Turned(al, c, x) == \E k \in 0 .. Cardinality(Names) : x = PassBy(al, c)[k]
Turning(al, l, m, x, sv, t, c) ==
  /\ Over(c, Fines(al)) /\ m \in Fines(al) /\ Due(l, <<>>, c)
  /\ (sv \o DoesBy(al, m)) \o All(al, c) = t
  /\ HasAlias(m) => Owes(l, <<>>, c, Dotless)
  /\ Turned(al, m, x)
AliasOk(al, l, m, x, sv, t) == \E c : Turning(al, l, m, x, sv, t, c)

\* Nothing comes to nothing.
LEMMA AllNone ==
  ASSUME NEW al
  PROVE  All(al, <<>>) = <<>>
<1>1. PICK n, f : n = <<>> /\ f = [i \in DOMAIN n |-> DoesBy(al, n[i])]
  OBVIOUS
<1>2. f = <<>>
  <2>1. DOMAIN n = {}
    BY <1>1
  <2>2. f = [i \in {} |-> DoesBy(al, n[i])]
    BY <1>1, <2>1
  <2> QED
    BY <2>2
<1>3. All(al, n) = FlattenSeq(f)
  BY <1>1, Zenon DEF All
<1>4. FlattenSeq(<<>>) = <<>>
  BY DEF FlattenSeq
<1> QED
  BY <1>1, <1>2, <1>3, <1>4

\* At the beginning.
LEMMA StartOk ==
  ASSUME NEW al, NEW s, Ok(al, s)
  PROVE  NextOk(al, splitSemicolonSafe(s), <<>>, <<>>, Total(al, s))
<1>1. Typed(s) /\ Whole(s) /\ Over(Meaning(s), Fines(al))
  BY Zenon DEF Ok
<1>2. Over(s, Dotless)
  BY <1>1, WholeIs
<1>3. Owes(splitSemicolonSafe(s), <<>>, Meaning(s), Dotless)
  BY <1>1, <1>2, OwesStart
<1>4. All(al, Meaning(s)) \in Seq(Seq(Chars))
  BY <1>1, AllJoined DEF Lists
<1>5. <<>> \o All(al, Meaning(s)) = Total(al, s)
  BY <1>4, ConcatNone DEF Total
<1> QED
  BY <1>1, <1>3, <1>5, Zenon DEF NextOk, Adds, Due

\* A piece is held back.
LEMMA HoldOk ==
  ASSUME NEW al, NEW l, NEW h, NEW sv, NEW t, NextOk(al, l, h, sv, t), l # <<>>,
         EndsWith(Head(l), "~")
  PROVE  NextOk(al, Tail(l), (h \o Front(Head(l))) \o <<";">>, sv, t)
<1>1. PICK c : Over(c, Fines(al)) /\ Due(l, h, c) /\ sv \o All(al, c) = t
  BY Zenon DEF NextOk, Adds
<1>2. Due(Tail(l), (h \o Front(Head(l))) \o <<";">>, c)
  BY <1>1, DueNext
<1> QED
  BY <1>1, <1>2, Zenon DEF NextOk, Adds

\* A command is taken.
LEMMA TakeOk ==
  ASSUME NEW al, NEW l, NEW h, NEW sv, NEW t, NEW m, NextOk(al, l, h, sv, t), l # <<>>,
         ~EndsWith(Head(l), "~"), sv \in Lists, m = h \o Head(l)
  PROVE  /\ m = <<>> => NextOk(al, Tail(l), <<>>, sv, t)
         /\ m # <<>> => m \in Spoken(Dotless) /\ AliasOk(al, Tail(l), m, m, sv, t)
<1>1. PICK c : Over(c, Fines(al)) /\ Due(l, h, c) /\ sv \o All(al, c) = t
  BY Zenon DEF NextOk, Adds
<1>2. PICK x : Then(Tail(l), m, c, x)
  <2>1. \E x : Then(Tail(l), h \o Head(l), c, x)
    BY <1>1, DueNext
  <2> QED
    BY <2>1
<1>3. CASE m = <<>>
  <2>1. Due(Tail(l), <<>>, x) /\ c = x
    BY <1>2, <1>3, Zenon DEF Then
  <2> QED
    BY <1>1, <1>3, <2>1, Zenon DEF NextOk, Adds
<1>4. CASE m # <<>>
  <2>1. /\ Due(Tail(l), <<>>, x) /\ m \in Spoken(Dotless) /\ c = <<m>> \o x
        /\ m \in Spoken(Bare) \/ Owes(Tail(l), <<>>, x, Dotless)
    BY <1>2, <1>4, Zenon DEF Then
  <2>2. m \in Fines(al) /\ Over(x, Fines(al))
    <3>1. PICK S, y : S = Fines(al) /\ y = <<m>> \o x
      OBVIOUS
    <3>2. x \in Seq(Spoken(Dotless))
      BY <2>1, DueTyped DEF Over
    <3>3. y # <<>> /\ Head(y) = m /\ Tail(y) = x
      BY <2>1, <3>1, <3>2, ConsIs
    <3>4. y \in Seq(S)
      BY <1>1, <2>1, <3>1 DEF Over
    <3>5. Head(y) \in S /\ Tail(y) \in Seq(S)
      BY <3>3, <3>4
    <3> QED
      BY <3>1, <3>3, <3>5 DEF Over
  <2>3. All(al, c) = DoesBy(al, m) \o All(al, x)
    <3>1. All(al, <<m>>) = DoesBy(al, m) /\ Over(<<m>>, Fines(al))
      BY <2>2, AllOne
    <3>2. All(al, <<m>> \o x) = All(al, <<m>>) \o All(al, x)
      BY <2>2, <3>1, AllJoined
    <3> QED
      BY <2>1, <3>1, <3>2
  <2>4. (sv \o DoesBy(al, m)) \o All(al, x) = t
    <3>1. PICK S, d, e : S = Seq(Chars) /\ d = DoesBy(al, m) /\ e = All(al, x)
      OBVIOUS
    <3>2. sv \in Seq(S)
      BY <3>1 DEF Lists
    <3>3. d \in Seq(S)
      BY <2>2, <3>1, DoesTyped DEF Lists
    <3>4. e \in Seq(S)
      BY <2>2, <3>1, AllJoined DEF Lists
    <3>5. (sv \o d) \o e = sv \o (d \o e)
      <4>1. Three(S, sv, d, e)
        BY <3>2, <3>3, <3>4 DEF Three
      <4>2. Assoc(sv, d, e)
        BY <4>1, ThreeAssoc
      <4> QED
        BY <4>2, Zenon DEF Assoc
    <3> QED
      BY <1>1, <2>3, <3>1, <3>5
  <2>5. HasAlias(m) => Owes(Tail(l), <<>>, x, Dotless)
    BY <2>1, SpokenIs
  <2>6. Turned(al, m, m)
    <3>1. PICK n : n = Cardinality(Names)
      OBVIOUS
    <3>2. n \in Nat /\ PassBy(al, m)[0] = m
      BY <3>1, PassesAre
    <3>3. 0 \in 0 .. n
      BY <3>2
    <3> QED
      BY <3>1, <3>2, <3>3, Zenon DEF Turned
  <2>7. Turning(al, Tail(l), m, m, sv, t, x)
    BY <2>1, <2>2, <2>4, <2>5, <2>6, Zenon DEF Turning
  <2> QED
    BY <1>4, <2>1, <2>7, Zenon DEF AliasOk
<1> QED
  BY <1>3, <1>4

\* A pass of the alias replacement.
LEMMA ExpandOk ==
  ASSUME NEW al, NEW l, NEW m, NEW x, NEW sv, NEW t, Texts(al), AliasOk(al, l, m, x, sv, t),
         HasAlias(x)
  PROVE  AliasOk(al, l, m, RepBy(al, x), sv, t)
<1>1. PICK c : Turning(al, l, m, x, sv, t, c)
  BY Zenon DEF AliasOk
<1>2. PICK n : n = Cardinality(Names)
  OBVIOUS
<1>3. PICK k \in 0 .. n : x = PassBy(al, m)[k]
  BY <1>1, <1>2, Zenon DEF Turning, Turned
<1>4. n \in Nat /\ PassBy(al, m)[0] = m /\ \A i \in 1 .. n : PassBy(al, m)[i] = RepBy(al, PassBy(al, m)[i - 1])
  BY <1>2, PassesAre
<1>5. m \in Fines(al)
  BY <1>1, Zenon DEF Turning
<1>6. m \in Spoken(Dotless) /\ Fine(al, m)
  BY <1>5 DEF Fines
<1>7. Typed(m)
  BY <1>6, SpokenIs
<1>8. HasAlias(m)
  <2>1. ASSUME ~HasAlias(m) PROVE FALSE
    <3>1. 0 \in 0 .. n
      BY <1>4
    <3>2. ExpBy(al, m) = PassBy(al, m)[0]
      BY <1>2, <1>4, <1>7, <2>1, <3>1, PassEnds
    <3>3. \A i \in 0 .. n : PassBy(al, m)[i] = m
      <4> DEFINE Bad == {i \in 0 .. n : PassBy(al, m)[i] # m}
      <4>1. ASSUME Bad # {} PROVE FALSE
        <5>1. Bad \in SUBSET Nat
          BY <1>4
        <5> HIDE DEF Bad
        <5>2. PICK i \in Bad : \A y \in Bad : i <= y
          BY <4>1, <5>1, Least
        <5> USE DEF Bad
        <5>3. i # 0
          BY <1>4, <5>2
        <5>4. i \in 1 .. n /\ i - 1 \in 0 .. n /\ ~(i <= i - 1)
          BY <1>4, <5>2, <5>3
        <5>5. PassBy(al, m)[i - 1] = m
          BY <5>2, <5>4
        <5>6. RepBy(al, m) = m
          BY <1>7, <2>1, RepSame
        <5> QED
          BY <1>4, <5>2, <5>4, <5>5, <5>6
      <4> QED
        BY <4>1
    <3> QED
      BY <1>3, <2>1, <3>3
  <2> QED
    BY <2>1
<1>9. ~HasAlias(ExpBy(al, m))
  BY <1>6, <1>8, Zenon DEF Fine
<1>10. k # n
  <2>1. ExpBy(al, m) = PassBy(al, m)[n]
    BY <1>2, Zenon DEF ExpBy
  <2> QED
    BY <1>3, <1>9, <2>1
<1>11. Turned(al, m, RepBy(al, x))
  <2>1. PICK j : j = k + 1
    OBVIOUS
  <2>2. j \in 1 .. n /\ j \in 0 .. n /\ j - 1 = k
    BY <1>3, <1>4, <1>10, <2>1
  <2>3. PassBy(al, m)[j] = RepBy(al, x)
    BY <1>3, <1>4, <2>2
  <2> QED
    BY <1>2, <2>2, <2>3, Zenon DEF Turned
<1>12. Turning(al, l, m, RepBy(al, x), sv, t, c)
  BY <1>1, <1>11, Zenon DEF Turning
<1> QED
  BY <1>12, Zenon DEF AliasOk

\* The last pass: what is left of the command is what its aliases stand for.
LEMMA TurnedIs ==
  ASSUME NEW al, NEW l, NEW m, NEW x, NEW sv, NEW t, NEW c, Texts(al), Turning(al, l, m, x, sv, t, c),
         ~HasAlias(x)
  PROVE  /\ ExpBy(al, m) = x /\ Typed(m)
         /\ x # m => HasAlias(m) /\ Typed(x) /\ Whole(x)
<1>2. PICK n : n = Cardinality(Names)
  OBVIOUS
<1>3. PICK k \in 0 .. n : x = PassBy(al, m)[k]
  BY <1>2, Zenon DEF Turning, Turned
<1>5. m \in Fines(al)
  BY Zenon DEF Turning
<1>6. m \in Spoken(Dotless) /\ Fine(al, m)
  BY <1>5 DEF Fines
<1>7. Typed(m)
  BY <1>6, SpokenIs
<1>8. ExpBy(al, m) = x
  BY <1>2, <1>3, <1>7, PassEnds
<1>9. ~HasAlias(m) => x = m
  <2>1. ASSUME ~HasAlias(m) PROVE x = m
    <3>1. n \in Nat /\ PassBy(al, m)[0] = m
      BY <1>2, PassesAre
    <3>2. 0 \in 0 .. n
      BY <3>1
    <3>3. ExpBy(al, m) = PassBy(al, m)[0]
      BY <1>2, <1>7, <2>1, <3>1, <3>2, PassEnds
    <3> QED
      BY <1>8, <3>1, <3>3
  <2> QED
    BY <2>1
<1>10. HasAlias(m) => Typed(x) /\ Whole(x)
  BY <1>6, <1>8, Zenon DEF Fine
<1> QED
  BY <1>7, <1>8, <1>9, <1>10

\* The text of an alias is split and comes in front.
LEMMA ReprocessOk ==
  ASSUME NEW al, NEW l, NEW m, NEW x, NEW sv, NEW t, Texts(al), AliasOk(al, l, m, x, sv, t),
         ~HasAlias(x), x # m, sv \in Lists
  PROVE  NextOk(al, splitSemicolonSafe(x) \o l, <<>>, sv, t)
<1>1. PICK c : Turning(al, l, m, x, sv, t, c)
  BY Zenon DEF AliasOk
<1>2. ExpBy(al, m) = x /\ HasAlias(m) /\ Typed(x) /\ Whole(x)
  BY <1>1, TurnedIs
<1>3. /\ Over(c, Fines(al)) /\ (sv \o DoesBy(al, m)) \o All(al, c) = t
      /\ Owes(l, <<>>, c, Dotless)
  BY <1>1, <1>2, Zenon DEF Turning
<1>4. Due(splitSemicolonSafe(x) \o l, <<>>, Meaning(x) \o c)
  BY <1>2, <1>3, DuePush
<1>5. Over(Meaning(x), Spoken(Bare))
  <2>1. Over(x, Bare)
    BY <1>2, WholeIs
  <2> QED
    BY <1>2, <2>1, SayingOf DEF Over
<1>6. All(al, Meaning(x)) = Meaning(x) /\ Over(Meaning(x), Fines(al))
  BY <1>5, AllBare
<1>7. DoesBy(al, m) = Meaning(x)
  BY <1>2, Zenon DEF DoesBy
<1>8. PICK y : y = Meaning(x)
  OBVIOUS
<1>9. /\ All(al, y \o c) = All(al, y) \o All(al, c) /\ Over(y \o c, Fines(al))
      /\ All(al, y) \in Lists /\ All(al, c) \in Lists
  BY <1>3, <1>6, <1>8, AllJoined
<1>10. sv \o All(al, y \o c) = t
  <2>1. PICK S, e : S = Seq(Chars) /\ e = All(al, c)
    OBVIOUS
  <2>2. sv \in Seq(S) /\ y \in Seq(S) /\ e \in Seq(S)
    BY <1>6, <1>8, <1>9, <2>1 DEF Lists
  <2>3. (sv \o y) \o e = sv \o (y \o e)
    BY <2>2, ConcatAssoc
  <2> QED
    BY <1>3, <1>6, <1>7, <1>8, <1>9, <2>1, <2>3
<1>11. Adds(al, splitSemicolonSafe(x) \o l, <<>>, sv, t, y \o c)
  BY <1>4, <1>8, <1>9, <1>10, Zenon DEF Adds
<1> QED
  BY <1>11, Zenon DEF NextOk

\* A command without aliases is collected.
LEMMA CollectOk ==
  ASSUME NEW al, NEW l, NEW m, NEW x, NEW sv, NEW t, Texts(al), AliasOk(al, l, m, x, sv, t),
         ~HasAlias(x), x = m, sv \in Lists
  PROVE  NextOk(al, l, <<>>, Append(sv, m), t)
<1>1. PICK c : Turning(al, l, m, x, sv, t, c)
  BY Zenon DEF AliasOk
<1>2. /\ Over(c, Fines(al)) /\ (sv \o DoesBy(al, m)) \o All(al, c) = t /\ Due(l, <<>>, c)
  BY <1>1, Zenon DEF Turning
<1>3. DoesBy(al, m) = <<m>> /\ Typed(m)
  <2>1. Typed(m)
    BY <1>1, TurnedIs
  <2>2. ~HasAlias(m)
    OBVIOUS
  <2> QED
    BY <2>1, <2>2, Zenon DEF DoesBy
<1>4. sv \o <<m>> = Append(sv, m)
  <2>1. PICK S : S = Seq(Chars)
    OBVIOUS
  <2>2. sv \in Seq(S) /\ m \in S
    BY <1>3, <2>1 DEF Lists, Typed
  <2> QED
    BY <2>2
<1> QED
  BY <1>2, <1>3, <1>4, Zenon DEF NextOk, Adds

\* At the end.
LEMMA EndOk ==
  ASSUME NEW al, NEW h, NEW sv, NEW t, NextOk(al, <<>>, h, sv, t), sv \in Lists
  PROVE  sv = t
<1>1. PICK c : Due(<<>>, h, c) /\ sv \o All(al, c) = t
  BY Zenon DEF NextOk, Adds
<1>2. c = <<>>
  BY <1>1, DueNone
<1>3. sv \o <<>> = sv
  BY ConcatNone DEF Lists
<1> QED
  BY <1>1, <1>2, <1>3, AllNone

(***************************************************************************)
(* What holds of every line: what the variables are, and that a line       *)
(* without dots leaves the aliases as they are.                            *)
(***************************************************************************)
Types ==
  /\ Texts(aliases) /\ Typed(line) /\ list \in Lists /\ Typed(holdover)
  /\ Typed(cmd) /\ Typed(text) /\ server \in Lists

Fresh  == pc = "type" => line = <<>> /\ list = <<>> /\ holdover = <<>> /\ server = <<>>
Calm   == Over(line, Dotless) => Held(holdover) /\ Over(list, Safes)
Result == /\ outcome # "none" => pc = "done"
          /\ outcome = "sent" /\ line # <<>> => sent = server
Base   == Types /\ Fresh /\ Calm /\ (pc = "alias" => holdover = <<>>) /\ Result

\* Nothing held back alters no alias.
LEMMA HeldNone == Held(<<>>)
BY DEF Held, Alters

LEMMA NoneOver ==
  ASSUME NEW V
  PROVE  Over(<<>>, V)
BY NoneTyped DEF Over

\* Head, tail and concatenation of what is made of a set.
LEMMA HeadOver ==
  ASSUME NEW l, NEW V, Over(l, V), l # <<>>
  PROVE  Head(l) \in V /\ Over(Tail(l), V)
<1>1. l \in Seq(V)
  BY DEF Over
<1>2. Head(l) \in V /\ Tail(l) \in Seq(V)
  BY <1>1
<1> QED
  BY <1>2 DEF Over

LEMMA BothOver ==
  ASSUME NEW a, NEW b, NEW V, Over(a, V), Over(b, V)
  PROVE  Over(a \o b, V)
BY ConcatTyped DEF Over

LEMMA ListsOver == ASSUME NEW l PROVE l \in Lists <=> Over(l, Seq(Chars))
BY DEF Lists, Over

\* The separator's result is a list of texts.
LEMMA SplitTyped ==
  ASSUME NEW s, Typed(s)
  PROVE  Split(s) \in Lists
<1>1. Over(s, Chars)
  BY DEF Typed, Over
<1>2. Semi(Chars)
  BY DEF Semi, Chars, Marks
<1>3. Over(splitSemicolonSafe(s), Seq(Chars))
  BY <1>1, <1>2, SplitOver
<1>4. Over(<<s>>, Seq(Chars))
  BY OneTyped DEF Typed, Over
<1> QED
  BY <1>3, <1>4, ListsOver, Zenon DEF Split

\* And none of its pieces can alter an alias.
LEMMA SplitCalm ==
  ASSUME NEW s, Over(s, Dotless) \/ (Typed(s) /\ ~HasAlias(s))
  PROVE  Over(Split(s), Safes)
BY SplitSafe, Zenon DEF Split

\* A bounded line is a text.
LEMMA LinesAre ==
  ASSUME NEW s, NEW n \in Nat, s \in UNION {[1 .. i -> Chars] : i \in 0 .. n}
  PROVE  Typed(s)
<1>1. PICK i \in 0 .. n : s \in [1 .. i -> Chars]
  OBVIOUS
<1>2. i \in Nat
  OBVIOUS
<1> QED
  BY <1>1, <1>2, AnySeq DEF Typed

LEMMA BaseInit == Init => Base
<1> SUFFICES ASSUME Init PROVE Base
  OBVIOUS
<1> USE DEF Init
<1>1. Texts(aliases)
  <2>1. aliases \in [Names -> Bodies]
    BY Zenon
  <2>2. \A b \in Bodies : b \in Seq(Chars)
    <3> TAKE b \in Bodies
    <3>1. MaxBody \in Nat
      BY CommandsAssumption
    <3>2. Typed(b)
      BY <3>1, LinesAre DEF Bodies
    <3> QED
      BY <3>2 DEF Typed
  <2> QED
    BY <2>1, <2>2 DEF Texts
<1>2. <<>> \in Seq(Chars) /\ <<>> \in Seq(Seq(Chars))
  BY NoneTyped
<1>3. Types
  BY <1>1, <1>2 DEF Types, Typed, Lists
<1>4. Held(<<>>) /\ Over(<<>>, Safes)
  BY HeldNone, NoneOver
<1> QED
  BY <1>3, <1>4 DEF Base, Fresh, Calm, Result

\* A command that is taken.
LEMMA TakenBase ==
  ASSUME Base, Taken
  PROVE  /\ pc = "next" /\ outcome = "none" /\ list # <<>> /\ ~EndsWith(Head(list), "~")
         /\ list' = Tail(list) /\ holdover' = <<>> /\ list' \in Lists /\ Typed(Command)
         /\ Calm' /\ (Over(line, Dotless) => ~Alters(Command))
<1>1. /\ pc = "next" /\ list # <<>> /\ ~EndsWith(Head(list), "~")
      /\ list' = Tail(list) /\ holdover' = <<>> /\ line' = line
  BY DEF Taken
<1>2. outcome = "none"
  BY <1>1 DEF Base, Result
<1>3. Over(list, Seq(Chars)) /\ Typed(holdover)
  BY ListsOver DEF Base, Types
<1>4. Typed(Head(list)) /\ list' \in Lists
  BY <1>1, <1>3, HeadOver, ListsOver DEF Typed
<1>5. Typed(Command)
  BY <1>3, <1>4, ConcatTyped DEF Typed, Command
<1>6. ASSUME Over(line, Dotless) PROVE ~Alters(Command) /\ Over(list', Safes)
  <2>1. Held(holdover) /\ Over(list, Safes)
    BY <1>6 DEF Base, Calm
  <2>2. Head(list) \in Safes /\ Over(list', Safes)
    BY <1>1, <2>1, HeadOver
  <2> QED
    BY <1>3, <2>1, <2>2, CommandSafe DEF Command
<1>7. Calm'
  BY <1>1, <1>6, HeldNone DEF Calm
<1> QED
  BY <1>1, <1>2, <1>4, <1>5, <1>6, <1>7

\* Every step keeps Base.
LEMMA BaseNext ==
  ASSUME Base, [Next]_vars
  PROVE  Base'
<1>t. Types /\ Fresh /\ Calm /\ (pc = "alias" => holdover = <<>>) /\ Result
  BY DEF Base
<1>1. CASE Hold
  <2>1. /\ pc = "next" /\ list # <<>> /\ EndsWith(Head(list), "~")
        /\ holdover' = holdover \o Front(Head(list)) \o <<";">> /\ list' = Tail(list)
        /\ UNCHANGED <<aliases, processPeriod, semiIsNewLine, line, pc, cmd, text, server, sent, outcome>>
    BY <1>1 DEF Hold, settings
  <2>2. Over(list, Seq(Chars)) /\ Typed(holdover)
    BY <1>t, ListsOver DEF Types
  <2>3. Typed(Head(list)) /\ list' \in Lists /\ Head(list) # <<>>
    <3>1. Head(list) \in Seq(Chars) /\ Over(Tail(list), Seq(Chars))
      BY <2>1, <2>2, HeadOver
    <3>2. Head(list) # <<>>
      BY <2>1, Zenon DEF EndsWith
    <3> QED
      BY <2>1, <3>1, <3>2, ListsOver DEF Typed
  <2>4. Typed(holdover')
    <3>1. PICK e, f : e = Head(list) /\ f = Front(e)
      OBVIOUS
    <3>2. f \in Seq(Chars)
      BY <2>3, <3>1, FrontIs DEF Typed
    <3>3. ";" \in Chars
      BY DEF Chars, Marks
    <3>4. <<";">> \in Seq(Chars)
      BY <3>3, OneTyped
    <3>5. holdover \o f \in Seq(Chars)
      BY <2>2, <3>2, ConcatTyped DEF Typed
    <3>6. (holdover \o f) \o <<";">> \in Seq(Chars)
      BY <3>4, <3>5, ConcatTyped
    <3> QED
      BY <2>1, <3>1, <3>6 DEF Typed
  <2>5. Calm'
    <3>1. ASSUME Over(line, Dotless) PROVE Held(holdover') /\ Over(list', Safes)
      <4>1. Held(holdover) /\ Over(list, Safes)
        BY <1>t, <3>1 DEF Calm
      <4>2. Head(list) \in Safes /\ Over(list', Safes)
        BY <2>1, <4>1, HeadOver
      <4>3. Held((holdover \o Front(Head(list))) \o <<";">>)
        BY <2>2, <2>3, <4>1, <4>2, HoldSafe
      <4> QED
        BY <2>1, <4>2, <4>3
    <3> QED
      BY <2>1, <3>1 DEF Calm
  <2>6. Types'
    BY <1>t, <2>1, <2>3, <2>4 DEF Types
  <2> QED
    BY <1>t, <2>1, <2>5, <2>6 DEF Base, Fresh, Result
<1>2. CASE TogglePeriod
  <2>1. Taken /\ UNCHANGED <<aliases, pc, cmd, text>>
    BY <1>2 DEF TogglePeriod
  <2> QED
    BY <1>t, <2>1, TakenBase, NoneTyped DEF Base, Types, Typed, Fresh, Result, Taken
<1>3. CASE SetAlias
  <2>1. Taken /\ UNCHANGED <<pc, cmd, text>>
    BY <1>3 DEF SetAlias
  <2>2. Texts(aliases')
    <3>1. PICK c : c = Command
      OBVIOUS
    <3>2. c \in Seq(Chars)
      BY <2>1, <3>1, TakenBase DEF Typed
    <3>3. /\ Len(c) > 1 /\ c[2] \in Names
          /\ aliases' = IF Len(c) = 2 THEN aliases
                        ELSE [aliases EXCEPT ![c[2]] = SubSeq(c, 3, Len(c))]
      BY <1>3, <3>1 DEF SetAlias
    <3>4. SubSeq(c, 3, Len(c)) \in Seq(Chars)
      BY <3>2
    <3>5. aliases \in [Names -> Seq(Chars)]
      BY <1>t DEF Types, Texts
    <3> QED
      BY <3>3, <3>4, <3>5 DEF Texts
  <2> QED
    BY <1>t, <2>1, <2>2, TakenBase, NoneTyped DEF Base, Types, Typed, Fresh, Result, Taken
<1>4. CASE Unrecognized
  <2>1. Taken /\ UNCHANGED <<aliases, pc, cmd, text>>
    BY <1>4 DEF Unrecognized
  <2> QED
    BY <1>t, <2>1, TakenBase, NoneTyped DEF Base, Types, Typed, Fresh, Result, Taken
<1>5. CASE Plain
  <2>1. PICK c : /\ c = IF IsDot THEN Undot(Command) ELSE Command
                 /\ cmd' = c /\ text' = c /\ pc' = IF c = <<>> THEN "next" ELSE "alias"
    BY <1>5 DEF Plain
  <2>2. Taken /\ UNCHANGED aliases
    BY <1>5 DEF Plain
  <2>3. Typed(c)
    BY <2>1, <2>2, TakenBase, UndotTyped
  <2> QED
    BY <1>t, <2>1, <2>2, <2>3, TakenBase, NoneTyped DEF Base, Types, Typed, Fresh, Result, Taken
<1>6. CASE Expand
  <2>1. /\ pc = "alias" /\ text' = Replace(text)
        /\ UNCHANGED <<aliases, processPeriod, semiIsNewLine, line, pc, list, holdover, cmd, server, sent, outcome>>
    BY <1>6 DEF Expand, settings
  <2>2. Typed(text')
    BY <1>t, <2>1, ByAliases, RepTyped DEF Types
  <2> QED
    BY <1>t, <2>1, <2>2 DEF Base, Types, Fresh, Calm, Result
<1>7. CASE Reprocess
  <2>1. /\ pc = "alias" /\ ~HasAlias(text) /\ list' = Split(text) \o list /\ pc' = "next"
        /\ UNCHANGED <<aliases, processPeriod, semiIsNewLine, line, holdover, cmd, text, server, sent, outcome>>
    BY <1>7 DEF Reprocess, settings
  <2>2. list' \in Lists
    BY <1>t, <2>1, SplitTyped, ConcatTyped DEF Types, Lists
  <2>3. Calm'
    <3>1. ASSUME Over(line, Dotless) PROVE Held(holdover) /\ Over(list', Safes)
      <4>1. Held(holdover) /\ Over(list, Safes)
        BY <1>t, <3>1 DEF Calm
      <4>2. Over(Split(text), Safes)
        BY <1>t, <2>1, SplitCalm DEF Types
      <4> QED
        BY <2>1, <4>1, <4>2, BothOver
    <3> QED
      BY <2>1, <3>1 DEF Calm
  <2> QED
    BY <1>t, <2>1, <2>2, <2>3 DEF Base, Types, Fresh, Result
<1>8. CASE Collect
  <2>1. /\ pc = "alias" /\ server' = Append(server, cmd) /\ pc' = "next"
        /\ UNCHANGED <<aliases, processPeriod, semiIsNewLine, line, list, holdover, cmd, text, sent, outcome>>
    BY <1>8 DEF Collect, settings
  <2>2. server' \in Lists
    BY <1>t, <2>1, AppendTyped DEF Types, Typed, Lists
  <2> QED
    BY <1>t, <2>1, <2>2 DEF Base, Types, Fresh, Calm, Result
<1>9. CASE EndOfLine
  BY <1>9, <1>t DEF EndOfLine, settings, Base, Types, Fresh, Calm, Result
<1>10. CASE Send
  <2>1. pc = "send" /\ pc' = "done"
        /\ UNCHANGED <<aliases, processPeriod, semiIsNewLine, line, list, holdover, cmd, text, server>>
    BY <1>10 DEF Send, settings
  <2>2. outcome' = "sent" /\ line # <<>> => sent' = server
    <3>1. outcome = "none"
      BY <1>t, <2>1 DEF Result
    <3> QED
      BY <1>10, <3>1 DEF Send
  <2> QED
    BY <1>t, <2>1, <2>2 DEF Base, Types, Fresh, Calm, Result
<1>11. ASSUME pc = "type", NEW s \in Lines, Type(s) PROVE Base'
  <2>1. /\ line' = s /\ UNCHANGED <<aliases, processPeriod, semiIsNewLine, holdover, cmd, text, sent, outcome>>
        /\ pc' \in {"send", "next"}
        /\ list' \in {list, Split(s)} /\ server' \in {server, << <<";">> >>}
    BY <1>11, Zenon DEF Type, settings
  <2>2. Typed(s)
    <3>1. MaxLine \in Nat
      BY CommandsAssumption
    <3> QED
      BY <3>1, LinesAre DEF Lines
  <2>3. list' \in Lists
    BY <1>t, <2>1, <2>2, SplitTyped DEF Types
  <2>4. server' \in Lists
    <3>1. ";" \in Chars
      BY DEF Chars, Marks
    <3>2. <<";">> \in Seq(Chars)
      BY <3>1, OneTyped
    <3>3. << <<";">> >> \in Lists
      BY <3>2, OneTyped DEF Lists
    <3> QED
      BY <1>t, <2>1, <3>3 DEF Types
  <2>5. holdover = <<>> /\ list = <<>> /\ outcome = "none"
    BY <1>t, <1>11 DEF Fresh, Result
  <2>6. Calm'
    <3>1. ASSUME Over(s, Dotless) PROVE Over(list', Safes)
      BY <2>1, <2>5, <3>1, SplitCalm, NoneOver
    <3> QED
      BY <2>1, <2>5, <3>1, HeldNone DEF Calm
  <2> QED
    BY <1>t, <2>1, <2>2, <2>3, <2>4, <2>5, <2>6 DEF Base, Types, Fresh, Result
<1>12. CASE UNCHANGED vars
  BY <1>t, <1>12 DEF vars, settings, Base, Types, Fresh, Calm, Result
<1> QED
  BY <1>1, <1>2, <1>3, <1>4, <1>5, <1>6, <1>7, <1>8, <1>9, <1>10, <1>11, <1>12 DEF Next, Step

(***************************************************************************)
(* A line of two semicolons is one, as it would be if it were split.       *)
(***************************************************************************)
LEMMA TwoIs ==
  ASSUME NEW a, NEW s, s = <<a, a>>
  PROVE  /\ Len(s) = 2 /\ DOMAIN s = 1 .. 2 /\ s[1] = a /\ s[2] = a
         /\ \A S : a \in S => s \in Seq(S)
<1>1. /\ Len(<<a, a>>) = 2 /\ DOMAIN <<a, a>> = 1 .. 2 /\ <<a, a>>[1] = a /\ <<a, a>>[2] = a
  OBVIOUS
<1>2. \A S : a \in S => <<a, a>> \in Seq(S)
  OBVIOUS
<1> QED
  BY <1>1, <1>2

\* What it comes to is one semicolon.
LEMMA SemisTotal ==
  ASSUME NEW al
  PROVE  Total(al, <<";", ";">>) = << <<";">> >>
<1>1. PICK s : s = <<";", ";">>
  OBVIOUS
<1>2. ";" \in Bare /\ ";" \in Chars
  BY CommandsAssumption DEF Bare, Dotless, Chars, Marks
<1>3. Len(s) = 2 /\ DOMAIN s = 1 .. 2 /\ s[1] = ";" /\ s[2] = ";"
  BY <1>1, TwoIs
<1>4. Typed(s)
  <2>1. s \in Seq(Chars)
    BY <1>1, <1>2, TwoIs
  <2> QED
    BY <2>1 DEF Typed
<1>0. /\ 1 \in 1 .. 2 /\ 2 \in 1 .. 2 /\ 0 \notin 1 .. 2 /\ 3 \notin 1 .. 2 /\ 2 + 1 = 3 /\ 1 - 1 = 0
      /\ 2 - 1 = 1 /\ 1 + 1 = 2 /\ 3 - 1 = 2 /\ 0 + 1 = 1 /\ 3 \in 1 .. 3 /\ \A i \in 1 .. 2 : i = 1 \/ i = 2
  OBVIOUS
<1>5. IsSemi(s, 1) /\ IsSemi(s, 2) /\ ~IsSemi(s, 0)
  BY <1>0, <1>3, Zenon DEF IsSemi
<1>6. Ends(s) = {}
  <2>1. ~Lone(s, 1) /\ ~Lone(s, 2)
    BY <1>5 DEF Lone
  <2> QED
    BY <1>0, <1>3, <2>1 DEF Ends
<1>7. Stops(s) = {3}
  <2>1. Len(s) + 1 = 3
    BY <1>0, <1>3, Zenon
  <2> QED
    BY <1>6, <2>1 DEF Stops
<1>8. Begin(s, 3) = 0
  <2>1. Before({3}, 3) = 0
    <3>1. IsBefore(0, {3}, 3)
      BY DEF IsBefore
    <3> QED
      BY <3>1, BeforeOnly
  <2> QED
    BY <1>7, <2>1, Zenon DEF Begin, Before
<1>9. Said(s, 3) = <<";">>
  <2>1. Silent(s, 1) /\ ~Silent(s, 2)
    <3>1. Silent(s, 1)
      BY <1>5 DEF Silent
    <3>2. ~Tilde(s, 2)
      BY <1>3 DEF Tilde
    <3> QED
      BY <1>5, <1>6, <3>1, <3>2 DEF Silent
  <2>2. {i \in Begin(s, 3) + 1 .. 3 - 1 : ~Silent(s, i)} = {2}
    <3>1. \A i : i \in Begin(s, 3) + 1 .. 3 - 1 <=> i = 1 \/ i = 2
      BY <1>8
    <3> QED
      BY <2>1, <3>1
  <2>3. At(s, {2}) = <<s[2]>>
    <3>1. s \in Seq(Chars)
      BY <1>4 DEF Typed
    <3>2. 2 \in 1 .. Len(s)
      BY <1>0, <1>3, Zenon
    <3> QED
      BY <3>1, <3>2, AtOne
  <2> QED
    BY <1>3, <2>2, <2>3 DEF Said
<1>10. Meaning(s) = << <<";">> >>
  <2>1. PICK F : F = Saying(s)
    OBVIOUS
  <2>2. /\ Seqs(F, 3, Seq(Chars)) /\ Beginnings(F, 3, Seq(Chars)) /\ Meaning(s) = Pre(F, 3)
        /\ \A j \in 1 .. 3 :
             F[j] = IF j \in Stops(s) /\ Said(s, j) # <<>> THEN <<Said(s, j)>> ELSE <<>>
    <3>1. Len(s) + 1 = 3
      BY <1>0, <1>3, Zenon
    <3> QED
      BY <1>4, <2>1, <3>1, SayingAre, Zenon
  <2>3. F[1] = <<>> /\ F[2] = <<>> /\ F[3] = << <<";">> >>
    <3>1. 1 \in 1 .. 3 /\ 2 \in 1 .. 3 /\ 3 \in 1 .. 3
      OBVIOUS
    <3>2. 1 \notin {3} /\ 2 \notin {3} /\ 3 \in {3} /\ <<";">> # <<>>
      OBVIOUS
    <3>3. F[1] = <<>> /\ F[2] = <<>>
      BY <1>7, <2>2, <3>1, <3>2, Zenon
    <3>4. F[3] = <<Said(s, 3)>>
      BY <1>7, <1>9, <2>2, <3>1, <3>2, Zenon
    <3> QED
      BY <1>9, <3>3, <3>4
  <2>4. Blank(F, 0, 3 - 1)
    <3>1. \A i \in 0 + 1 .. 3 - 1 : i = 1 \/ i = 2
      OBVIOUS
    <3> QED
      BY <2>3, <3>1, Zenon DEF Blank
  <2>5. Within(0, 3 - 1, 3) /\ Within(3, 3, 3)
    BY DEF Within
  <2>6. Pre(F, 3) = Pre(F, 0) \o F[3]
    <3>1. PICK p, q, M : p = 0 /\ q = 3 /\ M = Seq(Chars) /\ q # 0
      OBVIOUS
    <3>2. Seqs(F, q, M) /\ Within(p, q - 1, q) /\ Within(q, q, q) /\ Blank(F, p, q - 1)
      BY <2>2, <2>4, <2>5, <3>1, Zenon
    <3>3. Pre(F, q) = Pre(F, p) \o F[q]
      BY <3>1, <3>2, PreNext, ZenonT(60)
    <3> QED
      BY <3>1, <3>3, Zenon
  <2>7. Pre(F, 0) = <<>>
    BY <2>2, Zenon DEF Beginnings
  <2> QED
    <3>1. <<>> \o << <<";">> >> = << <<";">> >>
      OBVIOUS
    <3> QED
      BY <2>2, <2>3, <2>6, <2>7, <3>1, Zenon
<1>11. Over(<< <<";">> >>, Spoken(Bare))
  <2>1. <<";">> \in Seq(Bare)
    BY <1>2, OneTyped
  <2>2. <<";">> \in Spoken(Bare)
    BY <2>1 DEF Spoken
  <2> QED
    BY <2>2, OneTyped DEF Over
<1>12. All(al, << <<";">> >>) = << <<";">> >>
  BY <1>11, AllBare
<1> QED
  BY <1>1, <1>10, <1>12 DEF Total

(***************************************************************************)
(* What is collected and what the commands left will add.                  *)
(***************************************************************************)
InTime ==
  semiIsNewLine /\ Ok(aliases, line) =>
    /\ pc = "next" => NextOk(aliases, list, holdover, server, Total(aliases, line))
    /\ pc = "alias" => AliasOk(aliases, list, cmd, text, server, Total(aliases, line))
    /\ pc \in {"send", "done"} => server = Total(aliases, line)

\* An empty command is no dot command.
LEMMA NoDotNone == ~StartsWith(<<>>, <<".">>) /\ <<>> # <<".", ".">>
BY DEF StartsWith, IsPrefix

\* A command of a line without dots that is taken is no dot command.
LEMMA TakenOk ==
  ASSUME Base, InTime, Taken, semiIsNewLine, Ok(aliases, line)
  PROVE  /\ ~IsDot /\ Command # <<".", ".">>
         /\ Command = <<>> => NextOk(aliases, list', <<>>, server, Total(aliases, line))
         /\ Command # <<>> =>
              AliasOk(aliases, list', Command, Command, server, Total(aliases, line))
<1>1. /\ list # <<>> /\ ~EndsWith(Head(list), "~") /\ list' = Tail(list) /\ pc = "next"
  BY DEF Taken
<1>2. server \in Lists
  BY DEF Base, Types
<1>3. PICK t : t = Total(aliases, line)
  OBVIOUS
<1>4. NextOk(aliases, list, holdover, server, t)
  BY <1>1, <1>3 DEF InTime
<1>5. PICK m : m = holdover \o Head(list) /\ m = Command
  BY DEF Command
<1>6. /\ m = <<>> => NextOk(aliases, Tail(list), <<>>, server, t)
      /\ m # <<>> => m \in Spoken(Dotless) /\ AliasOk(aliases, Tail(list), m, m, server, t)
  BY <1>1, <1>2, <1>4, <1>5, TakeOk
<1>7. ~StartsWith(m, <<".">>) /\ m # <<".", ".">>
  BY <1>6, SpokenIs, NoDotNone
<1> QED
  BY <1>1, <1>3, <1>5, <1>6, <1>7 DEF IsDot

\* Every step keeps InTime.
LEMMA InTimeNext ==
  ASSUME Base, InTime, [Next]_vars
  PROVE  InTime'
<1> SUFFICES ASSUME semiIsNewLine', Ok(aliases', line')
             PROVE  /\ pc' = "next" => NextOk(aliases', list', holdover', server', Total(aliases', line'))
                    /\ pc' = "alias" => AliasOk(aliases', list', cmd', text', server', Total(aliases', line'))
                    /\ pc' \in {"send", "done"} => server' = Total(aliases', line')
  BY Zenon DEF InTime
<1>t. Texts(aliases) /\ server \in Lists
  BY DEF Base, Types
<1>1. CASE Hold
  <2>1. /\ pc = "next" /\ pc' = "next" /\ list # <<>> /\ EndsWith(Head(list), "~")
        /\ holdover' = (holdover \o Front(Head(list))) \o <<";">> /\ list' = Tail(list)
        /\ aliases' = aliases /\ line' = line /\ semiIsNewLine' = semiIsNewLine /\ server' = server
    BY <1>1 DEF Hold, settings
  <2>2. PICK t : t = Total(aliases, line)
    OBVIOUS
  <2>3. NextOk(aliases, list, holdover, server, t)
    BY <2>1, <2>2 DEF InTime
  <2>4. NextOk(aliases, Tail(list), (holdover \o Front(Head(list))) \o <<";">>, server, t)
    BY <2>1, <2>3, HoldOk
  <2> QED
    BY <2>1, <2>2, <2>4
<1>2. CASE TogglePeriod
  <2>1. Taken /\ Command = <<".", ".">> /\ aliases' = aliases
    BY <1>2 DEF TogglePeriod
  <2>2. line' = line /\ semiIsNewLine' = semiIsNewLine
    BY <2>1 DEF Taken
  <2> QED
    BY <2>1, <2>2, TakenOk
<1>3. CASE SetAlias
  <2>1. Taken /\ IsDot /\ Len(Command) > 1 /\ Command[2] \in Names
    BY <1>3 DEF SetAlias
  <2>2. line' = line
    BY <2>1 DEF Taken
  <2>3. Over(line, Dotless)
    <3>1. Typed(line) /\ Whole(line)
      BY <2>2, Zenon DEF Ok
    <3> QED
      BY <3>1, WholeIs
  <2>4. Typed(Command) /\ ~Alters(Command)
    BY <2>1, <2>3, TakenBase
  <2>5. Command[1] = "."
    BY <2>1, <2>4, DotIs DEF IsDot
  <2> QED
    BY <2>1, <2>4, <2>5 DEF Alters
<1>4. CASE Unrecognized
  <2>1. Taken /\ IsDot /\ aliases' = aliases
    BY <1>4 DEF Unrecognized
  <2>2. line' = line /\ semiIsNewLine' = semiIsNewLine
    BY <2>1 DEF Taken
  <2> QED
    BY <2>1, <2>2, TakenOk
<1>5. CASE Plain
  <2>1. PICK c : /\ c = IF IsDot THEN Undot(Command) ELSE Command
                 /\ cmd' = c /\ text' = c /\ pc' = IF c = <<>> THEN "next" ELSE "alias"
    BY <1>5 DEF Plain
  <2>2. Taken /\ aliases' = aliases
    BY <1>5 DEF Plain
  <2>3. line' = line /\ semiIsNewLine' = semiIsNewLine /\ server' = server /\ holdover' = <<>>
    BY <2>2 DEF Taken
  <2>4. /\ c = Command
        /\ c = <<>> => NextOk(aliases, list', <<>>, server, Total(aliases, line))
        /\ c # <<>> => AliasOk(aliases, list', c, c, server, Total(aliases, line))
    BY <2>1, <2>2, <2>3, TakenOk
  <2> QED
    BY <2>1, <2>2, <2>3, <2>4
<1>6. CASE Expand
  <2>1. /\ pc = "alias" /\ pc' = "alias" /\ HasAlias(text) /\ text' = RepBy(aliases, text)
        /\ aliases' = aliases /\ line' = line /\ semiIsNewLine' = semiIsNewLine
        /\ list' = list /\ cmd' = cmd /\ server' = server
    BY <1>6, ByAliases DEF Expand, settings
  <2>2. PICK t : t = Total(aliases, line)
    OBVIOUS
  <2>3. AliasOk(aliases, list, cmd, text, server, t)
    BY <2>1, <2>2 DEF InTime
  <2>4. AliasOk(aliases, list, cmd, RepBy(aliases, text), server, t)
    BY <1>t, <2>1, <2>3, ExpandOk
  <2> QED
    BY <2>1, <2>2, <2>4
<1>7. CASE Reprocess
  <2>1. /\ pc = "alias" /\ pc' = "next" /\ ~HasAlias(text) /\ text # cmd
        /\ aliases' = aliases /\ line' = line /\ semiIsNewLine' = semiIsNewLine
        /\ list' = Split(text) \o list /\ server' = server /\ holdover' = holdover
    BY <1>7 DEF Reprocess, settings
  <2>2. PICK t : t = Total(aliases, line)
    OBVIOUS
  <2>3. AliasOk(aliases, list, cmd, text, server, t)
    BY <2>1, <2>2 DEF InTime
  <2>4. NextOk(aliases, splitSemicolonSafe(text) \o list, <<>>, server, t)
    BY <1>t, <2>1, <2>3, ReprocessOk
  <2>5. holdover = <<>> /\ Split(text) = splitSemicolonSafe(text)
    BY <2>1 DEF Base, Split
  <2> QED
    BY <2>1, <2>2, <2>4, <2>5
<1>8. CASE Collect
  <2>1. /\ pc = "alias" /\ pc' = "next" /\ ~HasAlias(text) /\ text = cmd
        /\ aliases' = aliases /\ line' = line /\ semiIsNewLine' = semiIsNewLine
        /\ list' = list /\ server' = Append(server, cmd) /\ holdover' = holdover
    BY <1>8 DEF Collect, settings
  <2>2. PICK t : t = Total(aliases, line)
    OBVIOUS
  <2>3. AliasOk(aliases, list, cmd, text, server, t)
    BY <2>1, <2>2 DEF InTime
  <2>4. NextOk(aliases, list, <<>>, Append(server, cmd), t)
    BY <1>t, <2>1, <2>3, CollectOk
  <2>5. holdover = <<>>
    BY <2>1 DEF Base
  <2> QED
    BY <2>1, <2>2, <2>4, <2>5
<1>9. CASE EndOfLine
  <2>1. /\ pc = "next" /\ pc' = "send" /\ list = <<>>
        /\ aliases' = aliases /\ line' = line /\ semiIsNewLine' = semiIsNewLine /\ server' = server
    BY <1>9 DEF EndOfLine, settings
  <2>2. PICK t : t = Total(aliases, line)
    OBVIOUS
  <2>3. NextOk(aliases, <<>>, holdover, server, t)
    BY <2>1, <2>2 DEF InTime
  <2>4. server = t
    BY <1>t, <2>3, EndOk
  <2> QED
    BY <2>1, <2>2, <2>4
<1>10. CASE Send
  <2>1. /\ pc = "send" /\ pc' = "done"
        /\ aliases' = aliases /\ line' = line /\ semiIsNewLine' = semiIsNewLine /\ server' = server
    BY <1>10 DEF Send, settings
  <2> QED
    BY <2>1 DEF InTime
<1>11. ASSUME pc = "type", NEW s \in Lines, Type(s)
       PROVE  /\ pc' = "next" => NextOk(aliases', list', holdover', server', Total(aliases', line'))
              /\ pc' = "alias" => AliasOk(aliases', list', cmd', text', server', Total(aliases', line'))
              /\ pc' \in {"send", "done"} => server' = Total(aliases', line')
  <2>1. /\ line' = s /\ aliases' = aliases /\ semiIsNewLine' = semiIsNewLine /\ holdover' = holdover
    BY <1>11 DEF Type, settings
  <2>2. holdover = <<>> /\ server = <<>>
    BY <1>11 DEF Base, Fresh
  <2>3. Ok(aliases, s)
    BY <2>1
  <2>4. s # <<>>
    BY <2>3, Zenon DEF Ok
  <2>5. CASE s = <<";", ";">>
    <3>1. pc' = "send" /\ server' = << <<";">> >>
      BY <1>11, <2>4, <2>5 DEF Type
    <3> QED
      BY <2>1, <2>5, <3>1, SemisTotal
  <2>6. CASE s # <<";", ";">>
    <3>1. pc' = "next" /\ list' = Split(s) /\ server' = server
      BY <1>11, <2>4, <2>6 DEF Type
    <3>2. Split(s) = splitSemicolonSafe(s)
      BY <2>1 DEF Split
    <3>3. NextOk(aliases, splitSemicolonSafe(s), <<>>, <<>>, Total(aliases, s))
      BY <2>3, StartOk
    <3> QED
      BY <2>1, <2>2, <3>1, <3>2, <3>3
  <2> QED
    BY <2>5, <2>6
<1>12. CASE UNCHANGED vars
  BY <1>12 DEF vars, settings, InTime
<1> QED
  BY <1>1, <1>2, <1>3, <1>4, <1>5, <1>6, <1>7, <1>8, <1>9, <1>10, <1>11, <1>12 DEF Next, Step

\* At the end everything is collected.
LEMMA InTimeSent ==
  ASSUME Base, InTime
  PROVE  SentAsTyped
<1>1. PICK c, al : c = Meaning(line) /\ al = aliases
  OBVIOUS
<1>2. SUFFICES ASSUME outcome = "sent", line # <<>>, semiIsNewLine, Acyclic, Whole(line),
                      \A i \in DOMAIN c : HasAlias(c[i]) => Whole(Expanded(c[i]))
               PROVE  sent = FlattenSeq([i \in DOMAIN c |-> Does(c[i])])
  BY <1>1, Zenon DEF SentAsTyped
<1>3. Typed(line) /\ Texts(al) /\ AcyclicBy(al)
  BY <1>1, <1>2 DEF Base, Types, Acyclic, AcyclicBy
<1>4. c \in Seq(Spoken(Dotless))
  BY <1>1, <1>2, <1>3, WholeIs, SayingOf
<1>5. \A i \in DOMAIN c : Expanded(c[i]) = ExpBy(al, c[i]) /\ Does(c[i]) = DoesBy(al, c[i])
  BY <1>1, ByAliases
<1>6. Over(c, Fines(al))
  <2>1. PICK n \in Nat : n = Len(c) /\ DOMAIN c = 1 .. n /\ \A i \in 1 .. n : c[i] \in Spoken(Dotless)
    BY <1>4, SeqIs
  <2>2. \A i \in 1 .. n : c[i] \in Fines(al)
    <3> TAKE i \in 1 .. n
    <3>1. PICK x : x = c[i]
      OBVIOUS
    <3>2. x \in Spoken(Dotless)
      BY <2>1, <3>1
    <3>3. Typed(x)
      BY <3>2, SpokenIs
    <3>4. ~HasAlias(ExpBy(al, x)) /\ Typed(ExpBy(al, x))
      BY <1>3, <3>3, AcyclicEnds
    <3>5. HasAlias(x) => Whole(ExpBy(al, x))
      BY <1>2, <1>5, <2>1, <3>1
    <3>6. Fine(al, x)
      BY <3>4, <3>5, Zenon DEF Fine
    <3> QED
      BY <3>1, <3>2, <3>6 DEF Fines
  <2>3. c = [i \in 1 .. n |-> c[i]]
    BY <1>4, <2>1, SameSeq
  <2>4. c \in Seq(Fines(al))
    BY <2>2, <2>3, AnySeq
  <2> QED
    BY <2>4 DEF Over
<1>7. Ok(aliases, line)
  BY <1>1, <1>2, <1>3, <1>6, Zenon DEF Ok
<1>8. sent = server /\ server = Total(aliases, line)
  <2>1. pc = "done" /\ sent = server
    BY <1>2 DEF Base, Result
  <2> QED
    BY <1>2, <1>7, <2>1 DEF InTime
<1>9. [i \in DOMAIN c |-> Does(c[i])] = [i \in DOMAIN c |-> DoesBy(al, c[i])]
  BY <1>5
<1>10. Total(aliases, line) = FlattenSeq([i \in DOMAIN c |-> DoesBy(al, c[i])])
  BY <1>1 DEF Total, All
<1> QED
  BY <1>8, <1>9, <1>10

\* Between any two steps: the variables are what they are said to be, the aliases of a
\* line without dots stay as they are, and what is collected of a line that comes to an
\* end, with what the rest of it adds, is what processOutputData() makes of the line.
THEOREM LineInTime == Spec => [](Base /\ InTime)
<1>1. Init => Base /\ InTime
  BY BaseInit DEF Init, InTime
<1>2. Base /\ InTime /\ [Next]_vars => (Base /\ InTime)'
  BY BaseNext, InTimeNext
<1> QED
  BY <1>1, <1>2, PTL DEF Spec

\* A line without dots leaves the aliases alone, whatever its aliases stand for: a text
\* with a dot, as ".x;y", is a dot command when it comes to be split, but what follows the
\* dot is no alias any more, so that processCommand() sets none.
THEOREM AliasesStay == Spec => [][Over(line, Dotless) => aliases' = aliases]_vars
<1>1. ASSUME Base, [Next]_vars, Over(line, Dotless), aliases' # aliases PROVE FALSE
  <2>1. SetAlias
    BY <1>1 DEF Next, Step, Hold, TogglePeriod, Unrecognized, Plain, Expand, Reprocess,
                Collect, EndOfLine, Send, Type, settings, vars
  <2>2. Taken /\ IsDot /\ Len(Command) > 1 /\ Command[2] \in Names
    BY <2>1 DEF SetAlias
  <2>3. Typed(Command) /\ ~Alters(Command)
    BY <1>1, <2>2, TakenBase
  <2>4. Command[1] = "."
    BY <2>2, <2>3, DotIs DEF IsDot
  <2> QED
    BY <2>2, <2>3, <2>4 DEF Alters
<1>2. Base /\ InTime /\ [Next]_vars => [Over(line, Dotless) => aliases' = aliases]_vars
  BY <1>1
<1>3. Spec => [][Next]_vars
  BY PTL DEF Spec
<1> QED
  BY <1>2, <1>3, LineInTime, PTL

\* What sendToServer() hands the pump of a line without dots is what the line means, in
\* order and whole: for any names and words, aliases that hold aliases to any depth,
\* and lines and texts of any length.
THEOREM LineSent == Spec => []SentAsTyped
<1>1. Base /\ InTime => SentAsTyped
  BY InTimeSent
<1> QED
  BY <1>1, LineInTime, PTL
=============================================================================
